----------------------------- MODULE AgentSeam -----------------------------
(***************************************************************************)
(* The rendered game hosts a live agent (core/agent_seam.cpp) from inside  *)
(* its frame loop (core/app.cpp, app::run): one loopback client, its       *)
(* requests read once a frame, its commands held back to the boundary of   *)
(* an economy quarter, its TICK releasing the clock.                       *)
(*                                                                         *)
(* pc walks the frame; the peer's actions interleave with its steps, since *)
(* a socket delivers, blocks and fails at any call.  Abstracted: what a    *)
(* request says beyond its opcode, bytes (a buffer is counted in lines),   *)
(* the speed dial's five settings, and all of the game behind the economy  *)
(* step.                                                                   *)
(*                                                                         *)
(* A definition marked "mutant" is a plausible mistake in the one after    *)
(* it; the properties are checked to notice each.                          *)
(***************************************************************************)
EXTENDS Naturals, Sequences

CONSTANTS
    max_inbuf,         \* lines one pump may read  (max_line_bytes, 64 KiB)
    max_queued_lines,  \* lines waiting for service (1024)
    max_outbuf,        \* answers waiting to be sent (max_outbuf_bytes, 4 MiB)
    econ_tick_days,    \* days in a quarter         (90)
    MAX_LINES,         \* bound: lines sent over all sessions
    MAX_PEERS,         \* bound: clients that try to connect
    LAST_DAY           \* bound: days the clock runs by itself

ASSUME SeamAssumption ==
    /\ {max_inbuf, max_queued_lines, max_outbuf, econ_tick_days} \subseteq Nat \ {0}
    /\ {MAX_LINES, MAX_PEERS, LAST_DAY} \subseteq Nat

VARIABLES
    (* the peers and the network *)
    peers,             \* clients that have tried to connect
    backlog,           \* a connection waits to be accepted
    peer_open,         \* the seated client has not closed its end
    wire,              \* lines it sent that the game has not received
    n_sent,            \* lines sent so far: names the next one
    written,           \* answers handed to a socket
    (* agent_seam *)
    client_connected, m_lines, m_deferred,
    m_tick_pending,    \* << >>, or the TICK that awaits its boundary
    m_outbuf, m_transcript,
    ev,                \* the pump_events of this frame
    (* app *)
    paused, day_tick, m_last_econ_tick,
    by_hand,           \* history: a speed key was pressed since the agent attached
    world,             \* the commands applied and the quarters stepped
    pc

peerVars == <<peers, backlog, n_sent>>
sockVars == <<peer_open, wire, written, client_connected, m_lines, m_deferred,
              m_tick_pending, m_outbuf>>
hostVars == <<paused, day_tick, m_last_econ_tick, by_hand>>
vars == <<peerVars, sockVars, hostVars, m_transcript, ev, world, pc>>

Op == {"COMMAND", "READ", "TICK", "SHUTDOWN"} \* READ: BLACKBOARD, BODIES, CORPS, unknown
Line == [n : 1 .. MAX_LINES, op : Op]
quarter == [op |-> "QUARTER"]

TypeOK ==
    /\ peers \in 0 .. MAX_PEERS /\ n_sent \in 0 .. MAX_LINES
    /\ {backlog, peer_open, client_connected, paused, by_hand} \subseteq BOOLEAN
    /\ {wire, written, m_lines, m_deferred, m_tick_pending, m_outbuf} \subseteq Seq(Line)
    /\ m_transcript \in Seq([tick : Nat, line : Line])
    /\ world \in Seq(Line \cup {quarter})
    /\ ev \in [attached : BOOLEAN, tick_requested : BOOLEAN]
    /\ {day_tick, m_last_econ_tick} \subseteq Nat
    /\ pc \in {"events", "read", "classify", "host", "boundary", "drain"}

no_events == [attached |-> FALSE, tick_requested |-> FALSE]
econ_tick == day_tick \div econ_tick_days

Init ==
    /\ peers = 0 /\ backlog = FALSE /\ n_sent = 0
    /\ peer_open = FALSE /\ wire = << >> /\ written = << >>
    /\ client_connected = FALSE /\ m_lines = << >> /\ m_deferred = << >>
    /\ m_tick_pending = << >> /\ m_outbuf = << >> /\ m_transcript = << >>
    /\ ev = no_events
    /\ paused = FALSE /\ day_tick = 0 /\ m_last_econ_tick = 0 /\ by_hand = FALSE
    /\ world = << >> /\ pc = "events"

-----------------------------------------------------------------------------
(* The peers, at any moment of the frame.                                  *)

connect == /\ peers < MAX_PEERS /\ ~backlog
           /\ peers' = peers + 1 /\ backlog' = TRUE
           /\ UNCHANGED <<n_sent, sockVars, hostVars, m_transcript, ev, world, pc>>

send_line == /\ peer_open /\ n_sent < MAX_LINES
             /\ n_sent' = n_sent + 1
             /\ \E op \in Op : wire' = Append(wire, [n |-> n_sent + 1, op |-> op])
             /\ UNCHANGED <<peers, backlog, peer_open, written, client_connected, m_lines,
                            m_deferred, m_tick_pending, m_outbuf, hostVars, m_transcript, ev,
                            world, pc>>

peer_closes == /\ peer_open /\ peer_open' = FALSE
               /\ UNCHANGED <<peerVars, wire, written, client_connected, m_lines, m_deferred,
                              m_tick_pending, m_outbuf, hostVars, m_transcript, ev, world, pc>>

-----------------------------------------------------------------------------
(* The seam's own calls.                                                   *)

(* The connection and everything it had waiting go; the transcript stays.  *)
clear_session ==
    /\ client_connected' = FALSE /\ peer_open' = FALSE
    /\ wire' = << >> /\ m_lines' = << >> /\ m_deferred' = << >> /\ m_outbuf' = << >>
    /\ m_tick_pending' = << >>
drop_client == clear_session /\ UNCHANGED written

sends(out, k) == written' = written \o SubSeq(out, 1, k)

(* Sends what the socket takes of out, perhaps nothing; a send to a peer   *)
(* that has gone may also fail, and drops the client.                      *)
flush_outbuf(out) ==
    \/ /\ \E k \in 0 .. Len(out) :
             sends(out, k) /\ m_outbuf' = SubSeq(out, k + 1, Len(out))
       /\ UNCHANGED <<client_connected, peer_open, wire>>
    \/ /\ ~peer_open /\ clear_session
       /\ \E k \in 0 .. Len(out) - 1 : sends(out, k)

(* A peer that asks and never reads is dropped.                            *)
queue_response(line) ==
    LET out == Append(m_outbuf, line) IN
    IF Len(out) > max_outbuf THEN drop_client ELSE flush_outbuf(out)

(* BYE: what can be sent is sent, and the client dropped.  A BYE that      *)
(* overflows the buffer, or a send that fails, has dropped it before.      *)
shut_down(line) ==
    LET out == Append(m_outbuf, line) IN
    /\ clear_session
    /\ \E k \in 0 .. Len(out) : sends(out, k) /\ (Len(out) > max_outbuf => k = 0)

(* The queues a step leaves, unless it dropped the client.                 *)
queues(lines, deferred, tick) ==
    client_connected' => m_lines' = lines /\ m_deferred' = deferred /\ m_tick_pending' = tick

-----------------------------------------------------------------------------
(* pump: accept, read, classify.                                           *)

(* One seat: a connection that finds it taken is refused.                  *)
accept_pending ==
    /\ pc = "events"
    /\ LET seated == backlog /\ ~client_connected IN
       /\ ev' = [no_events EXCEPT !.attached = seated]
       /\ client_connected' = (client_connected \/ backlog)
       /\ peer_open' = (peer_open \/ seated)
       /\ by_hand' = (by_hand /\ ~seated)
    /\ backlog' = FALSE
    /\ pc' = IF client_connected' THEN "read" ELSE "host"
    /\ UNCHANGED <<peers, n_sent, wire, written, m_lines, m_deferred, m_tick_pending, m_outbuf,
                   paused, day_tick, m_last_econ_tick, m_transcript, world>>

over_queue_lines(lines) == Len(lines) > max_queued_lines \* mutant: forgets the deferred
over_queue(lines) == Len(lines) + Len(m_deferred) > max_queued_lines

(* The peer has closed: read to the end of the stream, nothing of it kept. *)
peer_gone == ~peer_open

(* read_client and split_lines: what has arrived of the wire, as lines.    *)
read_client ==
    /\ pc = "read"
    /\ \E k \in 0 .. Len(wire) :
          LET lines == m_lines \o SubSeq(wire, 1, k) IN
          \/ /\ k > max_inbuf \/ over_queue(lines) \/ peer_gone
             /\ drop_client
             /\ pc' = "host"
             /\ UNCHANGED ev
          \/ /\ k <= max_inbuf /\ ~over_queue(lines)
             /\ m_lines' = lines /\ wire' = SubSeq(wire, k + 1, Len(wire))
             /\ pc' = "classify"
             /\ UNCHANGED <<ev, peer_open, written, client_connected, m_deferred,
                            m_tick_pending, m_outbuf>>
    /\ UNCHANGED <<peerVars, hostVars, m_transcript, world>>

defers_commands_only(line) == line.op = "COMMAND" \* mutant: a read overtakes them
defers(line) == line.op = "COMMAND" \/ m_deferred # << >>

(* The head of the queue, in strict order of arrival: a TICK stops the     *)
(* reading, a COMMAND and what comes behind one wait, the rest is answered.*)
classify_line ==
    LET line == Head(m_lines) rest == Tail(m_lines) IN
    /\ pc = "classify" /\ m_tick_pending = << >> /\ m_lines # << >>
    /\ \/ /\ line.op = "TICK"
          /\ m_tick_pending' = <<line>> /\ m_lines' = rest
          /\ ev' = [ev EXCEPT !.tick_requested = TRUE]
          /\ UNCHANGED <<peer_open, wire, written, client_connected, m_deferred, m_outbuf, pc>>
       \/ /\ line.op # "TICK" /\ defers(line)
          /\ m_deferred' = Append(m_deferred, line) /\ m_lines' = rest
          /\ UNCHANGED <<ev, peer_open, wire, written, client_connected, m_tick_pending,
                         m_outbuf, pc>>
       \/ /\ line.op = "READ" /\ ~defers(line)
          /\ queue_response(line)
          /\ queues(rest, m_deferred, m_tick_pending)
          /\ pc' = IF client_connected' THEN pc ELSE "host"
          /\ UNCHANGED ev
       \/ /\ line.op = "SHUTDOWN" /\ ~defers(line) \* the agent leaves, the game stays
          /\ shut_down(line)
          /\ pc' = "host"
          /\ UNCHANGED ev
    /\ UNCHANGED <<peerVars, hostVars, m_transcript, world>>

pump_ends ==
    /\ pc = "classify" /\ (m_tick_pending # << >> \/ m_lines = << >>)
    /\ flush_outbuf(m_outbuf)
    /\ queues(m_lines, m_deferred, m_tick_pending)
    /\ pc' = "host"
    /\ UNCHANGED <<peerVars, hostVars, m_transcript, ev, world>>

-----------------------------------------------------------------------------
(* The host's part of the frame.                                           *)

clock_left_running == paused \* mutant: attaching does not take the clock
clock_taken == paused \/ ev.attached

releases_running(p) == ev.tick_requested /\ ~p \* mutant: the condition reversed
releases(p) == ev.tick_requested /\ p

(* The pump's events, then sim_loop.tick: attaching pauses, a TICK         *)
(* releases one quarter of a paused clock; a running clock moves by at     *)
(* most a day a frame (max_catchup_steps).                                 *)
host_events ==
    /\ pc = "host"
    /\ paused' = clock_taken
    /\ \E run \in {0, 1} :
          /\ run = 1 => ~paused' /\ day_tick < LAST_DAY
          /\ day_tick' = day_tick + run + (IF releases(paused') THEN econ_tick_days ELSE 0)
    /\ ev' = no_events
    /\ pc' = "boundary"
    /\ UNCHANGED <<peerVars, sockVars, m_transcript, m_last_econ_tick, by_hand, world>>

boundary ==
    /\ pc = "boundary"
    /\ pc' = IF m_last_econ_tick < econ_tick THEN "drain" ELSE "events"
    /\ UNCHANGED <<peerVars, sockVars, hostVars, m_transcript, ev, world>>

stamp_next == m_last_econ_tick + 1 \* mutant: the tick the step is about to complete
stamp_before == m_last_econ_tick - 1 \* mutant: counted from zero
stamp == m_last_econ_tick

(* drain_boundary, line by line: a COMMAND is applied and recorded.        *)
drain_boundary ==
    LET line == Head(m_deferred) IN
    /\ pc = "drain" /\ client_connected /\ m_deferred # << >>
    /\ IF line.op = "COMMAND"
       THEN /\ world' = Append(world, line)
            /\ m_transcript' = Append(m_transcript, [tick |-> stamp, line |-> line])
       ELSE UNCHANGED <<world, m_transcript>>
    /\ IF line.op = "SHUTDOWN" THEN shut_down(line)
       ELSE /\ queue_response(line)
            /\ queues(m_lines, Tail(m_deferred), m_tick_pending)
    /\ UNCHANGED <<peerVars, hostVars, ev, pc>>

(* The economy steps, and on_tick_stepped answers the TICK that waited.    *)
step_economy ==
    /\ pc = "drain" /\ (~client_connected \/ m_deferred = << >>)
    /\ world' = Append(world, quarter)
    /\ m_last_econ_tick' = m_last_econ_tick + 1
    /\ IF m_tick_pending # << >>
       THEN /\ queue_response(Head(m_tick_pending))
            /\ queues(m_lines, m_deferred, << >>)
       ELSE UNCHANGED sockVars
    /\ pc' = "boundary"
    /\ UNCHANGED <<peerVars, paused, day_tick, by_hand, m_transcript, ev>>

(* The human's speed keys, among the events a frame begins with.           *)
set_speed == /\ pc = "events" /\ paused' = ~paused /\ by_hand' = TRUE
             /\ UNCHANGED <<peerVars, sockVars, day_tick, m_last_econ_tick, m_transcript,
                            ev, world, pc>>

-----------------------------------------------------------------------------
PeerNext == connect \/ send_line \/ peer_closes
FrameNext == \/ accept_pending \/ read_client \/ classify_line \/ pump_ends
             \/ host_events \/ boundary \/ drain_boundary \/ step_economy
Next == PeerNext \/ FrameNext \/ set_speed

(* The frame loop goes on; a peer, or whoever is at the keyboard, may stop.*)
Spec == Init /\ [][Next]_vars /\ WF_vars(FrameNext)

-----------------------------------------------------------------------------
(* The requests read, in order of service, and the answers owed or given.  *)
Requests == m_deferred \o m_tick_pending \o m_lines
Server == INSTANCE AgentServe WITH
    Request <- Line, session <- client_connected, requests <- Requests,
    answers <- written \o m_outbuf, gate <- ~by_hand

(* The live seam is run_serve time-sliced onto the frame loop: whatever is *)
(* deferred, released or dropped, requests take effect and are answered in *)
(* the order they came, a TICK by a quarter between the commands before it *)
(* and those after, and nothing of a dropped session happens later.  And   *)
(* until a hand on the keyboard takes the clock back, the agent alone      *)
(* moves it: the world steps once for each TICK.                           *)
ImplementsServer == Server!ServeSpec

(* The transcript is a replay artifact: it names every command the world   *)
(* has seen, in order, each stamped with the quarters stepped before it -  *)
(* so that the i-th stands behind as many quarters and the i - 1 before it.*)
replayed_at(i) == m_transcript[i].tick + i
TranscriptReplays ==
    /\ \A i \in DOMAIN m_transcript :
          replayed_at(i) \in DOMAIN world /\ world[replayed_at(i)] = m_transcript[i].line
    /\ \A i, j \in DOMAIN m_transcript : i < j => m_transcript[i].tick <= m_transcript[j].tick
    /\ \A k \in DOMAIN world :
          world[k] = quarter \/ \E i \in DOMAIN m_transcript : k = replayed_at(i)

(* The caps that bound what an arbitrary peer can make the game hold.      *)
QueuesBounded == /\ Len(m_lines) + Len(m_deferred) <= max_queued_lines
                 /\ Len(m_outbuf) <= max_outbuf

(* A TICK is answered, its client gone, or the clock taken by a hand.      *)
TickAnswered == (m_tick_pending # << >> /\ ~by_hand) ~> (m_tick_pending = << >> \/ by_hand)
=============================================================================
