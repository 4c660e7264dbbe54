-------------------------- MODULE AgentSeamProofs --------------------------
(***************************************************************************)
(* Proofs about AgentSeam for every cap, every length of a quarter and any *)
(* number of lines, sessions and days.                                     *)
(***************************************************************************)
EXTENDS AgentSeam, SequenceTheorems, TLAPS

-----------------------------------------------------------------------------
(* Sequences                                                               *)

(* what is sent of a buffer and what stays make up the buffer              *)
LEMMA Split ==
    ASSUME NEW S, NEW s \in Seq(S), NEW k \in 0 .. Len(s)
    PROVE  /\ SubSeq(s, 1, k) \in Seq(S) /\ SubSeq(s, k + 1, Len(s)) \in Seq(S)
           /\ Len(SubSeq(s, 1, k)) = k /\ Len(SubSeq(s, k + 1, Len(s))) = Len(s) - k
           /\ SubSeq(s, 1, k) \o SubSeq(s, k + 1, Len(s)) = s
<1> DEFINE a == SubSeq(s, 1, k) b == SubSeq(s, k + 1, Len(s))
<1>0. Len(s) \in Nat /\ k \in Int /\ 1 \in Int /\ k + 1 \in Int /\ Len(s) \in Int
      BY LenProperties
<1>1. /\ a \in Seq(S) /\ Len(a) = k /\ \A i \in 1 .. k : a[i] = s[i]
  <2>1. \A i \in 1 .. k : s[i] \in S BY <1>0, ElementOfSeq
  <2>2. /\ SubSeq(s, 1, k) \in Seq(S) /\ Len(SubSeq(s, 1, k)) = IF 1 <= k THEN k - 1 + 1 ELSE 0
        /\ \A i \in 1 .. k - 1 + 1 : SubSeq(s, 1, k)[i] = s[1 + i - 1]
        BY <1>0, <2>1, SubSeqProperties
  <2> QED BY <1>0, <2>2
<1>2. /\ b \in Seq(S) /\ Len(b) = Len(s) - k /\ \A i \in 1 .. Len(s) - k : b[i] = s[k + i]
  <2>1. \A i \in k + 1 .. Len(s) : s[i] \in S BY <1>0, ElementOfSeq
  <2>2. /\ b \in Seq(S) /\ Len(b) = IF k + 1 <= Len(s) THEN Len(s) - (k + 1) + 1 ELSE 0
        /\ \A i \in 1 .. Len(s) - (k + 1) + 1 : b[i] = s[(k + 1) + i - 1]
        BY <1>0, <2>1, SubSeqProperties
  <2> QED BY <1>0, <2>2
<1> HIDE DEF a, b
<1>3. /\ a \o b \in Seq(S) /\ Len(a \o b) = Len(a) + Len(b)
      /\ \A i \in 1 .. Len(a) + Len(b) : (a \o b)[i] = IF i <= Len(a) THEN a[i] ELSE b[i - Len(a)]
      BY <1>1, <1>2, ConcatProperties
<1>4. ASSUME NEW i \in 1 .. Len(s) PROVE (a \o b)[i] = s[i]
  <2>1. CASE i <= k BY <2>1, <1>0, <1>1, <1>2, <1>3
  <2>2. CASE i > k
    <3>1. i - k \in 1 .. Len(s) - k /\ k + (i - k) = i BY <2>2, <1>0
    <3>2. b[i - k] = s[i] BY <3>1, <1>2
    <3> QED BY <2>2, <3>2, <1>0, <1>1, <1>2, <1>3
  <2>3. i <= k \/ i > k BY <1>0
  <2> QED BY <2>1, <2>2, <2>3
<1>5. a \o b = s
  <2>1. Len(a \o b) = Len(s) BY <1>0, <1>1, <1>2, <1>3
  <2> QED BY <2>1, <1>3, <1>4, SeqEqual
<1> QED BY <1>1, <1>2, <1>5 DEF a, b

(* a sequence is a prefix of what it is continued to                       *)
LEMMA Continued ==
    ASSUME NEW S, NEW s \in Seq(S), NEW t \in Seq(S)
    PROVE  /\ s \o t \in Seq(S) /\ Len(s) \in 0 .. Len(s \o t)
           /\ SubSeq(s \o t, 1, Len(s)) = s
<1>1. /\ s \o t \in Seq(S) /\ Len(s \o t) = Len(s) + Len(t)
      /\ \A i \in 1 .. Len(s) + Len(t) : (s \o t)[i] = IF i <= Len(s) THEN s[i] ELSE t[i - Len(s)]
      BY ConcatProperties
<1>2. Len(s) \in Nat /\ Len(t) \in Nat BY LenProperties
<1> DEFINE u == s \o t
<1> HIDE DEF u
<1>3. u \in Seq(S) /\ Len(u) = Len(s) + Len(t) /\ \A i \in 1 .. Len(s) : u[i] = s[i]
      BY <1>1, <1>2 DEF u
<1>4. /\ SubSeq(u, 1, Len(s)) \in Seq(S)
      /\ Len(SubSeq(u, 1, Len(s))) = IF 1 <= Len(s) THEN Len(s) - 1 + 1 ELSE 0
      /\ \A i \in 1 .. Len(s) - 1 + 1 : SubSeq(u, 1, Len(s))[i] = u[1 + i - 1]
  <2>1. \A i \in 1 .. Len(s) : u[i] \in S BY <1>3, ElementOfSeq
  <2> QED BY <1>2, <2>1, SubSeqProperties
<1>5. SubSeq(u, 1, Len(s)) = s BY <1>2, <1>3, <1>4, SeqEqual
<1> QED BY <1>1, <1>2, <1>5 DEF u

LEMMA Appended ==
    ASSUME NEW S, NEW s \in Seq(S), NEW t \in Seq(S), NEW e \in S
    PROVE  /\ Append(s, e) \in Seq(S) /\ Len(Append(s, e)) = Len(s) + 1
           /\ Append(s, e)[Len(s) + 1] = e
           /\ \A i \in 1 .. Len(s) : Append(s, e)[i] = s[i]
           /\ Append(s, e) = s \o <<e>> /\ <<e>> \in Seq(S)
           /\ s \o Append(t, e) = Append(s \o t, e)
<1>1. /\ Append(s, e) \in Seq(S) /\ Len(Append(s, e)) = Len(s) + 1
      /\ Append(s, e)[Len(s) + 1] = e /\ \A i \in 1 .. Len(s) : Append(s, e)[i] = s[i]
      OBVIOUS
<1>2. <<e>> \in Seq(S) OBVIOUS
<1>3. \A v \in Seq(S) : Append(v, e) = v \o <<e>> OBVIOUS
<1>4. s \o t \in Seq(S) BY ConcatProperties
<1>5. s \o (t \o <<e>>) = (s \o t) \o <<e>> BY <1>2, ConcatAssociative
<1> QED BY <1>1, <1>2, <1>3, <1>4, <1>5

LEMMA Unqueued ==
    ASSUME NEW S, NEW s \in Seq(S), s # << >>
    PROVE  /\ Head(s) \in S /\ Tail(s) \in Seq(S) /\ Len(s) \in Nat \ {0}
           /\ Len(Tail(s)) = Len(s) - 1 /\ <<Head(s)>> \in Seq(S)
           /\ s = <<Head(s)>> \o Tail(s)
<1>1. Head(s) \in S /\ Tail(s) \in Seq(S) /\ Len(Tail(s)) = Len(s) - 1 BY HeadTailProperties
<1>2. Len(s) \in Nat \ {0} BY EmptySeq
<1>3. s = <<Head(s)>> \o Tail(s) OBVIOUS
<1> QED BY <1>1, <1>2, <1>3

-----------------------------------------------------------------------------
(* What a reply does: it is given, or waits in the buffer, or the client   *)
(* is dropped with what was not yet sent.                                  *)

(* the answers given and waiting become those in out, no more of them waiting *)
Kept(out) ==
    /\ UNCHANGED <<client_connected, peer_open, wire>>
    /\ written' \in Seq(Line) /\ m_outbuf' \in Seq(Line)
    /\ written' \o m_outbuf' = written \o out /\ Len(m_outbuf') <= Len(out)

(* the session is over: a prefix of the answers in out was given           *)
Dropped(out) ==
    /\ clear_session
    /\ written' \in Seq(Line)
    /\ \E k \in 0 .. Len(written \o out) : written' = SubSeq(written \o out, 1, k)

LEMMA Associates ==
    \A s, t, u \in Seq(Line) : (s \o t) \o u = s \o (t \o u)
BY ConcatAssociative

LEMMA Sends ==
    ASSUME written \in Seq(Line), NEW out \in Seq(Line), NEW k \in 0 .. Len(out), sends(out, k)
    PROVE  /\ written' \in Seq(Line)
           /\ written' \o SubSeq(out, k + 1, Len(out)) = written \o out
           /\ \E m \in 0 .. Len(written \o out) : written' = SubSeq(written \o out, 1, m)
<1> DEFINE a == SubSeq(out, 1, k) b == SubSeq(out, k + 1, Len(out))
<1>1. a \in Seq(Line) /\ b \in Seq(Line) /\ a \o b = out BY Split
<1>2. written' = written \o a BY DEF sends
<1> HIDE DEF a, b
<1>3. written' \in Seq(Line)
  <2>1. written \o a \in Seq(Line) BY <1>1, ConcatProperties
  <2> QED BY <2>1, <1>2
<1>4. written' \o b = written \o out
  <2>1. (written \o a) \o b = written \o (a \o b) BY <1>1, Associates
  <2> QED BY <2>1, <1>1, <1>2
<1>5. Len(written') \in 0 .. Len(written' \o b) /\ SubSeq(written' \o b, 1, Len(written')) = written'
      BY <1>1, <1>3, Continued
<1>6. \E m \in 0 .. Len(written \o out) : written' = SubSeq(written \o out, 1, m)
      BY <1>4, <1>5
<1> QED BY <1>3, <1>4, <1>6 DEF b

LEMMA Flushed ==
    ASSUME written \in Seq(Line), NEW out \in Seq(Line), flush_outbuf(out)
    PROVE  Kept(out) \/ Dropped(out)
<1>1. CASE \E k \in 0 .. Len(out) :
             /\ sends(out, k) /\ m_outbuf' = SubSeq(out, k + 1, Len(out))
             /\ UNCHANGED <<client_connected, peer_open, wire>>
  <2>1. PICK k \in 0 .. Len(out) :
             /\ sends(out, k) /\ m_outbuf' = SubSeq(out, k + 1, Len(out))
             /\ UNCHANGED <<client_connected, peer_open, wire>>
        BY <1>1
  <2>2. Len(out) \in Nat BY LenProperties
  <2>3. m_outbuf' \in Seq(Line) /\ Len(m_outbuf') <= Len(out) BY <2>1, <2>2, Split
  <2>4. written' \in Seq(Line) /\ written' \o m_outbuf' = written \o out BY <2>1, Sends
  <2> QED BY <2>1, <2>3, <2>4 DEF Kept
<1>2. CASE clear_session /\ \E k \in 0 .. Len(out) - 1 : sends(out, k)
  <2>1. PICK k \in 0 .. Len(out) - 1 : sends(out, k) BY <1>2
  <2>2. Len(out) \in Nat BY LenProperties
  <2>3. k \in 0 .. Len(out) BY <2>1, <2>2
  <2>4. /\ written' \in Seq(Line)
        /\ \E m \in 0 .. Len(written \o out) : written' = SubSeq(written \o out, 1, m)
        BY <2>1, <2>3, Sends
  <2> QED BY <1>2, <2>4 DEF Dropped
<1> QED BY <1>1, <1>2 DEF flush_outbuf

LEMMA DropsAll ==
    ASSUME written \in Seq(Line), NEW out \in Seq(Line), drop_client PROVE Dropped(out)
<1>1. clear_session /\ written' = written BY DEF drop_client
<1>2. Len(written) \in 0 .. Len(written \o out) /\ SubSeq(written \o out, 1, Len(written)) = written
      BY Continued
<1> QED BY <1>1, <1>2 DEF Dropped

LEMMA Replied ==
    ASSUME written \in Seq(Line), m_outbuf \in Seq(Line), NEW line \in Line, queue_response(line)
    PROVE  \/ Kept(Append(m_outbuf, line)) /\ Len(m_outbuf') <= max_outbuf
           \/ Dropped(Append(m_outbuf, line))
<1> DEFINE out == Append(m_outbuf, line)
<1>1. out \in Seq(Line) BY Appended
<1>2. Len(out) \in Nat /\ max_outbuf \in Nat BY <1>1, LenProperties, SeamAssumption
<1>3. IF Len(out) > max_outbuf THEN drop_client ELSE flush_outbuf(out) BY DEF queue_response
<1> HIDE DEF out
<1>4. CASE Len(out) > max_outbuf BY <1>1, <1>3, <1>4, DropsAll DEF out
<1>5. CASE ~(Len(out) > max_outbuf)
  <2>1. Kept(out) \/ Dropped(out) BY <1>1, <1>3, <1>5, Flushed
  <2>2. ASSUME Kept(out) PROVE Len(m_outbuf') <= max_outbuf
    <3>1. m_outbuf' \in Seq(Line) /\ Len(m_outbuf') <= Len(out) BY <2>2 DEF Kept
    <3>2. Len(m_outbuf') \in Nat BY <3>1, LenProperties
    <3> QED BY <3>1, <3>2, <1>2, <1>5
  <2> QED BY <2>1, <2>2 DEF out
<1> QED BY <1>4, <1>5

LEMMA SaidBye ==
    ASSUME written \in Seq(Line), m_outbuf \in Seq(Line), NEW line \in Line, shut_down(line)
    PROVE  Dropped(Append(m_outbuf, line))
<1> DEFINE out == Append(m_outbuf, line)
<1>1. out \in Seq(Line) BY Appended
<1>2. PICK k \in 0 .. Len(out) : sends(out, k) BY DEF shut_down
<1>3. clear_session BY DEF shut_down
<1> HIDE DEF out
<1>4. /\ written' \in Seq(Line)
      /\ \E m \in 0 .. Len(written \o out) : written' = SubSeq(written \o out, 1, m)
      BY <1>1, <1>2, Sends
<1> QED BY <1>3, <1>4 DEF Dropped, out

-----------------------------------------------------------------------------
(* The inductive invariant                                                 *)

(* Nobody is served: nothing waits.                                        *)
Unserved == ~client_connected =>
    /\ ~peer_open /\ wire = << >> /\ m_lines = << >> /\ m_deferred = << >>
    /\ m_tick_pending = << >> /\ m_outbuf = << >>

(* Where the frame is.                                                     *)
Places ==
    /\ pc \in {"read", "classify"} => client_connected
    /\ pc \in {"events", "read", "classify", "host"} => m_last_econ_tick = econ_tick
    /\ pc = "drain" => m_last_econ_tick < econ_tick
    /\ m_last_econ_tick <= econ_tick
    /\ pc \in {"events", "boundary", "drain"} => ev = no_events

(* A TICK is pending, never deferred, one at a time.                       *)
Sorted ==
    /\ \A i \in DOMAIN m_deferred : m_deferred[i].op # "TICK"
    /\ m_tick_pending # << >> =>
         /\ Len(m_tick_pending) = 1 /\ Head(m_tick_pending).op = "TICK"

(* While the agent alone has the clock, the quarters due are its TICK's.   *)
Gated == client_connected /\ ~by_hand =>
    /\ paused \/ ev.attached
    /\ pc = "events" => m_tick_pending = << >>
    /\ pc \in {"read", "classify", "host"} =>
         (m_tick_pending # << >> <=> ev.tick_requested)
    /\ pc \in {"boundary", "drain"} => econ_tick = m_last_econ_tick + Len(m_tick_pending)

(* What is the socket's and what is not.                                   *)
SockOK ==
    /\ peer_open \in BOOLEAN /\ client_connected \in BOOLEAN
    /\ wire \in Seq(Line) /\ written \in Seq(Line) /\ m_outbuf \in Seq(Line)
    /\ m_lines \in Seq(Line) /\ m_deferred \in Seq(Line) /\ m_tick_pending \in Seq(Line)
HostOK ==
    /\ peers \in 0 .. MAX_PEERS /\ n_sent \in 0 .. MAX_LINES /\ backlog \in BOOLEAN
    /\ paused \in BOOLEAN /\ by_hand \in BOOLEAN
    /\ day_tick \in Nat /\ m_last_econ_tick \in Nat
    /\ m_transcript \in Seq([tick : Nat, line : Line])
    /\ world \in Seq(Line \cup {quarter})
    /\ ev \in [attached : BOOLEAN, tick_requested : BOOLEAN]
    /\ pc \in {"events", "read", "classify", "host", "boundary", "drain"}

LEMMA Types == TypeOK <=> SockOK /\ HostOK
BY DEF TypeOK, SockOK, HostOK

SockInv == SockOK /\ QueuesBounded /\ Unserved /\ Sorted

SeamInv == TypeOK /\ QueuesBounded /\ Unserved /\ Places /\ Sorted /\ Gated

LEMMA InitSeam == Init => SeamInv
<1> SUFFICES ASSUME Init PROVE SeamInv OBVIOUS
<1>1. /\ << >> \in Seq(Line) /\ << >> \in Seq([tick : Nat, line : Line])
      /\ << >> \in Seq(Line \cup {quarter}) /\ Len(<< >>) = 0
      BY EmptySeq
<1>2. econ_tick_days \in Nat \ {0} /\ max_queued_lines \in Nat /\ max_outbuf \in Nat
      /\ MAX_PEERS \in Nat /\ MAX_LINES \in Nat
      BY SeamAssumption
<1>3. SockOK BY <1>1 DEF Init, SockOK
<1>4. HostOK
  <2>1. no_events \in [attached : BOOLEAN, tick_requested : BOOLEAN] BY DEF no_events
  <2>2. m_transcript \in Seq([tick : Nat, line : Line]) /\ world \in Seq(Line \cup {quarter})
        BY <1>1 DEF Init
  <2>3. /\ peers \in 0 .. MAX_PEERS /\ n_sent \in 0 .. MAX_LINES
        /\ day_tick \in Nat /\ m_last_econ_tick \in Nat
        BY <1>2 DEF Init
  <2>4. /\ backlog \in BOOLEAN /\ paused \in BOOLEAN /\ by_hand \in BOOLEAN
        /\ ev \in [attached : BOOLEAN, tick_requested : BOOLEAN]
        /\ pc \in {"events", "read", "classify", "host", "boundary", "drain"}
        BY <2>1 DEF Init
  <2> QED BY <2>2, <2>3, <2>4 DEF HostOK
<1>5. TypeOK BY <1>3, <1>4, Types
<1>6. QueuesBounded BY <1>1, <1>2 DEF Init, QueuesBounded
<1>7. Unserved BY DEF Init, Unserved
<1>8. Places
  <2>1. 0 \div econ_tick_days = 0 BY <1>2
  <2> QED BY <2>1 DEF Init, Places, econ_tick
<1>9. Sorted BY DEF Init, Sorted
<1>10. Gated BY DEF Init, Gated
<1> QED BY <1>5, <1>6, <1>7, <1>8, <1>9, <1>10 DEF SeamInv

-----------------------------------------------------------------------------
(* The socket's part                                                       *)

LEMMA ClearedSock == ASSUME written' \in Seq(Line), clear_session PROVE SockInv'
<1>1. << >> \in Seq(Line) /\ Len(<< >>) = 0 BY EmptySeq
<1>2. max_queued_lines \in Nat /\ max_outbuf \in Nat BY SeamAssumption
<1>3. SockOK' BY <1>1 DEF clear_session, SockOK
<1>4. QueuesBounded' BY <1>1, <1>2 DEF clear_session, QueuesBounded
<1>5. Unserved' BY DEF clear_session, Unserved
<1>6. Sorted' BY DEF clear_session, Sorted
<1> QED BY <1>3, <1>4, <1>5, <1>6 DEF SockInv

LEMMA DroppedSock == ASSUME NEW out, Dropped(out) PROVE SockInv'
BY ClearedSock DEF Dropped

LEMMA KeptSock ==
    ASSUME SockOK, client_connected, NEW out, Kept(out), Len(m_outbuf') <= max_outbuf,
           NEW l \in Seq(Line), NEW d \in Seq(Line), NEW t \in Seq(Line), queues(l, d, t),
           Len(l) + Len(d) <= max_queued_lines,
           \A i \in DOMAIN d : d[i].op # "TICK",
           t # << >> => Len(t) = 1 /\ Head(t).op = "TICK"
    PROVE  SockInv'
<1>1. client_connected' /\ UNCHANGED <<client_connected, peer_open, wire>> BY DEF Kept
<1>2. m_lines' = l /\ m_deferred' = d /\ m_tick_pending' = t BY <1>1 DEF queues
<1>3. SockOK' BY <1>1, <1>2 DEF SockOK, Kept
<1>4. QueuesBounded' BY <1>2 DEF QueuesBounded
<1>5. Unserved' BY <1>1 DEF Unserved
<1>6. Sorted' BY <1>2 DEF Sorted
<1> QED BY <1>3, <1>4, <1>5, <1>6 DEF SockInv

LEMMA SameSock == ASSUME SockInv, UNCHANGED sockVars PROVE SockInv'
BY DEF SockInv, SockOK, QueuesBounded, Unserved, Sorted, sockVars

LEMMA PeerSock == ASSUME SockInv, HostOK, PeerNext PROVE SockInv'
<1>1. CASE connect BY <1>1, SameSock DEF connect
<1>2. CASE send_line
  <2>1. PICK op \in Op : wire' = Append(wire, [n |-> n_sent + 1, op |-> op]) BY <1>2 DEF send_line
  <2>2. [n |-> n_sent + 1, op |-> op] \in Line
        BY <1>2, SeamAssumption DEF send_line, HostOK, Line
  <2>3. wire' \in Seq(Line) BY <2>1, <2>2, Appended DEF SockInv, SockOK
  <2>4. /\ peer_open /\ UNCHANGED <<peer_open, written, client_connected, m_lines, m_deferred,
                                   m_tick_pending, m_outbuf>>
        BY <1>2 DEF send_line
  <2> QED BY <2>3, <2>4 DEF SockInv, SockOK, QueuesBounded, Unserved, Sorted
<1>3. CASE peer_closes
      BY <1>3 DEF peer_closes, SockInv, SockOK, QueuesBounded, Unserved, Sorted
<1> QED BY <1>1, <1>2, <1>3 DEF PeerNext

LEMMA AcceptSock == ASSUME SockInv, HostOK, accept_pending PROVE SockInv'
BY DEF accept_pending, SockInv, SockOK, HostOK, QueuesBounded, Unserved, Sorted

LEMMA ReadSock == ASSUME SockInv, Places, read_client PROVE SockInv'
<1>0. SockOK /\ client_connected BY DEF SockInv, Places, read_client
<1>1. PICK k \in 0 .. Len(wire) :
         LET lines == m_lines \o SubSeq(wire, 1, k) IN
          \/ drop_client
          \/ /\ k <= max_inbuf /\ ~over_queue(lines)
             /\ m_lines' = lines /\ wire' = SubSeq(wire, k + 1, Len(wire))
             /\ UNCHANGED <<peer_open, written, client_connected, m_deferred, m_tick_pending, m_outbuf>>
      BY DEF read_client
<1>2. CASE drop_client
  <2>1. written' \in Seq(Line) BY <1>0, <1>2 DEF drop_client, SockOK
  <2> QED BY <1>2, <2>1, ClearedSock DEF drop_client
<1>3. CASE ~drop_client
  <2> DEFINE lines == m_lines \o SubSeq(wire, 1, k)
  <2>1. /\ SubSeq(wire, 1, k) \in Seq(Line) /\ SubSeq(wire, k + 1, Len(wire)) \in Seq(Line)
        BY <1>0, Split DEF SockOK
  <2>2. lines \in Seq(Line) BY <2>1, <1>0, ConcatProperties DEF SockOK
  <2> HIDE DEF lines
  <2>3. /\ ~over_queue(lines) /\ m_lines' = lines /\ wire' = SubSeq(wire, k + 1, Len(wire))
        /\ UNCHANGED <<peer_open, written, client_connected, m_deferred, m_tick_pending, m_outbuf>>
        BY <1>1, <1>3 DEF lines
  <2>4. SockOK' BY <2>1, <2>2, <2>3, <1>0 DEF SockOK
  <2>5. QueuesBounded'
    <3>1. Len(lines) \in Nat /\ Len(m_deferred) \in Nat /\ max_queued_lines \in Nat
          BY <2>2, <1>0, LenProperties, SeamAssumption DEF SockOK
    <3> QED BY <2>3, <3>1 DEF SockInv, QueuesBounded, over_queue
  <2>6. Unserved' BY <2>3, <1>0 DEF Unserved
  <2>7. Sorted' BY <2>3 DEF SockInv, Sorted
  <2> QED BY <2>4, <2>5, <2>6, <2>7 DEF SockInv
<1> QED BY <1>2, <1>3

LEMMA ClassifySock == ASSUME SockInv, Places, classify_line PROVE SockInv'
<1> DEFINE line == Head(m_lines) rest == Tail(m_lines)
<1>0. SockOK /\ client_connected /\ m_tick_pending = << >> /\ m_lines # << >>
      BY DEF SockInv, Places, classify_line
<1>1. /\ line \in Line /\ rest \in Seq(Line) /\ Len(m_lines) \in Nat \ {0}
      /\ Len(rest) = Len(m_lines) - 1 /\ <<line>> \in Seq(Line)
      BY <1>0, Unqueued DEF SockOK
<1>2. /\ \/ /\ line.op = "TICK"
            /\ m_tick_pending' = <<line>> /\ m_lines' = rest
            /\ UNCHANGED <<peer_open, wire, written, client_connected, m_deferred, m_outbuf>>
         \/ /\ line.op # "TICK"
            /\ m_deferred' = Append(m_deferred, line) /\ m_lines' = rest
            /\ UNCHANGED <<peer_open, wire, written, client_connected, m_tick_pending, m_outbuf>>
         \/ queue_response(line) /\ queues(rest, m_deferred, m_tick_pending)
         \/ shut_down(line)
      BY DEF classify_line
<1>n. /\ Len(m_deferred) \in Nat /\ max_queued_lines \in Nat
      /\ Len(m_lines) + Len(m_deferred) <= max_queued_lines
      BY <1>0, LenProperties, SeamAssumption DEF SockInv, SockOK, QueuesBounded
<1>3. CASE /\ line.op = "TICK"
           /\ m_tick_pending' = <<line>> /\ m_lines' = rest
           /\ UNCHANGED <<peer_open, wire, written, client_connected, m_deferred, m_outbuf>>
  <2> HIDE DEF line, rest
  <2>1. SockOK' BY <1>3, <1>0, <1>1 DEF SockOK
  <2>2. QueuesBounded' BY <1>3, <1>1, <1>n DEF SockInv, QueuesBounded
  <2>3. Unserved' BY <1>3, <1>0 DEF Unserved
  <2>4. Sorted'
    <3>1. Len(<<line>>) = 1 /\ Head(<<line>>) = line OBVIOUS
    <3> QED BY <1>3, <3>1 DEF SockInv, Sorted
  <2> QED BY <2>1, <2>2, <2>3, <2>4 DEF SockInv
<1>4. CASE /\ line.op # "TICK"
           /\ m_deferred' = Append(m_deferred, line) /\ m_lines' = rest
           /\ UNCHANGED <<peer_open, wire, written, client_connected, m_tick_pending, m_outbuf>>
  <2> HIDE DEF line, rest
  <2>0. /\ m_deferred' \in Seq(Line) /\ Len(m_deferred') = Len(m_deferred) + 1
        /\ m_deferred'[Len(m_deferred) + 1] = line
        /\ \A i \in 1 .. Len(m_deferred) : m_deferred'[i] = m_deferred[i]
        BY <1>4, <1>0, <1>1, Appended DEF SockOK
  <2>1. SockOK' BY <1>4, <2>0, <1>0, <1>1 DEF SockOK
  <2>2. QueuesBounded' BY <1>4, <2>0, <1>1, <1>n DEF SockInv, QueuesBounded
  <2>3. Unserved' BY <1>4, <1>0 DEF Unserved
  <2>4. Sorted'
    <3>1. /\ DOMAIN m_deferred = 1 .. Len(m_deferred)
          /\ DOMAIN m_deferred' = 1 .. Len(m_deferred) + 1
          BY <1>0, <2>0, LenProperties DEF SockOK
    <3>2. \A i \in DOMAIN m_deferred' : m_deferred'[i].op # "TICK"
          BY <1>4, <2>0, <3>1, <1>n DEF SockInv, Sorted
    <3> QED BY <1>0, <1>4, <3>2 DEF Sorted
  <2> QED BY <2>1, <2>2, <2>3, <2>4 DEF SockInv
<1>5. CASE queue_response(line) /\ queues(rest, m_deferred, m_tick_pending)
  <2> HIDE DEF line, rest
  <2>1. \/ Kept(Append(m_outbuf, line)) /\ Len(m_outbuf') <= max_outbuf
        \/ Dropped(Append(m_outbuf, line))
        BY <1>5, <1>0, <1>1, Replied DEF SockOK
  <2>2. /\ m_deferred \in Seq(Line) /\ m_tick_pending \in Seq(Line)
        /\ Len(rest) + Len(m_deferred) <= max_queued_lines
        /\ \A i \in DOMAIN m_deferred : m_deferred[i].op # "TICK"
        /\ m_tick_pending # << >> => Len(m_tick_pending) = 1 /\ Head(m_tick_pending).op = "TICK"
        BY <1>0, <1>1, <1>n DEF SockInv, SockOK, Sorted
  <2> QED BY <1>5, <1>0, <1>1, <2>1, <2>2, KeptSock, DroppedSock
<1>6. CASE shut_down(line)
  <2> HIDE DEF line, rest
  <2>1. Dropped(Append(m_outbuf, line)) BY <1>6, <1>0, <1>1, SaidBye DEF SockOK
  <2> QED BY <2>1, DroppedSock
<1> QED BY <1>2, <1>3, <1>4, <1>5, <1>6

LEMMA PumpSock == ASSUME SockInv, Places, pump_ends PROVE SockInv'
<1>0. /\ SockOK /\ client_connected /\ flush_outbuf(m_outbuf)
      /\ queues(m_lines, m_deferred, m_tick_pending)
      BY DEF SockInv, Places, pump_ends
<1>1. Kept(m_outbuf) \/ Dropped(m_outbuf) BY <1>0, Flushed DEF SockOK
<1>2. CASE Kept(m_outbuf)
  <2>1. Len(m_outbuf') <= max_outbuf
    <3>1. m_outbuf' \in Seq(Line) /\ Len(m_outbuf') <= Len(m_outbuf) BY <1>2 DEF Kept
    <3>2. Len(m_outbuf') \in Nat /\ Len(m_outbuf) \in Nat /\ max_outbuf \in Nat
          BY <3>1, <1>0, LenProperties, SeamAssumption DEF SockOK
    <3> QED BY <3>1, <3>2 DEF SockInv, QueuesBounded
  <2>2. /\ m_lines \in Seq(Line) /\ m_deferred \in Seq(Line) /\ m_tick_pending \in Seq(Line)
        /\ Len(m_lines) + Len(m_deferred) <= max_queued_lines
        /\ \A i \in DOMAIN m_deferred : m_deferred[i].op # "TICK"
        /\ m_tick_pending # << >> => Len(m_tick_pending) = 1 /\ Head(m_tick_pending).op = "TICK"
        BY <1>0 DEF SockInv, SockOK, QueuesBounded, Sorted
  <2> QED BY <1>0, <1>2, <2>1, <2>2, KeptSock
<1> QED BY <1>1, <1>2, DroppedSock

LEMMA DrainSock == ASSUME SockInv, drain_boundary PROVE SockInv'
<1> DEFINE line == Head(m_deferred) rest == Tail(m_deferred)
<1>0. SockOK /\ client_connected /\ m_deferred # << >> BY DEF SockInv, drain_boundary
<1>1. /\ line \in Line /\ rest \in Seq(Line) /\ Len(m_deferred) \in Nat \ {0}
      /\ Len(rest) = Len(m_deferred) - 1
      BY <1>0, Unqueued DEF SockOK
<1>2. \/ shut_down(line)
      \/ queue_response(line) /\ queues(m_lines, rest, m_tick_pending)
      BY DEF drain_boundary
<1>3. \A i \in DOMAIN rest : rest[i].op # "TICK"
  <2>1. \A i \in 1 .. Len(rest) : rest[i] = m_deferred[i + 1]
        BY <1>0, HeadTailProperties DEF SockOK
  <2>2. DOMAIN rest = 1 .. Len(rest) /\ DOMAIN m_deferred = 1 .. Len(m_deferred)
        BY <1>0, <1>1, LenProperties DEF SockOK
  <2> HIDE DEF rest
  <2>3. ASSUME NEW i \in DOMAIN rest PROVE rest[i].op # "TICK"
    <3>1. i + 1 \in DOMAIN m_deferred /\ rest[i] = m_deferred[i + 1] BY <2>1, <2>2, <1>1
    <3> QED BY <3>1 DEF SockInv, Sorted
  <2> QED BY <2>3
<1> HIDE DEF line, rest
<1>4. CASE shut_down(line)
  <2>1. Dropped(Append(m_outbuf, line)) BY <1>4, <1>0, <1>1, SaidBye DEF SockOK
  <2> QED BY <2>1, DroppedSock
<1>5. CASE queue_response(line) /\ queues(m_lines, rest, m_tick_pending)
  <2>1. \/ Kept(Append(m_outbuf, line)) /\ Len(m_outbuf') <= max_outbuf
        \/ Dropped(Append(m_outbuf, line))
        BY <1>5, <1>0, <1>1, Replied DEF SockOK
  <2>2. /\ m_lines \in Seq(Line) /\ m_tick_pending \in Seq(Line)
        /\ Len(m_lines) + Len(rest) <= max_queued_lines
        /\ m_tick_pending # << >> => Len(m_tick_pending) = 1 /\ Head(m_tick_pending).op = "TICK"
    <3>1. Len(m_lines) \in Nat /\ max_queued_lines \in Nat
          BY <1>0, LenProperties, SeamAssumption DEF SockOK
    <3> QED BY <1>0, <1>1, <3>1 DEF SockInv, SockOK, QueuesBounded, Sorted
  <2> QED BY <1>5, <1>0, <1>1, <1>3, <2>1, <2>2, KeptSock, DroppedSock
<1> QED BY <1>2, <1>4, <1>5

LEMMA EconomySock == ASSUME SockInv, step_economy PROVE SockInv'
<1>0. SockOK BY DEF SockInv
<1>1. CASE m_tick_pending = << >> BY <1>1, SameSock DEF step_economy
<1>2. CASE m_tick_pending # << >>
  <2>1. client_connected BY <1>2 DEF SockInv, Unserved
  <2>2. queue_response(Head(m_tick_pending)) /\ queues(m_lines, m_deferred, << >>)
        BY <1>2 DEF step_economy
  <2>3. Head(m_tick_pending) \in Line BY <1>0, <1>2, Unqueued DEF SockOK
  <2>4. \/ Kept(Append(m_outbuf, Head(m_tick_pending))) /\ Len(m_outbuf') <= max_outbuf
        \/ Dropped(Append(m_outbuf, Head(m_tick_pending)))
        BY <1>0, <2>2, <2>3, Replied DEF SockOK
  <2>5. /\ m_lines \in Seq(Line) /\ m_deferred \in Seq(Line) /\ << >> \in Seq(Line)
        /\ Len(m_lines) + Len(m_deferred) <= max_queued_lines
        /\ \A i \in DOMAIN m_deferred : m_deferred[i].op # "TICK"
        BY <1>0, EmptySeq DEF SockInv, SockOK, QueuesBounded, Sorted
  <2> QED BY <1>0, <2>1, <2>2, <2>4, <2>5, KeptSock, DroppedSock
<1> QED BY <1>1, <1>2

LEMMA SockStep == ASSUME SockInv, HostOK, Places, [Next]_vars PROVE SockInv'
<1>1. CASE PeerNext BY <1>1, PeerSock
<1>2. CASE accept_pending BY <1>2, AcceptSock
<1>3. CASE read_client BY <1>3, ReadSock
<1>4. CASE classify_line BY <1>4, ClassifySock
<1>5. CASE pump_ends BY <1>5, PumpSock
<1>6. CASE host_events \/ boundary \/ set_speed \/ UNCHANGED vars
      BY <1>6, SameSock DEF host_events, boundary, set_speed, vars
<1>7. CASE drain_boundary BY <1>7, DrainSock
<1>8. CASE step_economy BY <1>8, EconomySock
<1> QED BY <1>1, <1>2, <1>3, <1>4, <1>5, <1>6, <1>7, <1>8 DEF Next, FrameNext

-----------------------------------------------------------------------------
(* The host's part                                                         *)

(* quarters are counted as days are: never back, one more for a quarter more *)
LEMMA Quarters ==
    ASSUME NEW d \in Nat, NEW n \in Nat
    PROVE  /\ d \div econ_tick_days \in Nat
           /\ d \div econ_tick_days <= (d + n) \div econ_tick_days
           /\ (d + econ_tick_days) \div econ_tick_days = (d \div econ_tick_days) + 1
<1>1. econ_tick_days \in Nat \ {0} BY SeamAssumption
<1> DEFINE E == econ_tick_days q == d \div E r == d % E
           p == (d + n) \div E s == (d + n) % E
<1>2. q \in Nat /\ r \in 0 .. E - 1 /\ d = E * q + r BY <1>1
<1>3. p \in Nat /\ s \in 0 .. E - 1 /\ d + n = E * p + s BY <1>1
<1>4. (d + E) \div E = q + 1 BY <1>1
<1>5. q <= p BY <1>1
<1> QED BY <1>2, <1>4, <1>5

HostInv == HostOK /\ Places /\ Gated

LEMMA SeamParts == SeamInv <=> SockInv /\ HostInv
BY Types DEF SeamInv, SockInv, HostInv

(* a reply may end a session and begins none                               *)
LEMMA ReplyEnds ==
    /\ clear_session => ~client_connected'
    /\ \A line : shut_down(line) => ~client_connected'
    /\ \A out : flush_outbuf(out) => (client_connected' => client_connected' = client_connected)
    /\ \A line : queue_response(line) => (client_connected' => client_connected' = client_connected)
<1>1. clear_session => ~client_connected' BY DEF clear_session
<1>2. \A line : shut_down(line) => ~client_connected' BY DEF shut_down, clear_session
<1>3. \A out : flush_outbuf(out) => (client_connected' => client_connected' = client_connected)
      BY DEF flush_outbuf, clear_session
<1>4. \A line : queue_response(line) => (client_connected' => client_connected' = client_connected)
      BY <1>3 DEF queue_response, drop_client, clear_session
<1> QED BY <1>1, <1>2, <1>3, <1>4

(* a step that leaves the frame where it is, or a session that is over     *)
LEMMA HostKept ==
    ASSUME HostInv, UNCHANGED <<hostVars, ev, pc>>,
           client_connected' = client_connected, m_tick_pending' = m_tick_pending
    PROVE  Places' /\ Gated'
BY DEF HostInv, Places, Gated, hostVars, econ_tick

LEMMA HostPeer == ASSUME HostInv, PeerNext PROVE HostInv'
<1>1. HostOK'
  <2>0. MAX_PEERS \in Nat /\ MAX_LINES \in Nat BY SeamAssumption
  <2>1. /\ UNCHANGED <<hostVars, m_transcript, world, ev, pc>>
        /\ peers' \in 0 .. MAX_PEERS /\ n_sent' \in 0 .. MAX_LINES /\ backlog' \in BOOLEAN
    <3>1. CASE connect BY <3>1, <2>0 DEF connect, HostInv, HostOK
    <3>2. CASE send_line BY <3>2, <2>0 DEF send_line, HostInv, HostOK
    <3>3. CASE peer_closes BY <3>3 DEF peer_closes, peerVars, HostInv, HostOK
    <3> QED BY <3>1, <3>2, <3>3 DEF PeerNext
  <2> QED BY <2>1 DEF HostInv, HostOK, hostVars
<1>2. /\ UNCHANGED <<hostVars, ev, pc>>
      /\ client_connected' = client_connected /\ m_tick_pending' = m_tick_pending
      BY DEF PeerNext, connect, send_line, peer_closes, sockVars
<1>3. Places' /\ Gated' BY <1>2, HostKept
<1> QED BY <1>1, <1>3 DEF HostInv

LEMMA HostAccept == ASSUME SockInv, HostInv, accept_pending PROVE HostInv'
<1>1. /\ pc = "events" /\ pc' = IF client_connected' THEN "read" ELSE "host"
      /\ ev' = [no_events EXCEPT !.attached = backlog /\ ~client_connected]
      /\ client_connected' = (client_connected \/ backlog)
      /\ by_hand' = (by_hand /\ ~(backlog /\ ~client_connected))
      /\ backlog' = FALSE
      /\ UNCHANGED <<peers, n_sent, m_tick_pending, paused, day_tick, m_last_econ_tick,
                     m_transcript, world>>
      BY DEF accept_pending
<1>2. backlog \in BOOLEAN /\ client_connected \in BOOLEAN /\ by_hand \in BOOLEAN
      BY DEF SockInv, SockOK, HostInv, HostOK
<1>3. /\ ev' \in [attached : BOOLEAN, tick_requested : BOOLEAN]
      /\ ev'.attached = (backlog /\ ~client_connected) /\ ~ev'.tick_requested
      BY <1>1, <1>2 DEF no_events
<1>4. HostOK' BY <1>1, <1>2, <1>3 DEF HostInv, HostOK
<1>5. Places' BY <1>1 DEF HostInv, Places, econ_tick
<1>6. Gated'
  <2>1. CASE backlog /\ ~client_connected
    <3>1. m_tick_pending' = << >> BY <2>1, <1>1 DEF SockInv, Unserved
    <3> QED BY <2>1, <3>1, <1>1, <1>3 DEF Gated
  <2>2. CASE ~(backlog /\ ~client_connected)
    <3>1. ASSUME client_connected', ~by_hand'
          PROVE  client_connected /\ ~by_hand /\ ev = no_events
          BY <2>2, <3>1, <1>1, <1>2 DEF HostInv, Places
    <3>2. ~no_events.attached BY DEF no_events
    <3> QED BY <2>2, <3>1, <3>2, <1>1, <1>3 DEF HostInv, Gated
  <2> QED BY <2>1, <2>2
<1> QED BY <1>4, <1>5, <1>6 DEF HostInv

LEMMA HostRead == ASSUME HostInv, read_client PROVE HostInv'
<1>1. /\ pc = "read" /\ client_connected /\ UNCHANGED <<peerVars, hostVars, m_transcript, world, ev>>
      /\ \/ ~client_connected' /\ pc' = "host"
         \/ /\ pc' = "classify"
            /\ client_connected' = client_connected /\ m_tick_pending' = m_tick_pending
      BY ReplyEnds DEF HostInv, Places, read_client, drop_client
<1>2. HostOK' BY <1>1 DEF HostInv, HostOK, peerVars, hostVars
<1>3. Places' BY <1>1 DEF HostInv, Places, hostVars, econ_tick
<1>4. Gated' BY <1>1 DEF HostInv, Gated, hostVars
<1> QED BY <1>2, <1>3, <1>4 DEF HostInv

LEMMA HostClassify == ASSUME SockInv, HostInv, classify_line PROVE HostInv'
<1>1. /\ pc = "classify" /\ client_connected /\ m_tick_pending = << >>
      /\ UNCHANGED <<peerVars, hostVars, m_transcript, world>>
      BY DEF HostInv, Places, classify_line
<1>2. ev \in [attached : BOOLEAN, tick_requested : BOOLEAN] BY DEF HostInv, HostOK
<1>3. \/ /\ m_tick_pending' = <<Head(m_lines)>> /\ ev' = [ev EXCEPT !.tick_requested = TRUE]
         /\ client_connected' = client_connected /\ pc' = pc
      \/ /\ client_connected' = client_connected /\ m_tick_pending' = m_tick_pending
         /\ ev' = ev /\ pc' = pc
      \/ ~client_connected' /\ pc' = "host" /\ ev' = ev
  <2>1. CASE m_tick_pending' = <<Head(m_lines)>> /\ ev' = [ev EXCEPT !.tick_requested = TRUE]
             /\ client_connected' = client_connected /\ pc' = pc
        BY <2>1
  <2>2. CASE client_connected' = client_connected /\ m_tick_pending' = m_tick_pending
             /\ ev' = ev /\ pc' = pc
        BY <2>2
  <2>3. CASE shut_down(Head(m_lines)) /\ pc' = "host" /\ ev' = ev BY <2>3, ReplyEnds
  <2>4. CASE /\ queue_response(Head(m_lines))
             /\ queues(Tail(m_lines), m_deferred, m_tick_pending)
             /\ pc' = (IF client_connected' THEN pc ELSE "host") /\ ev' = ev
    <3>1. CASE client_connected' BY <2>4, <3>1, ReplyEnds DEF queues
    <3>2. CASE ~client_connected' BY <2>4, <3>2
    <3> QED BY <3>1, <3>2
  <2> QED BY <2>1, <2>2, <2>3, <2>4 DEF classify_line
<1>4. HostOK'
  <2>1. ev' \in [attached : BOOLEAN, tick_requested : BOOLEAN] /\ pc' \in {"classify", "host"}
        BY <1>1, <1>2, <1>3
  <2> QED BY <1>1, <2>1 DEF HostInv, HostOK, peerVars, hostVars
<1>5. Places' BY <1>1, <1>3 DEF HostInv, Places, hostVars, econ_tick
<1>6. Gated'
  <2>1. <<Head(m_lines)>> # << >> OBVIOUS
  <2>2. ev'.attached = ev.attached /\ (ev' = [ev EXCEPT !.tick_requested = TRUE] => ev'.tick_requested)
        BY <1>2, <1>3
  <2> QED BY <1>1, <1>3, <2>1, <2>2 DEF HostInv, Gated, hostVars
<1> QED BY <1>4, <1>5, <1>6 DEF HostInv

LEMMA HostPump == ASSUME HostInv, pump_ends PROVE HostInv'
<1>1. /\ pc = "classify" /\ pc' = "host"
      /\ UNCHANGED <<peerVars, hostVars, m_transcript, ev, world>>
      /\ client_connected' => client_connected' = client_connected /\ m_tick_pending' = m_tick_pending
      BY ReplyEnds DEF pump_ends, queues
<1>2. HostOK' BY <1>1 DEF HostInv, HostOK, peerVars, hostVars
<1>3. Places' BY <1>1 DEF HostInv, Places, hostVars, econ_tick
<1>4. Gated' BY <1>1 DEF HostInv, Gated, hostVars
<1> QED BY <1>2, <1>3, <1>4 DEF HostInv

LEMMA HostEvents == ASSUME SockInv, HostInv, host_events PROVE HostInv'
<1> DEFINE E == econ_tick_days
<1>0. /\ E \in Nat \ {0} /\ LAST_DAY \in Nat /\ day_tick \in Nat /\ m_last_econ_tick \in Nat
      /\ paused \in BOOLEAN /\ ev \in [attached : BOOLEAN, tick_requested : BOOLEAN]
      BY SeamAssumption DEF HostInv, HostOK
<1>1. /\ pc = "host" /\ paused' = clock_taken /\ ev' = no_events /\ pc' = "boundary"
      /\ UNCHANGED <<peerVars, sockVars, m_transcript, m_last_econ_tick, by_hand, world>>
      BY DEF host_events
<1>2. PICK run \in {0, 1} :
         /\ run = 1 => ~paused'
         /\ day_tick' = day_tick + run + (IF releases(paused') THEN E ELSE 0)
      BY DEF host_events
<1>3. PICK n \in Nat : day_tick' = day_tick + n
  <2>1. run + (IF releases(paused') THEN E ELSE 0) \in Nat BY <1>0
  <2> QED BY <1>0, <1>2, <2>1
<1>4. m_last_econ_tick = econ_tick /\ m_last_econ_tick <= econ_tick'
  <2>1. m_last_econ_tick = day_tick \div E BY <1>1 DEF HostInv, Places, econ_tick
  <2>2. day_tick \div E <= (day_tick + n) \div E BY <1>0, Quarters
  <2>3. econ_tick' = (day_tick + n) \div E BY <1>3 DEF econ_tick
  <2> QED BY <2>1, <2>2, <2>3 DEF econ_tick
<1>5. HostOK'
  <2>1. no_events \in [attached : BOOLEAN, tick_requested : BOOLEAN] BY DEF no_events
  <2>2. paused' \in BOOLEAN BY <1>0, <1>1 DEF clock_taken
  <2>3. day_tick' \in Nat BY <1>0, <1>3
  <2>4. /\ UNCHANGED <<peers, n_sent, backlog, by_hand, m_last_econ_tick, m_transcript, world>>
        /\ ev' \in [attached : BOOLEAN, tick_requested : BOOLEAN] /\ pc' = "boundary"
        BY <1>1, <2>1 DEF peerVars
  <2> QED BY <2>2, <2>3, <2>4 DEF HostInv, HostOK
<1>6. Places' BY <1>1, <1>4 DEF Places
<1>7. Gated'
  <2> SUFFICES ASSUME client_connected', ~by_hand'
               PROVE  paused' /\ econ_tick' = m_last_econ_tick' + Len(m_tick_pending')
      BY <1>1 DEF Gated
  <2>1. /\ client_connected /\ ~by_hand
        /\ m_tick_pending' = m_tick_pending /\ m_last_econ_tick' = m_last_econ_tick
        BY <1>1 DEF sockVars
  <2>2. paused' /\ (m_tick_pending # << >> <=> ev.tick_requested)
        BY <1>1, <2>1 DEF HostInv, Gated, clock_taken
  <2>3. run = 0 BY <1>2, <2>2
  <2>4. CASE ev.tick_requested
    <3>1. day_tick' = day_tick + E BY <1>0, <1>2, <2>2, <2>3, <2>4 DEF releases
    <3>2. econ_tick' = econ_tick + 1 BY <3>1, <1>0, Quarters DEF econ_tick
    <3>3. Len(m_tick_pending) = 1 BY <2>2, <2>4 DEF SockInv, Sorted
    <3> QED BY <2>1, <2>2, <3>2, <3>3, <1>4
  <2>5. CASE ~ev.tick_requested
    <3>1. day_tick' = day_tick BY <1>0, <1>2, <2>2, <2>3, <2>5 DEF releases
    <3>2. econ_tick' = econ_tick BY <3>1 DEF econ_tick
    <3>3. Len(m_tick_pending) = 0 BY <2>2, <2>5
    <3> QED BY <1>0, <2>1, <2>2, <3>2, <3>3, <1>4
  <2> QED BY <2>4, <2>5
<1> QED BY <1>5, <1>6, <1>7 DEF HostInv

(* a quarter is due exactly while one has not been stepped                 *)
LEMMA HostBoundary == ASSUME SockInv, HostInv, boundary PROVE HostInv'
<1>0. /\ econ_tick \in Nat /\ m_last_econ_tick \in Nat /\ m_last_econ_tick <= econ_tick
      BY Quarters DEF HostInv, HostOK, Places, econ_tick
<1>1. /\ pc = "boundary" /\ pc' = IF m_last_econ_tick < econ_tick THEN "drain" ELSE "events"
      /\ UNCHANGED <<peerVars, sockVars, hostVars, m_transcript, ev, world>>
      BY DEF boundary
<1>2. HostOK' BY <1>1 DEF HostInv, HostOK, peerVars, hostVars
<1>3. econ_tick' = econ_tick BY <1>1 DEF econ_tick, hostVars
<1>4. Places' BY <1>0, <1>1, <1>3 DEF HostInv, Places, hostVars
<1>5. Gated'
  <2>1. m_tick_pending \in Seq(Line) BY DEF SockInv, SockOK
  <2>2. Len(m_tick_pending) \in Nat /\ (Len(m_tick_pending) = 0 => m_tick_pending = << >>)
        BY <2>1, LenProperties, EmptySeq
  <2>3. ASSUME client_connected, ~by_hand, pc' = "events" PROVE m_tick_pending = << >>
    <3>1. econ_tick = m_last_econ_tick + Len(m_tick_pending) BY <1>1, <2>3 DEF HostInv, Gated
    <3>2. m_last_econ_tick = econ_tick BY <1>0, <1>1, <2>3
    <3> QED BY <1>0, <2>2, <3>1, <3>2
  <2> QED BY <1>1, <1>3, <2>3 DEF HostInv, Gated, sockVars, hostVars
<1> QED BY <1>2, <1>4, <1>5 DEF HostInv

LEMMA HostDrain == ASSUME SockInv, HostInv, drain_boundary PROVE HostInv'
<1> DEFINE line == Head(m_deferred)
<1>0. /\ m_deferred \in Seq(Line) /\ m_deferred # << >> /\ m_last_econ_tick \in Nat
      /\ world \in Seq(Line \cup {quarter})
      /\ m_transcript \in Seq([tick : Nat, line : Line])
      BY DEF SockInv, SockOK, HostInv, HostOK, drain_boundary
<1>1. line \in Line BY <1>0, Unqueued
<1>2. /\ pc = "drain" /\ UNCHANGED <<peerVars, hostVars, ev, pc>>
      /\ IF line.op = "COMMAND"
         THEN /\ world' = Append(world, line)
              /\ m_transcript' = Append(m_transcript, [tick |-> stamp, line |-> line])
         ELSE UNCHANGED <<world, m_transcript>>
      BY DEF drain_boundary
<1>3. client_connected' => client_connected' = client_connected /\ m_tick_pending' = m_tick_pending
      BY ReplyEnds DEF drain_boundary, queues
<1> HIDE DEF line
<1>4. world' \in Seq(Line \cup {quarter})
  <2>1. Append(world, line) \in Seq(Line \cup {quarter}) BY <1>0, <1>1, Appended
  <2> QED BY <1>0, <1>2, <2>1
<1>5. m_transcript' \in Seq([tick : Nat, line : Line])
  <2>1. [tick |-> stamp, line |-> line] \in [tick : Nat, line : Line] BY <1>0, <1>1 DEF stamp
  <2>2. Append(m_transcript, [tick |-> stamp, line |-> line]) \in Seq([tick : Nat, line : Line])
        BY <1>0, <2>1, Appended
  <2> QED BY <1>0, <1>2, <2>2
<1>6. HostOK' BY <1>2, <1>4, <1>5 DEF HostInv, HostOK, peerVars, hostVars
<1>7. Places' BY <1>2 DEF HostInv, Places, hostVars, econ_tick
<1>8. Gated' BY <1>2, <1>3 DEF HostInv, Gated, hostVars, econ_tick
<1> QED BY <1>6, <1>7, <1>8 DEF HostInv

(* nobody's quarter is stepped while the agent alone has the clock         *)
LEMMA Owed ==
    ASSUME HostInv, pc = "drain", client_connected, ~by_hand
    PROVE  m_tick_pending # << >>
<1>1. econ_tick = m_last_econ_tick + Len(m_tick_pending) /\ m_last_econ_tick < econ_tick
      BY DEF HostInv, Places, Gated
<1>2. m_last_econ_tick \in Nat BY DEF HostInv, HostOK
<1>3. ASSUME m_tick_pending = << >> PROVE FALSE
  <2>1. Len(m_tick_pending) = 0 BY <1>3
  <2> QED BY <1>1, <1>2, <2>1
<1> QED BY <1>3

LEMMA HostEconomy == ASSUME SockInv, HostInv, step_economy PROVE HostInv'
<1>0. /\ m_last_econ_tick \in Nat /\ econ_tick \in Nat /\ world \in Seq(Line \cup {quarter})
      BY Quarters DEF HostInv, HostOK, econ_tick
<1>1. /\ pc = "drain" /\ pc' = "boundary" /\ world' = Append(world, quarter)
      /\ m_last_econ_tick' = m_last_econ_tick + 1
      /\ UNCHANGED <<peerVars, paused, day_tick, by_hand, m_transcript, ev>>
      BY DEF step_economy
<1>2. client_connected' =>
         /\ client_connected' = client_connected
         /\ m_tick_pending' = << >>
  <2>1. CASE m_tick_pending = << >> BY <2>1 DEF step_economy, sockVars
  <2>2. CASE m_tick_pending # << >> BY <2>2, ReplyEnds DEF step_economy, queues
  <2> QED BY <2>1, <2>2
<1>3. HostOK'
  <2>1. world' \in Seq(Line \cup {quarter}) BY <1>0, <1>1, Appended
  <2>2. m_last_econ_tick' \in Nat BY <1>0, <1>1
  <2> QED BY <1>1, <2>1, <2>2 DEF HostInv, HostOK, peerVars
<1>4. econ_tick' = econ_tick BY <1>1 DEF econ_tick
<1>5. Places' BY <1>0, <1>1, <1>4 DEF HostInv, Places
<1>6. Gated'
  <2> SUFFICES ASSUME client_connected', ~by_hand'
               PROVE  paused' /\ econ_tick' = m_last_econ_tick' + Len(m_tick_pending')
      BY <1>1 DEF Gated
  <2>1. client_connected /\ ~by_hand /\ m_tick_pending' = << >> BY <1>1, <1>2
  <2>2. /\ paused \/ ev.attached
        /\ econ_tick = m_last_econ_tick + Len(m_tick_pending) /\ ev = no_events
        BY <1>1, <2>1 DEF HostInv, Gated, Places
  <2>3. Len(m_tick_pending) = 1 BY <1>1, <2>1, Owed DEF SockInv, Sorted
  <2>4. Len(m_tick_pending') = 0 BY <2>1
  <2>5. paused' BY <1>1, <2>2 DEF no_events
  <2> QED BY <1>0, <1>1, <1>4, <2>2, <2>3, <2>4, <2>5
<1> QED BY <1>3, <1>5, <1>6 DEF HostInv

LEMMA HostSpeed == ASSUME HostInv, set_speed PROVE HostInv'
<1>1. HostOK' BY DEF set_speed, HostInv, HostOK, peerVars
<1>2. Places' BY DEF set_speed, HostInv, Places, sockVars, econ_tick
<1>3. Gated' BY DEF set_speed, Gated
<1> QED BY <1>1, <1>2, <1>3 DEF HostInv

LEMMA SeamStep == SeamInv /\ [Next]_vars => SeamInv'
<1> SUFFICES ASSUME SeamInv, [Next]_vars PROVE SeamInv' OBVIOUS
<1>1. SockInv /\ HostInv BY SeamParts
<1>2. SockInv' BY <1>1, SockStep DEF HostInv
<1>3. HostInv'
  <2>1. CASE PeerNext BY <1>1, <2>1, HostPeer
  <2>2. CASE accept_pending BY <1>1, <2>2, HostAccept
  <2>3. CASE read_client BY <1>1, <2>3, HostRead
  <2>4. CASE classify_line BY <1>1, <2>4, HostClassify
  <2>5. CASE pump_ends BY <1>1, <2>5, HostPump
  <2>6. CASE host_events BY <1>1, <2>6, HostEvents
  <2>7. CASE boundary BY <1>1, <2>7, HostBoundary
  <2>8. CASE drain_boundary BY <1>1, <2>8, HostDrain
  <2>9. CASE step_economy BY <1>1, <2>9, HostEconomy
  <2>10. CASE set_speed BY <1>1, <2>10, HostSpeed
  <2>11. CASE UNCHANGED vars
    <3>1. HostOK' BY <1>1, <2>11 DEF vars, peerVars, hostVars, HostInv, HostOK
    <3>2. Places' /\ Gated' BY <1>1, <2>11, HostKept DEF vars, sockVars
    <3> QED BY <3>1, <3>2 DEF HostInv
  <2> QED BY <2>1, <2>2, <2>3, <2>4, <2>5, <2>6, <2>7, <2>8, <2>9, <2>10, <2>11 DEF Next, FrameNext
<1>4. TypeOK' BY <1>2, <1>3 DEF SockInv, HostInv, SockOK, HostOK, TypeOK
<1> QED BY <1>2, <1>3, <1>4 DEF SeamInv, SockInv, HostInv

(* The invariant everything below rests on: where the frame is, what waits *)
(* for the agent, and which quarters are due.                              *)
THEOREM SeamInvariant == Spec => []SeamInv
BY InitSeam, SeamStep, PTL DEF Spec

(* The seam's state is well formed whatever the peer, the socket and the   *)
(* hand on the keyboard do.                                                *)
THEOREM SeamTyped == Spec => []TypeOK
<1>1. SeamInv => TypeOK BY DEF SeamInv
<1> QED BY <1>1, SeamInvariant, PTL

(* The queues keep within their caps (pump, queue_response), deferred      *)
(* lines counted with those that wait to be classified.                    *)
THEOREM QueuesKept == Spec => []QueuesBounded
<1>1. SeamInv => QueuesBounded BY DEF SeamInv
<1> QED BY <1>1, SeamInvariant, PTL

-----------------------------------------------------------------------------
(* The seam implements the server                                          *)

Answers == written \o m_outbuf

(* a line before the rest of a queue is its head                           *)
LEMMA Headed ==
    ASSUME NEW S, NEW x \in S, NEW r \in Seq(S)
    PROVE  /\ <<x>> \o r \in Seq(S) /\ <<x>> \o r # << >>
           /\ Head(<<x>> \o r) = x /\ Tail(<<x>> \o r) = r
OBVIOUS

LEMMA Nothing ==
    /\ << >> \in Seq(Line)
    /\ \A s \in Seq(Line) : << >> \o s = s /\ s \o << >> = s
OBVIOUS

LEMMA Asked == ASSUME SockOK PROVE Requests \in Seq(Line) /\ Answers \in Seq(Line)
<1>1. m_deferred \o m_tick_pending \in Seq(Line) BY ConcatProperties DEF SockOK
<1>2. (m_deferred \o m_tick_pending) \o m_lines \in Seq(Line) BY <1>1, ConcatProperties DEF SockOK
<1>3. written \o m_outbuf \in Seq(Line) BY ConcatProperties DEF SockOK
<1> QED BY <1>2, <1>3 DEF Requests, Answers

(* how the seam's answers look to the server                               *)
LEMMA Given ==
    ASSUME SockOK, NEW line \in Line
    PROVE  /\ Kept(m_outbuf) => Answers' = Answers
           /\ Kept(Append(m_outbuf, line)) => Answers' = Append(Answers, line)
           /\ Dropped(Append(m_outbuf, line)) =>
                Answers' \in Server!Prefixes(Append(Answers, line))
<1>1. written \o Append(m_outbuf, line) = Append(Answers, line) BY Appended DEF SockOK, Answers
<1>2. ASSUME NEW out, Dropped(out) PROVE Answers' \in Server!Prefixes(written \o out)
  <2>1. written' \in Seq(Line) /\ m_outbuf' = << >> BY <1>2 DEF Dropped, clear_session
  <2>2. Answers' = written' BY <2>1, Nothing DEF Answers
  <2>3. PICK k \in 0 .. Len(written \o out) : written' = SubSeq(written \o out, 1, k)
        BY <1>2 DEF Dropped
  <2> QED BY <2>2, <2>3 DEF Server!Prefixes
<1>3. \A out : Kept(out) => Answers' = written \o out BY DEF Kept, Answers
<1> QED BY <1>1, <1>2, <1>3 DEF Answers

LEMMA Emptied == clear_session => Requests' = << >> /\ client_connected' = FALSE
<1>1. << >> \o << >> \o << >> = << >> BY Nothing
<1> QED BY <1>1 DEF clear_session, Requests

(* the three ways a step of the seam is one of the server                  *)
LEMMA IsService ==
    ASSUME SockOK, client_connected = TRUE, NEW line \in Line, NEW r \in Seq(Line),
           Requests = <<line>> \o r, Requests' = r, Kept(Append(m_outbuf, line)),
           world' = world \o Server!Effect(line), by_hand' = by_hand
    PROVE  Server!Service
<1>1. Requests # << >> /\ Head(Requests) = line /\ Requests' = Tail(Requests) BY Headed
<1>2. Answers' = Append(Answers, Head(Requests)) BY <1>1, Given
<1>3. client_connected' = client_connected BY DEF Kept
<1> QED BY <1>1, <1>2, <1>3 DEF Server!Service, Answers

LEMMA IsLastService ==
    ASSUME SockOK, client_connected = TRUE, NEW line \in Line, NEW r \in Seq(Line),
           Requests = <<line>> \o r, Dropped(Append(m_outbuf, line)),
           world' = world \o Server!Effect(line), by_hand' = by_hand
    PROVE  Server!Close
<1>1. Requests # << >> /\ Head(Requests) = line BY Headed
<1>2. Answers' \in Server!Prefixes(Append(Answers, Head(Requests))) BY <1>1, Given
<1>3. client_connected' = FALSE /\ Requests' = << >> BY Emptied DEF Dropped
<1> QED BY <1>1, <1>2, <1>3 DEF Server!Close, Answers

LEMMA IsClose ==
    ASSUME SockOK, client_connected = TRUE, Dropped(m_outbuf), UNCHANGED <<world, by_hand>>
    PROVE  Server!Close
<1>1. Answers' \in Server!Prefixes(Answers)
  <2>1. written' \in Seq(Line) /\ m_outbuf' = << >> BY DEF Dropped, clear_session
  <2>2. Answers' = written' BY <2>1, Nothing DEF Answers
  <2>3. PICK k \in 0 .. Len(written \o m_outbuf) : written' = SubSeq(written \o m_outbuf, 1, k)
        BY DEF Dropped
  <2> QED BY <2>2, <2>3 DEF Server!Prefixes, Answers
<1>2. client_connected' = FALSE /\ Requests' = << >> BY Emptied DEF Dropped
<1> QED BY <1>1, <1>2 DEF Server!Close, Answers

(* a step the server does not see                                          *)
LEMMA IsIdle ==
    ASSUME client_connected' = client_connected, Requests' = Requests, Answers' = Answers,
           UNCHANGED <<world, by_hand>>
    PROVE  UNCHANGED Server!vars
BY DEF Server!vars, Answers

LEMMA AsksNoMore == ASSUME UNCHANGED sockVars PROVE Requests' = Requests /\ Answers' = Answers
BY DEF sockVars, Requests, Answers

LEMMA AcceptServes ==
    ASSUME SockInv, HostInv, accept_pending PROVE Server!Open \/ UNCHANGED Server!vars
<1>1. /\ client_connected' = (client_connected \/ backlog)
      /\ by_hand' = (by_hand /\ ~(backlog /\ ~client_connected))
      /\ UNCHANGED <<world, m_deferred, m_tick_pending, m_lines, written, m_outbuf>>
      BY DEF accept_pending
<1>2. backlog \in BOOLEAN /\ client_connected \in BOOLEAN /\ by_hand \in BOOLEAN
      BY DEF SockInv, SockOK, HostInv, HostOK
<1>3. Requests' = Requests /\ Answers' = Answers BY <1>1 DEF Requests, Answers
<1>4. CASE backlog /\ ~client_connected
  <2>1. client_connected' = TRUE /\ by_hand' = FALSE BY <1>1, <1>2, <1>4
  <2> QED BY <1>1, <1>3, <1>4, <2>1 DEF Server!Open, Answers
<1>5. CASE ~(backlog /\ ~client_connected)
  <2>1. client_connected' = client_connected /\ by_hand' = by_hand BY <1>1, <1>2, <1>5
  <2> QED BY <1>1, <1>3, <2>1, IsIdle
<1> QED BY <1>4, <1>5

LEMMA ReadServes ==
    ASSUME SockInv, HostInv, read_client PROVE Server!Arrive \/ Server!Close
<1>0. SockOK /\ client_connected = TRUE BY DEF SockInv, SockOK, HostInv, Places, read_client
<1>1. UNCHANGED <<world, by_hand>> BY DEF read_client, hostVars
<1>2. PICK k \in 0 .. Len(wire) :
         \/ drop_client
         \/ /\ m_lines' = m_lines \o SubSeq(wire, 1, k)
            /\ UNCHANGED <<written, client_connected, m_deferred, m_tick_pending, m_outbuf>>
      BY DEF read_client
<1>3. CASE drop_client
  <2>1. Dropped(m_outbuf) BY <1>0, <1>3, DropsAll DEF SockOK
  <2> QED BY <1>0, <1>1, <2>1, IsClose
<1>4. CASE ~drop_client
  <2> DEFINE new == SubSeq(wire, 1, k)
  <2>1. new \in Seq(Line) BY <1>0, Split DEF SockOK
  <2> HIDE DEF new
  <2>2. /\ m_lines' = m_lines \o new
        /\ UNCHANGED <<written, client_connected, m_deferred, m_tick_pending, m_outbuf>>
        BY <1>2, <1>4 DEF new
  <2>3. Requests' = Requests \o new
    <3>1. m_deferred \o m_tick_pending \in Seq(Line) BY <1>0, ConcatProperties DEF SockOK
    <3>2. (m_deferred \o m_tick_pending) \o (m_lines \o new)
            = ((m_deferred \o m_tick_pending) \o m_lines) \o new
          BY <1>0, <2>1, <3>1, Associates DEF SockOK
    <3> QED BY <2>2, <3>2 DEF Requests
  <2>4. Requests \in Seq(Line) BY <1>0, Asked
  <2>5. /\ Requests' \in Seq(Line) /\ Len(Requests) \in 0 .. Len(Requests')
        /\ SubSeq(Requests', 1, Len(Requests)) = Requests
        BY <2>1, <2>3, <2>4, Continued
  <2>6. Len(Requests) <= Len(Requests') BY <2>5
  <2>7. Answers' = Answers BY <2>2 DEF Answers
  <2> QED BY <1>0, <1>1, <2>2, <2>5, <2>6, <2>7 DEF Server!Arrive, Answers
<1> QED BY <1>3, <1>4

(* a request of no effect                                                  *)
LEMMA NoEffect ==
    ASSUME HostOK, NEW line, line.op \in {"READ", "SHUTDOWN"}, world' = world
    PROVE  world' = world \o Server!Effect(line)
<1>1. Server!Effect(line) = << >> BY DEF Server!Effect
<1>2. world \o << >> = world BY DEF HostOK
<1> QED BY <1>1, <1>2

LEMMA ClassifyServes ==
    ASSUME SockInv, HostInv, classify_line
    PROVE  Server!Service \/ Server!Close \/ UNCHANGED Server!vars
<1> DEFINE line == Head(m_lines) rest == Tail(m_lines)
<1>0. /\ SockOK /\ HostOK /\ client_connected = TRUE /\ m_tick_pending = << >> /\ m_lines # << >>
      /\ UNCHANGED <<world, by_hand>>
      BY DEF SockInv, SockOK, HostInv, Places, classify_line, hostVars
<1>1. /\ line \in Line /\ rest \in Seq(Line) /\ m_lines = <<line>> \o rest /\ <<line>> \in Seq(Line)
      /\ m_deferred \in Seq(Line)
      BY <1>0, Unqueued DEF SockOK
<1>2. \/ /\ m_tick_pending' = <<line>> /\ m_lines' = rest
         /\ UNCHANGED <<written, client_connected, m_deferred, m_outbuf>>
      \/ /\ m_deferred' = Append(m_deferred, line) /\ m_lines' = rest
         /\ UNCHANGED <<written, client_connected, m_tick_pending, m_outbuf>>
      \/ /\ line.op = "READ" /\ m_deferred = << >> /\ queue_response(line)
         /\ queues(rest, m_deferred, m_tick_pending)
      \/ line.op = "SHUTDOWN" /\ m_deferred = << >> /\ shut_down(line)
      BY DEF classify_line, defers
<1> HIDE DEF line, rest
<1>3. Requests = m_deferred \o (<<line>> \o rest)
  <2>1. m_deferred \o << >> = m_deferred BY <1>1, Nothing
  <2> QED BY <1>0, <1>1, <2>1 DEF Requests
<1>4. (m_deferred \o <<line>>) \o rest = Requests BY <1>1, <1>3, Associates
<1>5. CASE /\ m_tick_pending' = <<line>> /\ m_lines' = rest
           /\ UNCHANGED <<written, client_connected, m_deferred, m_outbuf>>
  <2>1. Requests' = Requests BY <1>4, <1>5 DEF Requests
  <2>2. Answers' = Answers BY <1>5 DEF Answers
  <2> QED BY <1>0, <1>5, <2>1, <2>2, IsIdle
<1>6. CASE /\ m_deferred' = Append(m_deferred, line) /\ m_lines' = rest
           /\ UNCHANGED <<written, client_connected, m_tick_pending, m_outbuf>>
  <2>1. /\ Append(m_deferred, line) = m_deferred \o <<line>>
        /\ Append(m_deferred, line) \in Seq(Line)
        BY <1>1, Appended
  <2>2. m_deferred' \o << >> = m_deferred \o <<line>> BY <1>6, <2>1, Nothing
  <2>3. Requests' = Requests BY <1>0, <1>4, <1>6, <2>2 DEF Requests
  <2>4. Answers' = Answers BY <1>6 DEF Answers
  <2> QED BY <1>0, <1>6, <2>3, <2>4, IsIdle
<1>7. ASSUME m_deferred = << >> PROVE Requests = <<line>> \o rest
  <2>1. <<line>> \o rest \in Seq(Line) BY <1>1, Headed
  <2> QED BY <1>3, <1>7, <2>1, Nothing
<1>8. CASE /\ line.op = "READ" /\ m_deferred = << >> /\ queue_response(line)
           /\ queues(rest, m_deferred, m_tick_pending)
  <2>1. world' = world \o Server!Effect(line) BY <1>0, <1>8, NoEffect
  <2>2. CASE Kept(Append(m_outbuf, line))
    <3>1. m_lines' = rest /\ m_deferred' = << >> /\ m_tick_pending' = << >>
          BY <1>0, <1>8, <2>2 DEF queues, Kept
    <3>2. << >> \o << >> = << >> /\ << >> \o rest = rest BY <1>1, Nothing
    <3>3. Requests' = rest BY <3>1, <3>2 DEF Requests
    <3> QED BY <1>0, <1>1, <1>7, <1>8, <2>1, <2>2, <3>3, IsService
  <2>3. CASE Dropped(Append(m_outbuf, line))
        BY <1>0, <1>1, <1>7, <1>8, <2>1, <2>3, IsLastService
  <2> QED BY <1>0, <1>1, <1>8, <2>2, <2>3, Replied DEF SockOK
<1>9. CASE line.op = "SHUTDOWN" /\ m_deferred = << >> /\ shut_down(line)
  <2>1. world' = world \o Server!Effect(line) BY <1>0, <1>9, NoEffect
  <2>2. Dropped(Append(m_outbuf, line)) BY <1>0, <1>1, <1>9, SaidBye DEF SockOK
  <2> QED BY <1>0, <1>1, <1>7, <1>9, <2>1, <2>2, IsLastService
<1> QED BY <1>2, <1>5, <1>6, <1>8, <1>9

LEMMA PumpServes ==
    ASSUME SockInv, HostInv, pump_ends PROVE Server!Close \/ UNCHANGED Server!vars
<1>0. /\ SockOK /\ client_connected = TRUE /\ UNCHANGED <<world, by_hand>>
      /\ flush_outbuf(m_outbuf) /\ queues(m_lines, m_deferred, m_tick_pending)
      BY DEF SockInv, SockOK, HostInv, Places, pump_ends, hostVars
<1>1. Kept(m_outbuf) \/ Dropped(m_outbuf) BY <1>0, Flushed DEF SockOK
<1>2. CASE Kept(m_outbuf)
  <2>1. Answers' = Answers BY <1>2 DEF Kept, Answers
  <2>2. /\ client_connected' = client_connected
        /\ UNCHANGED <<m_lines, m_deferred, m_tick_pending>>
        BY <1>0, <1>2 DEF Kept, queues
  <2>3. Requests' = Requests BY <2>2 DEF Requests
  <2> QED BY <1>0, <2>1, <2>2, <2>3, IsIdle
<1>3. CASE Dropped(m_outbuf) BY <1>0, <1>3, IsClose
<1> QED BY <1>1, <1>2, <1>3

LEMMA DrainServes ==
    ASSUME SockInv, HostInv, drain_boundary PROVE Server!Service \/ Server!Close
<1> DEFINE line == Head(m_deferred) rest == Tail(m_deferred)
<1>0. /\ SockOK /\ HostOK /\ client_connected = TRUE /\ m_deferred # << >> /\ by_hand' = by_hand
      BY DEF SockInv, SockOK, HostInv, drain_boundary, hostVars
<1>1. /\ line \in Line /\ rest \in Seq(Line) /\ m_deferred = <<line>> \o rest
      /\ <<line>> \in Seq(Line) /\ m_tick_pending \in Seq(Line) /\ m_lines \in Seq(Line)
      BY <1>0, Unqueued DEF SockOK
<1>2. line.op # "TICK"
  <2>1. 1 \in DOMAIN m_deferred /\ m_deferred[1] = line
    <3>1. Len(m_deferred) \in Nat \ {0} BY <1>0, Unqueued DEF SockOK
    <3> QED BY <1>0, <3>1 DEF SockOK
  <2> QED BY <2>1 DEF SockInv, Sorted
<1>3. /\ IF line.op = "COMMAND" THEN world' = Append(world, line) ELSE world' = world
      /\ \/ shut_down(line)
         \/ queue_response(line) /\ queues(m_lines, rest, m_tick_pending)
      BY DEF drain_boundary
<1> HIDE DEF line, rest
<1>4. world' = world \o Server!Effect(line)
  <2>1. CASE line.op = "COMMAND"
    <3>1. Server!Effect(line) = <<line>> BY <2>1 DEF Server!Effect
    <3>2. Append(world, line) = world \o <<line>> BY <1>0, <1>1, Appended DEF HostOK
    <3> QED BY <1>3, <2>1, <3>1, <3>2
  <2>2. CASE line.op # "COMMAND"
    <3>1. line.op \in {"READ", "SHUTDOWN"} BY <1>1, <1>2, <2>2 DEF Line, Op
    <3> QED BY <1>0, <1>3, <2>2, <3>1, NoEffect
  <2> QED BY <2>1, <2>2
<1> DEFINE left == (rest \o m_tick_pending) \o m_lines
<1>5. left \in Seq(Line)
  <2>1. rest \o m_tick_pending \in Seq(Line) BY <1>1, ConcatProperties
  <2> QED BY <1>1, <2>1, ConcatProperties
<1>6. Requests = <<line>> \o left
  <2>1. (<<line>> \o rest) \o m_tick_pending = <<line>> \o (rest \o m_tick_pending)
        BY <1>1, Associates
  <2>2. rest \o m_tick_pending \in Seq(Line) BY <1>1, ConcatProperties
  <2>3. (<<line>> \o (rest \o m_tick_pending)) \o m_lines = <<line>> \o left
        BY <1>1, <2>2, Associates
  <2> HIDE DEF left
  <2> QED BY <1>1, <2>1, <2>3 DEF Requests
<1>7. CASE shut_down(line)
  <2>1. Dropped(Append(m_outbuf, line)) BY <1>0, <1>1, <1>7, SaidBye DEF SockOK
  <2> HIDE DEF left
  <2> QED BY <1>0, <1>1, <1>4, <1>5, <1>6, <2>1, IsLastService
<1>8. CASE queue_response(line) /\ queues(m_lines, rest, m_tick_pending)
  <2>1. CASE Kept(Append(m_outbuf, line))
    <3>1. m_lines' = m_lines /\ m_deferred' = rest /\ m_tick_pending' = m_tick_pending
          BY <1>0, <1>8, <2>1 DEF queues, Kept
    <3>2. Requests' = left BY <3>1 DEF Requests
    <3> HIDE DEF left
    <3> QED BY <1>0, <1>1, <1>4, <1>5, <1>6, <2>1, <3>2, IsService
  <2>2. CASE Dropped(Append(m_outbuf, line))
    <3> HIDE DEF left
    <3> QED BY <1>0, <1>1, <1>4, <1>5, <1>6, <2>2, IsLastService
  <2> QED BY <1>0, <1>1, <1>8, <2>1, <2>2, Replied DEF SockOK
<1> QED BY <1>3, <1>7, <1>8

LEMMA EconomyServes ==
    ASSUME SockInv, HostInv, step_economy
    PROVE  Server!Service \/ Server!Close \/ Server!Quarter
<1>0. /\ SockOK /\ HostOK /\ pc = "drain" /\ by_hand' = by_hand /\ world' = Append(world, quarter)
      /\ client_connected \in BOOLEAN /\ by_hand \in BOOLEAN
      BY DEF SockInv, SockOK, HostInv, HostOK, step_economy
<1>1. world' = Append(world, Server!quarter) BY <1>0 DEF Server!quarter, quarter
<1>2. CASE m_tick_pending = << >>
  <2>1. UNCHANGED sockVars BY <1>2 DEF step_economy
  <2>2. Requests' = Requests /\ Answers' = Answers /\ client_connected' = client_connected
        BY <2>1, AsksNoMore DEF sockVars
  <2>3. ~(client_connected /\ ~by_hand) BY <1>0, <1>2, Owed
  <2> QED BY <1>0, <1>1, <2>2, <2>3 DEF Server!Quarter, Answers
<1>3. CASE m_tick_pending # << >>
  <2> DEFINE line == Head(m_tick_pending)
  <2>1. client_connected = TRUE /\ m_deferred = << >>
        BY <1>0, <1>3 DEF SockInv, Unserved, step_economy
  <2>2. line \in Line /\ line.op = "TICK" /\ m_tick_pending = <<line>> /\ m_lines \in Seq(Line)
    <3>1. line \in Line /\ line.op = "TICK" /\ Len(m_tick_pending) = 1
          BY <1>0, <1>3, Unqueued DEF SockInv, SockOK, Sorted
    <3>2. m_tick_pending = <<line>>
      <4>1. /\ Tail(m_tick_pending) \in Seq(Line) /\ Len(Tail(m_tick_pending)) = Len(m_tick_pending) - 1
            /\ m_tick_pending = <<Head(m_tick_pending)>> \o Tail(m_tick_pending)
            BY <1>0, <1>3, Unqueued DEF SockOK
      <4>2. Tail(m_tick_pending) = << >> BY <3>1, <4>1, EmptySeq
      <4>3. <<line>> \in Seq(Line) BY <3>1
      <4> HIDE DEF line
      <4>4. <<line>> \o << >> = <<line>> BY <4>3, Nothing
      <4> QED BY <4>1, <4>2, <4>4 DEF line
    <3> QED BY <1>0, <3>1, <3>2 DEF SockOK
  <2>3. queue_response(line) /\ queues(m_lines, m_deferred, << >>)
        BY <1>3 DEF step_economy
  <2> HIDE DEF line
  <2>4. world' = world \o Server!Effect(line)
    <3>1. Server!Effect(line) = <<Server!quarter>> BY <2>2 DEF Server!Effect
    <3>2. Append(world, quarter) = world \o <<quarter>> BY <1>0 DEF HostOK
    <3> QED BY <1>0, <3>1, <3>2 DEF Server!quarter, quarter
  <2>5. Requests = <<line>> \o m_lines
    <3>1. <<line>> \in Seq(Line) BY <2>2
    <3>2. << >> \o <<line>> = <<line>> BY <3>1, Nothing
    <3> QED BY <2>1, <2>2, <3>2 DEF Requests
  <2>6. CASE Kept(Append(m_outbuf, line))
    <3>1. m_lines' = m_lines /\ m_deferred' = << >> /\ m_tick_pending' = << >>
          BY <2>1, <2>3, <2>6 DEF queues, Kept
    <3>2. << >> \o << >> = << >> /\ << >> \o m_lines = m_lines BY <2>2, Nothing
    <3>3. Requests' = m_lines BY <3>1, <3>2 DEF Requests
    <3> QED BY <1>0, <2>1, <2>2, <2>4, <2>5, <2>6, <3>3, IsService
  <2>7. CASE Dropped(Append(m_outbuf, line))
        BY <1>0, <2>1, <2>2, <2>4, <2>5, <2>7, IsLastService
  <2> QED BY <1>0, <2>2, <2>3, <2>6, <2>7, Replied DEF SockOK
<1> QED BY <1>2, <1>3

LEMMA OthersServe ==
    ASSUME SockInv, PeerNext \/ host_events \/ boundary \/ set_speed \/ UNCHANGED vars
    PROVE  Server!Release \/ UNCHANGED Server!vars
<1>1. CASE PeerNext
  <2>1. /\ UNCHANGED <<client_connected, m_lines, m_deferred, m_tick_pending, written, m_outbuf>>
        /\ UNCHANGED <<world, by_hand>>
        BY <1>1 DEF PeerNext, connect, send_line, peer_closes, sockVars, hostVars
  <2>2. Requests' = Requests /\ Answers' = Answers BY <2>1 DEF Requests, Answers
  <2> QED BY <2>1, <2>2, IsIdle
<1>2. CASE host_events \/ boundary \/ UNCHANGED vars
  <2>1. UNCHANGED sockVars /\ UNCHANGED <<world, by_hand>>
        BY <1>2 DEF host_events, boundary, vars, hostVars
  <2>2. Requests' = Requests /\ Answers' = Answers /\ client_connected' = client_connected
        BY <2>1, AsksNoMore DEF sockVars
  <2> QED BY <2>1, <2>2, IsIdle
<1>3. CASE set_speed
  <2>1. UNCHANGED sockVars /\ world' = world /\ by_hand' = TRUE BY <1>3 DEF set_speed
  <2>2. Requests' = Requests /\ Answers' = Answers /\ client_connected' = client_connected
        BY <2>1, AsksNoMore DEF sockVars
  <2> QED BY <2>1, <2>2 DEF Server!Release, Answers
<1> QED BY <1>1, <1>2, <1>3

LEMMA InitServes == Init => Server!ServeInit
<1> SUFFICES ASSUME Init PROVE Server!ServeInit OBVIOUS
<1>1. << >> \o << >> = << >> BY Nothing
<1>2. Requests = << >> BY <1>1 DEF Init, Requests
<1> QED BY <1>1, <1>2 DEF Init, Server!ServeInit

LEMMA StepServes == SeamInv /\ [Next]_vars => [Server!ServeNext]_(Server!vars)
<1> SUFFICES ASSUME SeamInv, [Next]_vars PROVE Server!ServeNext \/ UNCHANGED Server!vars OBVIOUS
<1>1. SockInv /\ HostInv BY SeamParts
<1>2. CASE PeerNext \/ host_events \/ boundary \/ set_speed \/ UNCHANGED vars
      BY <1>1, <1>2, OthersServe DEF Server!ServeNext
<1>3. CASE accept_pending BY <1>1, <1>3, AcceptServes DEF Server!ServeNext
<1>4. CASE read_client BY <1>1, <1>4, ReadServes DEF Server!ServeNext
<1>5. CASE classify_line BY <1>1, <1>5, ClassifyServes DEF Server!ServeNext
<1>6. CASE pump_ends BY <1>1, <1>6, PumpServes DEF Server!ServeNext
<1>7. CASE drain_boundary BY <1>1, <1>7, DrainServes DEF Server!ServeNext
<1>8. CASE step_economy BY <1>1, <1>8, EconomyServes DEF Server!ServeNext
<1> QED BY <1>2, <1>3, <1>4, <1>5, <1>6, <1>7, <1>8 DEF Next, FrameNext

(* The rendered game's seam (core/agent_seam.cpp and app::run) implements  *)
(* the headless server (run_serve): whatever is deferred to a quarter's    *)
(* boundary, cut off by a cap or lost with a connection, the requests are  *)
(* served in the order they came, each answered once and in that order,    *)
(* and the world takes a quarter for each TICK and for nothing else, until *)
(* a hand on the keyboard takes the clock.                                 *)
THEOREM SeamImplementsServer == Spec => ImplementsServer
<1>1. Spec => []SeamInv BY SeamInvariant
<1>2. Spec => Init /\ [][Next]_vars BY PTL DEF Spec
<1>3. Server!ServeInit /\ [][Server!ServeNext]_(Server!vars) => Server!ServeSpec
      BY DEF Server!ServeSpec
<1> QED BY <1>1, <1>2, <1>3, InitServes, StepServes, PTL DEF ImplementsServer

-----------------------------------------------------------------------------
(* The transcript replays                                                  *)

(* Every quarter the game has counted and every command it has recorded is *)
(* in the world, nothing else, and no stamp is of a quarter still to come. *)
Stamped ==
    /\ Len(world) = m_last_econ_tick + Len(m_transcript)
    /\ \A i \in DOMAIN m_transcript : m_transcript[i].tick <= m_last_econ_tick

ReplayInv == TranscriptReplays /\ Stamped

LEMMA InitReplays == Init => ReplayInv
<1> SUFFICES ASSUME Init PROVE ReplayInv OBVIOUS
<1>1. DOMAIN m_transcript = {} /\ DOMAIN world = {} /\ Len(world) = 0 /\ Len(m_transcript) = 0
      /\ m_last_econ_tick = 0
      BY DEF Init
<1> QED BY <1>1 DEF ReplayInv, TranscriptReplays, Stamped

(* a transcript and the world, as they are bound by their types            *)
LEMMA Extents ==
    ASSUME HostOK
    PROVE  /\ Len(world) \in Nat /\ DOMAIN world = 1 .. Len(world)
           /\ Len(m_transcript) \in Nat /\ DOMAIN m_transcript = 1 .. Len(m_transcript)
           /\ \A i \in DOMAIN m_transcript :
                m_transcript[i].tick \in Nat /\ replayed_at(i) \in Nat
           /\ m_last_econ_tick \in Nat
<1>1. /\ world \in Seq(Line \cup {quarter}) /\ m_transcript \in Seq([tick : Nat, line : Line])
      /\ m_last_econ_tick \in Nat
      BY DEF HostOK
<1>2. /\ Len(world) \in Nat /\ DOMAIN world = 1 .. Len(world)
      /\ Len(m_transcript) \in Nat /\ DOMAIN m_transcript = 1 .. Len(m_transcript)
      BY <1>1, LenProperties
<1>3. \A i \in DOMAIN m_transcript : m_transcript[i] \in [tick : Nat, line : Line]
      BY <1>1, <1>2, ElementOfSeq
<1> QED BY <1>1, <1>2, <1>3 DEF replayed_at

LEMMA SteppedReplays ==
    ASSUME HostOK, ReplayInv, world' = Append(world, quarter), m_transcript' = m_transcript,
           m_last_econ_tick' = m_last_econ_tick + 1
    PROVE  ReplayInv'
<1>0. /\ world \in Seq(Line \cup {quarter}) /\ quarter \in Line \cup {quarter} BY DEF HostOK
<1> DEFINE n == Len(world)
<1>1. /\ Len(world') = n + 1 /\ world'[n + 1] = quarter
      /\ \A k \in 1 .. n : world'[k] = world[k]
      /\ DOMAIN world' = 1 .. n + 1
  <2>1. world' \in Seq(Line \cup {quarter}) /\ Len(world') = n + 1 BY <1>0, Appended
  <2> QED BY <1>0, <2>1, Appended, LenProperties
<1>2. \A i : replayed_at(i)' = replayed_at(i) BY DEF replayed_at
<1>3. ASSUME NEW i \in DOMAIN m_transcript'
      PROVE  replayed_at(i)' \in DOMAIN world' /\ world'[replayed_at(i)'] = m_transcript'[i].line
      BY <1>1, <1>2, Extents DEF ReplayInv, TranscriptReplays
<1>4. \A i, j \in DOMAIN m_transcript' : i < j => m_transcript'[i].tick <= m_transcript'[j].tick
      BY DEF ReplayInv, TranscriptReplays
<1>5. ASSUME NEW k \in DOMAIN world', world'[k] # quarter
      PROVE  \E i \in DOMAIN m_transcript' : k = replayed_at(i)'
  <2>1. k \in 1 .. n /\ world[k] # quarter BY <1>1, <1>5, Extents
  <2>2. PICK i \in DOMAIN m_transcript : k = replayed_at(i)
        BY <2>1, Extents DEF ReplayInv, TranscriptReplays
  <2> QED BY <2>2, <1>2
<1>6. TranscriptReplays' BY <1>3, <1>4, <1>5 DEF TranscriptReplays
<1>7. Stamped'
  <2>1. Len(world') = m_last_econ_tick' + Len(m_transcript')
        BY <1>1, Extents DEF ReplayInv, Stamped
  <2>2. \A i \in DOMAIN m_transcript' : m_transcript'[i].tick <= m_last_econ_tick'
        BY Extents DEF ReplayInv, Stamped
  <2> QED BY <2>1, <2>2 DEF Stamped
<1> QED BY <1>6, <1>7 DEF ReplayInv

LEMMA CommandReplays ==
    ASSUME HostOK, ReplayInv, NEW line \in Line, world' = Append(world, line),
           m_transcript' = Append(m_transcript, [tick |-> stamp, line |-> line]),
           m_last_econ_tick' = m_last_econ_tick
    PROVE  ReplayInv'
<1> DEFINE n == Len(world) m == Len(m_transcript)
           entry == [tick |-> stamp, line |-> line]
<1>0. /\ world \in Seq(Line \cup {quarter}) /\ m_transcript \in Seq([tick : Nat, line : Line])
      /\ m_last_econ_tick \in Nat
      BY DEF HostOK
<1>1. entry \in [tick : Nat, line : Line] BY <1>0 DEF stamp
<1>2. /\ Len(world') = n + 1 /\ world'[n + 1] = line
      /\ \A k \in 1 .. n : world'[k] = world[k]
      /\ DOMAIN world' = 1 .. n + 1
  <2>1. world' \in Seq(Line \cup {quarter}) /\ Len(world') = n + 1 BY <1>0, Appended
  <2> QED BY <1>0, <2>1, Appended, LenProperties
<1>3. entry.tick = m_last_econ_tick /\ entry.line = line BY DEF stamp
<1> HIDE DEF entry
<1>4. /\ Len(m_transcript') = m + 1 /\ m_transcript'[m + 1] = entry
      /\ \A i \in 1 .. m : m_transcript'[i] = m_transcript[i]
      /\ DOMAIN m_transcript' = 1 .. m + 1
  <2>0. m_transcript' = Append(m_transcript, entry) BY DEF entry
  <2>1. m_transcript' \in Seq([tick : Nat, line : Line]) /\ Len(m_transcript') = m + 1
        BY <1>0, <1>1, <2>0, Appended
  <2> QED BY <1>0, <1>1, <2>0, <2>1, Appended, LenProperties
<1>5. \A i \in 1 .. m : replayed_at(i)' = replayed_at(i) BY <1>4 DEF replayed_at
<1>6. n = m_last_econ_tick + m /\ \A i \in 1 .. m : m_transcript[i].tick <= m_last_econ_tick
      BY Extents DEF ReplayInv, Stamped
<1>7. \A i : i = m + 1 => replayed_at(i)' = n + 1
      BY <1>0, <1>3, <1>4, <1>6, Extents DEF replayed_at
<1>8. ASSUME NEW i \in DOMAIN m_transcript'
      PROVE  replayed_at(i)' \in DOMAIN world' /\ world'[replayed_at(i)'] = m_transcript'[i].line
  <2>1. CASE i = m + 1 BY <2>1, <1>2, <1>3, <1>4, <1>7, Extents
  <2>2. CASE i \in 1 .. m
        BY <2>2, <1>2, <1>4, <1>5, Extents DEF ReplayInv, TranscriptReplays
  <2> QED BY <1>4, <2>1, <2>2, Extents
<1>9. ASSUME NEW i \in DOMAIN m_transcript', NEW j \in DOMAIN m_transcript', i < j
      PROVE  m_transcript'[i].tick <= m_transcript'[j].tick
  <2>1. i \in 1 .. m BY <1>4, <1>9, Extents
  <2>2. CASE j = m + 1 BY <2>1, <2>2, <1>3, <1>4, <1>6
  <2>3. CASE j \in 1 .. m
        BY <1>9, <2>1, <2>3, <1>4, Extents DEF ReplayInv, TranscriptReplays
  <2> QED BY <1>4, <2>2, <2>3, Extents
<1>10. ASSUME NEW k \in DOMAIN world', world'[k] # quarter
       PROVE  \E i \in DOMAIN m_transcript' : k = replayed_at(i)'
  <2>1. CASE k = n + 1 BY <2>1, <1>4, <1>7, Extents
  <2>2. CASE k \in 1 .. n
    <3>1. world[k] # quarter BY <2>2, <1>2, <1>10
    <3>2. PICK i \in DOMAIN m_transcript : k = replayed_at(i)
          BY <2>2, <3>1, Extents DEF ReplayInv, TranscriptReplays
    <3> QED BY <3>2, <1>4, <1>5, Extents
  <2> QED BY <1>2, <2>1, <2>2, Extents
<1>11. TranscriptReplays' BY <1>8, <1>9, <1>10 DEF TranscriptReplays
<1>12. Stamped'
  <2>1. Len(world') = m_last_econ_tick' + Len(m_transcript')
        BY <1>2, <1>4, <1>6, Extents
  <2>2. ASSUME NEW i \in DOMAIN m_transcript' PROVE m_transcript'[i].tick <= m_last_econ_tick'
        BY <1>0, <1>3, <1>4, <1>6, Extents
  <2> QED BY <2>1, <2>2 DEF Stamped
<1> QED BY <1>11, <1>12 DEF ReplayInv

LEMMA StepReplays == SeamInv /\ ReplayInv /\ [Next]_vars => ReplayInv'
<1> SUFFICES ASSUME SeamInv, ReplayInv, [Next]_vars PROVE ReplayInv' OBVIOUS
<1>0. SockInv /\ HostOK BY SeamParts DEF HostInv
<1>1. CASE UNCHANGED <<world, m_transcript, m_last_econ_tick>>
      BY <1>1 DEF ReplayInv, TranscriptReplays, Stamped, replayed_at
<1>2. CASE drain_boundary
  <2> DEFINE line == Head(m_deferred)
  <2>1. line \in Line BY <1>0, <1>2, Unqueued DEF SockInv, SockOK, drain_boundary
  <2>2. /\ m_last_econ_tick' = m_last_econ_tick
        /\ IF line.op = "COMMAND"
           THEN /\ world' = Append(world, line)
                /\ m_transcript' = Append(m_transcript, [tick |-> stamp, line |-> line])
           ELSE UNCHANGED <<world, m_transcript>>
        BY <1>2 DEF drain_boundary, hostVars
  <2> HIDE DEF line
  <2>3. CASE line.op = "COMMAND" BY <1>0, <2>1, <2>2, <2>3, CommandReplays
  <2>4. CASE line.op # "COMMAND" BY <2>2, <2>4, <1>1
  <2> QED BY <2>3, <2>4
<1>3. CASE step_economy BY <1>0, <1>3, SteppedReplays DEF step_economy
<1>4. CASE \/ PeerNext \/ accept_pending \/ read_client \/ classify_line \/ pump_ends
           \/ host_events \/ boundary \/ set_speed \/ UNCHANGED vars
  <2>1. UNCHANGED <<world, m_transcript, m_last_econ_tick>>
    <3>1. CASE PeerNext BY <3>1 DEF PeerNext, connect, send_line, peer_closes, hostVars
    <3>2. CASE accept_pending \/ host_events BY <3>2 DEF accept_pending, host_events
    <3>3. CASE read_client \/ classify_line \/ pump_ends
          BY <3>3 DEF read_client, classify_line, pump_ends, hostVars
    <3>4. CASE boundary \/ set_speed \/ UNCHANGED vars
          BY <3>4 DEF boundary, set_speed, vars, hostVars
    <3> QED BY <1>4, <3>1, <3>2, <3>3, <3>4
  <2> QED BY <1>1, <2>1
<1> QED BY <1>2, <1>3, <1>4 DEF Next, FrameNext

(* The transcript names every command the world has seen, in the order it  *)
(* saw them, each stamped with the quarters stepped before it              *)
(* (drain_boundary, agent_seam.cpp): replaying it rebuilds the world.      *)
THEOREM SeamTranscript == Spec => []TranscriptReplays
<1>1. ReplayInv => TranscriptReplays BY DEF ReplayInv
<1> QED BY <1>1, SeamInvariant, InitReplays, StepReplays, PTL DEF Spec

=============================================================================
