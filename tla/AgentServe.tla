---------------------------- MODULE AgentServe ----------------------------
(***************************************************************************)
(* What an agent's session is promised, as the headless server keeps it    *)
(* (run_serve, main.cpp): its requests are serviced one at a time in the   *)
(* order they came, a COMMAND changes the world, a TICK steps it by one    *)
(* quarter, and every request is answered once, unless the session ends.   *)
(*                                                                         *)
(* A request is a record whose op tells what it asks; the world is the     *)
(* sequence of the commands and the quarters that made it what it is.      *)
(***************************************************************************)
EXTENDS Naturals, Sequences

CONSTANT Request

VARIABLES
    session,   \* a client is being served
    requests,  \* what it has asked and nobody has serviced
    answers,   \* the requests answered so far, over all sessions
    world,     \* the commands applied and the quarters stepped
    gate       \* the agent, while it is served, alone moves the clock

vars == <<session, requests, answers, world, gate>>

quarter == [op |-> "QUARTER"]

ServeInit == /\ session = FALSE /\ requests = << >> /\ answers = << >> /\ world = << >>
             /\ gate = TRUE

(* A new client is handed the clock.                                       *)
Open == /\ ~session /\ session' = TRUE /\ gate' = TRUE
        /\ UNCHANGED <<requests, answers, world>>

Arrive == /\ session
          /\ requests' \in Seq(Request) /\ Len(requests) <= Len(requests')
          /\ SubSeq(requests', 1, Len(requests)) = requests
          /\ UNCHANGED <<session, answers, world, gate>>

(* What servicing a request does to the world.                             *)
Effect(r) == CASE r.op = "COMMAND" -> <<r>>
               [] r.op = "TICK"    -> <<quarter>>
               [] OTHER            -> << >>

Service == /\ session /\ requests # << >>
           /\ requests' = Tail(requests)
           /\ world' = world \o Effect(Head(requests))
           /\ answers' = Append(answers, Head(requests))
           /\ UNCHANGED <<session, gate>>

Prefixes(s) == {SubSeq(s, 1, k) : k \in 0 .. Len(s)}

(* The session ends, perhaps on the request just serviced: requests not    *)
(* serviced are never serviced, answers not yet delivered never delivered. *)
Close == /\ session /\ session' = FALSE
         /\ requests' = << >> /\ UNCHANGED gate
         /\ \/ answers' \in Prefixes(answers) /\ UNCHANGED world
            \/ /\ requests # << >>
               /\ answers' \in Prefixes(Append(answers, Head(requests)))
               /\ world' = world \o Effect(Head(requests))

(* The host takes the clock back.                                          *)
Release == gate' = FALSE /\ UNCHANGED <<session, requests, answers, world>>

(* A quarter nobody asked for: the world steps on a clock of its own.      *)
Quarter == /\ ~(session /\ gate)
           /\ world' = Append(world, quarter)
           /\ UNCHANGED <<session, requests, answers, gate>>

ServeNext == Open \/ Arrive \/ Service \/ Close \/ Release \/ Quarter
ServeSpec == ServeInit /\ [][ServeNext]_vars
=============================================================================
