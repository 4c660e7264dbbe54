---------------------------- MODULE GroundBakeMC ----------------------------
(***************************************************************************)
(* Small instances of GroundBake.  Workers move only before the two steps  *)
(* of the main thread that read what they write: pump, which takes the     *)
(* results, and Drained, which counts the waiting jobs.  At its other      *)
(* steps a worker's move could as well come later, except that a job taken *)
(* in the middle of a feed may be one that a more urgent job of the same   *)
(* feed would have passed: the proofs cover that order, the runs do not.   *)
(***************************************************************************)
EXTENDS GroundBake

CONSTANTS b1, b2, c1, c2, c3, w1

WorkersWhenRead ==
    (\E w \in Workers : running'[w] # running[w])
      => main = "idle" \/ (main = "land" /\ done = <<>>)

(* The lens alone: one body on screen, the player toggling it.  The game    *)
(* opens with no lens (m_ui.overlay is none), so the body is first drawn    *)
(* with its roads.                                                          *)
LensNext ==
    \/ MainStep \/ Open
    \/ \E hide \in BOOLEAN : (hide => view.active = Home) /\ tick(Home, hide, {})
    \/ \E w \in Workers : Take(w) \/ Finish(w)
LensSpec == Init /\ [][LensNext]_vars

=============================================================================
