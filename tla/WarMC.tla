------------------------------- MODULE WarMC -------------------------------
(* A small map for the model checker.                                      *)
EXTENDS War, TLC

CONSTANTS a, b, p1, p2, p3

\* Two nations; b has a province it can lose, a has only its last.
TwoNations == {a, b}
SmallTiles == (p1 :> 1 @@ p2 :> 1 @@ p3 :> 2)
TwoOwners == (p1 :> a @@ p2 :> b @@ p3 :> b)
=============================================================================
