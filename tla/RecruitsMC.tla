----------------------------- MODULE RecruitsMC -----------------------------
(* A nation with a military base and an airbase, and a neighbour building an airbase,
   on two provinces, of which the first has two centres and the second has none. *)
EXTENDS Recruits, TLC

Kind == 1 :> "military_base" @@ 2 :> "airbase" @@ 3 :> "airbase"
BaseProvince == 1 :> 1 @@ 2 :> 1 @@ 3 :> 2
CentreProvince == 1 :> 1 @@ 2 :> 1
FirstOwner == 1 :> 1 @@ 2 :> 1 @@ 3 :> 2
FirstPopulation == 1 :> 1 @@ 2 :> 1
PerBase == [land |-> 2, air |-> 1, sea |-> 1]
=============================================================================
