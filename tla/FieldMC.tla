------------------------------ MODULE FieldMC ------------------------------
(* Two rows of three tiles for the model checker.                          *)
(*    1   2   3                                                            *)
(*      4   5   6                                                          *)
EXTENDS Field

Both(pairs) == pairs \cup {<<p[2], p[1]>> : p \in pairs}
Sides == Both({<<1, 2>>, <<2, 3>>, <<4, 5>>, <<5, 6>>, <<1, 4>>, <<2, 5>>, <<3, 6>>})
Neighbours == Sides \cup Both({<<2, 4>>, <<3, 5>>})

\* Nation 1's province is the west, nation 2's the east: tiles 3 and 6.
ProvinceOf == <<1, 1, 2, 1, 1, 2>>
Ground == <<1, 1, 2, 1, 1, 2>>
Home == <<1, 2>>

\* Two units of nation 1, one of each of the others, one more of nation 2 to come.
Owners == <<1, 1, 2, 3, 2>>
Bases == <<1, 1, 3, 5, 3>>
Start == <<1, 6, 3, 5>>
Foes == {<<1, 2>>, <<3, 1>>}
=============================================================================
