--------------------------- MODULE QuarterDaysMC ---------------------------
(* Small sites for the model checker.                                      *)
EXTENDS QuarterDays, TLC

CONSTANTS s1, s2

\* One site that spans two quarters and one that fits in a day.
TwoSites == {s1, s2}
TwoDurations == (s1 :> 4 @@ s2 :> 1)
=============================================================================
