--------------------------- MODULE SurveyClockMC ---------------------------
(* Small bodies for the model checker.                                     *)
EXTENDS SurveyClock, TLC

CONSTANTS near, far

\* A small body whose regions outnumber its days of scanning, and a far one.
TwoBodies == {near, far}
Transits == (near :> 1 @@ far :> 3)
Scans == (near :> 2 @@ far :> 5)
Regions == (near :> 4 @@ far :> 3)
TwoSpeeds == <<1, 2>>
=============================================================================
