-------------------------- MODULE SurveyClockProofs --------------------------
(***************************************************************************)
(* Proofs about SurveyClock: a survey shows what its schedule says for the *)
(* days since it was dispatched, whatever frames the days come in, and its *)
(* panel counts the days that are left.                                    *)
(***************************************************************************)
EXTENDS SurveyClock, WellFoundedInduction, TLAPS

-----------------------------------------------------------------------------
(* Recursion on a count.                                                   *)

LEMMA LeastNat ==
    ASSUME NEW S, S \subseteq Nat, S # {}
    PROVE  \E x \in S : \A y \in S : x <= y
<1> DEFINE below == {ss \in Nat \X Nat : ss[1] < ss[2]}
<1>1. IsWellFoundedOn(below, Nat) BY NatLessThanWellFounded DEF OpToRel
<1>2. PICK x \in S : \A y \in S : <<y, x>> \notin below
  <2> HIDE DEF below
  <2> QED BY <1>1, WFMin
<1>3. ASSUME NEW y \in S PROVE x <= y
  <2>1. x \in Nat /\ y \in Nat /\ <<y, x>> \in Nat \X Nat OBVIOUS
  <2>2. ~ <<y, x>>[1] < <<y, x>>[2] BY <1>2, <2>1
  <2> QED BY <2>1, <2>2
<1> QED BY <1>3

(* What holds of no turns, and of a turn more when it holds, holds of any. *)
LEMMA EveryTurn ==
    ASSUME NEW T, T \subseteq Nat, 0 \in T, \A n \in T : n + 1 \in T
    PROVE  T = Nat
<1>1. ASSUME Nat \ T # {} PROVE FALSE
  <2>1. PICK m \in Nat \ T : \A y \in Nat \ T : m <= y BY <1>1, LeastNat
  <2>2. m - 1 \in Nat /\ m - 1 \notin Nat \ T BY <2>1
  <2>3. (m - 1) + 1 \in T BY <2>2
  <2> QED BY <2>1, <2>3
<1> QED BY <1>1

(* A function that repeats the step F from x0.                             *)
Repeats(f, x0, F) == f[0] = x0 /\ \A n \in Nat : f[n + 1] = F[f[n]]

LEMMA Repetition ==
    ASSUME NEW S, NEW x0 \in S, NEW F \in [S -> S]
    PROVE  \E f \in [Nat -> S] : Repeats(f, x0, F)
<1> DEFINE upto(n) == {g \in [0 .. n -> S] : g[0] = x0 /\ \A i \in 0 .. n - 1 : g[i + 1] = F[g[i]]}
           T == {n \in Nat : upto(n) # {}}
<1>1. T = Nat
  <2>1. 0 \in T
    <3>1. [i \in 0 .. 0 |-> x0] \in upto(0) OBVIOUS
    <3> QED BY <3>1
  <2>2. ASSUME NEW n \in T PROVE n + 1 \in T
    <3>1. PICK g \in upto(n) : TRUE OBVIOUS
    <3> DEFINE h == [i \in 0 .. n + 1 |-> IF i = n + 1 THEN F[g[n]] ELSE g[i]]
    <3>2. n \in Nat /\ g \in [0 .. n -> S] OBVIOUS
    <3>3. h \in [0 .. n + 1 -> S] /\ h[0] = x0 BY <3>1, <3>2
    <3>4. ASSUME NEW i \in 0 .. (n + 1) - 1 PROVE h[i + 1] = F[h[i]]
      <4>1. i \in 0 .. n /\ h[i] = g[i] BY <3>2
      <4>2. CASE i = n BY <3>2, <4>1, <4>2
      <4>3. CASE i # n
        <5>1. i \in 0 .. n - 1 /\ i + 1 # n + 1 /\ i + 1 \in 0 .. n + 1 BY <3>2, <4>3
        <5>2. g[i + 1] = F[g[i]] BY <3>1, <5>1
        <5> QED BY <4>1, <5>1, <5>2
      <4> QED BY <4>2, <4>3
    <3>5. h \in upto(n + 1) BY <3>3, <3>4
    <3> QED BY <3>2, <3>5
  <2> HIDE DEF upto
  <2> QED BY <2>1, <2>2, EveryTurn
<1>2. \A n \in Nat : upto(n) # {}
  <2> HIDE DEF upto
  <2> QED BY <1>1
<1>3. ASSUME NEW n \in Nat, NEW g \in upto(n), NEW h \in upto(n + 1)
      PROVE  h[n] = g[n]
  <2> DEFINE same == {i \in Nat : i <= n => h[i] = g[i]}
  <2>1. 0 \in same OBVIOUS
  <2>2. ASSUME NEW i \in same PROVE i + 1 \in same
    <3> SUFFICES ASSUME i + 1 <= n PROVE h[i + 1] = g[i + 1] OBVIOUS
    <3>1. i \in 0 .. n - 1 /\ i \in 0 .. (n + 1) - 1 OBVIOUS
    <3>2. g[i + 1] = F[g[i]] /\ h[i + 1] = F[h[i]] BY <3>1
    <3> QED BY <3>2
  <2> HIDE DEF same
  <2>3. same = Nat
    <3>1. same \subseteq Nat BY DEF same
    <3> QED BY <2>1, <2>2, <3>1, EveryTurn
  <2> QED BY <2>3 DEF same
<1> DEFINE G(n) == CHOOSE g \in upto(n) : TRUE
           f == [n \in Nat |-> G(n)[n]]
<1>4. \A n \in Nat : G(n) \in upto(n) BY <1>2
<1>5. f \in [Nat -> S]
  <2>1. \A n \in Nat : G(n)[n] \in S BY <1>4
  <2> HIDE DEF G
  <2> QED BY <2>1
<1>6. f[0] = x0
  <2>1. f[0] = G(0)[0] /\ G(0) \in upto(0) BY <1>4
  <2> HIDE DEF f, G
  <2> QED BY <2>1
<1>7. ASSUME NEW n \in Nat PROVE f[n + 1] = F[f[n]]
  <2>1. n + 1 \in Nat /\ G(n) \in upto(n) /\ G(n + 1) \in upto(n + 1)
    <3> HIDE DEF G, upto
    <3> QED BY <1>4
  <2>2. f[n] = G(n)[n] /\ f[n + 1] = G(n + 1)[n + 1]
    <3>1. n + 1 \in Nat OBVIOUS
    <3> HIDE DEF G
    <3> QED BY <3>1
  <2> HIDE DEF f, G
  <2>3. G(n + 1)[n] = G(n)[n] BY <1>3, <2>1
  <2>4. G(n + 1)[n + 1] = F[G(n + 1)[n]] BY <2>1
  <2> QED BY <2>2, <2>3, <2>4
<1> HIDE DEF f
<1> QED BY <1>5, <1>6, <1>7 DEF Repeats

-----------------------------------------------------------------------------
(* The schedule.                                                           *)
LEMMA Division ==
    ASSUME NEW a \in Nat, NEW c \in Nat, a <= c, NEW n \in Nat \ {0}
    PROVE  a \div n \in Nat /\ a \div n <= c \div n
<1> DEFINE p == a \div n q == c \div n
<1>1. p \in Nat /\ n * p <= a /\ a < n * p + n OBVIOUS
<1>2. q \in Nat /\ n * q <= c /\ c < n * q + n OBVIOUS
<1> HIDE DEF p, q
<1>3. ASSUME q < p PROVE FALSE
  <2>1. n * q + n <= n * p
    <3>1. PICK k \in Nat : p = q + 1 + k
      <4>1. p - q - 1 \in Nat /\ p = q + 1 + (p - q - 1) BY <1>1, <1>2, <1>3
      <4> QED BY <4>1
    <3>2. n * p = n * q + n + n * k BY <1>1, <1>2, <3>1
    <3>3. n * k \in Nat BY <3>1
    <3> QED BY <1>1, <1>2, <3>2, <3>3
  <2> QED BY <1>1, <1>2, <2>1
<1>4. p <= q BY <1>1, <1>2, <1>3
<1> QED BY <1>1, <1>4 DEF p, q

LEMMA DividesOnce ==
    ASSUME NEW n \in Nat \ {0}, NEW m \in Nat, NEW r \in 0 .. n - 1
    PROVE  (n * m + r) \div n = m
<1> DEFINE q == (n * m + r) \div n
<1>1. n * m \in Nat OBVIOUS
<1>2. q \in Nat /\ n * q <= n * m + r /\ n * m + r < n * q + n BY <1>1
<1> HIDE DEF q
<1>3. ASSUME q < m PROVE FALSE
  <2>1. PICK k \in Nat : m = q + 1 + k
    <3>1. m - q - 1 \in Nat /\ m = q + 1 + (m - q - 1) BY <1>2, <1>3
    <3> QED BY <3>1
  <2>2. n * m = n * q + n + n * k /\ n * k \in Nat BY <1>2, <2>1
  <2>3. n * q \in Nat BY <1>2
  <2> QED BY <1>1, <1>2, <2>2, <2>3
<1>4. ASSUME m < q PROVE FALSE
  <2>1. PICK k \in Nat : q = m + 1 + k
    <3>1. q - m - 1 \in Nat /\ q = m + 1 + (q - m - 1) BY <1>2, <1>4
    <3> QED BY <3>1
  <2>2. n * q = n * m + n + n * k /\ n * k \in Nat BY <1>2, <2>1
  <2> QED BY <1>1, <1>2, <2>2
<1> QED BY <1>2, <1>3, <1>4 DEF q

(* Regions are done in order, the last on the last day of the scan.        *)
LEMMA RegionDays ==
    ASSUME NEW b \in Body
    PROVE  /\ \A k \in Nat : region_complete_day(b, k) \in Nat
           /\ \A j, k \in Nat : j <= k => region_complete_day(b, j) <= region_complete_day(b, k)
           /\ region_complete_day(b, 0) = 0
           /\ region_complete_day(b, regions_total[b]) = scan_ticks[b]
<1> DEFINE S == scan_ticks[b]
           R == regions_total[b]
           before(k) == 2 * k * S + R
<1>1. S \in Nat \ {0} /\ R \in Nat \ {0} BY ClockAssumption
<1>2. \A k \in Nat : region_complete_day(b, k) = before(k) \div (2 * R) BY DEF region_complete_day
<1> HIDE DEF S
<1> HIDE DEF R
<1>3. 2 * R \in Nat \ {0} BY <1>1
<1>4. ASSUME NEW j \in Nat, NEW k \in Nat, j <= k
      PROVE  before(j) \in Nat /\ before(j) <= before(k)
  <2>1. PICK d \in Nat : k = j + d
    <3>1. k - j \in Nat /\ k = j + (k - j) BY <1>4
    <3> QED BY <3>1
  <2>2. 2 * j * S \in Nat /\ 2 * d * S \in Nat BY <1>1, <2>1
  <2>3. 2 * k * S = 2 * j * S + 2 * d * S BY <1>1, <2>1
  <2> QED BY <1>1, <2>2, <2>3
<1>5. before(0) = (2 * R) * 0 + R /\ before(R) = (2 * R) * S + R BY <1>1
<1> HIDE DEF before
<1>6. ASSUME NEW j \in Nat, NEW k \in Nat, j <= k
      PROVE  region_complete_day(b, j) \in Nat /\ region_complete_day(b, j) <= region_complete_day(b, k)
  <2>1. before(j) \in Nat /\ before(k) \in Nat /\ before(j) <= before(k) BY <1>4, <1>6
  <2> QED BY <1>2, <1>3, <2>1, Division
<1>7. R \in 0 .. (2 * R) - 1 BY <1>1
<1>8. region_complete_day(b, 0) = 0 BY <1>1, <1>2, <1>3, <1>5, <1>7, DividesOnce
<1>9. region_complete_day(b, R) = S BY <1>1, <1>2, <1>3, <1>5, <1>7, DividesOnce
<1> QED BY <1>6, <1>8, <1>9 DEF R, S

-----------------------------------------------------------------------------
(* The loop of advance_surveys.                                            *)

(* A survey of b, and what the loop has left to it of the days.            *)
Surveys(b) == {s \in survey_state : /\ s.regions_done <= regions_total[b]
                                    /\ s.phase = "scanning" => s.regions_done < regions_total[b]}
Runs(b) == [survey : Surveys(b), budget : Nat]

LEMMA Scheduled ==
    ASSUME NEW b \in Body
    PROVE  /\ transit_ticks[b] \in Nat \ {0} /\ scan_ticks[b] \in Nat \ {0}
           /\ regions_total[b] \in Nat \ {0}
BY ClockAssumption

(* A boundary that fires.                                                  *)
LEMMA Fired ==
    ASSUME NEW b \in Body, NEW s \in Surveys(b), s.phase \in {"in_transit", "scanning"}
    PROVE  LET done == IF s.phase = "in_transit" THEN 0 ELSE s.regions_done + 1
           IN  /\ fire(b, s) \in Surveys(b)
               /\ \/ /\ fire(b, s).phase = "surveyed" /\ done = regions_total[b]
                     /\ fire(b, s).ticks_remaining = 0 /\ fire(b, s).regions_done = regions_total[b]
                  \/ /\ fire(b, s).phase = "scanning" /\ done < regions_total[b]
                     /\ fire(b, s).regions_done = done
                     /\ fire(b, s).ticks_remaining
                          = region_complete_day(b, done + 1) - region_complete_day(b, done)
<1> DEFINE done == IF s.phase = "in_transit" THEN 0 ELSE s.regions_done + 1
<1>1. /\ regions_total[b] \in Nat \ {0} /\ done \in Nat /\ done <= regions_total[b]
      /\ done + 1 \in Nat /\ done <= done + 1
      BY Scheduled DEF Surveys, survey_state
<1>2. fire(b, s) = IF done >= regions_total[b]
                   THEN [phase |-> "surveyed", ticks_remaining |-> 0, regions_done |-> regions_total[b]]
                   ELSE [phase |-> "scanning", regions_done |-> done,
                         ticks_remaining |-> region_complete_day(b, done + 1) - region_complete_day(b, done)]
      BY DEF fire, all_done, to_next_region
<1> HIDE DEF done
<1>3. region_complete_day(b, done + 1) - region_complete_day(b, done) \in Nat
  <2>1. /\ region_complete_day(b, done) \in Nat /\ region_complete_day(b, done + 1) \in Nat
        /\ region_complete_day(b, done) <= region_complete_day(b, done + 1)
        BY <1>1, RegionDays
  <2> QED BY <2>1
<1>4. fire(b, s) \in Surveys(b) BY <1>1, <1>2, <1>3 DEF Surveys, survey_state
<1> QED BY <1>1, <1>2, <1>4 DEF done

LEMMA TurnType ==
    ASSUME NEW b \in Body, NEW r \in Runs(b)
    PROVE  turn(b, r) \in Runs(b)
<1>1. /\ r.survey \in Surveys(b) /\ r.budget \in Nat /\ r.survey.ticks_remaining \in Nat
      /\ r.survey.phase \in {"hidden", "in_transit", "scanning", "surveyed"}
      BY DEF Runs, Surveys, survey_state
<1>2. CASE r.survey.phase \in {"hidden", "surveyed"} BY <1>2 DEF turn
<1>3. CASE r.survey.phase \notin {"hidden", "surveyed"} /\ r.survey.ticks_remaining > r.budget
  <2> DEFINE s == [r.survey EXCEPT !.ticks_remaining = @ - r.budget]
  <2>1. turn(b, r) = [survey |-> s, budget |-> 0] BY <1>3 DEF turn
  <2>2. s \in Surveys(b) BY <1>1, <1>3 DEF Surveys, survey_state
  <2> HIDE DEF s
  <2> QED BY <2>1, <2>2 DEF Runs
<1>4. CASE r.survey.phase \notin {"hidden", "surveyed"} /\ ~(r.survey.ticks_remaining > r.budget)
  <2>1. turn(b, r) = [survey |-> fire(b, r.survey), budget |-> r.budget - r.survey.ticks_remaining]
        BY <1>4 DEF turn
  <2>2. fire(b, r.survey) \in Surveys(b) BY <1>1, <1>4, Fired
  <2>3. r.budget - r.survey.ticks_remaining \in Nat BY <1>1, <1>4
  <2> QED BY <2>1, <2>2, <2>3 DEF Runs
<1> QED BY <1>2, <1>3, <1>4

(* advance_survey is what the loop's turns, one after another, come to.    *)
LEMMA Turns ==
    ASSUME NEW b \in Body, NEW s \in Surveys(b), NEW days \in Nat
    PROVE  \E f \in [Nat -> Runs(b)] :
             /\ f[0] = [survey |-> s, budget |-> days]
             /\ \A n \in Nat : f[n + 1] = turn(b, f[n])
             /\ advance_survey(b, s, days) = f[regions_total[b] + 1].survey
<1> DEFINE r0 == [survey |-> s, budget |-> days]
           F == [r \in Runs(b) |-> turn(b, r)]
           body(f) == [n \in Nat |-> IF n = 0 THEN r0 ELSE turn(b, f[n - 1])]
           after == CHOOSE f : f = body(f)
<1>1. advance_survey(b, s, days) = after[regions_total[b] + 1].survey BY DEF advance_survey
<1>2. r0 \in Runs(b) BY DEF Runs
<1>3. F \in [Runs(b) -> Runs(b)] BY TurnType
<1>4. \A r \in Runs(b) : F[r] = turn(b, r) OBVIOUS
<1> HIDE DEF r0, F
<1>5. PICK g \in [Nat -> Runs(b)] : Repeats(g, r0, F) BY <1>2, <1>3, Repetition
<1>6. g = body(g)
  <2>1. ASSUME NEW n \in Nat PROVE g[n] = IF n = 0 THEN r0 ELSE turn(b, g[n - 1])
    <3>1. CASE n = 0 BY <1>5, <3>1 DEF Repeats
    <3>2. CASE n # 0
      <4>1. n - 1 \in Nat /\ (n - 1) + 1 = n BY <3>2
      <4>2. g[(n - 1) + 1] = F[g[n - 1]] BY <1>5, <4>1 DEF Repeats
      <4> QED BY <1>4, <1>5, <3>2, <4>1, <4>2
    <3> QED BY <3>1, <3>2
  <2> QED BY <1>5, <2>1
<1>7. after = body(after)
  <2> HIDE DEF body
  <2> QED BY <1>6
<1>8. after[0] = r0 /\ \A n \in Nat : after[n + 1] = turn(b, after[n])
  <2> DEFINE h == after
  <2>1. h = body(h) BY <1>7
  <2> HIDE DEF h
  <2>2. h[0] = r0 BY <2>1
  <2>3. ASSUME NEW n \in Nat PROVE h[n + 1] = turn(b, h[n])
    <3>1. n + 1 \in Nat /\ n + 1 # 0 /\ (n + 1) - 1 = n OBVIOUS
    <3>2. h[n + 1] = IF n + 1 = 0 THEN r0 ELSE turn(b, h[(n + 1) - 1]) BY <2>1, <3>1
    <3> QED BY <3>1, <3>2
  <2> QED BY <2>2, <2>3 DEF h
<1> DEFINE T == {n \in Nat : after[n] \in Runs(b)}
<1>9. T = Nat
  <2> HIDE DEF after
  <2>1. 0 \in T BY <1>2, <1>8
  <2>2. \A n \in T : n + 1 \in T BY <1>8, TurnType
  <2> QED BY <2>1, <2>2, EveryTurn
<1>10. after \in [Nat -> Runs(b)]
  <2> DEFINE h == after
  <2>1. h = body(h) /\ \A n \in Nat : h[n] \in Runs(b)
    <3>1. \A n \in T : after[n] \in Runs(b) OBVIOUS
    <3> HIDE DEF T, after
    <3> QED BY <1>7, <1>9, <3>1
  <2> HIDE DEF h
  <2>2. h \in [Nat -> Runs(b)] BY <2>1
  <2> QED BY <2>2 DEF h
<1> HIDE DEF after
<1> QED BY <1>1, <1>8, <1>10 DEF r0

-----------------------------------------------------------------------------
(* What a survey shows.                                                    *)

(* d days after it was dispatched, at the end of a frame's loop.           *)
Shows(b, s, d) ==
    /\ s \in Surveys(b)
    /\ \/ /\ s.phase = "in_transit" /\ s.regions_done = 0
          /\ s.ticks_remaining = transit_ticks[b] - d /\ s.ticks_remaining > 0
       \/ /\ s.phase = "scanning"
          /\ transit_ticks[b] + region_complete_day(b, s.regions_done) <= d
          /\ s.ticks_remaining = transit_ticks[b] + region_complete_day(b, s.regions_done + 1) - d
          /\ s.ticks_remaining > 0
       \/ /\ s.phase = "surveyed" /\ s.regions_done = regions_total[b] /\ s.ticks_remaining = 0
          /\ transit_ticks[b] + scan_ticks[b] <= d

(* In the loop: e of the days have been used, the last on a boundary that  *)
(* may be the next one's too.                                              *)
Due(b, r, d) ==
    LET e == d - r.budget
        s == r.survey
    IN  /\ e \in Nat
        /\ \/ /\ s.phase = "in_transit" /\ s.regions_done = 0 /\ s.ticks_remaining = transit_ticks[b] - e
           \/ /\ s.phase = "scanning"
              /\ transit_ticks[b] + region_complete_day(b, s.regions_done) <= e
              /\ s.ticks_remaining = transit_ticks[b] + region_complete_day(b, s.regions_done + 1) - e
           \/ /\ s.phase = "surveyed" /\ s.regions_done = regions_total[b] /\ s.ticks_remaining = 0
              /\ transit_ticks[b] + scan_ticks[b] <= e

(* Boundaries behind it, and whether the loop is done with it.             *)
fired(b, s) == CASE s.phase = "in_transit" -> 0
                 [] s.phase = "scanning" -> s.regions_done + 1
                 [] s.phase = "surveyed" -> regions_total[b] + 1
AtRest(r) == r.survey.phase = "surveyed" \/ (r.budget = 0 /\ r.survey.ticks_remaining > 0)

LEMMA FiredNat ==
    ASSUME NEW b \in Body, NEW r \in Runs(b), NEW d, Due(b, r, d)
    PROVE  fired(b, r.survey) \in Nat
<1>1. r.survey.regions_done \in Nat /\ regions_total[b] \in Nat
      BY Scheduled DEF Runs, Surveys, survey_state
<1>2. CASE r.survey.phase = "in_transit" BY <1>2 DEF fired
<1>3. CASE r.survey.phase = "scanning" BY <1>1, <1>3 DEF fired
<1>4. CASE r.survey.phase = "surveyed" BY <1>1, <1>4 DEF fired
<1> QED BY <1>2, <1>3, <1>4 DEF Due

LEMMA DueTurn ==
    ASSUME NEW b \in Body, NEW r \in Runs(b), NEW d \in Nat, Due(b, r, d)
    PROVE  /\ Due(b, turn(b, r), d)
           /\ AtRest(turn(b, r)) \/ (~AtRest(r) /\ fired(b, turn(b, r).survey) = fired(b, r.survey) + 1)
<1> DEFINE s == r.survey
           R == regions_total[b]
<1>1. /\ s \in Surveys(b) /\ r.budget \in Nat /\ s.ticks_remaining \in Nat /\ s.regions_done \in Nat
      /\ d - r.budget \in Nat /\ s.phase \in {"in_transit", "scanning", "surveyed"}
      BY DEF Runs, Surveys, survey_state, Due
<1>2. /\ R \in Nat \ {0} /\ transit_ticks[b] \in Nat \ {0} /\ scan_ticks[b] \in Nat \ {0}
      /\ region_complete_day(b, 0) = 0 /\ region_complete_day(b, R) = scan_ticks[b]
      /\ \A k \in Nat : region_complete_day(b, k) \in Nat
      BY Scheduled, RegionDays
<1>3. CASE s.phase = "surveyed" BY <1>3 DEF turn, AtRest
<1>4. CASE s.phase # "surveyed" /\ s.ticks_remaining > r.budget
  <2> DEFINE q == turn(b, r)
  <2>1. q = [survey |-> [s EXCEPT !.ticks_remaining = @ - r.budget], budget |-> 0]
        BY <1>1, <1>4 DEF turn
  <2>2. /\ q.budget = 0 /\ q.survey.phase = s.phase /\ q.survey.regions_done = s.regions_done
        /\ q.survey.ticks_remaining = s.ticks_remaining - r.budget
        BY <1>1, <2>1 DEF Surveys, survey_state
  <2> HIDE DEF q
  <2>3. AtRest(q) BY <1>1, <1>4, <2>2 DEF AtRest
  <2>4. Due(b, q, d)
    <3>1. d - q.budget \in Nat /\ d - q.budget = d BY <2>2
    <3>2. CASE s.phase = "in_transit" BY <1>1, <1>2, <2>2, <3>1, <3>2 DEF Due
    <3>3. CASE s.phase = "scanning"
      <4>1. /\ transit_ticks[b] + region_complete_day(b, s.regions_done) <= d - r.budget
            /\ s.ticks_remaining
                 = transit_ticks[b] + region_complete_day(b, s.regions_done + 1) - (d - r.budget)
            BY <3>3 DEF Due
      <4>2. region_complete_day(b, s.regions_done) \in Nat /\ region_complete_day(b, s.regions_done + 1) \in Nat
            BY <1>1, <1>2
      <4> QED BY <1>1, <1>2, <2>2, <3>1, <3>3, <4>1, <4>2 DEF Due
    <3> QED BY <1>1, <1>4, <3>2, <3>3
  <2> QED BY <2>3, <2>4 DEF q
<1>5. CASE s.phase # "surveyed" /\ ~(s.ticks_remaining > r.budget)
  <2> DEFINE q == turn(b, r)
             done == IF s.phase = "in_transit" THEN 0 ELSE s.regions_done + 1
             e == d - r.budget
  <2>1. q = [survey |-> fire(b, s), budget |-> r.budget - s.ticks_remaining]
        BY <1>1, <1>5 DEF turn
  <2>2. q.survey = fire(b, s) /\ q.budget = r.budget - s.ticks_remaining BY <2>1
  <2>3. \/ /\ fire(b, s).phase = "surveyed" /\ done = R
           /\ fire(b, s).ticks_remaining = 0 /\ fire(b, s).regions_done = R
        \/ /\ fire(b, s).phase = "scanning" /\ done < R
           /\ fire(b, s).regions_done = done
           /\ fire(b, s).ticks_remaining
                = region_complete_day(b, done + 1) - region_complete_day(b, done)
        BY <1>1, <1>5, Fired
  <2>4. fired(b, s) = done /\ done \in Nat /\ ~AtRest(r)
        BY <1>1, <1>5 DEF fired, AtRest
  <2>5. region_complete_day(b, done) \in Nat /\ region_complete_day(b, done + 1) \in Nat
    <3> HIDE DEF done
    <3> QED BY <1>2, <2>4
  (* the boundary it fires lies where the days used end *)
  <2>6. e + s.ticks_remaining = transit_ticks[b] + region_complete_day(b, done)
    <3>1. CASE s.phase = "in_transit" BY <1>1, <1>2, <3>1 DEF Due
    <3>2. CASE s.phase = "scanning"
      <4>1. s.ticks_remaining = transit_ticks[b] + region_complete_day(b, s.regions_done + 1) - e
            BY <3>2 DEF Due
      <4>2. done = s.regions_done + 1 BY <3>2
      <4> QED BY <1>1, <1>2, <2>5, <4>1, <4>2
    <3> QED BY <1>1, <1>5, <3>1, <3>2
  <2>7. d - q.budget = e + s.ticks_remaining /\ d - q.budget \in Nat BY <1>1, <2>2
  <2> HIDE DEF q, e, done
  <2>8. CASE fire(b, s).phase = "surveyed" /\ done = R /\ fire(b, s).ticks_remaining = 0
             /\ fire(b, s).regions_done = R
    <3>1. Due(b, q, d) BY <1>2, <2>2, <2>6, <2>7, <2>8 DEF Due
    <3>2. AtRest(q) BY <2>2, <2>8 DEF AtRest
    <3> QED BY <3>1, <3>2 DEF q
  <2>9. CASE /\ fire(b, s).phase = "scanning" /\ done < R
             /\ fire(b, s).regions_done = done
             /\ fire(b, s).ticks_remaining
                  = region_complete_day(b, done + 1) - region_complete_day(b, done)
    <3>1. Due(b, q, d) BY <1>2, <2>2, <2>5, <2>6, <2>7, <2>9 DEF Due
    <3>2. fired(b, q.survey) = done + 1 BY <2>2, <2>9 DEF fired
    <3> QED BY <2>4, <3>1, <3>2 DEF q
  <2> QED BY <2>3, <2>8, <2>9
<1> QED BY <1>3, <1>4, <1>5

(* Whatever days a frame brings, a survey goes on to show what the days    *)
(* since its dispatch call for.                                            *)
LEMMA AdvanceShows ==
    ASSUME NEW b \in Body, NEW s, NEW d0 \in Nat, Shows(b, s, d0), NEW days \in Nat
    PROVE  Shows(b, advance_survey(b, s, days), d0 + days)
<1> DEFINE d == d0 + days
           R == regions_total[b]
<1>1. s \in Surveys(b) BY DEF Shows
<1>2. PICK f \in [Nat -> Runs(b)] :
         /\ f[0] = [survey |-> s, budget |-> days]
         /\ \A n \in Nat : f[n + 1] = turn(b, f[n])
         /\ advance_survey(b, s, days) = f[R + 1].survey
      BY <1>1, Turns
<1>3. d \in Nat /\ d - days = d0 /\ R \in Nat \ {0} BY Scheduled
<1>4. Due(b, f[0], d) BY <1>2, <1>3 DEF Due, Shows
<1> HIDE DEF d, R
<1> DEFINE T == {n \in Nat : /\ Due(b, f[n], d)
                             /\ AtRest(f[n]) \/ fired(b, f[n].survey) >= n}
<1>5. 0 \in T
  <2>1. fired(b, f[0].survey) \in Nat
    <3>1. f[0] \in Runs(b) BY <1>2
    <3> QED BY <1>4, <3>1, FiredNat
  <2> QED BY <1>4, <2>1
<1>6. ASSUME NEW n \in T PROVE n + 1 \in T
  <2>1. /\ n \in Nat /\ n + 1 \in Nat /\ f[n] \in Runs(b) /\ f[n + 1] = turn(b, f[n])
        /\ Due(b, f[n], d) /\ (AtRest(f[n]) \/ fired(b, f[n].survey) >= n)
        BY <1>2
  <2>2. fired(b, f[n].survey) \in Nat BY <2>1, FiredNat
  <2>3. /\ Due(b, f[n + 1], d)
        /\ \/ AtRest(f[n + 1])
           \/ ~AtRest(f[n]) /\ fired(b, f[n + 1].survey) = fired(b, f[n].survey) + 1
        BY <1>3, <2>1, DueTurn
  <2> QED BY <2>1, <2>2, <2>3
<1>7. T = Nat
  <2> HIDE DEF T
  <2>1. T \subseteq Nat BY DEF T
  <2> QED BY <1>5, <1>6, <2>1, EveryTurn
<1>8. R + 1 \in T BY <1>3, <1>7
<1> DEFINE r == f[R + 1]
<1>9. r \in Runs(b) /\ Due(b, r, d) /\ (AtRest(r) \/ fired(b, r.survey) >= R + 1)
      BY <1>2, <1>3, <1>8
<1> HIDE DEF r, T
<1>10. r.survey \in Surveys(b) /\ r.survey.regions_done \in Nat /\ r.survey.ticks_remaining \in Nat
       BY <1>9 DEF Runs, Surveys, survey_state
<1>11. AtRest(r)
  <2>1. CASE r.survey.phase = "in_transit" BY <1>3, <1>9, <2>1 DEF fired
  <2>2. CASE r.survey.phase = "scanning"
    <3>1. r.survey.regions_done < R BY <1>10, <2>2 DEF Surveys, R
    <3> QED BY <1>3, <1>9, <1>10, <2>2, <3>1 DEF fired
  <2>3. CASE r.survey.phase = "surveyed" BY <2>3 DEF AtRest
  <2> QED BY <1>9, <2>1, <2>2, <2>3 DEF Due
<1>12. Shows(b, r.survey, d)
  <2>1. CASE r.survey.phase = "surveyed"
    <3>1. r.budget \in Nat /\ transit_ticks[b] \in Nat /\ scan_ticks[b] \in Nat
          BY <1>9, Scheduled DEF Runs
    <3>2. /\ r.survey.regions_done = regions_total[b] /\ r.survey.ticks_remaining = 0
          /\ transit_ticks[b] + scan_ticks[b] <= d - r.budget
          BY <1>9, <2>1 DEF Due
    <3> QED BY <1>3, <1>10, <2>1, <3>1, <3>2 DEF Shows
  <2>2. CASE r.budget = 0 /\ r.survey.ticks_remaining > 0 /\ r.survey.phase # "surveyed"
    <3>1. d - r.budget = d BY <1>3, <2>2
    <3> QED BY <1>9, <1>10, <2>2, <3>1 DEF Due, Shows
  <2> QED BY <1>11, <2>1, <2>2 DEF AtRest
<1> QED BY <1>2, <1>12 DEF r, d, R

LEMMA AdvanceType ==
    ASSUME NEW b \in Body, NEW s \in Surveys(b), NEW days \in Nat
    PROVE  /\ advance_survey(b, s, days) \in Surveys(b)
           /\ s.phase = "hidden" => advance_survey(b, s, days) = s
<1> DEFINE R == regions_total[b]
<1>1. PICK f \in [Nat -> Runs(b)] :
         /\ f[0] = [survey |-> s, budget |-> days]
         /\ \A n \in Nat : f[n + 1] = turn(b, f[n])
         /\ advance_survey(b, s, days) = f[R + 1].survey
      BY Turns
<1>2. R + 1 \in Nat BY Scheduled
<1> HIDE DEF R
<1>3. advance_survey(b, s, days) \in Surveys(b)
  <2>1. f[R + 1] \in Runs(b) BY <1>2
  <2> QED BY <1>1, <2>1 DEF Runs
<1>4. ASSUME s.phase = "hidden" PROVE advance_survey(b, s, days) = s
  <2> DEFINE T == {n \in Nat : f[n] = f[0]}
  <2>1. 0 \in T OBVIOUS
  <2>2. ASSUME NEW n \in T PROVE n + 1 \in T
    <3>1. f[n + 1] = turn(b, f[0]) BY <1>1
    <3>2. turn(b, f[0]) = f[0] BY <1>1, <1>4 DEF turn
    <3> QED BY <3>1, <3>2
  <2>3. T = Nat
    <3>1. T \subseteq Nat OBVIOUS
    <3> HIDE DEF T
    <3> QED BY <2>1, <2>2, <3>1, EveryTurn
  <2>4. f[R + 1] = f[0] BY <1>2, <2>3
  <2> QED BY <1>1, <2>4
<1> QED BY <1>3, <1>4

-----------------------------------------------------------------------------
(* The clock.                                                              *)
LEMMA ClockTypes ==
    /\ STEP \in Nat \ {0} /\ sim_ticks_per_day \in Nat \ {0} /\ econ_tick_days \in Nat \ {0}
    /\ max_catchup_steps \in Nat \ {0} /\ DAY \in Nat \ {0}
    /\ Len(Pace) \in Nat \ {0} /\ \A s \in 1 .. Len(Pace) : Pace[s] \in Nat \ {0} /\ STEP % Pace[s] = 0
<1>1. /\ STEP \in Nat \ {0} /\ sim_ticks_per_day \in Nat \ {0} /\ econ_tick_days \in Nat \ {0}
      /\ max_catchup_steps \in Nat \ {0} /\ Pace \in Seq(Nat \ {0}) /\ Pace # << >>
      /\ \A s \in DOMAIN Pace : STEP % Pace[s] = 0
      BY ClockAssumption
<1>2. DAY \in Nat \ {0}
  <2>1. PICK m \in Nat, k \in Nat : STEP = m + 1 /\ sim_ticks_per_day = k + 1
    <3>1. STEP - 1 \in Nat /\ sim_ticks_per_day - 1 \in Nat
          /\ STEP = (STEP - 1) + 1 /\ sim_ticks_per_day = (sim_ticks_per_day - 1) + 1 BY <1>1
    <3> QED BY <3>1
  <2>2. DAY = m * k + m + k + 1 BY <2>1 DEF DAY
  <2>3. m * k \in Nat BY <2>1
  <2> QED BY <2>1, <2>2, <2>3
<1> QED BY <1>1, <1>2

LEMMA SurveyDays ==
    ASSUME NEW e \in Nat, NEW f \in Nat, e <= f
    PROVE  survey_day(e) \in Nat /\ survey_day(f) \in Nat /\ survey_day(e) <= survey_day(f)
<1>1. DAY \in Nat \ {0} BY ClockTypes
<1>2. e \div DAY \in Nat /\ e \div DAY <= f \div DAY BY <1>1, Division
<1>3. f \div DAY \in Nat BY <1>1, Division
<1> QED BY <1>2, <1>3 DEF survey_day

(* A frame's clock: the accumulator holds less than a step, and the        *)
(* continuous clock never goes back.                                       *)
ClockOK ==
    /\ m_speed \in 0 .. Len(Pace) /\ m_accum \in Nat /\ m_sim_tick \in Nat /\ m_elapsed \in Nat
    /\ m_last_survey_day \in Nat /\ m_accum <= STEP * max_catchup_steps

LEMMA TickClock ==
    ASSUME ClockOK, UNCHANGED m_speed,
           (\E delta \in 0 .. MAX_DELTA : tick(delta)) \/ advance_days(econ_tick_days)
    PROVE  /\ m_accum' \in Nat /\ m_accum' <= STEP * max_catchup_steps
           /\ m_sim_tick' \in Nat /\ m_elapsed' \in Nat /\ m_elapsed <= m_elapsed'
<1>1. STEP * max_catchup_steps \in Nat /\ STEP <= STEP * max_catchup_steps
  <2>1. PICK m \in Nat : max_catchup_steps = m + 1
    <3>1. max_catchup_steps - 1 \in Nat /\ max_catchup_steps = (max_catchup_steps - 1) + 1 BY ClockTypes
    <3> QED BY <3>1
  <2>2. STEP * m \in Nat /\ STEP * max_catchup_steps = STEP * m + STEP BY <2>1, ClockTypes
  <2> QED BY <2>2, ClockTypes
<1>2. CASE advance_days(econ_tick_days)
  <2>1. econ_tick_days * sim_ticks_per_day \in Nat /\ econ_tick_days * DAY \in Nat BY ClockTypes
  <2> QED BY <1>1, <1>2, <2>1 DEF advance_days, ClockOK
<1>3. ASSUME NEW delta \in 0 .. MAX_DELTA, tick(delta)
      PROVE  /\ m_accum' \in Nat /\ m_accum' <= STEP * max_catchup_steps
             /\ m_sim_tick' \in Nat /\ m_elapsed' \in Nat /\ m_elapsed <= m_elapsed'
  <2>1. CASE m_speed = 0 BY <1>1, <1>3, <2>1 DEF tick, ClockOK
  <2>2. CASE m_speed # 0
    <3> DEFINE pace == Pace[m_speed]
               step == STEP \div pace
               accum == clamped(m_accum + delta, step)
    <3>1. /\ m_elapsed' = m_elapsed + delta * pace /\ m_accum' = accum % step
          /\ m_sim_tick' = m_sim_tick + accum \div step
          BY <1>3, <2>2 DEF tick
    <3>2. pace \in Nat \ {0} /\ STEP % pace = 0 /\ delta \in Nat
          BY <2>2, ClockTypes, ClockAssumption DEF ClockOK
    <3>3. step \in Nat /\ STEP = pace * step
      <4>1. STEP \in Nat BY ClockTypes
      <4> HIDE DEF pace
      <4> QED BY <3>2, <4>1
    <3> HIDE DEF pace, step
    <3>4. step # 0 /\ step <= STEP
      <4>1. step # 0 BY <3>2, <3>3, ClockTypes
      <4>2. PICK m \in Nat : pace = m + 1
        <5>1. pace - 1 \in Nat /\ pace = (pace - 1) + 1 BY <3>2
        <5> QED BY <5>1
      <4>3. m * step \in Nat /\ STEP = m * step + step BY <3>3, <4>2
      <4> QED BY <3>3, <4>1, <4>3
    <3>5. accum \in Nat
      <4>1. step * max_catchup_steps \in Nat /\ m_accum + delta \in Nat
            BY <3>2, <3>3, ClockTypes DEF ClockOK
      <4> QED BY <4>1 DEF clamped
    <3> HIDE DEF accum
    <3>6. accum % step \in Nat /\ accum % step < step /\ accum \div step \in Nat BY <3>3, <3>4, <3>5
    <3>7. delta * pace \in Nat BY <3>2
    <3>8. m_sim_tick' \in Nat /\ m_elapsed' \in Nat /\ m_elapsed <= m_elapsed'
          BY <3>1, <3>6, <3>7 DEF ClockOK
    <3>9. STEP \in Nat BY ClockTypes
    <3> QED BY <1>1, <3>1, <3>3, <3>4, <3>6, <3>8, <3>9
  <2> QED BY <2>1, <2>2
<1> QED BY <1>2, <1>3

-----------------------------------------------------------------------------
(* Types, whatever is saved and loaded.                                    *)
SurveyTable(table) == table \in [Body -> survey_state] /\ \A b \in Body : table[b] \in Surveys(b)

SaveOK == saved # no_save => /\ saved.sim_tick \in Nat /\ saved.elapsed \in Nat
                             /\ saved.speed \in 0 .. Len(Pace)
                             /\ SurveyTable(saved.survey) /\ saved.sent \in [Body -> Int]

Typed == ClockOK /\ SurveyTable(survey) /\ sent \in [Body -> Int] /\ SaveOK

LEMMA HiddenSurvey == ASSUME NEW b \in Body PROVE hidden \in Surveys(b)
BY Scheduled DEF hidden, Surveys, survey_state

LEMMA InitTyped == Init => Typed
<1> SUFFICES ASSUME Init PROVE Typed OBVIOUS
<1>1. ClockOK
  <2>1. STEP * max_catchup_steps \in Nat BY ClockTypes
  <2> QED BY <2>1, ClockTypes DEF Init, ClockOK
<1>2. SurveyTable(survey)
  <2>1. \A b \in Body : hidden \in Surveys(b) /\ hidden \in survey_state
        BY HiddenSurvey DEF Surveys
  <2> QED BY <2>1 DEF Init, SurveyTable
<1> QED BY <1>1, <1>2 DEF Init, Typed, SaveOK

LEMMA AdvanceTable ==
    ASSUME SurveyTable(survey), NEW days \in Nat
    PROVE  SurveyTable(advance_surveys(days))
<1>1. \A b \in Body : advance_survey(b, survey[b], days) \in Surveys(b) BY AdvanceType DEF SurveyTable
<1>2. \A b \in Body : advance_survey(b, survey[b], days) \in survey_state BY <1>1 DEF Surveys
<1> QED BY <1>1, <1>2 DEF advance_surveys, SurveyTable

LEMMA FrameClock ==
    ASSUME ClockOK, frame
    PROVE  /\ ClockOK' /\ survey_day(m_elapsed') \in Nat
           /\ m_elapsed \in Nat /\ m_elapsed' \in Nat /\ m_elapsed <= m_elapsed'
<1>1. /\ m_accum' \in Nat /\ m_accum' <= STEP * max_catchup_steps
      /\ m_sim_tick' \in Nat /\ m_elapsed' \in Nat /\ m_elapsed <= m_elapsed'
      BY TickClock DEF frame
<1>2. survey_day(m_elapsed') \in Nat BY <1>1, SurveyDays
<1>3. m_last_survey_day' \in Nat BY <1>2 DEF frame, ClockOK
<1> QED BY <1>1, <1>2, <1>3 DEF frame, ClockOK

LEMMA DispatchTable ==
    ASSUME Typed, NEW b \in Body, dispatch_survey(b)
    PROVE  /\ SurveyTable(survey') /\ sent' \in [Body -> Int]
           /\ survey'[b] = [phase |-> "in_transit", ticks_remaining |-> transit_ticks[b], regions_done |-> 0]
           /\ sent'[b] = survey_day(m_elapsed) /\ survey_day(m_elapsed) \in Nat
           /\ \A c \in Body \ {b} : survey'[c] = survey[c] /\ sent'[c] = sent[c]
<1> DEFINE new == [phase |-> "in_transit", ticks_remaining |-> transit_ticks[b], regions_done |-> 0]
<1>1. survey' = [survey EXCEPT ![b] = new] /\ sent' = [sent EXCEPT ![b] = survey_day(m_elapsed)]
      BY DEF dispatch_survey
<1>2. new \in Surveys(b) /\ new \in survey_state BY Scheduled DEF Surveys, survey_state
<1>3. survey_day(m_elapsed) \in Nat BY SurveyDays DEF Typed, ClockOK
<1> HIDE DEF new
<1>4. /\ survey'[b] = new /\ sent'[b] = survey_day(m_elapsed)
      /\ \A c \in Body \ {b} : survey'[c] = survey[c] /\ sent'[c] = sent[c]
      BY <1>1 DEF Typed, SurveyTable
<1>5. SurveyTable(survey') BY <1>1, <1>2, <1>4 DEF Typed, SurveyTable
<1>6. sent' \in [Body -> Int] BY <1>1, <1>3 DEF Typed
<1> QED BY <1>3, <1>4, <1>5, <1>6 DEF new

LEMMA StepTyped == ASSUME Typed, [Next]_vars PROVE Typed'
<1>1. CASE set_speed BY <1>1 DEF set_speed, Typed, ClockOK, SaveOK
<1>2. CASE frame
  <2>1. ClockOK' /\ survey_day(m_elapsed') \in Nat BY <1>2, FrameClock DEF Typed
  <2>2. SurveyTable(survey')
    <3>1. CASE survey_day(m_elapsed') > m_last_survey_day
      <4>1. survey_day(m_elapsed') - m_last_survey_day \in Nat BY <2>1, <3>1 DEF Typed, ClockOK
      <4>2. survey' = advance_surveys(survey_day(m_elapsed') - m_last_survey_day)
            BY <1>2, <3>1 DEF frame
      <4> QED BY <4>1, <4>2, AdvanceTable DEF Typed
    <3>2. CASE ~(survey_day(m_elapsed') > m_last_survey_day) BY <1>2, <3>2 DEF frame, Typed
    <3> QED BY <3>1, <3>2
  <2> QED BY <1>2, <2>1, <2>2 DEF frame, Typed, SaveOK
<1>3. ASSUME NEW b \in Body, dispatch_survey(b) PROVE Typed'
  <2>1. SurveyTable(survey') /\ sent' \in [Body -> Int] BY <1>3, DispatchTable
  <2> QED BY <1>3, <2>1 DEF dispatch_survey, clockVars, Typed, ClockOK, SaveOK
<1>4. CASE save_game_to BY <1>4 DEF save_game_to, clockVars, Typed, ClockOK, SaveOK
<1>5. CASE load_game_from
  <2>1. STEP * max_catchup_steps \in Nat BY ClockTypes
  <2> QED BY <1>5, <2>1 DEF load_game_from, Typed, ClockOK, SaveOK
<1>6. CASE UNCHANGED vars BY <1>6 DEF vars, clockVars, Typed, ClockOK, SaveOK
<1> QED BY <1>1, <1>2, <1>3, <1>4, <1>5, <1>6 DEF Next, PlayNext

(* The clock, the surveys and the dates keep their types through any       *)
(* frames, saves and loads; no accumulator outgrows the steps it may catch *)
(* up and no survey scans past its last region.                            *)
THEOREM SurveyTyped == Spec => []TypeOK
<1>1. Typed => TypeOK BY DEF Typed, TypeOK, ClockOK, SurveyTable, Surveys
<1> QED BY <1>1, InitTyped, StepTyped, PTL DEF Spec

(* One campaign's play is the system's, without saves.                     *)
LEMMA PlayIsSpec == PlaySpec => Spec
<1>1. [PlayNext]_vars => [Next]_vars BY DEF Next
<1> QED BY <1>1, PTL DEF PlaySpec, Spec

-----------------------------------------------------------------------------
(* One campaign.                                                           *)

(* Surveys have been advanced to the clock's day, and each one sent shows  *)
(* what the days since then call for.                                      *)
Kept(b) ==
    \/ sent[b] = -1 /\ survey[b] = hidden
    \/ /\ sent[b] \in Nat /\ sent[b] <= m_last_survey_day
       /\ Shows(b, survey[b], m_last_survey_day - sent[b])

InPlay == Typed /\ m_last_survey_day = survey_day(m_elapsed) /\ \A b \in Body : Kept(b)

LEMMA InitInPlay == Init => InPlay
<1> SUFFICES ASSUME Init PROVE InPlay OBVIOUS
<1>1. survey_day(0) = 0
  <2>1. DAY \in Nat \ {0} BY ClockTypes
  <2> QED BY <2>1 DEF survey_day
<1> QED BY <1>1, InitTyped DEF Init, InPlay, Kept

LEMMA FrameDay ==
    ASSUME InPlay, frame
    PROVE  m_last_survey_day' = survey_day(m_elapsed')
<1>1. m_last_survey_day <= survey_day(m_elapsed') /\ survey_day(m_elapsed') \in Nat
      BY FrameClock, SurveyDays DEF InPlay, Typed
<1> QED BY <1>1 DEF frame, InPlay, Typed, ClockOK

LEMMA FrameKeeps == ASSUME InPlay, frame, NEW b \in Body PROVE Kept(b)'
<1> DEFINE today == survey_day(m_elapsed')
           days == today - m_last_survey_day
<1>1. m_last_survey_day \in Nat /\ survey[b] \in Surveys(b) /\ sent' = sent
      BY DEF InPlay, Typed, ClockOK, SurveyTable, frame
<1>2. today \in Nat /\ m_last_survey_day <= today
      BY FrameClock, SurveyDays DEF InPlay, Typed
<1>3. CASE today > m_last_survey_day
  <2>1. days \in Nat BY <1>1, <1>2
  <2>2. survey'[b] = advance_survey(b, survey[b], days) /\ m_last_survey_day' = today
        BY <1>3 DEF frame, advance_surveys
  <2> HIDE DEF days
  <2>3. CASE sent[b] = -1 /\ survey[b] = hidden
    <3>1. survey'[b] = hidden BY <1>1, <2>1, <2>2, <2>3, AdvanceType DEF hidden
    <3> QED BY <1>1, <2>2, <2>3, <3>1 DEF Kept
  <2>4. CASE sent[b] \in Nat /\ sent[b] <= m_last_survey_day
             /\ Shows(b, survey[b], m_last_survey_day - sent[b])
    <3>1. m_last_survey_day - sent[b] \in Nat
          /\ (m_last_survey_day - sent[b]) + days = today - sent[b]
          BY <1>1, <1>2, <2>1, <2>4 DEF days
    <3>2. Shows(b, survey'[b], (m_last_survey_day - sent[b]) + days)
          BY <2>1, <2>2, <2>4, <3>1, AdvanceShows
    <3>3. Shows(b, survey'[b], m_last_survey_day' - sent'[b]) BY <1>1, <2>2, <3>1, <3>2
    <3>4. sent'[b] \in Nat /\ sent'[b] <= m_last_survey_day' BY <1>1, <1>2, <2>2, <2>4
    <3> HIDE DEF today
    <3> QED BY <3>3, <3>4 DEF Kept
  <2> QED BY <2>3, <2>4 DEF InPlay, Kept
<1>4. CASE ~(today > m_last_survey_day)
  <2>1. UNCHANGED <<survey, m_last_survey_day>> BY <1>4 DEF frame
  <2> QED BY <1>1, <2>1 DEF InPlay, Kept
<1> QED BY <1>3, <1>4

LEMMA StepInPlay == ASSUME InPlay, [PlayNext]_vars PROVE InPlay'
<1>1. Typed' BY StepTyped DEF InPlay, Next
<1>2. CASE set_speed BY <1>1, <1>2 DEF set_speed, InPlay, Kept
<1>3. CASE frame BY <1>1, <1>3, FrameDay, FrameKeeps DEF InPlay
<1>4. ASSUME NEW b \in Body, dispatch_survey(b) PROVE InPlay'
  <2>1. /\ survey'[b] = [phase |-> "in_transit", ticks_remaining |-> transit_ticks[b], regions_done |-> 0]
        /\ sent'[b] = survey_day(m_elapsed) /\ survey_day(m_elapsed) \in Nat
        /\ \A c \in Body \ {b} : survey'[c] = survey[c] /\ sent'[c] = sent[c]
        /\ survey'[b] \in Surveys(b)
        BY <1>4, DispatchTable DEF InPlay, SurveyTable
  <2>2. m_last_survey_day' = m_last_survey_day /\ m_elapsed' = m_elapsed
        BY <1>4 DEF dispatch_survey, clockVars
  <2>3. Kept(b)'
    <3>1. sent'[b] = m_last_survey_day BY <2>1 DEF InPlay
    <3>2. m_last_survey_day' - sent'[b] = 0 /\ sent'[b] <= m_last_survey_day' BY <2>1, <2>2, <3>1
    <3>3. Shows(b, survey'[b], 0) BY <2>1, Scheduled DEF Shows
    <3> QED BY <2>1, <3>2, <3>3 DEF Kept
  <2>4. ASSUME NEW c \in Body \ {b} PROVE Kept(c)' BY <2>1, <2>2 DEF InPlay, Kept
  <2> QED BY <1>1, <2>2, <2>3, <2>4 DEF InPlay
<1>5. CASE UNCHANGED vars BY <1>1, <1>5 DEF vars, clockVars, InPlay, Kept
<1> QED BY <1>2, <1>3, <1>4, <1>5 DEF PlayNext

THEOREM CampaignInvariant == PlaySpec => []InPlay
BY InitInPlay, StepInPlay, PTL DEF PlaySpec

(* What shows on a day is what the schedule says of it.                    *)
LEMMA ShowsSchedule ==
    ASSUME NEW b \in Body, NEW s, NEW d \in Nat, Shows(b, s, d)
    PROVE  /\ s.phase = "in_transit" <=> d < transit_ticks[b]
           /\ s.phase = "surveyed" <=> d >= transit_ticks[b] + scan_ticks[b]
           /\ s.phase = "scanning" => regions_by(b, d) = 1 .. s.regions_done
<1> DEFINE R == regions_total[b]
<1>1. /\ R \in Nat \ {0} /\ transit_ticks[b] \in Nat \ {0} /\ scan_ticks[b] \in Nat \ {0}
      /\ region_complete_day(b, R) = scan_ticks[b]
      /\ \A k \in Nat : region_complete_day(b, k) \in Nat
      /\ \A j, k \in Nat : j <= k => region_complete_day(b, j) <= region_complete_day(b, k)
      BY Scheduled, RegionDays
<1>2. s.regions_done \in Nat /\ s.ticks_remaining \in Nat BY DEF Shows, Surveys, survey_state
<1>3. CASE s.phase = "in_transit" BY <1>1, <1>2, <1>3 DEF Shows
<1>4. CASE s.phase = "surveyed" BY <1>1, <1>2, <1>4 DEF Shows
<1>5. CASE s.phase = "scanning"
  <2> DEFINE done == s.regions_done
  <2>1. /\ done < R /\ s.ticks_remaining > 0
        /\ transit_ticks[b] + region_complete_day(b, done) <= d
        /\ s.ticks_remaining = transit_ticks[b] + region_complete_day(b, done + 1) - d
        BY <1>5 DEF Shows, Surveys
  <2> HIDE DEF done
  <2>2. done \in Nat /\ done + 1 \in Nat BY <1>2 DEF done
  <2>3. region_complete_day(b, done) \in Nat /\ region_complete_day(b, done + 1) \in Nat BY <1>1, <2>2
  <2>4. d < transit_ticks[b] + region_complete_day(b, done + 1) BY <1>1, <2>1, <2>3
  <2>5. d >= transit_ticks[b] BY <1>1, <2>1, <2>3
  <2>6. region_complete_day(b, done + 1) <= scan_ticks[b] BY <1>1, <2>1, <2>2
  <2>7. d < transit_ticks[b] + scan_ticks[b] BY <1>1, <2>3, <2>4, <2>6
  <2>8. ASSUME NEW k \in 1 .. R
        PROVE  transit_ticks[b] + region_complete_day(b, k) <= d <=> k <= done
    <3>1. k \in Nat /\ region_complete_day(b, k) \in Nat BY <1>1
    <3>2. k <= done => region_complete_day(b, k) <= region_complete_day(b, done) BY <1>1, <2>2, <3>1
    <3>3. ~(k <= done) => region_complete_day(b, done + 1) <= region_complete_day(b, k)
      <4>1. ~(k <= done) => done + 1 <= k BY <2>2, <3>1
      <4> QED BY <1>1, <2>2, <3>1, <4>1
    <3> QED BY <1>1, <2>1, <2>3, <2>4, <3>1, <3>2, <3>3
  <2>9. regions_by(b, d) = 1 .. done BY <1>1, <2>1, <2>2, <2>8 DEF regions_by
  <2>10. /\ ~(d < transit_ticks[b]) /\ ~(d >= transit_ticks[b] + scan_ticks[b])
         /\ s.phase # "in_transit" /\ s.phase # "surveyed"
         BY <1>1, <1>5, <2>5, <2>7
  <2> QED BY <2>9, <2>10 DEF done
<1> QED BY <1>3, <1>4, <1>5 DEF Shows

LEMMA SentShows ==
    ASSUME InPlay, NEW b \in Body, sent[b] >= 0
    PROVE  days_out(b) \in Nat /\ Shows(b, survey[b], days_out(b))
BY DEF InPlay, Kept, days_out, Typed, ClockOK

(* Regions are revealed on the days of the schedule, for any schedule, any *)
(* speeds and any cutting of the days into frames: what a survey shows is  *)
(* a function of the days since it was dispatched (advance_surveys).       *)
THEOREM RevealsOnSchedule == PlaySpec => []RevealFollowsSchedule
<1>1. ASSUME InPlay PROVE RevealFollowsSchedule
      BY <1>1, SentShows, ShowsSchedule DEF RevealFollowsSchedule
<1> QED BY <1>1, CampaignInvariant, PTL

(* The panel counts the days left of a survey, one a day, to zero          *)
(* (survey_eta_days).                                                      *)
THEOREM EtaCountsDown == PlaySpec => []EtaIsHonest
<1>1. ASSUME InPlay PROVE EtaIsHonest
  <2> SUFFICES ASSUME NEW b \in Body, sent[b] >= 0
               PROVE  LET left == transit_ticks[b] + scan_ticks[b] - days_out(b)
                      IN  survey_eta_days(b) = IF left > 0 THEN left ELSE 0
      BY DEF EtaIsHonest
  <2> DEFINE s == survey[b]
             d == days_out(b)
  <2>1. d \in Nat /\ Shows(b, s, d) BY <1>1, SentShows
  <2>2. transit_ticks[b] \in Nat \ {0} /\ scan_ticks[b] \in Nat \ {0} BY Scheduled
  <2>3. /\ s.phase = "in_transit" <=> d < transit_ticks[b]
        /\ s.phase = "surveyed" <=> d >= transit_ticks[b] + scan_ticks[b]
        BY <2>1, ShowsSchedule
  <2>4. CASE s.phase = "in_transit"
    <3>1. survey_eta_days(b) = s.ticks_remaining + scan_ticks[b] BY <2>4 DEF survey_eta_days
    <3>2. s.ticks_remaining = transit_ticks[b] - d BY <2>1, <2>4 DEF Shows
    <3> HIDE DEF s, d
    <3> QED BY <2>1, <2>2, <2>3, <2>4, <3>1, <3>2 DEF d
  <2>5. CASE s.phase = "scanning"
    <3>1. survey_eta_days(b) = s.ticks_remaining + scan_ticks[b] - region_complete_day(b, s.regions_done + 1)
          BY <2>5 DEF survey_eta_days
    <3>2. s.ticks_remaining = transit_ticks[b] + region_complete_day(b, s.regions_done + 1) - d
          BY <2>1, <2>5 DEF Shows
    <3>3. region_complete_day(b, s.regions_done + 1) \in Nat
      <4>1. s.regions_done + 1 \in Nat BY <2>1 DEF Shows, Surveys, survey_state
      <4> QED BY <4>1, RegionDays
    <3> HIDE DEF s, d
    <3> QED BY <2>1, <2>2, <2>3, <2>5, <3>1, <3>2, <3>3 DEF d
  <2>6. CASE s.phase = "surveyed"
    <3>1. survey_eta_days(b) = 0 BY <2>6 DEF survey_eta_days
    <3> HIDE DEF s, d
    <3> QED BY <2>1, <2>2, <2>3, <2>6, <3>1 DEF d
  <2> QED BY <2>1, <2>4, <2>5, <2>6 DEF Shows
<1> QED BY <1>1, CampaignInvariant, PTL

=============================================================================
