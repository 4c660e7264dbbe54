-------------------------- MODULE QuarterDaysProofs --------------------------
(***************************************************************************)
(* Proofs about QuarterDays: the walk of a quarter comes to the same world *)
(* however its days are cut, work and its payment stay in step, and a site *)
(* that nothing slows stands complete on its day.                          *)
(***************************************************************************)
EXTENDS QuarterDays, WellFoundedInduction, TLAPS

-----------------------------------------------------------------------------
(* Days one after another.                                                 *)

LEMMA LeastNat ==
    ASSUME NEW S, S \subseteq Nat, S # {}
    PROVE  \E x \in S : \A y \in S : x <= y
<1> DEFINE below == {ss \in Nat \X Nat : ss[1] < ss[2]}
<1>1. IsWellFoundedOn(below, Nat) BY NatLessThanWellFounded DEF OpToRel
<1>2. PICK x \in S : \A y \in S : <<y, x>> \notin below
  <2> HIDE DEF below
  <2> QED BY <1>1, WFMin
<1>3. ASSUME NEW y \in S PROVE x <= y
  <2>1. x \in Nat /\ y \in Nat /\ <<y, x>> \in Nat \X Nat OBVIOUS
  <2>2. ~ <<y, x>>[1] < <<y, x>>[2] BY <1>2, <2>1
  <2> QED BY <2>1, <2>2
<1> QED BY <1>3

LEMMA EveryDay ==
    ASSUME NEW T, T \subseteq Nat, 0 \in T, \A n \in T : n + 1 \in T
    PROVE  T = Nat
<1>1. ASSUME Nat \ T # {} PROVE FALSE
  <2>1. PICK m \in Nat \ T : \A y \in Nat \ T : m <= y BY <1>1, LeastNat
  <2>2. m - 1 \in Nat /\ m - 1 \notin Nat \ T BY <2>1
  <2>3. (m - 1) + 1 \in T BY <2>2
  <2> QED BY <2>1, <2>3
<1> QED BY <1>1

(* Day by day from x0: a function for the days 0 .. n.                     *)
DayOnDay(f, x0, n, F) == f[0] = x0 /\ \A d \in 1 .. n : f[d] = F[<<f[d - 1], d>>]

LEMMA DayByDay ==
    ASSUME NEW S, NEW x0 \in S, NEW n \in Nat, NEW F \in [S \X (1 .. n) -> S]
    PROVE  \E f \in [0 .. n -> S] : DayOnDay(f, x0, n, F)
<1> DEFINE upto(m) == {g \in [0 .. m -> S] : g[0] = x0 /\ \A d \in 1 .. m : g[d] = F[<<g[d - 1], d>>]}
           T == {m \in Nat : m <= n => upto(m) # {}}
<1>1. 0 \in T
  <2>1. [i \in 0 .. 0 |-> x0] \in upto(0) OBVIOUS
  <2> QED BY <2>1
<1>2. ASSUME NEW m \in T PROVE m + 1 \in T
  <2> SUFFICES ASSUME m + 1 <= n PROVE upto(m + 1) # {} OBVIOUS
  <2>1. m \in Nat /\ m <= n OBVIOUS
  <2>2. PICK g \in upto(m) : TRUE BY <2>1
  <2> DEFINE h == [i \in 0 .. m + 1 |-> IF i = m + 1 THEN F[<<g[m], m + 1>>] ELSE g[i]]
  <2>3. g \in [0 .. m -> S] /\ g[0] = x0 /\ \A d \in 1 .. m : g[d] = F[<<g[d - 1], d>>] BY <2>2
  <2>4. <<g[m], m + 1>> \in S \X (1 .. n) BY <2>1, <2>3
  <2>5. h \in [0 .. m + 1 -> S] /\ h[0] = x0
    <3>1. F[<<g[m], m + 1>>] \in S BY <2>4
    <3> QED BY <2>1, <2>3, <3>1
  <2>6. ASSUME NEW d \in 1 .. m + 1 PROVE h[d] = F[<<h[d - 1], d>>]
    <3>1. d - 1 \in 0 .. m /\ h[d - 1] = g[d - 1] BY <2>1
    <3>2. CASE d = m + 1 BY <2>1, <3>1, <3>2
    <3>3. CASE d # m + 1
      <4>1. d \in 1 .. m /\ h[d] = g[d] BY <2>1, <3>3
      <4> QED BY <2>3, <3>1, <4>1
    <3> QED BY <3>2, <3>3
  <2>7. h \in upto(m + 1) BY <2>5, <2>6
  <2> QED BY <2>7
<1>3. T = Nat
  <2> HIDE DEF upto
  <2> QED BY <1>1, <1>2, EveryDay
<1>4. upto(n) # {}
  <2> HIDE DEF upto
  <2> QED BY <1>3
<1> QED BY <1>4 DEF DayOnDay

-----------------------------------------------------------------------------
(* Arithmetic.                                                             *)
LEMMA Division ==
    ASSUME NEW a \in Nat, NEW c \in Nat, a <= c, NEW n \in Nat \ {0}
    PROVE  a \div n \in Nat /\ a \div n <= c \div n
<1> DEFINE p == a \div n q == c \div n
<1>1. p \in Nat /\ n * p <= a /\ a < n * p + n OBVIOUS
<1>2. q \in Nat /\ n * q <= c /\ c < n * q + n OBVIOUS
<1> HIDE DEF p, q
<1>3. ASSUME q < p PROVE FALSE
  <2>1. n * q + n <= n * p
    <3>1. PICK k \in Nat : p = q + 1 + k
      <4>1. p - q - 1 \in Nat /\ p = q + 1 + (p - q - 1) BY <1>1, <1>2, <1>3
      <4> QED BY <4>1
    <3>2. n * p = n * q + n + n * k BY <1>1, <1>2, <3>1
    <3>3. n * k \in Nat BY <3>1
    <3> QED BY <1>1, <1>2, <3>2, <3>3
  <2> QED BY <1>1, <1>2, <2>1
<1>4. p <= q BY <1>1, <1>2, <1>3
<1> QED BY <1>1, <1>4 DEF p, q

LEMMA DividesOnce ==
    ASSUME NEW n \in Nat \ {0}, NEW m \in Nat, NEW r \in 0 .. n - 1
    PROVE  (n * m + r) \div n = m
<1> DEFINE q == (n * m + r) \div n
<1>1. n * m \in Nat OBVIOUS
<1>2. q \in Nat /\ n * q <= n * m + r /\ n * m + r < n * q + n BY <1>1
<1> HIDE DEF q
<1>3. ASSUME q < m PROVE FALSE
  <2>1. PICK k \in Nat : m = q + 1 + k
    <3>1. m - q - 1 \in Nat /\ m = q + 1 + (m - q - 1) BY <1>2, <1>3
    <3> QED BY <3>1
  <2>2. n * m = n * q + n + n * k /\ n * k \in Nat BY <1>2, <2>1
  <2>3. n * q \in Nat BY <1>2
  <2> QED BY <1>1, <1>2, <2>2, <2>3
<1>4. ASSUME m < q PROVE FALSE
  <2>1. PICK k \in Nat : q = m + 1 + k
    <3>1. q - m - 1 \in Nat /\ q = m + 1 + (q - m - 1) BY <1>2, <1>4
    <3> QED BY <3>1
  <2>2. n * q = n * m + n + n * k /\ n * k \in Nat BY <1>2, <2>1
  <2> QED BY <1>1, <1>2, <2>2
<1> QED BY <1>2, <1>3, <1>4 DEF q

LEMMA QuarterTypes ==
    /\ Q \in Nat \ {0} /\ MILLE \in Nat \ {0} /\ MARCH \in Nat /\ MAX_OWED \in Nat
    /\ \A s \in Site : Duration[s] \in Nat \ {0}
    /\ \A r \in Rates : r \in 0 .. MILLE
BY QuarterAssumption

LEMMA Lesser_ == ASSUME NEW a \in Int, NEW b \in Int
                 PROVE  Lesser(a, b) \in {a, b} /\ Lesser(a, b) <= a /\ Lesser(a, b) <= b
BY DEF Lesser

(* A day's work as whole days and what is over.                            *)
LEMMA DayOfWork ==
    ASSUME NEW m \in Nat
    PROVE  /\ m \div MILLE \in Nat /\ m % MILLE \in 0 .. MILLE - 1
           /\ m = MILLE * (m \div MILLE) + (m % MILLE)
<1>1. MILLE \in Nat \ {0} BY QuarterTypes
<1>2. m \div MILLE \in Nat /\ m % MILLE \in 0 .. MILLE - 1 BY <1>1
<1>3. m - MILLE * (m \div MILLE) = m % MILLE BY <1>1
<1>4. MILLE * (m \div MILLE) \in Nat BY <1>1, <1>2
<1> DEFINE whole == MILLE * (m \div MILLE)
           over == m % MILLE
<1>5. whole \in Nat /\ over \in Int /\ m - whole = over BY <1>1, <1>2, <1>3, <1>4
<1> HIDE DEF whole, over
<1>6. m = whole + over BY <1>5
<1> QED BY <1>2, <1>6 DEF whole, over

LEMMA Quarters ==
    ASSUME NEW left \in Nat
    PROVE  quarters_of(left) \in Nat /\ (left > 0 => quarters_of(left) > 0) /\ quarters_of(0) = 0
<1>1. Q \in Nat \ {0} BY QuarterTypes
<1>2. left + Q - 1 \in Nat BY <1>1
<1>3. quarters_of(left) = (left + Q - 1) \div Q BY DEF quarters_of
<1>4. quarters_of(left) \in Nat BY <1>1, <1>2, <1>3
<1>5. left > 0 => quarters_of(left) > 0
  <2>1. Q \div Q = 1 BY <1>1
  <2>2. ASSUME left > 0 PROVE Q <= left + Q - 1 BY <1>1, <2>2
  <2>3. left > 0 => 1 <= (left + Q - 1) \div Q BY <1>1, <1>2, <2>1, <2>2, Division
  <2> QED BY <1>3, <1>4, <2>3
<1>6. quarters_of(0) = 0
  <2>1. Q - 1 \in 0 .. Q - 1 /\ Q * 0 + (Q - 1) = Q - 1 /\ 0 + Q - 1 = Q - 1 BY <1>1
  <2>2. (Q * 0 + (Q - 1)) \div Q = 0 BY <1>1, <2>1, DividesOnce
  <2> QED BY <2>1, <2>2 DEF quarters_of
<1> QED BY <1>4, <1>5, <1>6

-----------------------------------------------------------------------------
(* A day of a site.                                                        *)

(* What it comes to, field by field.                                       *)
LEMMA BuildDay ==
    ASSUME NEW b \in building, NEW d \in 1 .. Q
    PROVE  LET milli == b.build_day_milli + b.build_rate
               left == b.days_remaining - milli \div MILLE
               n == build_day(b, d)
           IN  /\ n \in building
               /\ ~is_building(b) => n = b
               /\ is_building(b) /\ left > 0 =>
                    /\ n.there = b.there /\ n.days_remaining = left
                    /\ n.ticks_remaining = quarters_of(left)
                    /\ n.build_rate = b.build_rate /\ n.build_paid_days = b.build_paid_days - 1
                    /\ n.build_day_milli = milli % MILLE /\ n.arrears = b.arrears + b.build_rate
                    /\ n.completion_day = b.completion_day /\ n.output_share = b.output_share
               /\ is_building(b) /\ ~(left > 0) =>
                    n = [no_site EXCEPT !.there = TRUE, !.completion_day = d,
                                        !.arrears = b.arrears + b.build_rate,
                                        !.output_share = b.output_share]
<1> DEFINE milli == b.build_day_milli + b.build_rate
           left == b.days_remaining - milli \div MILLE
           built == [b EXCEPT !.build_paid_days = @ - 1, !.arrears = @ + b.build_rate,
                              !.build_day_milli = milli % MILLE, !.days_remaining = left,
                              !.ticks_remaining = quarters_of(left)]
           n == build_day(b, d)
<1>1. MILLE \in Nat \ {0} /\ Q \in Nat \ {0} /\ milli \in Nat BY QuarterTypes DEF building
<1>2. milli \div MILLE \in Nat /\ milli % MILLE \in 0 .. MILLE BY <1>1, DayOfWork
<1>3. n = IF ~is_building(b) THEN b ELSE IF left > 0 THEN built ELSE completed(built, d)
      BY DEF build_day
<1> HIDE DEF milli
<1>4. left \in Int BY <1>1, <1>2 DEF building
<1>5. left > 0 => left \in Nat /\ quarters_of(left) \in Nat BY <1>4, Quarters
<1>6. b.build_rate \in 0 .. MILLE /\ b.arrears \in Nat /\ b.arrears + b.build_rate \in Nat
      BY <1>1 DEF building
<1> HIDE DEF left, n
<1>7. /\ built.there = b.there /\ built.days_remaining = left
      /\ built.ticks_remaining = quarters_of(left)
      /\ built.build_rate = b.build_rate /\ built.build_paid_days = b.build_paid_days - 1
      /\ built.build_day_milli = milli % MILLE /\ built.arrears = b.arrears + b.build_rate
      /\ built.completion_day = b.completion_day /\ built.output_share = b.output_share
      BY DEF building
<1>8. is_building(b) /\ left > 0 => built \in building
  <2> SUFFICES ASSUME is_building(b), left > 0 PROVE built \in building OBVIOUS
  <2>1. b.build_paid_days \in 0 .. Q /\ b.build_paid_days > 0 BY DEF building, is_building
  <2>2. b.build_paid_days - 1 \in 0 .. Q BY <1>1, <2>1
  <2>3. left \in Nat /\ quarters_of(left) \in Nat BY <1>5
  <2>4. \A paid \in 0 .. Q, owed \in Nat, over \in 0 .. MILLE, l \in Nat, ticks \in Nat :
            [b EXCEPT !.build_paid_days = paid, !.arrears = owed, !.build_day_milli = over,
                      !.days_remaining = l, !.ticks_remaining = ticks] \in building
        BY DEF building
  <2> QED BY <1>2, <1>6, <2>2, <2>3, <2>4
<1> HIDE DEF built
<1>9. completed(built, d) = [no_site EXCEPT !.there = TRUE, !.completion_day = d,
                                            !.arrears = b.arrears + b.build_rate,
                                            !.output_share = b.output_share]
      BY <1>7, Zenon DEF completed
<1>10. completed(built, d) \in building
  <2>1. d \in 0 .. Q /\ b.output_share \in 0 .. MILLE /\ MILLE \in 0 .. MILLE /\ 0 \in 0 .. Q
        /\ 0 \in 0 .. MILLE /\ 0 \in Nat BY <1>1 DEF building
  <2>2. \A day \in 0 .. Q, owed \in Nat, share \in 0 .. MILLE :
            [no_site EXCEPT !.there = TRUE, !.completion_day = day, !.arrears = owed,
                            !.output_share = share] \in building
        BY <2>1 DEF building, no_site
  <2>3. [no_site EXCEPT !.there = TRUE, !.completion_day = d, !.arrears = b.arrears + b.build_rate,
                      !.output_share = b.output_share] \in building
        BY <1>6, <2>1, <2>2, Zenon
  <2> QED BY <1>9, <2>3
<1> QED BY <1>3, <1>7, <1>8, <1>9, <1>10 DEF n, left, milli

(* The days of a site that one call of advance_construction_to builds.     *)
Building(f, b, from, to) ==
    \A d \in 0 .. to : f[d] = IF d <= from THEN b ELSE build_day(f[d - 1], d)

LEMMA Built ==
    ASSUME NEW b \in building, NEW from \in 0 .. Q, NEW to \in 0 .. Q
    PROVE  \E f \in [0 .. to -> building] :
              Building(f, b, from, to) /\ build_days(b, from, to) = f[to]
<1> DEFINE body(g) == [d \in 0 .. to |-> IF d <= from THEN b ELSE build_day(g[d - 1], d)]
           f == CHOOSE g : g = body(g)
           F == [x \in building \X (1 .. to) |-> IF x[2] <= from THEN x[1] ELSE build_day(x[1], x[2])]
<1>0. to \in Nat /\ from \in Nat BY QuarterTypes
<1>1. F \in [building \X (1 .. to) -> building]
  <2>1. ASSUME NEW x \in building \X (1 .. to)
        PROVE  (IF x[2] <= from THEN x[1] ELSE build_day(x[1], x[2])) \in building
    <3>1. x[1] \in building /\ x[2] \in 1 .. Q BY QuarterTypes
    <3>2. build_day(x[1], x[2]) \in building BY <3>1, BuildDay
    <3> QED BY <3>1, <3>2
  <2> QED BY <2>1
<1>2. \A x \in building, d \in 1 .. to : F[<<x, d>>] = IF d <= from THEN x ELSE build_day(x, d)
      OBVIOUS
<1> HIDE DEF F
<1>3. PICK g \in [0 .. to -> building] : DayOnDay(g, b, to, F) BY <1>0, <1>1, DayByDay
<1>4. ASSUME NEW d \in 1 .. to
      PROVE  /\ d - 1 \in 0 .. to /\ g[d - 1] \in building
             /\ g[d] = IF d <= from THEN g[d - 1] ELSE build_day(g[d - 1], d)
  <2>1. d - 1 \in 0 .. to /\ g[d - 1] \in building OBVIOUS
  <2> QED BY <1>2, <1>3, <2>1 DEF DayOnDay
<1>5. \A d \in 0 .. to : d <= from => g[d] = b
  <2> DEFINE T == {d \in Nat : d <= to /\ d <= from => g[d] = b}
  <2>1. 0 \in T BY <1>3 DEF DayOnDay
  <2>2. ASSUME NEW d \in T PROVE d + 1 \in T
    <3> SUFFICES ASSUME d + 1 <= to, d + 1 <= from PROVE g[d + 1] = b OBVIOUS
    <3>1. d + 1 \in 1 .. to /\ (d + 1) - 1 = d OBVIOUS
    <3>2. g[d] = b BY <1>0, <3>1
    <3> QED BY <1>4, <3>1, <3>2
  <2>3. T = Nat
    <3> HIDE DEF T
    <3>1. T \subseteq Nat BY DEF T
    <3> QED BY <2>1, <2>2, <3>1, EveryDay
  <2> QED BY <2>3
<1>6. g = body(g)
  <2>1. ASSUME NEW d \in 0 .. to PROVE g[d] = IF d <= from THEN b ELSE build_day(g[d - 1], d)
    <3>1. CASE d <= from BY <1>5, <3>1
    <3>2. CASE ~(d <= from)
      <4>1. d \in 1 .. to BY <1>0, <3>2
      <4> QED BY <1>4, <3>2, <4>1
    <3> QED BY <3>1, <3>2
  <2> QED BY <2>1
<1>7. f = body(f)
  <2> HIDE DEF body
  <2> QED BY <1>6
<1>8. build_days(b, from, to) = f[to] BY DEF build_days
<1> DEFINE h == f
<1>9. h = body(h) /\ build_days(b, from, to) = h[to] BY <1>7, <1>8
<1> HIDE DEF h
<1>10. Building(h, b, from, to) BY <1>9 DEF Building
<1>11. \A d \in 0 .. to : h[d] \in building
  <2> DEFINE T == {d \in Nat : d <= to => h[d] \in building}
  <2>1. 0 \in T BY <1>0, <1>10 DEF Building
  <2>2. ASSUME NEW d \in T PROVE d + 1 \in T
    <3> SUFFICES ASSUME d + 1 <= to PROVE h[d + 1] \in building OBVIOUS
    <3>1. d + 1 \in 0 .. to /\ (d + 1) - 1 = d /\ d + 1 \in 1 .. Q /\ h[d] \in building
          BY QuarterTypes
    <3>2. h[d + 1] = IF d + 1 <= from THEN b ELSE build_day(h[d], d + 1) BY <1>10, <3>1 DEF Building
    <3>3. build_day(h[d], d + 1) \in building BY <3>1, BuildDay
    <3> QED BY <3>2, <3>3
  <2>3. T = Nat
    <3> HIDE DEF T
    <3>1. T \subseteq Nat BY DEF T
    <3> QED BY <2>1, <2>2, <3>1, EveryDay
  <2> QED BY <2>3
<1>12. h \in [0 .. to -> building] BY <1>9, <1>11
<1> QED BY <1>9, <1>10, <1>12

(* A site's days do not depend on how far the call goes.                   *)
LEMMA OneBuilding ==
    ASSUME NEW b \in building, NEW from \in 0 .. Q, NEW to \in 0 .. Q, NEW f, NEW g, NEW n \in 0 .. to,
           Building(f, b, from, n), Building(g, b, from, to)
    PROVE  f[n] = g[n]
<1>0. n \in Nat /\ to \in Nat /\ from \in Nat BY QuarterTypes
<1> DEFINE T == {d \in Nat : d <= n => f[d] = g[d]}
<1>1. 0 \in T BY <1>0 DEF Building
<1>2. ASSUME NEW d \in T PROVE d + 1 \in T
  <2> SUFFICES ASSUME d + 1 <= n PROVE f[d + 1] = g[d + 1] OBVIOUS
  <2>1. d + 1 \in 0 .. n /\ d + 1 \in 0 .. to /\ (d + 1) - 1 = d /\ f[d] = g[d] BY <1>0
  <2> QED BY <2>1 DEF Building
<1>3. T = Nat
  <2> HIDE DEF T
  <2>1. T \subseteq Nat BY DEF T
  <2> QED BY <1>1, <1>2, <2>1, EveryDay
<1> QED BY <1>0, <1>3

LEMMA BuildNone ==
    ASSUME NEW b \in building, NEW from \in 0 .. Q PROVE build_days(b, from, from) = b
<1>1. PICK f \in [0 .. from -> building] : Building(f, b, from, from) /\ build_days(b, from, from) = f[from]
      BY Built
<1> QED BY <1>1, QuarterTypes DEF Building

(* One day more is one build_day more.                                     *)
LEMMA BuildMore ==
    ASSUME NEW b \in building, NEW from \in 0 .. Q, NEW to \in 0 .. Q - 1, from <= to
    PROVE  /\ build_days(b, from, to) \in building
           /\ build_days(b, from, to + 1) = build_day(build_days(b, from, to), to + 1)
<1>0. to \in Nat /\ from \in Nat /\ to \in 0 .. Q /\ to + 1 \in 0 .. Q BY QuarterTypes
<1>1. PICK f \in [0 .. to -> building] : Building(f, b, from, to) /\ build_days(b, from, to) = f[to]
      BY <1>0, Built
<1>2. PICK g \in [0 .. to + 1 -> building] :
          Building(g, b, from, to + 1) /\ build_days(b, from, to + 1) = g[to + 1]
      BY <1>0, Built
<1>3. to \in 0 .. to + 1 /\ to + 1 \in 0 .. to + 1 /\ (to + 1) - 1 = to /\ ~(to + 1 <= from) BY <1>0
<1>4. f[to] = g[to] BY <1>0, <1>1, <1>2, <1>3, OneBuilding
<1>5. g[to + 1] = build_day(g[to], to + 1) BY <1>2, <1>3 DEF Building
<1> QED BY <1>0, <1>1, <1>2, <1>4, <1>5

-----------------------------------------------------------------------------
(* A day of a world.                                                       *)

(* Worlds are the same when their parts are.                               *)
LEMMA SameWorld ==
    ASSUME NEW v \in world, NEW w \in world,
           v.construction_quarter_day = w.construction_quarter_day,
           \A s \in Site : v.buildings[s] = w.buildings[s],
           v.march = w.march, v.in_field = w.in_field, v.field_days = w.field_days
    PROVE  v = w
<1>1. v.buildings \in [Site -> building] /\ w.buildings \in [Site -> building] BY DEF world
<1>2. v.buildings = w.buildings BY <1>1
<1> QED BY <1>2 DEF world

(* All but the construction of a world.                                    *)
SameMarch(v, w) == v.march = w.march /\ v.in_field = w.in_field /\ v.field_days = w.field_days

LEMMA Construction ==
    ASSUME NEW w \in world, NEW to \in 0 .. Q, w.construction_quarter_day <= to
    PROVE  LET v == advance_construction_to(w, to)
               from == w.construction_quarter_day
           IN  /\ v \in world /\ SameMarch(v, w) /\ v.construction_quarter_day = to
               /\ \A s \in Site : v.buildings[s] = build_days(w.buildings[s], from, to)
<1> DEFINE v == advance_construction_to(w, to)
           from == w.construction_quarter_day
<1>1. from \in 0 .. Q /\ from \in Nat /\ to \in Nat /\ \A s \in Site : w.buildings[s] \in building
      BY QuarterTypes DEF world
<1>2. Lesser(to, Q) = to BY QuarterTypes DEF Lesser
<1>3. CASE to = from
  <2>1. v = w BY <1>1, <1>2, <1>3 DEF advance_construction_to
  <2>2. \A s \in Site : w.buildings[s] = build_days(w.buildings[s], from, to)
        BY <1>1, <1>3, BuildNone
  <2> QED BY <1>3, <2>1, <2>2 DEF SameMarch
<1>4. CASE to # from
  <2> DEFINE after == [s \in Site |-> build_days(w.buildings[s], from, to)]
  <2>1. v = [w EXCEPT !.construction_quarter_day = to, !.buildings = after]
        BY <1>1, <1>2, <1>4 DEF advance_construction_to
  <2>2. ASSUME NEW s \in Site PROVE build_days(w.buildings[s], from, to) \in building
    <3>1. to - 1 \in 0 .. Q - 1 /\ (to - 1) + 1 = to /\ from <= to - 1 /\ to - 1 \in 0 .. Q
          /\ to \in 1 .. Q
          BY <1>1, <1>4, QuarterTypes
    <3>2. build_days(w.buildings[s], from, to - 1) \in building
          /\ build_days(w.buildings[s], from, to)
                = build_day(build_days(w.buildings[s], from, to - 1), to)
      <4> DEFINE e == to - 1
      <4>1. e \in 0 .. Q - 1 /\ e + 1 = to /\ from <= e BY <3>1
      <4> HIDE DEF e
      <4>2. build_days(w.buildings[s], from, e) \in building
            /\ build_days(w.buildings[s], from, e + 1)
                  = build_day(build_days(w.buildings[s], from, e), e + 1)
            BY <1>1, <4>1, BuildMore
      <4> QED BY <4>1, <4>2 DEF e
    <3> QED BY <3>1, <3>2, BuildDay
  <2>3. after \in [Site -> building] BY <2>2
  <2> HIDE DEF after, v
  <2>4. v \in world /\ SameMarch(v, w) /\ v.construction_quarter_day = to /\ v.buildings = after
        BY <2>1, <2>3 DEF world, SameMarch
  <2>5. \A s \in Site : after[s] = build_days(w.buildings[s], from, to) BY DEF after
  <2> QED BY <2>4, <2>5 DEF v
<1> QED BY <1>3, <1>4

(* The day of construction, one day at a time.                             *)
LEMMA ConstructionMore ==
    ASSUME NEW w \in world, NEW e \in 0 .. Q - 1, w.construction_quarter_day <= e
    PROVE  /\ \A s \in Site : advance_construction_to(w, e + 1).buildings[s]
                        = build_day(advance_construction_to(w, e).buildings[s], e + 1)
           /\ advance_construction_to(advance_construction_to(w, e), e + 1)
                = advance_construction_to(w, e + 1)
<1> DEFINE from == w.construction_quarter_day
           v == advance_construction_to(w, e)
           u == advance_construction_to(w, e + 1)
           x == advance_construction_to(v, e + 1)
<1>1. /\ e \in Nat /\ e \in 0 .. Q /\ e + 1 \in 0 .. Q /\ e <= e + 1 /\ from <= e + 1
      /\ from \in 0 .. Q /\ \A s \in Site : w.buildings[s] \in building
      BY QuarterTypes DEF world
<1>2. /\ v \in world /\ SameMarch(v, w) /\ v.construction_quarter_day = e
      /\ \A s \in Site : v.buildings[s] = build_days(w.buildings[s], from, e)
      BY <1>1, Construction
<1>3. /\ u \in world /\ SameMarch(u, w) /\ u.construction_quarter_day = e + 1
      /\ \A s \in Site : u.buildings[s] = build_days(w.buildings[s], from, e + 1)
      BY <1>1, Construction
<1> HIDE DEF u, v
<1>4. /\ x \in world /\ SameMarch(x, v) /\ x.construction_quarter_day = e + 1
      /\ \A s \in Site : x.buildings[s] = build_days(v.buildings[s], e, e + 1)
      BY <1>1, <1>2, Construction
<1> HIDE DEF x
<1>5. ASSUME NEW s \in Site
      PROVE  /\ u.buildings[s] = build_day(v.buildings[s], e + 1)
             /\ x.buildings[s] = u.buildings[s]
  <2>1. u.buildings[s] = build_day(v.buildings[s], e + 1) BY <1>1, <1>2, <1>3, BuildMore
  <2>2. v.buildings[s] \in building BY <1>2 DEF world
  <2>3. build_days(v.buildings[s], e, e + 1) = build_day(build_days(v.buildings[s], e, e), e + 1)
        BY <1>1, <2>2, BuildMore
  <2>4. build_days(v.buildings[s], e, e) = v.buildings[s] BY <1>1, <2>2, BuildNone
  <2> QED BY <1>4, <2>1, <2>3, <2>4
<1>6. x = u BY <1>2, <1>3, <1>4, <1>5, SameWorld DEF SameMarch
<1> QED BY <1>5, <1>6 DEF u, v, x

LEMMA FieldDays ==
    ASSUME NEW w \in world, NEW n \in Nat
    PROVE  LET v == accumulate_war_field_days(w, n)
           IN  /\ v \in world /\ v.field_days = w.field_days + n * w.in_field
               /\ v.construction_quarter_day = w.construction_quarter_day
               /\ v.buildings = w.buildings /\ v.march = w.march /\ v.in_field = w.in_field
<1>1. w.in_field \in 0 .. 1 /\ w.field_days \in Nat BY DEF world
<1>2. w.field_days + n * w.in_field \in Nat
  <2>1. CASE w.in_field = 0 BY <1>1, <2>1
  <2>2. CASE w.in_field = 1 BY <1>1, <2>2
  <2> QED BY <1>1, <2>1, <2>2
<1> DEFINE total == w.field_days + n * w.in_field
<1>3. accumulate_war_field_days(w, n) = [w EXCEPT !.field_days = total]
      BY <1>1 DEF accumulate_war_field_days
<1> HIDE DEF total
<1>4. total \in Nat BY <1>2 DEF total
<1>5. /\ [w EXCEPT !.field_days = total] \in world
      /\ [w EXCEPT !.field_days = total].field_days = total BY <1>4 DEF world
<1> QED BY <1>3, <1>5 DEF total, world

LEMMA MilitaryDay ==
    ASSUME NEW w \in world
    PROVE  LET v == run_military_day(w)
           IN  /\ v \in world /\ v.construction_quarter_day = w.construction_quarter_day
               /\ v.buildings = w.buildings /\ v.field_days = w.field_days
<1>1. w.march \in 0 .. MARCH /\ w.in_field \in 0 .. 1 /\ MARCH \in Nat BY QuarterTypes DEF world
<1>2. pace(w) \in {1, 2} BY DEF pace
<1> DEFINE left == march_left(w.march, pace(w))
           field == IF left = 0 THEN 1 - w.in_field ELSE w.in_field
<1>3. left \in 0 .. MARCH BY <1>1, <1>2 DEF march_left
<1>4. field \in 0 .. 1 BY <1>1
<1>5. run_military_day(w) = [w EXCEPT !.march = left, !.in_field = field] BY DEF run_military_day
<1> HIDE DEF left, field
<1> QED BY <1>3, <1>4, <1>5 DEF world

(* A day of the walk by itself, whatever day the call that walks it goes   *)
(* to: an idle military costs only the day in the field.                   *)
NextDay(w) ==
    LET d == w.construction_quarter_day + 1 IN
    IF military_active(w) THEN quarter_day(w, d)
    ELSE accumulate_war_field_days(advance_construction_to(w, d), 1)

LEMMA NextDayIs ==
    ASSUME NEW w \in world, w.construction_quarter_day < Q
    PROVE  LET v == NextDay(w)
               d == w.construction_quarter_day + 1
           IN  /\ v \in world /\ v.construction_quarter_day = d
               /\ \A s \in Site : v.buildings[s] = build_day(w.buildings[s], d)
<1> DEFINE from == w.construction_quarter_day
           u == advance_construction_to(w, from + 1)
           m == run_military_day(u)
<1>1. from \in 0 .. Q /\ from \in Nat /\ from \in 0 .. Q - 1 /\ from + 1 \in 0 .. Q /\ from <= from + 1
      /\ \A s \in Site : w.buildings[s] \in building
      BY QuarterTypes DEF world
<1>2. /\ u \in world /\ u.construction_quarter_day = from + 1
      /\ \A s \in Site : u.buildings[s] = build_days(w.buildings[s], from, from + 1)
      BY <1>1, Construction
<1>3. ASSUME NEW s \in Site PROVE u.buildings[s] = build_day(w.buildings[s], from + 1)
  <2>1. w.buildings[s] \in building BY <1>1
  <2>2. build_days(w.buildings[s], from, from + 1)
            = build_day(build_days(w.buildings[s], from, from), from + 1)
        BY <1>1, <2>1, BuildMore
  <2>3. build_days(w.buildings[s], from, from) = w.buildings[s] BY <1>1, <2>1, BuildNone
  <2> QED BY <1>2, <2>2, <2>3
<1> HIDE DEF u
<1>4. /\ m \in world /\ m.construction_quarter_day = u.construction_quarter_day
      /\ m.buildings = u.buildings BY <1>2, MilitaryDay
<1> HIDE DEF m
<1>5. NextDay(w) \in {accumulate_war_field_days(m, 1), accumulate_war_field_days(u, 1)}
      BY DEF NextDay, quarter_day, m, u
<1>6. 1 \in Nat OBVIOUS
<1>7. ASSUME NEW x \in {m, u}
      PROVE  LET v == accumulate_war_field_days(x, 1)
             IN  /\ v \in world /\ v.construction_quarter_day = from + 1
                 /\ v.buildings = u.buildings
  <2>1. x \in world /\ x.construction_quarter_day = from + 1 /\ x.buildings = u.buildings
        BY <1>2, <1>4
  <2> QED BY <1>6, <2>1, FieldDays
<1> QED BY <1>3, <1>5, <1>7

(* A world's days to the end of the quarter, one after another.            *)
Days(g, w) ==
    \A d \in 0 .. Q :
        g[d] = IF d <= w.construction_quarter_day THEN w ELSE NextDay(g[d - 1])

LEMMA DaysOf ==
    ASSUME NEW w \in world
    PROVE  \E g \in [0 .. Q -> world] : Days(g, w)
<1> DEFINE from == w.construction_quarter_day
           F == [x \in world \X (1 .. Q) |->
                    IF x[2] <= from THEN w
                    ELSE IF x[1].construction_quarter_day < Q THEN NextDay(x[1]) ELSE x[1]]
<1>0. Q \in Nat /\ from \in 0 .. Q /\ from \in Nat BY QuarterTypes DEF world
<1>1. F \in [world \X (1 .. Q) -> world]
  <2>1. ASSUME NEW x \in world \X (1 .. Q)
        PROVE  (IF x[2] <= from THEN w
                ELSE IF x[1].construction_quarter_day < Q THEN NextDay(x[1]) ELSE x[1]) \in world
    <3>1. x[1] \in world OBVIOUS
    <3>2. x[1].construction_quarter_day < Q => NextDay(x[1]) \in world BY <3>1, NextDayIs
    <3> QED BY <3>1, <3>2
  <2> QED BY <2>1
<1>2. \A x \in world, d \in 1 .. Q : F[<<x, d>>] =
          IF d <= from THEN w ELSE IF x.construction_quarter_day < Q THEN NextDay(x) ELSE x
      OBVIOUS
<1> HIDE DEF F
<1>3. PICK g \in [0 .. Q -> world] : DayOnDay(g, w, Q, F) BY <1>0, <1>1, DayByDay
<1>4. ASSUME NEW d \in 1 .. Q
      PROVE  /\ d - 1 \in 0 .. Q /\ g[d - 1] \in world
             /\ g[d] = IF d <= from THEN w
                       ELSE IF g[d - 1].construction_quarter_day < Q THEN NextDay(g[d - 1])
                       ELSE g[d - 1]
  <2>1. d - 1 \in 0 .. Q /\ g[d - 1] \in world BY <1>0
  <2>2. g[d] = F[<<g[d - 1], d>>] BY <1>3 DEF DayOnDay
  <2> QED BY <1>2, <2>1, <2>2
<1>5. \A d \in 0 .. Q : g[d].construction_quarter_day = IF d <= from THEN from ELSE d
  <2> DEFINE T == {d \in Nat : d <= Q =>
                        g[d].construction_quarter_day = IF d <= from THEN from ELSE d}
  <2>1. 0 \in T BY <1>0, <1>3 DEF DayOnDay
  <2>2. ASSUME NEW d \in T PROVE d + 1 \in T
    <3> SUFFICES ASSUME d + 1 <= Q
                 PROVE  g[d + 1].construction_quarter_day = IF d + 1 <= from THEN from ELSE d + 1
        OBVIOUS
    <3>1. d + 1 \in 1 .. Q /\ (d + 1) - 1 = d BY <1>0
    <3>2. g[d].construction_quarter_day = IF d <= from THEN from ELSE d BY <1>0, <3>1
    <3>3. CASE d + 1 <= from BY <1>0, <1>4, <3>1, <3>3
    <3>4. CASE ~(d + 1 <= from)
      <4>1. g[d].construction_quarter_day = d /\ d < Q BY <1>0, <3>2, <3>4
      <4>2. g[d + 1] = NextDay(g[d]) /\ g[d] \in world BY <1>4, <3>1, <3>4, <4>1
      <4>3. NextDay(g[d]).construction_quarter_day = d + 1 BY <4>1, <4>2, NextDayIs
      <4> QED BY <3>4, <4>2, <4>3
    <3> QED BY <3>3, <3>4
  <2>3. T = Nat
    <3> HIDE DEF T
    <3>1. T \subseteq Nat BY DEF T
    <3> QED BY <2>1, <2>2, <3>1, EveryDay
  <2> QED BY <1>0, <2>3
<1>6. ASSUME NEW d \in 0 .. Q
      PROVE  g[d] = IF d <= from THEN w ELSE NextDay(g[d - 1])
  <2>1. CASE d = 0 BY <1>0, <1>3, <2>1 DEF DayOnDay
  <2>2. CASE d # 0
    <3>1. d \in 1 .. Q /\ d - 1 \in 0 .. Q BY <1>0, <2>2
    <3>2. ~(d <= from) => g[d - 1].construction_quarter_day < Q BY <1>0, <1>5, <3>1
    <3> QED BY <1>4, <3>1, <3>2
  <2> QED BY <2>1, <2>2
<1> QED BY <1>6 DEF Days

LEMMA DaysCount ==
    ASSUME NEW w \in world, NEW g \in [0 .. Q -> world], Days(g, w), NEW d \in 0 .. Q
    PROVE  g[d].construction_quarter_day
                = IF d <= w.construction_quarter_day THEN w.construction_quarter_day ELSE d
<1> DEFINE from == w.construction_quarter_day
           T == {e \in Nat : e <= Q =>
                    g[e].construction_quarter_day = IF e <= from THEN from ELSE e}
<1>0. Q \in Nat /\ from \in 0 .. Q /\ from \in Nat BY QuarterTypes DEF world
<1>1. 0 \in T BY <1>0 DEF Days
<1>2. ASSUME NEW e \in T PROVE e + 1 \in T
  <2> SUFFICES ASSUME e + 1 <= Q
               PROVE  g[e + 1].construction_quarter_day = IF e + 1 <= from THEN from ELSE e + 1
      OBVIOUS
  <2>1. e + 1 \in 0 .. Q /\ (e + 1) - 1 = e /\ e \in 0 .. Q /\ g[e] \in world BY <1>0
  <2>2. g[e].construction_quarter_day = IF e <= from THEN from ELSE e BY <1>0, <2>1
  <2>3. CASE e + 1 <= from BY <1>0, <2>1, <2>3 DEF Days
  <2>4. CASE ~(e + 1 <= from)
    <3>1. g[e].construction_quarter_day = e /\ e < Q BY <1>0, <2>2, <2>4
    <3>2. g[e + 1] = NextDay(g[e]) BY <2>1, <2>4 DEF Days
    <3>3. NextDay(g[e]).construction_quarter_day = e + 1 BY <2>1, <3>1, NextDayIs
    <3> QED BY <2>4, <3>2, <3>3
  <2> QED BY <2>3, <2>4
<1>3. T = Nat
  <2> HIDE DEF T
  <2>1. T \subseteq Nat BY DEF T
  <2> QED BY <1>1, <1>2, <2>1, EveryDay
<1> QED BY <1>0, <1>3

-----------------------------------------------------------------------------
(* The walk: its loop, with what is left of the days taken in one call     *)
(* once the military is idle, comes to the days one after another.         *)

(* An idle military stays idle, and its days in one call are its days.     *)
LEMMA IdleDays ==
    ASSUME NEW w \in world, NEW g \in [0 .. Q -> world], Days(g, w),
           NEW d \in 0 .. Q, w.construction_quarter_day <= d, ~ military_active(g[d]),
           NEW to \in 0 .. Q, d <= to
    PROVE  g[to] = accumulate_war_field_days(advance_construction_to(g[d], to), to - d)
<1> DEFINE x == g[d]
           from == w.construction_quarter_day
           call(e) == accumulate_war_field_days(advance_construction_to(x, e), e - d)
           T == {n \in Nat : d + n <= Q => g[d + n] = call(d + n)}
<1>0. /\ Q \in Nat /\ d \in Nat /\ to \in Nat /\ from \in 0 .. Q /\ from \in Nat /\ x \in world
      /\ x.march \in Nat
  <2>1. Q \in Nat /\ d \in Nat /\ to \in Nat BY QuarterTypes
  <2>2. from \in 0 .. Q /\ from \in Nat BY <2>1 DEF world
  <2>3. x \in world BY <2>1
  <2>4. MARCH \in Nat /\ x.march \in 0 .. MARCH BY <2>3, QuarterTypes DEF world
  <2> QED BY <2>1, <2>2, <2>3, <2>4
<1>1. x.construction_quarter_day = d BY <1>0, DaysCount
<1>2. x.march = 0 BY <1>0 DEF military_active
<1> HIDE DEF x
<1>3. ASSUME NEW e \in 0 .. Q, d <= e
      PROVE  /\ advance_construction_to(x, e) \in world /\ e - d \in Nat
             /\ SameMarch(advance_construction_to(x, e), x)
             /\ advance_construction_to(x, e).construction_quarter_day = e
  BY <1>0, <1>1, <1>3, Construction
<1>4. 0 \in T
  <2>1. d \in 0 .. Q /\ d <= d /\ d - d = 0 /\ d + 0 = d BY <1>0
  <2> DEFINE v == advance_construction_to(x, d)
  <2>2. v \in world /\ SameMarch(v, x) /\ v.construction_quarter_day = d BY <1>3, <2>1
  <2>3. \A s \in Site : x.buildings[s] \in building BY <1>0 DEF world
  <2>4. \A s \in Site : v.buildings[s] = build_days(x.buildings[s], d, d)
        BY <1>0, <1>1, <2>1, Construction
  <2>5. \A s \in Site : v.buildings[s] = x.buildings[s] BY <2>1, <2>3, <2>4, BuildNone
  <2> HIDE DEF v
  <2>6. v = x BY <1>0, <1>1, <2>2, <2>5, SameWorld DEF SameMarch
  <2> DEFINE u == accumulate_war_field_days(v, 0)
  <2>7. 0 \in Nat OBVIOUS
  <2>8. /\ u \in world /\ u.field_days = v.field_days + 0 * v.in_field
        /\ u.construction_quarter_day = v.construction_quarter_day
        /\ u.buildings = v.buildings /\ u.march = v.march /\ u.in_field = v.in_field
        BY <2>2, <2>7, FieldDays
  <2> HIDE DEF u
  <2>9. u.field_days = v.field_days BY <2>2, <2>8 DEF world
  <2>10. u = v BY <2>2, <2>8, <2>9, SameWorld
  <2>11. call(d) = u BY <2>1 DEF u, v
  <2> HIDE DEF call
  <2>12. g[d] = call(d) BY <2>6, <2>10, <2>11 DEF x
  <2> QED BY <2>1, <2>12
<1>5. ASSUME NEW n \in T PROVE n + 1 \in T
  <2> SUFFICES ASSUME d + (n + 1) <= Q PROVE g[d + (n + 1)] = call(d + (n + 1)) OBVIOUS
  <2> DEFINE e == d + n
  <2>1. n \in Nat /\ e \in 0 .. Q - 1 /\ e \in 0 .. Q /\ e + 1 \in 0 .. Q /\ d <= e /\ d <= e + 1
        /\ d + (n + 1) = e + 1 /\ e - d = n /\ (e + 1) - d = n + 1 /\ ~(e + 1 <= from)
        /\ (e + 1) - 1 = e /\ e \in Nat
        BY <1>0
  <2>2. g[e] = call(e) BY <2>1
  <2> HIDE DEF e, T
  <2> DEFINE v == advance_construction_to(x, e)
             u == advance_construction_to(x, e + 1)
             y == accumulate_war_field_days(v, n)
             z == advance_construction_to(y, e + 1)
  <2>3. v \in world /\ SameMarch(v, x) /\ v.construction_quarter_day = e BY <1>3, <2>1
  <2>4. u \in world /\ SameMarch(u, x) /\ u.construction_quarter_day = e + 1 BY <1>3, <2>1
  <2>5. advance_construction_to(v, e + 1) = u BY <1>0, <1>1, <2>1, ConstructionMore
  <2>6. /\ y \in world /\ y.field_days = v.field_days + n * v.in_field
        /\ y.construction_quarter_day = e
        /\ y.buildings = v.buildings /\ y.march = v.march /\ y.in_field = v.in_field
        BY <2>1, <2>3, FieldDays
  <2>7. g[e] = y BY <2>1, <2>2
  <2>8. \A s \in Site : u.buildings[s] = build_days(v.buildings[s], e, e + 1)
        BY <2>1, <2>3, <2>5, Construction
  <2> HIDE DEF v, u, y, call
  <2>9. /\ z \in world /\ SameMarch(z, y) /\ z.construction_quarter_day = e + 1
        /\ \A s \in Site : z.buildings[s] = build_days(y.buildings[s], e, e + 1)
        BY <2>1, <2>6, Construction
  <2>10. g[e + 1] = NextDay(y)
    <3>1. g[e + 1] = IF e + 1 <= from THEN w ELSE NextDay(g[(e + 1) - 1]) BY <2>1 DEF Days
    <3> QED BY <2>1, <2>7, <3>1
  <2>11. ~ military_active(y) BY <1>2, <2>3, <2>6 DEF military_active, SameMarch
  <2>12. NextDay(y) = accumulate_war_field_days(z, 1) BY <2>6, <2>11 DEF NextDay, z
  <2> HIDE DEF z
  <2> DEFINE a == accumulate_war_field_days(z, 1)
             b == accumulate_war_field_days(u, n + 1)
  <2>13. 1 \in Nat /\ n + 1 \in Nat BY <2>1
  <2>14. /\ a \in world /\ a.field_days = z.field_days + 1 * z.in_field
         /\ a.construction_quarter_day = z.construction_quarter_day
         /\ a.buildings = z.buildings /\ a.march = z.march /\ a.in_field = z.in_field
         BY <2>9, <2>13, FieldDays
  <2>15. /\ b \in world /\ b.field_days = u.field_days + (n + 1) * u.in_field
         /\ b.construction_quarter_day = u.construction_quarter_day
         /\ b.buildings = u.buildings /\ b.march = u.march /\ b.in_field = u.in_field
         BY <2>4, <2>13, FieldDays
  <2> HIDE DEF a, b
  <2>16. a.field_days = b.field_days
    <3>1. x.in_field \in 0 .. 1 /\ x.field_days \in Nat BY <1>0 DEF world
    <3>2. a.field_days = (x.field_days + n * x.in_field) + 1 * x.in_field
          BY <2>3, <2>6, <2>9, <2>14 DEF SameMarch
    <3>3. b.field_days = x.field_days + (n + 1) * x.in_field BY <2>4, <2>15 DEF SameMarch
    <3>4. CASE x.in_field = 0 BY <2>1, <3>1, <3>2, <3>3, <3>4
    <3>5. CASE x.in_field = 1 BY <2>1, <3>1, <3>2, <3>3, <3>5
    <3> QED BY <3>1, <3>4, <3>5
  <2>17. \A s \in Site : a.buildings[s] = b.buildings[s] BY <2>6, <2>8, <2>9, <2>14, <2>15
  <2>18. a = b BY <2>3, <2>4, <2>6, <2>9, <2>14, <2>15, <2>16, <2>17, SameWorld DEF SameMarch
  <2>19. g[e + 1] = a BY <2>10, <2>12 DEF a
  <2>20. call(e + 1) = b BY <2>1 DEF call, b, u
  <2> QED BY <2>1, <2>18, <2>19, <2>20
<1>6. T = Nat
  <2> HIDE DEF T
  <2>1. T \subseteq Nat BY DEF T
  <2> QED BY <1>4, <1>5, <2>1, EveryDay
<1>7. to - d \in Nat /\ d + (to - d) = to /\ to <= Q BY <1>0
<1>8. g[to] = call(to)
  <2> DEFINE n == to - d
  <2>1. n \in T /\ d + n <= Q /\ d + n = to BY <1>6, <1>7
  <2> HIDE DEF n, call
  <2> QED BY <2>1
<1> QED BY <1>8 DEF x

(* The loop of advance_quarter_to, for w and a day to.                     *)
Walk(to, acc, d) ==
    IF acc.construction_quarter_day >= d THEN acc
    ELSE IF military_active(acc) THEN quarter_day(acc, d)
    ELSE accumulate_war_field_days(advance_construction_to(acc, to), days_skipped(d, to))

Walks(h, w, to) ==
    \A d \in 0 .. to :
        h[d] = IF d <= w.construction_quarter_day THEN w ELSE Walk(to, h[d - 1], d)

LEMMA Walked ==
    ASSUME NEW w \in world, NEW g \in [0 .. Q -> world], Days(g, w),
           NEW to \in 0 .. Q, NEW h, Walks(h, w, to)
    PROVE  \A d \in 0 .. to : h[d] = g[d] \/ (h[d] = g[to] /\ w.construction_quarter_day < to)
<1> DEFINE from == w.construction_quarter_day
           good(d) == h[d] = g[d] \/ (h[d] = g[to] /\ from < to)
           T == {d \in Nat : d <= to => good(d)}
<1>0. Q \in Nat /\ to \in Nat /\ from \in 0 .. Q /\ from \in Nat BY QuarterTypes DEF world
<1>1. 0 \in T
  <2>1. h[0] = w /\ g[0] = w BY <1>0 DEF Walks, Days
  <2> QED BY <2>1
<1>2. ASSUME NEW d \in T PROVE d + 1 \in T
  <2> SUFFICES ASSUME d + 1 <= to PROVE good(d + 1) OBVIOUS
  <2>1. /\ d + 1 \in 0 .. to /\ d + 1 \in 0 .. Q /\ d \in 0 .. Q /\ d \in 0 .. to /\ d \in Nat
        /\ (d + 1) - 1 = d /\ good(d)
        BY <1>0
  <2>2. CASE d + 1 <= from
    <3>1. h[d + 1] = w BY <2>1, <2>2 DEF Walks
    <3>2. g[d + 1] = w BY <2>1, <2>2 DEF Days
    <3> QED BY <3>1, <3>2
  <2>3. CASE ~(d + 1 <= from)
    <3>1. from <= d /\ from < to /\ ~(to <= from) BY <1>0, <2>1, <2>3
    <3>2. h[d + 1] = Walk(to, h[d], d + 1) BY <2>1, <2>3 DEF Walks
    <3>3. g[d + 1] = NextDay(g[d]) BY <2>1, <2>3 DEF Days
    <3>4. CASE h[d] = g[to]
      <4>1. g[to].construction_quarter_day = to BY <1>0, <3>1, DaysCount
      <4>2. g[to].construction_quarter_day >= d + 1 BY <1>0, <2>1, <4>1
      <4> QED BY <3>1, <3>2, <3>4, <4>2 DEF Walk
    <3>5. CASE h[d] = g[d]
      <4>1. g[d].construction_quarter_day = d BY <1>0, <2>1, <3>1, DaysCount
      <4>2. ~(g[d].construction_quarter_day >= d + 1) BY <2>1, <4>1
      <4>3. CASE military_active(g[d])
        <5>1. h[d + 1] = quarter_day(g[d], d + 1) BY <3>2, <3>5, <4>2, <4>3 DEF Walk
        <5>2. g[d + 1] = quarter_day(g[d], d + 1) BY <3>3, <4>1, <4>3 DEF NextDay
        <5> QED BY <5>1, <5>2
      <4>4. CASE ~ military_active(g[d])
        <5>1. days_skipped(d + 1, to) = to - d BY <1>0, <2>1 DEF days_skipped
        <5>2. h[d + 1] = accumulate_war_field_days(advance_construction_to(g[d], to), to - d)
              BY <3>2, <3>5, <4>2, <4>4, <5>1 DEF Walk
        <5>3. d <= to BY <1>0, <2>1
        <5>4. g[to] = accumulate_war_field_days(advance_construction_to(g[d], to), to - d)
              BY <2>1, <3>1, <4>4, <5>3, IdleDays
        <5> QED BY <3>1, <5>2, <5>4
      <4> QED BY <4>3, <4>4
    <3> QED BY <2>1, <3>4, <3>5
  <2> QED BY <2>2, <2>3
<1>3. T = Nat
  <2> HIDE DEF T
  <2>1. T \subseteq Nat BY DEF T
  <2> QED BY <1>1, <1>2, <2>1, EveryDay
<1> QED BY <1>0, <1>3

LEMMA WalkIsDays ==
    ASSUME NEW w \in world, NEW g \in [0 .. Q -> world], Days(g, w), NEW to \in 0 .. Q
    PROVE  advance_quarter_to(w, to) = g[to]
<1> DEFINE from == w.construction_quarter_day
           body(k) == [d \in 0 .. to |-> IF d <= from THEN w ELSE Walk(to, k[d - 1], d)]
           f == CHOOSE k : k = body(k)
           walked(x, d) == IF d <= from THEN w ELSE Walk(to, x, d)
           S == {g[d] : d \in 0 .. Q}
<1>0. Q \in Nat /\ to \in Nat /\ to \in 0 .. to /\ from \in 0 .. Q /\ from \in Nat
      BY QuarterTypes DEF world
<1>1. Lesser(to, Q) = to BY <1>0 DEF Lesser
<1>2. advance_quarter_to(w, to) = f[to] BY <1>1 DEF advance_quarter_to, Walk
<1>3. \E k : k = body(k)
  <2> DEFINE idle == {d \in Nat : from <= d /\ ~ military_active(g[d])}
             stop(d) == \E e \in idle : e < d
             k == [d \in 0 .. to |-> IF stop(d) THEN g[to] ELSE g[d]]
  <2>1. ASSUME NEW d \in 0 .. to PROVE k[d] = IF d <= from THEN w ELSE Walk(to, k[d - 1], d)
    <3>1. CASE d <= from
      <4>1. ~ stop(d) BY <1>0, <3>1
      <4>2. g[d] = w BY <1>0, <3>1 DEF Days
      <4> QED BY <3>1, <4>1, <4>2
    <3>2. CASE ~(d <= from)
      <4>1. /\ d \in Nat /\ d \in 0 .. Q /\ d - 1 \in 0 .. to /\ d - 1 \in 0 .. Q /\ from <= d - 1
            /\ d - 1 <= to /\ ~(to <= from) /\ (d - 1) + 1 = d /\ d - 1 \in Nat /\ d <= to
            BY <1>0, <3>2
      <4>2. g[d] = NextDay(g[d - 1]) BY <3>2, <4>1 DEF Days
      <4>3. g[d - 1].construction_quarter_day = d - 1 BY <1>0, <4>1, DaysCount
      <4>4. g[to].construction_quarter_day = to BY <1>0, <4>1, DaysCount
      <4>5. stop(d) <=> stop(d - 1) \/ d - 1 \in idle
        <5>1. \A e \in idle : e < d <=> e < d - 1 \/ e = d - 1 BY <4>1
        <5>2. d - 1 < d BY <4>1
        <5> QED BY <5>1, <5>2
      <4>6. d - 1 \in idle <=> ~ military_active(g[d - 1]) BY <4>1
      <4>7. k[d] = (IF stop(d) THEN g[to] ELSE g[d])
            /\ k[d - 1] = (IF stop(d - 1) THEN g[to] ELSE g[d - 1]) BY <4>1
      <4> HIDE DEF idle, stop, k
      <4>8. CASE stop(d - 1)
        <5>1. k[d - 1] = g[to] /\ k[d] = g[to] BY <4>5, <4>7, <4>8
        <5>2. g[to].construction_quarter_day >= d BY <4>1, <4>4
        <5> QED BY <3>2, <5>1, <5>2 DEF Walk
      <4>9. CASE ~ stop(d - 1) /\ military_active(g[d - 1])
        <5>1. k[d - 1] = g[d - 1] /\ k[d] = g[d] BY <4>5, <4>6, <4>7, <4>9
        <5>2. ~(g[d - 1].construction_quarter_day >= d) BY <4>1, <4>3
        <5>3. g[d] = quarter_day(g[d - 1], d) BY <4>1, <4>2, <4>3, <4>9 DEF NextDay
        <5> QED BY <3>2, <4>9, <5>1, <5>2, <5>3 DEF Walk
      <4>10. CASE ~ stop(d - 1) /\ ~ military_active(g[d - 1])
        <5>1. k[d - 1] = g[d - 1] /\ k[d] = g[to] BY <4>5, <4>6, <4>7, <4>10
        <5>2. ~(g[d - 1].construction_quarter_day >= d) BY <4>1, <4>3
        <5>3. days_skipped(d, to) = to - (d - 1) BY <1>0, <4>1 DEF days_skipped
        <5>4. g[to] = accumulate_war_field_days(advance_construction_to(g[d - 1], to), to - (d - 1))
              BY <4>1, <4>10, IdleDays
        <5> QED BY <3>2, <4>10, <5>1, <5>2, <5>3, <5>4 DEF Walk
      <4> QED BY <4>8, <4>9, <4>10
    <3> QED BY <3>1, <3>2
  <2> DEFINE m == k
  <2>2. \A d \in 0 .. to : m[d] = IF d <= from THEN w ELSE Walk(to, m[d - 1], d) BY <2>1
  <2>3. m = [d \in 0 .. to |-> m[d]] OBVIOUS
  <2> HIDE DEF m
  <2>4. m = body(m) BY <2>2, <2>3
  <2> QED BY <2>4
<1>4. f = body(f)
  <2> HIDE DEF body
  <2> QED BY <1>3
<1> DEFINE h == f
<1>5. h = body(h) /\ advance_quarter_to(w, to) = h[to] BY <1>2, <1>4
<1> HIDE DEF h
<1>6. Walks(h, w, to) BY <1>5 DEF Walks
<1>7. h[to] = g[to] BY <1>0, <1>6, Walked
<1> QED BY <1>5, <1>7

(* What every day keeps, the walk keeps.                                   *)
LEMMA EachDay ==
    ASSUME NEW P, P \subseteq world, NEW w \in P, NEW to \in 0 .. Q,
           \A x \in P : x.construction_quarter_day < Q => NextDay(x) \in P
    PROVE  advance_quarter_to(w, to) \in P
<1>0. Q \in Nat /\ to \in Nat /\ w \in world BY QuarterTypes
<1> DEFINE from == w.construction_quarter_day
<1>1. from \in 0 .. Q /\ from \in Nat BY <1>0 DEF world
<1>2. PICK g \in [0 .. Q -> world] : Days(g, w) BY <1>0, DaysOf
<1> DEFINE T == {d \in Nat : d <= Q => g[d] \in P}
<1>3. 0 \in T BY <1>0, <1>1, <1>2 DEF Days
<1>4. ASSUME NEW d \in T PROVE d + 1 \in T
  <2> SUFFICES ASSUME d + 1 <= Q PROVE g[d + 1] \in P OBVIOUS
  <2>1. d + 1 \in 0 .. Q /\ d \in 0 .. Q /\ (d + 1) - 1 = d /\ d < Q /\ g[d] \in P BY <1>0
  <2>2. CASE d + 1 <= from BY <1>2, <2>1, <2>2 DEF Days
  <2>3. CASE ~(d + 1 <= from)
    <3>1. g[d + 1] = NextDay(g[d]) BY <1>2, <2>1, <2>3 DEF Days
    <3>2. g[d].construction_quarter_day < Q
      <4>1. g[d].construction_quarter_day = IF d <= from THEN from ELSE d
            BY <1>0, <1>2, <2>1, DaysCount
      <4> QED BY <1>0, <1>1, <2>1, <2>3, <4>1
    <3> QED BY <2>1, <3>1, <3>2
  <2> QED BY <2>2, <2>3
<1>5. T = Nat
  <2> HIDE DEF T
  <2>1. T \subseteq Nat BY DEF T
  <2> QED BY <1>3, <1>4, <2>1, EveryDay
<1>6. g[to] \in P BY <1>0, <1>5
<1>7. advance_quarter_to(w, to) = g[to] BY <1>0, <1>2, WalkIsDays
<1> QED BY <1>6, <1>7

(* Where the walk comes to.                                                *)
LEMMA WalkTo ==
    ASSUME NEW w \in world, NEW to \in 0 .. Q, w.construction_quarter_day <= to
    PROVE  /\ advance_quarter_to(w, to) \in world
           /\ advance_quarter_to(w, to).construction_quarter_day = to
           /\ to = w.construction_quarter_day => advance_quarter_to(w, to) = w
<1>0. Q \in Nat /\ to \in Nat /\ w.construction_quarter_day \in Nat BY QuarterTypes DEF world
<1>1. PICK g \in [0 .. Q -> world] : Days(g, w) BY DaysOf
<1>2. advance_quarter_to(w, to) = g[to] BY <1>1, WalkIsDays
<1>3. g[to].construction_quarter_day = to BY <1>0, <1>1, DaysCount
<1>4. to = w.construction_quarter_day => g[to] = w BY <1>0, <1>1 DEF Days
<1> QED BY <1>1, <1>2, <1>3, <1>4

(* However the days are cut.                                               *)
LEMMA WalkTwice ==
    ASSUME NEW w \in world, NEW a \in 0 .. Q, NEW b \in 0 .. Q,
           w.construction_quarter_day <= a, a <= b
    PROVE  advance_quarter_to(advance_quarter_to(w, a), b) = advance_quarter_to(w, b)
<1> DEFINE from == w.construction_quarter_day
<1>0. Q \in Nat /\ a \in Nat /\ b \in Nat /\ from \in Nat BY QuarterTypes DEF world
<1>1. PICK g \in [0 .. Q -> world] : Days(g, w) BY DaysOf
<1>2. advance_quarter_to(w, a) = g[a] /\ advance_quarter_to(w, b) = g[b] BY <1>1, WalkIsDays
<1>3. g[a] \in world /\ g[a].construction_quarter_day = a BY <1>0, <1>1, DaysCount
<1>4. PICK k \in [0 .. Q -> world] : Days(k, g[a]) BY <1>3, DaysOf
<1>5. advance_quarter_to(g[a], b) = k[b] BY <1>3, <1>4, WalkIsDays
<1> DEFINE T == {n \in Nat : a + n <= Q => k[a + n] = g[a + n]}
<1>6. 0 \in T
  <2>1. a + 0 = a /\ a <= a /\ a \in 0 .. Q BY <1>0
  <2>2. k[a] = g[a] BY <1>3, <1>4, <2>1 DEF Days
  <2> QED BY <2>1, <2>2
<1>7. ASSUME NEW n \in T PROVE n + 1 \in T
  <2> SUFFICES ASSUME a + (n + 1) <= Q PROVE k[a + (n + 1)] = g[a + (n + 1)] OBVIOUS
  <2> DEFINE d == a + (n + 1)
  <2>1. /\ d \in 0 .. Q /\ d - 1 = a + n /\ ~(d <= a) /\ ~(d <= from) /\ k[a + n] = g[a + n]
        BY <1>0
  <2> HIDE DEF d
  <2>2. k[d] = NextDay(k[d - 1]) BY <1>3, <1>4, <2>1 DEF Days
  <2>3. g[d] = NextDay(g[d - 1]) BY <1>1, <2>1 DEF Days
  <2>4. k[d] = g[d] BY <2>1, <2>2, <2>3
  <2> QED BY <2>4 DEF d
<1>8. T = Nat
  <2> HIDE DEF T
  <2>1. T \subseteq Nat BY DEF T
  <2> QED BY <1>6, <1>7, <2>1, EveryDay
<1>9. k[b] = g[b]
  <2> DEFINE n == b - a
  <2>1. n \in Nat /\ a + n = b /\ a + n <= Q BY <1>0
  <2> HIDE DEF n
  <2>2. n \in T BY <1>8, <2>1
  <2> QED BY <2>1, <2>2
<1> QED BY <1>2, <1>5, <1>9

-----------------------------------------------------------------------------
(* The clock.                                                              *)

LEMMA Into ==
    ASSUME NEW day \in Nat, NEW m \in Nat, m <= day \div Q
    PROVE  /\ m * Q \in Nat /\ m * Q <= day /\ into_quarter(day, m) \in 0 .. Q
           /\ into_quarter(day, m) = Lesser(day - m * Q, Q)
           /\ m = day \div Q => day < m * Q + Q /\ into_quarter(day, m) = day - m * Q
                                /\ into_quarter(day, m) < Q
<1> DEFINE q == day \div Q
<1>1. Q \in Nat \ {0} BY QuarterTypes
<1>2. q \in Nat /\ Q * q <= day /\ day < Q * q + Q BY <1>1
<1> HIDE DEF q
<1>3. PICK k \in Nat : q = m + k
  <2>1. q - m \in Nat /\ q = m + (q - m) BY <1>2 DEF q
  <2> QED BY <2>1
<1>4. Q * q = m * Q + Q * k /\ m * Q \in Nat /\ Q * k \in Nat BY <1>1, <1>2, <1>3
<1>5. m * Q <= day BY <1>1, <1>2, <1>4
<1>6. into_quarter(day, m) = Lesser(day - m * Q, Q) BY DEF into_quarter
<1> DEFINE gone == day - m * Q
<1>7. gone \in Nat BY <1>4, <1>5
<1>8. m = q => day < m * Q + Q
  <2>1. m = q => m * Q = Q * q BY <1>1, <1>2
  <2> QED BY <1>2, <2>1
<1>9. m = q => gone < Q BY <1>1, <1>4, <1>8
<1> HIDE DEF gone
<1>10. Lesser(gone, Q) \in 0 .. Q /\ (gone < Q => Lesser(gone, Q) = gone) BY <1>1, <1>7 DEF Lesser
<1> QED BY <1>4, <1>5, <1>6, <1>8, <1>9, <1>10 DEF gone, q

-----------------------------------------------------------------------------
(* Types: the close of a quarter, the shelves' decisions, the orders.      *)

LEMMA Share ==
    ASSUME NEW d \in 1 .. Q
    PROVE  share_of(d) \in 0 .. MILLE
<1>1. Q \in Nat \ {0} /\ MILLE \in Nat \ {0} /\ Q - d \in 0 .. Q - 1 BY QuarterTypes
<1> DEFINE r == Q - d
<1>2. r \in Nat /\ r <= Q BY <1>1
<1> HIDE DEF r
<1>3. PICK k \in Nat : Q = r + k
  <2>1. Q - r \in Nat /\ Q = r + (Q - r) BY <1>1, <1>2
  <2> QED BY <2>1
<1>4. r * MILLE \in Nat /\ k * MILLE \in Nat BY <1>1, <1>2, <1>3
<1>5. Q * MILLE = r * MILLE + k * MILLE /\ Q * MILLE \in Nat BY <1>1, <1>2, <1>3
<1>6. r * MILLE <= Q * MILLE BY <1>4, <1>5
<1>7. (r * MILLE) \div Q \in Nat /\ (r * MILLE) \div Q <= (Q * MILLE) \div Q
      BY <1>1, <1>4, <1>5, <1>6, Division
<1>8. (Q * MILLE) \div Q = MILLE
  <2>1. 0 \in 0 .. Q - 1 /\ Q * MILLE + 0 = Q * MILLE BY <1>1, <1>5
  <2>2. (Q * MILLE + 0) \div Q = MILLE BY <1>1, <2>1, DividesOnce
  <2> QED BY <2>1, <2>2
<1>9. share_of(d) = (r * MILLE) \div Q BY DEF share_of, r
<1> QED BY <1>1, <1>7, <1>8, <1>9

(* A quarter closed.                                                       *)
Closed(w) == close_construction_quarter(w)

LEMMA Closing ==
    ASSUME NEW w \in world
    PROVE  LET up == advance_quarter_to(w, Q)
               v == Closed(w)
           IN  /\ up \in world /\ up.construction_quarter_day = Q
               /\ v \in world /\ v.construction_quarter_day = 0
               /\ \A s \in Site :
                    v.buildings[s] =
                        [up.buildings[s] EXCEPT
                            !.output_share = IF up.buildings[s].completion_day > 0
                                             THEN share_of(up.buildings[s].completion_day)
                                             ELSE MILLE,
                            !.completion_day = 0]
<1> DEFINE up == advance_quarter_to(w, Q)
           share(b) == IF b.completion_day > 0 THEN share_of(b.completion_day) ELSE MILLE
           after == [s \in Site |-> [up.buildings[s] EXCEPT !.output_share = share(up.buildings[s]),
                                                            !.completion_day = 0]]
           v == Closed(w)
<1>1. Q \in Nat \ {0} /\ MILLE \in Nat \ {0} /\ Q \in 0 .. Q /\ 0 \in 0 .. Q BY QuarterTypes
<1>2. w.construction_quarter_day <= Q BY <1>1 DEF world
<1>3. up \in world /\ up.construction_quarter_day = Q BY <1>1, <1>2, WalkTo
<1>4. v = [up EXCEPT !.construction_quarter_day = 0, !.buildings = after]
      BY DEF Closed, close_construction_quarter
<1> HIDE DEF up, v
<1>5. ASSUME NEW s \in Site PROVE after[s] \in building
  <2> DEFINE b == up.buildings[s]
  <2>1. b \in building /\ b.completion_day \in 0 .. Q BY <1>3 DEF world, building
  <2>2. share(b) \in 0 .. MILLE
    <3>1. b.completion_day > 0 => b.completion_day \in 1 .. Q BY <1>1, <2>1
    <3>2. MILLE \in 0 .. MILLE BY <1>1
    <3> QED BY <3>1, <3>2, Share
  <2> HIDE DEF b, share
  <2>3. [b EXCEPT !.output_share = share(b), !.completion_day = 0] \in building
        BY <1>1, <2>1, <2>2 DEF building
  <2> QED BY <2>3 DEF b
<1> HIDE DEF share
<1>6. after \in [Site -> building] BY <1>5
<1>7. \A s \in Site : after[s] = [up.buildings[s] EXCEPT !.output_share = share(up.buildings[s]),
                                                         !.completion_day = 0]
      OBVIOUS
<1> HIDE DEF after
<1>8. v \in world /\ v.construction_quarter_day = 0 /\ v.buildings = after
      BY <1>1, <1>3, <1>4, <1>6 DEF world
<1> QED BY <1>3, <1>7, <1>8 DEF share, up, v

(* A site after the shelves have decided.                                  *)
Decided(b, left_owed, its_rate) ==
    IF b.ticks_remaining = 0 THEN [b EXCEPT !.arrears = left_owed]
    ELSE [b EXCEPT !.arrears = left_owed, !.build_rate = its_rate,
                   !.build_paid_days = IF its_rate = 0 THEN 0 ELSE paid_days(b.days_remaining)]

LEMMA Deciding ==
    ASSUME NEW w \in world, NEW owed \in [Site -> 0 .. MAX_OWED], NEW rate \in [Site -> Rates]
    PROVE  LET v == run_construction(w, owed, rate)
           IN  /\ v \in world /\ v.construction_quarter_day = w.construction_quarter_day
               /\ \A s \in Site : v.buildings[s] = Decided(w.buildings[s], owed[s], rate[s])
<1> DEFINE v == run_construction(w, owed, rate)
           after == [s \in Site |-> Decided(w.buildings[s], owed[s], rate[s])]
<1>1. v = [w EXCEPT !.buildings = after] BY DEF run_construction, Decided
<1>2. ASSUME NEW s \in Site PROVE after[s] \in building
  <2> DEFINE b == w.buildings[s]
             o == owed[s]
             r == rate[s]
             paid == IF r = 0 THEN 0 ELSE paid_days(b.days_remaining)
  <2>1. b \in building BY DEF world
  <2>2. o \in Nat /\ r \in 0 .. MILLE BY QuarterTypes
  <2>3. paid \in 0 .. Q
    <3>1. b.days_remaining \in Nat BY <2>1 DEF building
    <3> QED BY <3>1, QuarterTypes DEF paid_days, Lesser
  <2> HIDE DEF b, o, r, paid
  <2>4. [b EXCEPT !.arrears = o] \in building BY <2>1, <2>2 DEF building
  <2>5. [b EXCEPT !.arrears = o, !.build_rate = r, !.build_paid_days = paid] \in building
        BY <2>1, <2>2, <2>3 DEF building
  <2>6. Decided(b, o, r) \in building BY <2>4, <2>5 DEF Decided, paid
  <2> QED BY <2>6 DEF b, o, r
<1>3. after \in [Site -> building] /\ \A s \in Site : after[s] = Decided(w.buildings[s], owed[s], rate[s])
      BY <1>2
<1> HIDE DEF after, v
<1>4. v \in world /\ v.construction_quarter_day = w.construction_quarter_day /\ v.buildings = after
      BY <1>1, <1>3 DEF world
<1> QED BY <1>3, <1>4 DEF v

(* A site just placed.                                                     *)
Sited(s, w, rate) ==
    [no_site EXCEPT !.there = TRUE,
        !.days_remaining = Duration[s], !.ticks_remaining = quarters_of(Duration[s]),
        !.build_rate = rate,
        !.build_paid_days = IF rate = 0 THEN 0 ELSE days_ahead(w, Duration[s])]

LEMMA Siting ==
    ASSUME NEW w \in world, NEW s \in Site, NEW rate \in Rates
    PROVE  LET v == [w EXCEPT !.buildings[s] = Sited(s, w, rate)]
           IN  /\ v \in world /\ v.construction_quarter_day = w.construction_quarter_day
               /\ v.buildings = [w.buildings EXCEPT ![s] = Sited(s, w, rate)]
               /\ Sited(s, w, rate) \in building
<1> DEFINE left == Q - w.construction_quarter_day
           ticks == quarters_of(Duration[s])
           paid == IF rate = 0 THEN 0 ELSE days_ahead(w, Duration[s])
<1>1. Q \in Nat \ {0} /\ MILLE \in Nat \ {0} /\ rate \in 0 .. MILLE /\ Duration[s] \in Nat
      BY QuarterTypes
<1>2. left \in 0 .. Q BY <1>1 DEF world
<1>3. paid \in 0 .. Q BY <1>1, <1>2 DEF days_ahead, Lesser
<1>4. ticks \in Nat BY <1>1, Quarters
<1> DEFINE d == Duration[s]
           b == [no_site EXCEPT !.there = TRUE, !.days_remaining = d, !.ticks_remaining = ticks,
                                !.build_rate = rate, !.build_paid_days = paid]
<1>5. Sited(s, w, rate) = b BY DEF Sited
<1>6. d \in Nat BY <1>1
<1> HIDE DEF ticks, paid, d
<1>7. /\ 0 \in 0 .. Q /\ 0 \in 0 .. MILLE /\ MILLE \in 0 .. MILLE /\ 0 \in Nat BY <1>1
<1>8. b \in building BY <1>1, <1>3, <1>4, <1>6, <1>7 DEF building, no_site
<1> HIDE DEF b
<1>9. /\ [w EXCEPT !.buildings[s] = b] \in world
      /\ [w EXCEPT !.buildings[s] = b].construction_quarter_day = w.construction_quarter_day
      /\ [w EXCEPT !.buildings[s] = b].buildings = [w.buildings EXCEPT ![s] = b]
      BY <1>8 DEF world
<1> QED BY <1>5, <1>8, <1>9

-----------------------------------------------------------------------------
(* The step invariant: where the two worlds stand by the clock, and that   *)
(* the live one is the headless one walked to today.                       *)
Cursor ==
    /\ m_last_econ_tick <= day_tick \div Q
    /\ pc = "clock" => m_last_econ_tick = day_tick \div Q
    /\ live.construction_quarter_day = into_quarter(day_tick, m_last_econ_tick)
    /\ headless.construction_quarter_day = 0

InStep == in_step => live = advance_quarter_to(headless, live.construction_quarter_day)

Inv == TypeOK /\ Cursor /\ InStep

LEMMA PlaceIs ==
    ASSUME NEW s \in Site, NEW rate \in Rates, place(s, rate)
    PROVE  /\ pc = "clock" /\ placed[s] = -1
           /\ live' = [live EXCEPT !.buildings[s] = Sited(s, live, rate)]
           /\ in_step' = (in_step /\ live.construction_quarter_day = 0)
           /\ headless' = IF in_step' THEN [headless EXCEPT !.buildings[s] = Sited(s, headless, rate)]
                          ELSE headless
           /\ placed' = [placed EXCEPT ![s] = day_tick]
           /\ slowed' = IF rate < MILLE THEN slowed \cup {s} ELSE slowed
           /\ UNCHANGED <<day_tick, m_last_econ_tick, pc, drawn>>
BY Zenon DEF place, ordered, Sited

LEMMA MarchIs ==
    ASSUME march
    PROVE  /\ pc = "clock"
           /\ live' = [live EXCEPT !.march = MARCH]
           /\ in_step' = (in_step /\ live.construction_quarter_day = 0)
           /\ headless' = IF in_step' THEN [headless EXCEPT !.march = MARCH] ELSE headless
           /\ UNCHANGED <<day_tick, m_last_econ_tick, pc, placed, slowed, drawn>>
BY Zenon DEF march, ordered

LEMMA Marching ==
    ASSUME NEW w \in world
    PROVE  LET v == [w EXCEPT !.march = MARCH]
           IN  /\ v \in world /\ v.construction_quarter_day = w.construction_quarter_day
               /\ v.buildings = w.buildings
BY QuarterTypes DEF world

LEMMA StepEconomyIs ==
    ASSUME step_economy
    PROVE  LET closed == Closed(live)
               debt(s) == closed.buildings[s].arrears
           IN  /\ pc = "boundary" /\ m_last_econ_tick < day_tick \div Q
               /\ m_last_econ_tick' = m_last_econ_tick + 1
               /\ UNCHANGED <<day_tick, pc, in_step, placed>>
               /\ \E owed \in [Site -> 0 .. MAX_OWED], rate \in [Site -> Rates] :
                    /\ \A s \in Site : owed[s] <= debt(s)
                    /\ \A s \in Site : closed.buildings[s].ticks_remaining = 0 => rate[s] = 0
                    /\ live' = advance_quarter_to(run_construction(closed, owed, rate),
                                                  into_quarter(day_tick', m_last_econ_tick'))
                    /\ headless' = run_construction(Closed(headless), owed, rate)
                    /\ drawn' = [s \in Site |-> drawn[s] + debt(s) - owed[s]]
                    /\ slowed' = slowed \cup
                            {s \in Site : closed.buildings[s].ticks_remaining > 0 /\ rate[s] < MILLE}
BY Zenon DEF step_economy, advance_construction_today, Closed

-----------------------------------------------------------------------------
LEMMA InitInv == ASSUME Init PROVE Inv
<1>1. Q \in Nat \ {0} /\ MILLE \in Nat \ {0} /\ MARCH \in Nat BY QuarterTypes
<1>2. no_site \in building BY <1>1 DEF building, no_site
<1>3. live \in world /\ headless = live /\ live.construction_quarter_day = 0
      BY <1>1, <1>2 DEF Init, world
<1>4. TypeOK
  <2>1. placed \in [Site -> Int] /\ drawn \in [Site -> Nat] BY DEF Init
  <2>2. {day_tick, m_last_econ_tick} \subseteq Nat BY DEF Init
  <2>3. {live, headless} \subseteq world BY <1>3
  <2>4. pc \in {"clock", "boundary"} /\ in_step \in BOOLEAN /\ slowed \subseteq Site BY DEF Init
  <2> QED BY <2>1, <2>2, <2>3, <2>4 DEF TypeOK
<1>5. 0 \div Q = 0
  <2>1. 0 \in 0 .. Q - 1 /\ Q * 0 + 0 = 0 /\ 0 \in Nat BY <1>1
  <2>2. (Q * 0 + 0) \div Q = 0 BY <1>1, <2>1, DividesOnce
  <2> QED BY <2>1, <2>2
<1>6. Cursor
  <2>1. 0 * Q = 0 BY <1>1
  <2>2. into_quarter(0, 0) = 0 BY <1>1, <2>1 DEF into_quarter, Lesser
  <2> QED BY <1>3, <1>5, <2>2 DEF Init, Cursor
<1>7. InStep
  <2>1. 0 \in 0 .. Q /\ 0 <= 0 BY <1>1
  <2> QED BY <1>3, <2>1, WalkTo DEF InStep
<1> QED BY <1>4, <1>6, <1>7 DEF Inv

LEMMA TypeFacts ==
    ASSUME TypeOK
    PROVE  /\ day_tick \in Nat /\ m_last_econ_tick \in Nat /\ live \in world /\ headless \in world
           /\ \A s \in Site : drawn[s] \in Nat
BY DEF TypeOK

LEMMA InvOrder ==
    ASSUME Inv, NEW s \in Site, NEW rate \in Rates, place(s, rate)
    PROVE  Inv'
<1>1. /\ day_tick \in Nat /\ m_last_econ_tick \in Nat /\ live \in world /\ headless \in world
      BY TypeFacts DEF Inv
<1>2. /\ pc = "clock" /\ placed[s] = -1
      /\ live' = [live EXCEPT !.buildings[s] = Sited(s, live, rate)]
      /\ in_step' = (in_step /\ live.construction_quarter_day = 0)
      /\ headless' = IF in_step' THEN [headless EXCEPT !.buildings[s] = Sited(s, headless, rate)]
                     ELSE headless
      /\ placed' = [placed EXCEPT ![s] = day_tick]
      /\ slowed' = IF rate < MILLE THEN slowed \cup {s} ELSE slowed
      /\ UNCHANGED <<day_tick, m_last_econ_tick, pc, drawn>>
      BY PlaceIs
<1>3. live' \in world /\ live'.construction_quarter_day = live.construction_quarter_day
      BY <1>1, <1>2, Siting
<1>4. headless' \in world /\ headless'.construction_quarter_day = headless.construction_quarter_day
      BY <1>1, <1>2, Siting
<1>5. TypeOK'
  <2>1. in_step' \in BOOLEAN BY <1>2
  <2>2. placed' \in [Site -> Int] BY <1>1, <1>2 DEF Inv, TypeOK
  <2>3. slowed' \subseteq Site BY <1>2 DEF Inv, TypeOK
  <2> QED BY <1>1, <1>2, <1>3, <1>4, <2>1, <2>2, <2>3 DEF Inv, TypeOK
<1>6. Cursor' BY <1>2, <1>3, <1>4 DEF Inv, Cursor
<1>7. InStep'
  <2> SUFFICES ASSUME in_step'
               PROVE  live' = advance_quarter_to(headless', live'.construction_quarter_day)
      BY DEF InStep
  <2>1. in_step /\ live.construction_quarter_day = 0 /\ headless.construction_quarter_day = 0
        BY <1>2 DEF Inv, Cursor
  <2>2. 0 \in 0 .. Q /\ 0 <= 0 BY QuarterTypes
  <2>3. live = headless BY <1>1, <2>1, <2>2, WalkTo DEF Inv, InStep
  <2>4. live' = headless' BY <1>2, <2>3
  <2> QED BY <1>3, <1>4, <2>1, <2>2, <2>4, WalkTo
<1> QED BY <1>5, <1>6, <1>7 DEF Inv

LEMMA InvMarch ==
    ASSUME Inv, march
    PROVE  Inv'
<1>1. /\ day_tick \in Nat /\ m_last_econ_tick \in Nat /\ live \in world /\ headless \in world
      BY TypeFacts DEF Inv
<1>2. /\ pc = "clock"
      /\ live' = [live EXCEPT !.march = MARCH]
      /\ in_step' = (in_step /\ live.construction_quarter_day = 0)
      /\ headless' = IF in_step' THEN [headless EXCEPT !.march = MARCH] ELSE headless
      /\ UNCHANGED <<day_tick, m_last_econ_tick, pc, placed, slowed, drawn>>
      BY MarchIs
<1>3. live' \in world /\ live'.construction_quarter_day = live.construction_quarter_day
      BY <1>1, <1>2, Marching
<1>4. headless' \in world /\ headless'.construction_quarter_day = headless.construction_quarter_day
      BY <1>1, <1>2, Marching
<1>5. TypeOK'
  <2>1. in_step' \in BOOLEAN BY <1>2
  <2> QED BY <1>1, <1>2, <1>3, <1>4, <2>1 DEF Inv, TypeOK
<1>6. Cursor' BY <1>2, <1>3, <1>4 DEF Inv, Cursor
<1>7. InStep'
  <2> SUFFICES ASSUME in_step'
               PROVE  live' = advance_quarter_to(headless', live'.construction_quarter_day)
      BY DEF InStep
  <2>1. in_step /\ live.construction_quarter_day = 0 /\ headless.construction_quarter_day = 0
        BY <1>2 DEF Inv, Cursor
  <2>2. 0 \in 0 .. Q /\ 0 <= 0 BY QuarterTypes
  <2>3. live = headless BY <1>1, <2>1, <2>2, WalkTo DEF Inv, InStep
  <2>4. live' = headless' BY <1>2, <2>3
  <2> QED BY <1>3, <1>4, <2>1, <2>2, <2>4, WalkTo
<1> QED BY <1>5, <1>6, <1>7 DEF Inv

LEMMA InvFrame ==
    ASSUME Inv, frame
    PROVE  Inv'
<1>1. /\ day_tick \in Nat /\ m_last_econ_tick \in Nat /\ live \in world /\ headless \in world
      BY TypeFacts DEF Inv
<1>2. /\ pc = "clock" /\ pc' = "boundary"
      /\ live' = advance_quarter_to(live, into_quarter(day_tick', m_last_econ_tick))
      /\ UNCHANGED <<m_last_econ_tick, headless, in_step, placed, slowed, drawn>>
      BY DEF frame, advance_construction_today
<1>3. day_tick' \in Nat /\ day_tick <= day_tick'
  <2>1. PICK days \in 0 .. MAX_FRAME : day_tick' = day_tick + days BY DEF frame
  <2> QED BY <1>1, <2>1
<1> DEFINE m == m_last_econ_tick
           c == into_quarter(day_tick, m)
           to == into_quarter(day_tick', m)
<1>4. Q \in Nat \ {0} /\ m = day_tick \div Q /\ m <= day_tick \div Q
      /\ live.construction_quarter_day = c BY <1>1, <1>2, QuarterTypes DEF Inv, Cursor
<1>5. m <= day_tick' \div Q
  <2> DEFINE then == day_tick'
  <2>1. then \in Nat /\ day_tick <= then BY <1>3
  <2> HIDE DEF then, m
  <2>2. day_tick \div Q <= then \div Q /\ then \div Q \in Nat
    <3>1. Q \in Nat \ {0} BY QuarterTypes
    <3>2. day_tick \in Nat BY <1>1
    <3>3. day_tick \div Q \in Nat /\ day_tick \div Q <= then \div Q BY <2>1, <3>1, <3>2, Division
    <3>4. then \div Q \in Nat BY <2>1, <3>1
    <3> QED BY <3>3, <3>4
  <2> QED BY <1>4, <2>2 DEF then
<1>6. to \in 0 .. Q /\ c \in 0 .. Q /\ c <= to
  <2>1. c \in 0 .. Q /\ m * Q \in Nat /\ c = day_tick - m * Q /\ c < Q BY <1>1, <1>4, Into
  <2>2. to \in 0 .. Q /\ to = Lesser(day_tick' - m * Q, Q) BY <1>1, <1>3, <1>5, Into
  <2> DEFINE begins == m * Q
             then == day_tick'
  <2>3. /\ c \in Nat /\ begins \in Nat /\ c = day_tick - begins /\ c < Q /\ Q \in Nat
        /\ to \in Nat /\ to = (IF then - begins < Q THEN then - begins ELSE Q)
        /\ then \in Nat /\ day_tick <= then
        BY <1>3, <1>4, <2>1, <2>2 DEF Lesser
  <2> HIDE DEF c, to, begins, then
  <2>4. c <= to BY <1>1, <2>3
  <2> QED BY <2>1, <2>2, <2>4 DEF c, to
<1>7. live' \in world /\ live'.construction_quarter_day = to
      BY <1>1, <1>2, <1>4, <1>6, WalkTo
<1>8. TypeOK' BY <1>1, <1>2, <1>3, <1>7 DEF Inv, TypeOK
<1>9. Cursor' BY <1>2, <1>5, <1>7 DEF Inv, Cursor
<1>10. InStep'
  <2> SUFFICES ASSUME in_step'
               PROVE  live' = advance_quarter_to(headless', live'.construction_quarter_day)
      BY DEF InStep
  <2>1. in_step /\ headless' = headless BY <1>2
  <2>2. live = advance_quarter_to(headless, c) BY <1>4, <2>1 DEF Inv, InStep
  <2>3. headless.construction_quarter_day = 0 /\ 0 <= c
    <3> HIDE DEF c
    <3> QED BY <1>4, <1>6 DEF Inv, Cursor
  <2> HIDE DEF c, to
  <2>4. headless.construction_quarter_day <= c BY <2>3
  <2>5. advance_quarter_to(advance_quarter_to(headless, c), to) = advance_quarter_to(headless, to)
        BY <1>1, <1>6, <2>4, WalkTwice
  <2>6. live' = advance_quarter_to(live, to) BY <1>2 DEF to
  <2> QED BY <1>7, <2>1, <2>2, <2>5, <2>6
<1> QED BY <1>8, <1>9, <1>10 DEF Inv

(* What the close leaves as debt and what the shelves decide.              *)
LEMMA InvStepEconomy ==
    ASSUME Inv, step_economy
    PROVE  Inv'
<1>1. /\ day_tick \in Nat /\ m_last_econ_tick \in Nat /\ live \in world /\ headless \in world
      /\ \A s \in Site : drawn[s] \in Nat
      BY TypeFacts DEF Inv
<1> DEFINE closed == Closed(live)
           debt(s) == closed.buildings[s].arrears
           m == m_last_econ_tick'
<1>2. /\ pc = "boundary" /\ m_last_econ_tick < day_tick \div Q
      /\ m = m_last_econ_tick + 1
      /\ UNCHANGED <<day_tick, pc, in_step, placed>>
      BY StepEconomyIs
<1>3. PICK owed \in [Site -> 0 .. MAX_OWED], rate \in [Site -> Rates] :
        /\ \A s \in Site : owed[s] <= debt(s)
        /\ live' = advance_quarter_to(run_construction(closed, owed, rate), into_quarter(day_tick', m))
        /\ headless' = run_construction(Closed(headless), owed, rate)
        /\ drawn' = [s \in Site |-> drawn[s] + debt(s) - owed[s]]
        /\ slowed' = slowed \cup
                {s \in Site : closed.buildings[s].ticks_remaining > 0 /\ rate[s] < MILLE}
      BY StepEconomyIs, Zenon
<1> DEFINE begun == run_construction(closed, owed, rate)
           to == into_quarter(day_tick', m)
<1>4. Q \in Nat \ {0} /\ 0 \in 0 .. Q /\ Q \in 0 .. Q /\ MAX_OWED \in Nat BY QuarterTypes
<1>5. m \in Nat /\ m <= day_tick' \div Q
  <2>1. day_tick \div Q \in Nat BY <1>1, <1>4
  <2> QED BY <1>1, <1>2, <2>1
<1>6. to \in 0 .. Q BY <1>1, <1>2, <1>5, Into
<1> HIDE DEF m, to
<1>7. closed \in world /\ closed.construction_quarter_day = 0 BY <1>1, Closing
<1>8. Closed(headless) \in world /\ Closed(headless).construction_quarter_day = 0 BY <1>1, Closing
<1> HIDE DEF closed
<1>9. begun \in world /\ begun.construction_quarter_day = 0 BY <1>7, Deciding
<1>10. headless' \in world /\ headless'.construction_quarter_day = 0 BY <1>3, <1>8, Deciding
<1> HIDE DEF begun
<1>11. live' = advance_quarter_to(begun, to) BY <1>3 DEF begun, to
<1>12. live' \in world /\ live'.construction_quarter_day = to
  <2>1. begun.construction_quarter_day <= to BY <1>6, <1>9
  <2> QED BY <1>6, <1>9, <1>11, <2>1, WalkTo
<1>13. TypeOK'
  <2>1. drawn' \in [Site -> Nat]
    <3>1. ASSUME NEW s \in Site PROVE drawn[s] + debt(s) - owed[s] \in Nat
      <4>1. debt(s) \in Nat
        <5>1. closed.buildings[s] \in building BY <1>7 DEF world
        <5> QED BY <5>1 DEF building
      <4>2. owed[s] \in Nat /\ owed[s] <= debt(s) BY <1>3, <1>4
      <4> HIDE DEF debt
      <4> QED BY <1>1, <4>1, <4>2
    <3> QED BY <1>3, <3>1
  <2>2. slowed' \subseteq Site BY <1>3 DEF Inv, TypeOK
  <2>3. day_tick' \in Nat /\ m_last_econ_tick' \in Nat BY <1>1, <1>2, <1>5 DEF m
  <2> QED BY <1>2, <1>10, <1>12, <2>1, <2>2, <2>3 DEF Inv, TypeOK
<1>14. Cursor' BY <1>2, <1>5, <1>10, <1>12 DEF Inv, Cursor, m, to
<1>15. InStep'
  <2> SUFFICES ASSUME in_step'
               PROVE  live' = advance_quarter_to(headless', live'.construction_quarter_day)
      BY DEF InStep
  <2> DEFINE c == live.construction_quarter_day
  <2>1. live = advance_quarter_to(headless, c) BY <1>2 DEF Inv, InStep
  <2>2. c \in 0 .. Q /\ c <= Q /\ headless.construction_quarter_day <= c
    <3>1. c \in 0 .. Q BY <1>1 DEF world
    <3> QED BY <1>4, <3>1 DEF Inv, Cursor
  <2> HIDE DEF c
  <2>3. advance_quarter_to(live, Q) = advance_quarter_to(headless, Q)
        BY <1>1, <1>4, <2>1, <2>2, WalkTwice
  <2>4. Closed(live) = Closed(headless) BY <2>3 DEF Closed, close_construction_quarter
  <2>5. headless' = begun BY <1>3, <2>4 DEF begun, closed
  <2> QED BY <1>11, <1>12, <2>5
<1> QED BY <1>13, <1>14, <1>15 DEF Inv

LEMMA InvNext ==
    ASSUME Inv, [Next]_vars
    PROVE  Inv'
<1>1. CASE \E s \in Site, rate \in Rates : place(s, rate) BY <1>1, InvOrder
<1>2. CASE march BY <1>2, InvMarch
<1>3. CASE frame BY <1>3, InvFrame
<1>4. CASE step_economy BY <1>4, InvStepEconomy
<1>5. CASE frame_ends
  <2>1. /\ m_last_econ_tick = day_tick \div Q /\ pc' = "clock"
        /\ UNCHANGED <<day_tick, m_last_econ_tick, live, headless, in_step, placed, slowed, drawn>>
        BY <1>5 DEF frame_ends
  <2>2. TypeOK' BY <2>1 DEF Inv, TypeOK
  <2>3. Cursor' BY <2>1 DEF Inv, Cursor
  <2>4. InStep' BY <2>1 DEF Inv, InStep
  <2> QED BY <2>2, <2>3, <2>4 DEF Inv
<1>6. CASE UNCHANGED vars
  <2>1. UNCHANGED <<day_tick, m_last_econ_tick, pc, live, headless, in_step, placed, slowed, drawn>>
        BY <1>6 DEF vars
  <2> QED BY <2>1, Zenon DEF Inv, TypeOK, Cursor, InStep
<1> QED BY <1>1, <1>2, <1>3, <1>4, <1>5, <1>6 DEF Next

(* The types of both worlds and of the clock, through every walk, close of *)
(* a quarter, decision of the shelves and order.                           *)
THEOREM WorldsTyped == Spec => []TypeOK
<1>1. Init => Inv BY InitInv
<1>2. Inv /\ [Next]_vars => Inv' BY InvNext
<1>3. Inv => TypeOK BY DEF Inv
<1> QED BY <1>1, <1>2, <1>3, PTL DEF Spec

(* PRODUCTION.md, "Every path counts the same days": for any length of a   *)
(* quarter, any sites and however the frames cut the days, the live world  *)
(* at the start of a quarter is the headless one, as long as every order   *)
(* reached both.                                                           *)
THEOREM EveryPathCountsTheSameDays == Spec => []HostsAgree
<1>1. Init => Inv BY InitInv
<1>2. Inv /\ [Next]_vars => Inv' BY InvNext
<1>3. Inv => HostsAgree
  <2> SUFFICES ASSUME Inv, in_step, live.construction_quarter_day = 0 PROVE live = headless
      BY DEF HostsAgree
  <2>1. 0 \in 0 .. Q /\ 0 <= 0 BY QuarterTypes
  <2>2. headless \in world /\ headless.construction_quarter_day = 0 BY TypeFacts DEF Inv, Cursor
  <2> QED BY <2>1, <2>2, WalkTo DEF Inv, InStep
<1> QED BY <1>1, <1>2, <1>3, PTL DEF Spec

-----------------------------------------------------------------------------
(* Work and its payment, site by site.                                     *)

(* What a placed site keeps with its quarter's day c and d milli-days of   *)
(* materials drawn: it is paid for no more days than are left, a finished  *)
(* one owes less than a day beyond its work, an unfinished one has drawn   *)
(* or owes what it has built.                                              *)
Kept(s, b, c, d) ==
    LET work == MILLE * (Duration[s] - b.days_remaining) + b.build_day_milli
        materials == d + b.arrears
    IN  /\ b.build_paid_days <= Q - c /\ b.build_day_milli < MILLE /\ b.completion_day <= c
        /\ b.ticks_remaining = 0 =>
              /\ b.days_remaining = 0 /\ b.build_paid_days = 0 /\ b.build_day_milli = 0
              /\ work <= materials /\ materials < work + MILLE
        /\ b.ticks_remaining > 0 =>
              /\ b.days_remaining > 0 /\ b.completion_day = 0
              /\ b.build_paid_days > 0 => b.build_rate > 0
              /\ materials = work

(* The four days a site may have: none, a part of a day of work, a whole   *)
(* day of work, its last.                                                  *)
Still(b, n) == n = b /\ (b.build_paid_days = 0 \/ b.ticks_remaining = 0)

Part(b, n) ==
    /\ b.ticks_remaining > 0 /\ b.build_paid_days > 0 /\ b.build_rate > 0
    /\ b.build_day_milli + b.build_rate < MILLE
    /\ n.days_remaining = b.days_remaining /\ n.ticks_remaining > 0
    /\ n.build_day_milli = b.build_day_milli + b.build_rate

Whole(b, n) ==
    /\ b.ticks_remaining > 0 /\ b.build_paid_days > 0 /\ b.build_rate > 0
    /\ b.build_day_milli + b.build_rate >= MILLE
    /\ n.days_remaining = b.days_remaining - 1 /\ n.days_remaining > 0 /\ n.ticks_remaining > 0
    /\ n.build_day_milli = b.build_day_milli + b.build_rate - MILLE

Paid(b, n) ==
    /\ n.build_rate = b.build_rate /\ n.build_paid_days = b.build_paid_days - 1
    /\ n.arrears = b.arrears + b.build_rate /\ n.completion_day = b.completion_day
    /\ n.output_share = b.output_share

Last(b, n, day) ==
    /\ b.ticks_remaining > 0 /\ b.build_paid_days > 0 /\ b.build_rate > 0
    /\ b.build_day_milli + b.build_rate >= MILLE /\ b.days_remaining = 1
    /\ n.days_remaining = 0 /\ n.ticks_remaining = 0 /\ n.build_paid_days = 0
    /\ n.build_day_milli = 0 /\ n.arrears = b.arrears + b.build_rate /\ n.completion_day = day
    /\ n.output_share = b.output_share

LEMMA BuildingTypes ==
    ASSUME NEW b \in building
    PROVE  /\ b.days_remaining \in Nat /\ b.ticks_remaining \in Nat /\ b.arrears \in Nat
           /\ b.build_rate \in Nat /\ b.build_rate <= MILLE /\ b.build_day_milli \in Nat
           /\ b.build_paid_days \in Nat /\ b.build_paid_days <= Q
           /\ b.completion_day \in Nat /\ b.completion_day <= Q /\ b.output_share \in Nat
BY QuarterTypes DEF building

LEMMA DayCases ==
    ASSUME NEW s \in Site, NEW b \in building, NEW c \in 0 .. Q - 1, NEW d \in Nat, Kept(s, b, c, d)
    PROVE  LET n == build_day(b, c + 1)
           IN  Still(b, n) \/ (Part(b, n) /\ Paid(b, n)) \/ (Whole(b, n) /\ Paid(b, n))
                  \/ Last(b, n, c + 1)
<1> DEFINE n == build_day(b, c + 1)
           t == b.build_day_milli + b.build_rate
           k == t \div MILLE
           over == t % MILLE
           left == b.days_remaining - k
<1>1. MILLE \in Nat \ {0} /\ c + 1 \in 1 .. Q BY QuarterTypes
<1>2. /\ b.days_remaining \in Nat /\ b.ticks_remaining \in Nat /\ b.build_rate \in Nat
      /\ b.build_rate <= MILLE /\ b.build_day_milli \in Nat /\ b.build_paid_days \in Nat
      BY BuildingTypes
<1>3. b.build_day_milli < MILLE /\ (b.ticks_remaining > 0 =>
          b.days_remaining > 0 /\ (b.build_paid_days > 0 => b.build_rate > 0))
      BY DEF Kept
<1>4. t \in Nat /\ t < MILLE + MILLE BY <1>1, <1>2, <1>3
<1>5. k \in Nat /\ t = MILLE * k + over BY <1>4, DayOfWork
<1>6. over \in 0 .. MILLE - 1 BY <1>4, DayOfWork
<1>7. /\ n \in building
      /\ ~ is_building(b) => n = b
      /\ is_building(b) /\ left > 0 =>
            /\ n.days_remaining = left /\ n.ticks_remaining = quarters_of(left)
            /\ n.build_rate = b.build_rate /\ n.build_paid_days = b.build_paid_days - 1
            /\ n.build_day_milli = over /\ n.arrears = b.arrears + b.build_rate
            /\ n.completion_day = b.completion_day /\ n.output_share = b.output_share
      /\ is_building(b) /\ ~(left > 0) =>
            n = [no_site EXCEPT !.there = TRUE, !.completion_day = c + 1,
                                !.arrears = b.arrears + b.build_rate,
                                !.output_share = b.output_share]
      BY <1>1, BuildDay
<1> HIDE DEF n, k, over
<1>8. t < MILLE => k = 0 /\ over = t
  <2> SUFFICES ASSUME t < MILLE PROVE k = 0 /\ over = t OBVIOUS
  <2>1. t \in 0 .. MILLE - 1 /\ MILLE * 0 + t = t BY <1>1, <1>4
  <2>2. (MILLE * 0 + t) \div MILLE = 0 BY <1>1, <2>1, DividesOnce
  <2>3. k = 0 BY <2>1, <2>2 DEF k
  <2>4. MILLE * k = 0 BY <1>1, <2>3
  <2> QED BY <1>4, <1>5, <1>6, <2>3, <2>4
<1>9. t >= MILLE => k = 1 /\ over = t - MILLE
  <2> SUFFICES ASSUME t >= MILLE PROVE k = 1 /\ over = t - MILLE OBVIOUS
  <2>1. t - MILLE \in 0 .. MILLE - 1 /\ MILLE * 1 + (t - MILLE) = t BY <1>1, <1>4
  <2>2. (MILLE * 1 + (t - MILLE)) \div MILLE = 1 BY <1>1, <2>1, DividesOnce
  <2>3. k = 1 BY <2>1, <2>2 DEF k
  <2>4. MILLE * k = MILLE BY <1>1, <2>3
  <2> QED BY <1>1, <1>4, <1>5, <1>6, <2>3, <2>4
<1> HIDE DEF t
<1>10. left > 0 => quarters_of(left) > 0 BY <1>2, <1>5, Quarters
<1>11. CASE ~ is_building(b)
  <2>1. b.build_paid_days = 0 \/ b.ticks_remaining = 0 BY <1>2, <1>3, <1>11 DEF is_building
  <2> QED BY <1>7, <1>11, <2>1 DEF Still, n
<1>12. CASE is_building(b)
  <2>1. b.ticks_remaining > 0 /\ b.build_paid_days > 0 /\ b.build_rate > 0 /\ b.days_remaining > 0
        BY <1>3, <1>12 DEF is_building
  <2>2. t = b.build_day_milli + b.build_rate BY DEF t
  <2>3. CASE left > 0
    <3>1. Paid(b, n) BY <1>7, <1>12, <2>3 DEF Paid
    <3>2. n.days_remaining = left /\ n.ticks_remaining > 0 /\ n.build_day_milli = over
          BY <1>7, <1>10, <1>12, <2>3
    <3>3. CASE t < MILLE
      <4>1. Part(b, n) BY <1>2, <1>8, <2>1, <2>2, <3>2, <3>3 DEF Part
      <4> QED BY <3>1, <4>1 DEF n
    <3>4. CASE t >= MILLE
      <4>1. Whole(b, n) BY <1>1, <1>2, <1>4, <1>9, <2>1, <2>2, <2>3, <3>2, <3>4 DEF Whole
      <4> QED BY <3>1, <4>1 DEF n
    <3> QED BY <1>1, <1>4, <3>3, <3>4
  <2>4. CASE ~(left > 0)
    <3>1. t >= MILLE /\ b.days_remaining = 1 BY <1>1, <1>2, <1>4, <1>8, <1>9, <2>1, <2>4
    <3>2. n = [no_site EXCEPT !.there = TRUE, !.completion_day = c + 1,
                              !.arrears = b.arrears + b.build_rate,
                              !.output_share = b.output_share]
          BY <1>7, <1>12, <2>4
    <3>3. Last(b, n, c + 1) BY <2>1, <2>2, <3>1, <3>2 DEF Last, no_site
    <3> QED BY <3>3 DEF n
  <2> QED BY <2>3, <2>4
<1> QED BY <1>11, <1>12

LEMMA KeptDay ==
    ASSUME NEW s \in Site, NEW b \in building, NEW c \in 0 .. Q - 1, NEW d \in Nat, Kept(s, b, c, d)
    PROVE  Kept(s, build_day(b, c + 1), c + 1, d)
<1> DEFINE n == build_day(b, c + 1)
           D == Duration[s]
           days == b.days_remaining
<1>1. /\ MILLE \in Nat \ {0} /\ c \in Nat /\ Q \in Nat /\ c < Q /\ D \in Nat BY QuarterTypes
<1>2. /\ days \in Nat /\ b.ticks_remaining \in Nat /\ b.arrears \in Nat
      /\ b.build_rate \in Nat /\ b.build_rate <= MILLE /\ b.build_day_milli \in Nat
      /\ b.build_paid_days \in Nat /\ b.completion_day \in Nat
      BY BuildingTypes
<1>3. Still(b, n) \/ (Part(b, n) /\ Paid(b, n)) \/ (Whole(b, n) /\ Paid(b, n)) \/ Last(b, n, c + 1)
      BY DayCases
<1> HIDE DEF n
<1>4. /\ b.build_paid_days <= Q - c /\ b.build_day_milli < MILLE /\ b.completion_day <= c
      /\ b.ticks_remaining > 0 =>
            /\ days > 0 /\ b.completion_day = 0
            /\ d + b.arrears = MILLE * (D - days) + b.build_day_milli
      BY DEF Kept
<1>5. CASE Still(b, n)
  <2>1. n = b /\ b.build_paid_days <= Q - (c + 1)
    <3>1. b.ticks_remaining = 0 => b.build_paid_days = 0 BY DEF Kept
    <3> QED BY <1>1, <1>5, <3>1 DEF Still
  <2>2. b.completion_day <= c + 1 BY <1>1, <1>2, <1>4
  <2> QED BY <2>1, <2>2 DEF Kept, n
<1>6. CASE Part(b, n) /\ Paid(b, n)
  <2>1. d + n.arrears = MILLE * (D - n.days_remaining) + n.build_day_milli
    <3> DEFINE work == MILLE * (D - days)
    <3>1. work \in Int BY <1>1, <1>2
    <3>2. d + b.arrears = work + b.build_day_milli BY <1>4, <1>6 DEF Part
    <3>3. n.arrears = b.arrears + b.build_rate /\ n.build_day_milli = b.build_day_milli + b.build_rate
          /\ MILLE * (D - n.days_remaining) = work
          BY <1>6 DEF Part, Paid
    <3> HIDE DEF work
    <3> QED BY <1>2, <3>1, <3>2, <3>3
  <2>2. n.days_remaining > 0 /\ n.ticks_remaining > 0 /\ n.completion_day = 0
        /\ n.build_rate > 0 /\ n.build_day_milli < MILLE /\ n.build_paid_days <= Q - (c + 1)
        BY <1>1, <1>2, <1>4, <1>6 DEF Part, Paid
  <2> QED BY <1>1, <2>1, <2>2 DEF Kept, n
<1>7. CASE Whole(b, n) /\ Paid(b, n)
  <2>1. d + n.arrears = MILLE * (D - n.days_remaining) + n.build_day_milli
    <3> DEFINE work == MILLE * (D - days)
    <3>1. work \in Int BY <1>1, <1>2
    <3>2. d + b.arrears = work + b.build_day_milli BY <1>4, <1>7 DEF Whole
    <3>3. n.arrears = b.arrears + b.build_rate
          /\ n.build_day_milli = b.build_day_milli + b.build_rate - MILLE
          /\ n.days_remaining = days - 1
          BY <1>7 DEF Whole, Paid
    <3>4. MILLE * (D - n.days_remaining) = work + MILLE BY <1>1, <1>2, <3>3
    <3> DEFINE more == MILLE * (D - n.days_remaining)
    <3>5. more = work + MILLE BY <3>4
    <3> HIDE DEF work, more
    <3>6. d + n.arrears = more + n.build_day_milli BY <1>1, <1>2, <3>1, <3>2, <3>3, <3>5
    <3> QED BY <3>6 DEF more
  <2>2. n.days_remaining > 0 /\ n.ticks_remaining > 0 /\ n.completion_day = 0
        /\ n.build_rate > 0 /\ n.build_day_milli < MILLE /\ n.build_paid_days <= Q - (c + 1)
        BY <1>1, <1>2, <1>4, <1>7 DEF Whole, Paid
  <2> QED BY <1>1, <2>1, <2>2 DEF Kept, n
<1>8. CASE Last(b, n, c + 1)
  <2> DEFINE all == MILLE * D
  <2>1. all \in Nat BY <1>1
  <2>2. MILLE * (D - days) = all - MILLE
    <3>1. days = 1 BY <1>8 DEF Last
    <3> QED BY <1>1, <3>1
  <2>3. d + b.arrears = (all - MILLE) + b.build_day_milli BY <1>4, <1>8, <2>2 DEF Last
  <2>4. n.arrears = b.arrears + b.build_rate /\ b.build_day_milli + b.build_rate >= MILLE
        BY <1>8 DEF Last
  <2>5. /\ n.days_remaining = 0 /\ n.ticks_remaining = 0 /\ n.build_paid_days = 0
        /\ n.build_day_milli = 0 /\ n.completion_day = c + 1 BY <1>8 DEF Last
  <2>6. MILLE * (D - n.days_remaining) + n.build_day_milli = all
    <3>1. D - n.days_remaining = D BY <1>1, <2>5
    <3> QED BY <2>1, <2>5, <3>1
  <2> HIDE DEF all
  <2>7. all <= d + n.arrears /\ d + n.arrears < all + MILLE
        BY <1>1, <1>2, <1>4, <2>1, <2>3, <2>4
  <2> QED BY <1>1, <2>5, <2>6, <2>7 DEF Kept, n
<1> QED BY <1>3, <1>5, <1>6, <1>7, <1>8

(* What a site that no shelf has slowed keeps on day c of quarter q, placed *)
(* on day at: its days run out on its day, it stood complete on its day of  *)
(* this quarter, or by the end of an earlier one.                           *)
Timely(s, b, c, q, at) ==
    /\ b.ticks_remaining > 0 =>
          /\ b.build_rate = MILLE /\ b.build_day_milli = 0
          /\ b.build_paid_days = Lesser(b.days_remaining, Q - c)
          /\ q * Q + c + b.days_remaining = at + Duration[s]
    /\ b.ticks_remaining = 0 /\ b.completion_day > 0 =>
          q * Q + b.completion_day = at + Duration[s]
    /\ b.ticks_remaining = 0 /\ b.completion_day = 0 => at + Duration[s] <= q * Q

LEMMA TimelyDay ==
    ASSUME NEW s \in Site, NEW b \in building, NEW c \in 0 .. Q - 1, NEW d \in Nat, NEW q \in Nat,
           NEW at \in Int, Kept(s, b, c, d), Timely(s, b, c, q, at)
    PROVE  Timely(s, build_day(b, c + 1), c + 1, q, at)
<1> DEFINE n == build_day(b, c + 1)
           D == Duration[s]
           days == b.days_remaining
           began == q * Q
<1>1. /\ MILLE \in Nat \ {0} /\ c \in Nat /\ Q \in Nat /\ c < Q /\ D \in Nat /\ began \in Nat
      BY QuarterTypes
<1>2. /\ days \in Nat /\ b.ticks_remaining \in Nat /\ b.build_rate \in Nat
      /\ b.build_day_milli \in Nat /\ b.build_paid_days \in Nat
      BY BuildingTypes
<1>3. Still(b, n) \/ (Part(b, n) /\ Paid(b, n)) \/ (Whole(b, n) /\ Paid(b, n)) \/ Last(b, n, c + 1)
      BY DayCases
<1> HIDE DEF n
<1>4. b.ticks_remaining > 0 =>
          /\ days > 0 /\ b.completion_day = 0
          /\ b.build_rate = MILLE /\ b.build_day_milli = 0
          /\ b.build_paid_days = (IF days < Q - c THEN days ELSE Q - c)
          /\ began + c + days = at + D
      BY DEF Kept, Timely, Lesser
<1>5. CASE Still(b, n)
  <2>1. n = b /\ b.ticks_remaining = 0 BY <1>1, <1>2, <1>4, <1>5 DEF Still
  <2> QED BY <2>1 DEF Timely, n
<1>6. CASE Part(b, n)
  <2>1. FALSE BY <1>1, <1>4, <1>6 DEF Part
  <2> QED BY <2>1
<1>7. CASE Whole(b, n) /\ Paid(b, n)
  <2>1. n.ticks_remaining > 0 /\ n.build_rate = MILLE /\ n.build_day_milli = 0
        /\ n.days_remaining = days - 1 /\ n.build_paid_days = b.build_paid_days - 1
        BY <1>1, <1>4, <1>7 DEF Whole, Paid
  <2>2. n.build_paid_days = Lesser(n.days_remaining, Q - (c + 1))
        BY <1>1, <1>2, <1>4, <1>7, <2>1 DEF Lesser, Whole
  <2>3. began + (c + 1) + n.days_remaining = at + D
    <3> HIDE DEF began, D
    <3> QED BY <1>1, <1>2, <1>4, <1>7, <2>1 DEF Whole
  <2>4. /\ ~(n.ticks_remaining = 0) BY <2>1
  <2> QED BY <2>1, <2>2, <2>3, <2>4 DEF Timely, n
<1>8. CASE Last(b, n, c + 1)
  <2>1. /\ n.ticks_remaining = 0 /\ n.completion_day = c + 1 /\ c + 1 > 0 BY <1>1, <1>8 DEF Last
  <2>2. began + (c + 1) = at + D
    <3>1. began + c + days = at + D /\ days = 1 BY <1>4, <1>8 DEF Last
    <3> HIDE DEF began, D
    <3> QED BY <1>1, <3>1
  <2>3. ~(n.ticks_remaining > 0) /\ ~(n.completion_day = 0) BY <1>1, <2>1
  <2> QED BY <2>1, <2>2, <2>3 DEF Timely, n
<1> QED BY <1>3, <1>5, <1>6, <1>7, <1>8

(* A site, placed or not.                                                  *)
SiteGood(s, b, c, q, at, d, fast) ==
    IF at < 0 THEN b = no_site /\ d = 0
    ELSE Kept(s, b, c, d) /\ (fast => Timely(s, b, c, q, at))

LEMMA SiteDay ==
    ASSUME NEW s \in Site, NEW b \in building, NEW c \in 0 .. Q - 1, NEW d \in Nat, NEW q \in Nat,
           NEW at \in Int, NEW fast, SiteGood(s, b, c, q, at, d, fast)
    PROVE  SiteGood(s, build_day(b, c + 1), c + 1, q, at, d, fast)
<1>1. CASE at < 0
  <2>1. b = no_site /\ d = 0 BY <1>1 DEF SiteGood
  <2>2. c + 1 \in 1 .. Q /\ ~ is_building(b) BY <2>1, QuarterTypes DEF is_building, no_site
  <2>3. build_day(b, c + 1) = b BY <2>2, BuildDay
  <2> QED BY <1>1, <2>1, <2>3 DEF SiteGood
<1>2. CASE ~(at < 0)
  <2>1. Kept(s, b, c, d) /\ (fast => Timely(s, b, c, q, at)) BY <1>2 DEF SiteGood
  <2>2. Kept(s, build_day(b, c + 1), c + 1, d) BY <2>1, KeptDay
  <2>3. fast => Timely(s, build_day(b, c + 1), c + 1, q, at) BY <2>1, TimelyDay
  <2> QED BY <1>2, <2>2, <2>3 DEF SiteGood
<1> QED BY <1>1, <1>2

SitesGood(w, q, at, d, slow) ==
    \A s \in Site :
        SiteGood(s, w.buildings[s], w.construction_quarter_day, q, at[s], d[s], s \notin slow)

LEMMA SitesWalk ==
    ASSUME NEW w \in world, NEW to \in 0 .. Q, NEW q \in Nat, NEW at \in [Site -> Int],
           NEW d \in [Site -> Nat], NEW slow, SitesGood(w, q, at, d, slow)
    PROVE  SitesGood(advance_quarter_to(w, to), q, at, d, slow)
<1> DEFINE P == {x \in world : SitesGood(x, q, at, d, slow)}
<1>1. ASSUME NEW x \in P, x.construction_quarter_day < Q PROVE NextDay(x) \in P
  <2> DEFINE c == x.construction_quarter_day
             n == NextDay(x)
  <2>1. x \in world /\ SitesGood(x, q, at, d, slow) OBVIOUS
  <2>2. /\ n \in world /\ n.construction_quarter_day = c + 1
        /\ \A s \in Site : n.buildings[s] = build_day(x.buildings[s], c + 1)
        BY <1>1, <2>1, NextDayIs
  <2>3. c \in 0 .. Q - 1 /\ \A s \in Site : x.buildings[s] \in building
        BY <1>1, <2>1, QuarterTypes DEF world
  <2> HIDE DEF n, P
  <2>4. ASSUME NEW s \in Site
        PROVE  SiteGood(s, n.buildings[s], n.construction_quarter_day, q, at[s], d[s], s \notin slow)
    <3>1. SiteGood(s, x.buildings[s], c, q, at[s], d[s], s \notin slow) BY <2>1 DEF SitesGood
    <3>2. x.buildings[s] \in building /\ d[s] \in Nat /\ at[s] \in Int BY <2>3
    <3> HIDE DEF c
    <3>3. SiteGood(s, build_day(x.buildings[s], c + 1), c + 1, q, at[s], d[s], s \notin slow)
          BY <2>3, <3>1, <3>2, SiteDay
    <3> QED BY <2>2, <3>3
  <2> QED BY <2>2, <2>4 DEF SitesGood, P, n
<1>2. w \in P /\ P \subseteq world OBVIOUS
<1>3. advance_quarter_to(w, to) \in P
  <2> HIDE DEF P
  <2> QED BY <1>1, <1>2, EachDay
<1> QED BY <1>3

(* The days of a quarter leave the share of output it reads as it is.      *)
LEMMA SharesWalk ==
    ASSUME NEW w \in world, NEW to \in 0 .. Q
    PROVE  \A s \in Site : advance_quarter_to(w, to).buildings[s].output_share
                                = w.buildings[s].output_share
<1> DEFINE P == {x \in world : \A s \in Site : x.buildings[s].output_share
                                                = w.buildings[s].output_share}
<1>1. ASSUME NEW x \in P, x.construction_quarter_day < Q PROVE NextDay(x) \in P
  <2> DEFINE c == x.construction_quarter_day
             n == NextDay(x)
  <2>1. x \in world /\ \A s \in Site : x.buildings[s].output_share = w.buildings[s].output_share
        OBVIOUS
  <2>2. /\ n \in world
        /\ \A s \in Site : n.buildings[s] = build_day(x.buildings[s], c + 1)
        BY <1>1, <2>1, NextDayIs
  <2>3. c + 1 \in 1 .. Q /\ \A s \in Site : x.buildings[s] \in building
        BY <1>1, <2>1, QuarterTypes DEF world
  <2> HIDE DEF n, P, c
  <2>4. ASSUME NEW b \in building PROVE build_day(b, c + 1).output_share = b.output_share
    <3> DEFINE m == build_day(b, c + 1)
               last == [no_site EXCEPT !.there = TRUE, !.completion_day = c + 1,
                                       !.arrears = b.arrears + b.build_rate,
                                       !.output_share = b.output_share]
    <3>1. m.output_share = b.output_share \/ m = last BY <2>3, BuildDay, Zenon
    <3>2. last.output_share = b.output_share BY DEF no_site
    <3> HIDE DEF last
    <3> QED BY <3>1, <3>2
  <2> QED BY <2>1, <2>2, <2>3, <2>4 DEF P, n
<1>2. w \in P /\ P \subseteq world OBVIOUS
<1>3. advance_quarter_to(w, to) \in P
  <2> HIDE DEF P
  <2> QED BY <1>1, <1>2, EachDay
<1> QED BY <1>3

-----------------------------------------------------------------------------
(* A site through the close of quarter q and the shelves' decision.        *)
ClosedSite(b) ==
    [b EXCEPT !.output_share = IF b.completion_day > 0 THEN share_of(b.completion_day) ELSE MILLE,
              !.completion_day = 0]

LEMMA SiteQuarter ==
    ASSUME NEW s \in Site, NEW b \in building, NEW q \in Nat, NEW at \in Int, NEW d \in Nat,
           NEW fast, NEW still_fast, SiteGood(s, b, Q, q, at, d, fast),
           NEW owed \in Nat, owed <= b.arrears, NEW rate \in 0 .. MILLE,
           b.ticks_remaining = 0 => rate = 0,
           still_fast => fast /\ (b.ticks_remaining > 0 => rate = MILLE)
    PROVE  /\ d + b.arrears - owed \in Nat
           /\ SiteGood(s, Decided(ClosedSite(b), owed, rate), 0, q + 1, at, d + b.arrears - owed,
                       still_fast)
<1> DEFINE n == Decided(ClosedSite(b), owed, rate)
           more == d + b.arrears - owed
           D == Duration[s]
           began == q * Q
<1>1. /\ MILLE \in Nat \ {0} /\ Q \in Nat \ {0} /\ D \in Nat /\ began \in Nat
      /\ (q + 1) * Q = began + Q
      BY QuarterTypes
<1>2. /\ b.days_remaining \in Nat /\ b.ticks_remaining \in Nat /\ b.arrears \in Nat
      /\ b.build_day_milli \in Nat /\ b.completion_day \in Nat /\ b.completion_day <= Q
      BY BuildingTypes
<1>3. more \in Nat BY <1>2
<1>4. /\ n.days_remaining = b.days_remaining /\ n.ticks_remaining = b.ticks_remaining
      /\ n.build_day_milli = b.build_day_milli /\ n.arrears = owed /\ n.completion_day = 0
      /\ b.ticks_remaining = 0 => n.build_paid_days = b.build_paid_days
      /\ b.ticks_remaining # 0 => /\ n.build_rate = rate
                                  /\ n.build_paid_days = IF rate = 0 THEN 0
                                                         ELSE Lesser(b.days_remaining, Q)
  BY DEF Decided, ClosedSite, building, paid_days
<1>5. CASE at < 0
  <2>1. b = no_site /\ d = 0 BY <1>5 DEF SiteGood
  <2>2. owed = 0 /\ more = 0 BY <2>1 DEF no_site
  <2>3. ClosedSite(b) = b
    <3>1. b.completion_day = 0 /\ b.output_share = MILLE BY <2>1 DEF no_site
    <3>2. ~(b.completion_day > 0) BY <3>1
    <3>3. ClosedSite(b) = [b EXCEPT !.output_share = MILLE, !.completion_day = 0]
          BY <3>2 DEF ClosedSite
    <3> QED BY <3>1, <3>3 DEF building
  <2>4. n = no_site
    <3>1. b.ticks_remaining = 0 /\ b.arrears = 0 BY <2>1 DEF no_site
    <3>2. n = [b EXCEPT !.arrears = 0] BY <2>2, <2>3, <3>1 DEF Decided
    <3>3. n = b BY <3>1, <3>2 DEF building
    <3> QED BY <2>1, <3>3
  <2> QED BY <1>3, <1>5, <2>2, <2>4 DEF SiteGood
<1>6. CASE ~(at < 0)
  <2>1. Kept(s, b, Q, d) /\ (fast => Timely(s, b, Q, q, at)) BY <1>6 DEF SiteGood
  <2> DEFINE work == MILLE * (D - b.days_remaining) + b.build_day_milli
  <2>2. /\ b.build_day_milli < MILLE
        /\ b.ticks_remaining = 0 =>
              /\ b.days_remaining = 0 /\ b.build_paid_days = 0 /\ b.build_day_milli = 0
              /\ work <= d + b.arrears /\ d + b.arrears < work + MILLE
        /\ b.ticks_remaining > 0 =>
              /\ b.days_remaining > 0 /\ b.completion_day = 0 /\ d + b.arrears = work
        BY <2>1 DEF Kept
  <2>3. MILLE * (D - n.days_remaining) + n.build_day_milli = work BY <1>4
  <2>4. more + n.arrears = d + b.arrears BY <1>2, <1>4
  <2> HIDE DEF n, more, work
  <2>5. Kept(s, n, 0, more)
    <3>1. CASE b.ticks_remaining = 0
      <4>1. n.build_paid_days <= Q - 0 BY <1>1, <1>4, <2>2, <3>1
      <4>2. n.ticks_remaining = 0 /\ ~(n.ticks_remaining > 0) BY <1>4, <3>1
      <4> QED BY <1>4, <2>2, <2>3, <2>4, <3>1, <4>1, <4>2 DEF Kept
    <3>2. CASE b.ticks_remaining # 0
      <4>1. n.build_paid_days <= Q - 0 BY <1>1, <1>2, <1>4, <3>2 DEF Lesser
      <4>2. n.ticks_remaining > 0 /\ ~(n.ticks_remaining = 0) /\ b.ticks_remaining > 0
            BY <1>2, <1>4, <3>2
      <4>3. n.build_paid_days > 0 => n.build_rate > 0 BY <1>4, <3>2
      <4> QED BY <1>4, <2>2, <2>3, <2>4, <4>1, <4>2, <4>3 DEF Kept
    <3> QED BY <3>1, <3>2
  <2>6. ASSUME still_fast PROVE Timely(s, n, 0, q + 1, at)
    <3>1. Timely(s, b, Q, q, at) /\ (b.ticks_remaining > 0 => rate = MILLE) BY <2>1, <2>6
    <3>2. CASE b.ticks_remaining = 0
      <4>1. at + D <= began + Q
        <5>1. CASE b.completion_day > 0
          <6>1. began + b.completion_day = at + D BY <3>1, <3>2, <5>1 DEF Timely
          <6> HIDE DEF began, D
          <6> QED BY <1>1, <1>2, <6>1
        <5>2. CASE ~(b.completion_day > 0)
          <6>1. at + D <= began BY <1>2, <3>1, <3>2, <5>2 DEF Timely
          <6> HIDE DEF began, D
          <6> QED BY <1>1, <6>1
        <5> QED BY <5>1, <5>2
      <4>2. n.ticks_remaining = 0 /\ ~(n.ticks_remaining > 0) /\ ~(n.completion_day > 0)
            BY <1>4, <3>2
      <4> QED BY <1>1, <4>1, <4>2 DEF Timely
    <3>3. CASE b.ticks_remaining # 0
      <4>1. b.ticks_remaining > 0 /\ n.ticks_remaining > 0 /\ ~(n.ticks_remaining = 0)
            BY <1>2, <1>4, <3>3
      <4>2. b.build_day_milli = 0 /\ began + Q + b.days_remaining = at + D
            BY <3>1, <4>1 DEF Timely
      <4>3. rate = MILLE /\ ~(rate = 0) BY <1>1, <3>1, <4>1
      <4>4. Q - 0 = Q BY <1>1
      <4>5. n.build_rate = MILLE /\ n.build_day_milli = 0
            /\ n.build_paid_days = Lesser(n.days_remaining, Q - 0)
            BY <1>4, <3>3, <4>2, <4>3, <4>4
      <4>6. (q + 1) * Q + 0 + n.days_remaining = at + D
        <5> HIDE DEF began, D
        <5> QED BY <1>1, <1>2, <1>4, <4>2
      <4> QED BY <4>1, <4>5, <4>6 DEF Timely
    <3> QED BY <3>2, <3>3
  <2> QED BY <1>3, <1>6, <2>5, <2>6 DEF SiteGood, n, more
<1> QED BY <1>5, <1>6

(* The share read at the close, by the day the site stood complete.        *)
LEMMA ShareRead ==
    ASSUME NEW s \in Site, NEW b \in building, NEW q \in Nat, NEW at \in Nat, NEW d \in Nat,
           SiteGood(s, b, Q, q, at, d, TRUE)
    PROVE  LET stood == (q + 1) * Q - (at + Duration[s])
           IN  ClosedSite(b).output_share
                    = IF stood \in 0 .. Q - 1 THEN (stood * MILLE) \div Q ELSE MILLE
<1> DEFINE D == Duration[s]
           began == q * Q
           stood == (q + 1) * Q - (at + D)
<1>1. /\ MILLE \in Nat \ {0} /\ Q \in Nat \ {0} /\ D \in Nat /\ began \in Nat
      /\ (q + 1) * Q = began + Q
      BY QuarterTypes
<1>2. /\ b.days_remaining \in Nat /\ b.ticks_remaining \in Nat
      /\ b.completion_day \in Nat /\ b.completion_day <= Q
      BY BuildingTypes
<1>3. ~(at < 0) OBVIOUS
<1>4. Kept(s, b, Q, d) /\ Timely(s, b, Q, q, at) BY <1>3 DEF SiteGood
<1>5. ClosedSite(b).output_share
        = IF b.completion_day > 0 THEN share_of(b.completion_day) ELSE MILLE
      BY DEF ClosedSite, building
<1>6. CASE b.ticks_remaining > 0
  <2>1. b.days_remaining > 0 /\ b.completion_day = 0 BY <1>4, <1>6 DEF Kept
  <2>2. began + Q + b.days_remaining = at + D BY <1>4, <1>6 DEF Timely
  <2>3. stood \notin 0 .. Q - 1
    <3>1. stood = (began + Q) - (at + D) BY <1>1
    <3> HIDE DEF stood, began, D
    <3> QED BY <1>1, <1>2, <2>1, <2>2, <3>1
  <2> QED BY <1>5, <2>1, <2>3
<1>7. CASE b.ticks_remaining = 0 /\ b.completion_day > 0
  <2>1. began + b.completion_day = at + D BY <1>4, <1>7 DEF Timely
  <2>2. stood = Q - b.completion_day
    <3>1. stood = (began + Q) - (at + D) BY <1>1
    <3> DEFINE day == at + D
               last == b.completion_day
    <3>2. /\ began + last = day /\ day \in Int /\ last \in Nat /\ stood = (began + Q) - day
          /\ began \in Nat /\ Q \in Nat
          BY <1>1, <1>2, <2>1, <3>1
    <3> HIDE DEF stood, began, day, last
    <3>3. stood = Q - last BY <3>2
    <3> QED BY <3>3 DEF last
  <2>3. stood \in 0 .. Q - 1
    <3> HIDE DEF stood
    <3> QED BY <1>1, <1>2, <1>7, <2>2
  <2>4. share_of(b.completion_day) = (stood * MILLE) \div Q
    <3> HIDE DEF stood
    <3> QED BY <2>2 DEF share_of
  <2> QED BY <1>5, <1>7, <2>3, <2>4
<1>8. CASE b.ticks_remaining = 0 /\ ~(b.completion_day > 0)
  <2>1. at + D <= began BY <1>2, <1>4, <1>8 DEF Timely
  <2>2. stood \notin 0 .. Q - 1
    <3>1. stood = (began + Q) - (at + D) BY <1>1
    <3> HIDE DEF stood, began, D
    <3> QED BY <1>1, <2>1, <3>1
  <2> QED BY <1>5, <1>8, <2>2
<1> QED BY <1>2, <1>6, <1>7, <1>8

(* A site on the day it is placed.                                         *)
LEMMA SitePlaced ==
    ASSUME NEW s \in Site, NEW rate \in Rates, NEW w \in world, NEW q \in Nat, NEW at \in Nat,
           w.construction_quarter_day < Q, at = q * Q + w.construction_quarter_day,
           NEW fast, fast => rate = MILLE
    PROVE  SiteGood(s, Sited(s, w, rate), w.construction_quarter_day, q, at, 0, fast)
<1> DEFINE n == Sited(s, w, rate)
           c == w.construction_quarter_day
           D == Duration[s]
<1>1. /\ MILLE \in Nat \ {0} /\ Q \in Nat \ {0} /\ D \in Nat \ {0} /\ c \in Nat /\ q * Q \in Nat
      /\ rate \in 0 .. MILLE
      BY QuarterTypes DEF world
<1>2. /\ n.days_remaining = D /\ n.ticks_remaining = quarters_of(D) /\ n.build_rate = rate
      /\ n.build_paid_days = (IF rate = 0 THEN 0 ELSE Lesser(D, Q - c))
      /\ n.build_day_milli = 0 /\ n.arrears = 0 /\ n.completion_day = 0
      BY DEF Sited, no_site, days_ahead
<1> HIDE DEF n, D
<1>3. n.ticks_remaining > 0 /\ ~(n.ticks_remaining = 0)
  <2>1. quarters_of(D) \in Nat /\ quarters_of(D) > 0 BY <1>1, Quarters
  <2> QED BY <1>2, <2>1
<1>4. Kept(s, n, c, 0)
  <2>1. n.build_paid_days <= Q - c BY <1>1, <1>2 DEF Lesser
  <2>2. MILLE * (D - n.days_remaining) + n.build_day_milli = 0 + n.arrears BY <1>1, <1>2
  <2>3. n.build_paid_days > 0 => n.build_rate > 0 BY <1>1, <1>2
  <2> QED BY <1>1, <1>2, <1>3, <2>1, <2>2, <2>3 DEF Kept, D
<1>5. ASSUME fast PROVE Timely(s, n, c, q, at)
  <2>1. n.build_rate = MILLE /\ n.build_paid_days = Lesser(n.days_remaining, Q - c)
        BY <1>1, <1>2, <1>5
  <2> QED BY <1>1, <1>2, <1>3, <2>1 DEF Timely, D
<1>6. ~(at < 0) OBVIOUS
<1> QED BY <1>4, <1>5, <1>6 DEF SiteGood, n

-----------------------------------------------------------------------------
(* The sites of the live world.                                            *)
Sites == SitesGood(live, m_last_econ_tick, placed, drawn, slowed)

LEMMA SitesInit == ASSUME Init PROVE Sites
<1>1. ASSUME NEW s \in Site
      PROVE  SiteGood(s, live.buildings[s], live.construction_quarter_day, m_last_econ_tick,
                      placed[s], drawn[s], s \notin slowed)
  <2>1. live.buildings[s] = no_site /\ placed[s] = -1 /\ drawn[s] = 0 BY DEF Init
  <2>2. -1 < 0 OBVIOUS
  <2> QED BY <2>1, <2>2 DEF SiteGood
<1> QED BY <1>1 DEF Sites, SitesGood

LEMMA SitesOrder ==
    ASSUME Inv, Sites, NEW s \in Site, NEW rate \in Rates, place(s, rate)
    PROVE  Sites'
<1>1. /\ day_tick \in Nat /\ m_last_econ_tick \in Nat /\ live \in world
      /\ placed \in [Site -> Int] /\ drawn \in [Site -> Nat]
      BY TypeFacts DEF Inv, TypeOK
<1>2. /\ pc = "clock" /\ placed[s] = -1
      /\ live' = [live EXCEPT !.buildings[s] = Sited(s, live, rate)]
      /\ placed' = [placed EXCEPT ![s] = day_tick]
      /\ slowed' = IF rate < MILLE THEN slowed \cup {s} ELSE slowed
      /\ UNCHANGED <<day_tick, m_last_econ_tick, pc, drawn>>
      BY PlaceIs
<1> DEFINE c == live.construction_quarter_day
<1>3. /\ live'.construction_quarter_day = c
      /\ live'.buildings = [live.buildings EXCEPT ![s] = Sited(s, live, rate)]
      /\ live.buildings \in [Site -> building]
      BY <1>1, <1>2, Siting DEF world
<1>4. c < Q /\ day_tick = m_last_econ_tick * Q + c
  <2>1. m_last_econ_tick <= day_tick \div Q /\ m_last_econ_tick = day_tick \div Q
        /\ c = into_quarter(day_tick, m_last_econ_tick)
        BY <1>2 DEF Inv, Cursor
  <2>2. /\ m_last_econ_tick * Q \in Nat /\ into_quarter(day_tick, m_last_econ_tick) < Q
        /\ into_quarter(day_tick, m_last_econ_tick) = day_tick - m_last_econ_tick * Q
        BY <1>1, <2>1, Into
  <2> DEFINE began == m_last_econ_tick * Q
  <2>3. began \in Nat /\ c < Q /\ c = day_tick - began BY <2>1, <2>2
  <2> HIDE DEF began, c
  <2>4. c < Q /\ day_tick = began + c BY <1>1, <2>3
  <2> QED BY <2>4 DEF began, c
<1>5. ASSUME NEW r \in Site
      PROVE  SiteGood(r, live'.buildings[r], live'.construction_quarter_day, m_last_econ_tick',
                      placed'[r], drawn'[r], r \notin slowed')
  <2>1. SiteGood(r, live.buildings[r], c, m_last_econ_tick, placed[r], drawn[r], r \notin slowed)
        BY DEF Sites, SitesGood
  <2>2. CASE r = s
    <3>1. drawn[r] = 0
      <4>1. placed[r] < 0 BY <1>2, <2>2
      <4> QED BY <2>1, <4>1 DEF SiteGood
    <3>2. r \notin slowed' => rate = MILLE
      <4>1. rate \in 0 .. MILLE /\ MILLE \in Nat BY QuarterTypes
      <4> QED BY <1>2, <2>2, <4>1
    <3>3. placed'[r] = day_tick BY <1>1, <1>2, <2>2
    <3>4. live'.buildings[r] = Sited(s, live, rate) BY <1>3, <2>2
    <3>5. SiteGood(s, Sited(s, live, rate), c, m_last_econ_tick, day_tick, 0, r \notin slowed')
      <4> DEFINE fast == r \notin slowed'
      <4>1. fast => rate = MILLE BY <3>2
      <4> HIDE DEF fast
      <4>2. SiteGood(s, Sited(s, live, rate), c, m_last_econ_tick, day_tick, 0, fast)
            BY <1>1, <1>4, <4>1, SitePlaced
      <4> QED BY <4>2 DEF fast
    <3> QED BY <1>2, <1>3, <2>2, <3>1, <3>3, <3>4, <3>5
  <2>3. CASE r # s
    <3>1. live'.buildings[r] = live.buildings[r] /\ placed'[r] = placed[r] BY <1>1, <1>2, <1>3, <2>3
    <3>2. (r \notin slowed') = (r \notin slowed) BY <1>2, <2>3
    <3> QED BY <1>2, <1>3, <2>1, <3>1, <3>2
  <2> QED BY <2>2, <2>3
<1> QED BY <1>5 DEF Sites, SitesGood

LEMMA SitesMarch ==
    ASSUME Inv, Sites, march
    PROVE  Sites'
<1>1. live \in world BY TypeFacts DEF Inv
<1>2. /\ live' = [live EXCEPT !.march = MARCH]
      /\ UNCHANGED <<day_tick, m_last_econ_tick, pc, placed, slowed, drawn>>
      BY MarchIs
<1>3. live'.buildings = live.buildings
      /\ live'.construction_quarter_day = live.construction_quarter_day
      BY <1>1, <1>2, Marching
<1> QED BY <1>2, <1>3 DEF Sites, SitesGood

LEMMA SitesFrame ==
    ASSUME Inv, Sites, frame
    PROVE  Sites'
<1>1. /\ day_tick \in Nat /\ m_last_econ_tick \in Nat /\ live \in world
      /\ placed \in [Site -> Int] /\ drawn \in [Site -> Nat]
      BY TypeFacts DEF Inv, TypeOK
<1>2. /\ live' = advance_quarter_to(live, into_quarter(day_tick', m_last_econ_tick))
      /\ UNCHANGED <<m_last_econ_tick, headless, in_step, placed, slowed, drawn>>
      BY DEF frame, advance_construction_today
<1> DEFINE to == into_quarter(day_tick', m_last_econ_tick)
<1>3. to \in 0 .. Q
  <2>1. Inv' BY InvFrame
  <2>2. live' \in world /\ live'.construction_quarter_day = into_quarter(day_tick', m_last_econ_tick')
        BY <2>1 DEF Inv, TypeOK, Cursor
  <2> QED BY <1>2, <2>2 DEF world
<1> HIDE DEF to
<1>4. SitesGood(advance_quarter_to(live, to), m_last_econ_tick, placed, drawn, slowed)
      BY <1>1, <1>3, SitesWalk DEF Sites
<1>5. live' = advance_quarter_to(live, to) BY <1>2 DEF to
<1> QED BY <1>2, <1>4, <1>5 DEF Sites

(* A quarter's close, its decisions and the days already passed; and the   *)
(* share each site was given at the close.                                 *)
LEMMA SitesStepEconomy ==
    ASSUME Inv, Sites, step_economy
    PROVE  Sites' /\ FirstShare
<1>1. /\ day_tick \in Nat /\ m_last_econ_tick \in Nat /\ live \in world
      /\ placed \in [Site -> Int] /\ drawn \in [Site -> Nat]
      BY TypeFacts DEF Inv, TypeOK
<1> DEFINE up == advance_quarter_to(live, Q)
           closed == Closed(live)
           debt(s) == closed.buildings[s].arrears
           q == m_last_econ_tick
<1>2. /\ q' = q + 1
      /\ UNCHANGED <<day_tick, pc, in_step, placed>>
      BY StepEconomyIs
<1>3. PICK owed \in [Site -> 0 .. MAX_OWED], rate \in [Site -> Rates] :
        /\ \A s \in Site : owed[s] <= debt(s)
        /\ \A s \in Site : closed.buildings[s].ticks_remaining = 0 => rate[s] = 0
        /\ live' = advance_quarter_to(run_construction(closed, owed, rate), into_quarter(day_tick', q'))
        /\ drawn' = [s \in Site |-> drawn[s] + debt(s) - owed[s]]
        /\ slowed' = slowed \cup
                {s \in Site : closed.buildings[s].ticks_remaining > 0 /\ rate[s] < MILLE}
      BY StepEconomyIs, Zenon
<1> DEFINE begun == run_construction(closed, owed, rate)
           to == into_quarter(day_tick', q')
<1>4. Q \in Nat \ {0} /\ 0 \in 0 .. Q /\ Q \in 0 .. Q /\ MAX_OWED \in Nat BY QuarterTypes
<1>5. to \in 0 .. Q /\ drawn' \in [Site -> Nat] /\ placed' = placed
  <2>1. Inv' BY InvStepEconomy
  <2>2. live' \in world /\ live'.construction_quarter_day = into_quarter(day_tick', m_last_econ_tick')
        /\ drawn' \in [Site -> Nat]
        BY <2>1 DEF Inv, TypeOK, Cursor
  <2> QED BY <1>2, <2>2 DEF world
<1>6. /\ up \in world /\ up.construction_quarter_day = Q
      /\ closed \in world /\ closed.construction_quarter_day = 0
      /\ \A s \in Site : closed.buildings[s] = ClosedSite(up.buildings[s])
      BY <1>1, Closing DEF ClosedSite
<1>7. SitesGood(up, q, placed, drawn, slowed) BY <1>1, <1>4, SitesWalk DEF Sites
<1> HIDE DEF up, closed, to
<1>8. /\ begun \in world /\ begun.construction_quarter_day = 0
      /\ \A s \in Site : begun.buildings[s] = Decided(closed.buildings[s], owed[s], rate[s])
      BY <1>6, Deciding
<1> HIDE DEF begun
<1>9. live' = advance_quarter_to(begun, to) BY <1>3 DEF begun, to
<1>10. ASSUME NEW s \in Site
       PROVE  /\ up.buildings[s] \in building
              /\ debt(s) = up.buildings[s].arrears
              /\ closed.buildings[s].ticks_remaining = up.buildings[s].ticks_remaining
  <2>1. up.buildings[s] \in building BY <1>6 DEF world
  <2>2. closed.buildings[s] = ClosedSite(up.buildings[s]) BY <1>6
  <2> QED BY <2>1, <2>2 DEF ClosedSite, building
<1>11. ASSUME NEW s \in Site
       PROVE  SiteGood(s, begun.buildings[s], begun.construction_quarter_day, q + 1, placed[s],
                       drawn'[s], s \notin slowed')
  <2> DEFINE b == up.buildings[s]
             fast == s \notin slowed
             still_fast == s \notin slowed'
             o == owed[s]
             r == rate[s]
             d == drawn[s]
             at == placed[s]
  <2>1. SiteGood(s, b, Q, q, at, d, fast) BY <1>6, <1>7 DEF SitesGood
  <2>2. b \in building /\ o \in Nat /\ o <= b.arrears /\ r \in 0 .. MILLE /\ d \in Nat /\ at \in Int
        BY <1>1, <1>3, <1>4, <1>10, QuarterTypes
  <2>3. b.ticks_remaining = 0 => r = 0 BY <1>3, <1>10
  <2>4. still_fast => fast /\ (b.ticks_remaining > 0 => r = MILLE)
    <3>1. MILLE \in Nat BY QuarterTypes
    <3>2. still_fast => s \notin slowed /\ ~(b.ticks_remaining > 0 /\ r < MILLE) BY <1>3, <1>10
    <3> QED BY <2>2, <3>1, <3>2
  <2>5. drawn'[s] = d + b.arrears - o BY <1>3, <1>10
  <2>6. begun.buildings[s] = Decided(ClosedSite(b), o, r) BY <1>6, <1>8
  <2> HIDE DEF b, fast, still_fast, o, r, d, at
  <2>7. SiteGood(s, Decided(ClosedSite(b), o, r), 0, q + 1, at, d + b.arrears - o, still_fast)
        BY <1>1, <2>1, <2>2, <2>3, <2>4, SiteQuarter
  <2> QED BY <1>8, <2>5, <2>6, <2>7 DEF still_fast, at
<1>12. SitesGood(begun, q + 1, placed, drawn', slowed') BY <1>11 DEF SitesGood
<1>13. Sites'
  <2>1. q + 1 \in Nat BY <1>1
  <2>2. SitesGood(advance_quarter_to(begun, to), q + 1, placed, drawn', slowed')
        BY <1>1, <1>5, <1>8, <1>12, <2>1, SitesWalk
  <2> QED BY <1>2, <1>9, <2>2 DEF Sites
<1>14. FirstShare
  <2> SUFFICES ASSUME NEW s \in Site, placed[s] >= 0, s \notin slowed'
               PROVE  live'.buildings[s].output_share
                        = IF m_last_econ_tick' * Q - (placed[s] + Duration[s]) \in 0 .. Q - 1
                          THEN ((m_last_econ_tick' * Q - (placed[s] + Duration[s])) * MILLE) \div Q
                          ELSE MILLE
      BY Zenon DEF FirstShare
  <2> DEFINE b == up.buildings[s]
             at == placed[s]
             d == drawn[s]
             stood == (q + 1) * Q - (at + Duration[s])
  <2>1. live'.buildings[s].output_share = begun.buildings[s].output_share
        BY <1>5, <1>8, <1>9, SharesWalk
  <2>2. begun.buildings[s].output_share = ClosedSite(b).output_share
    <3>1. closed.buildings[s] \in building /\ closed.buildings[s] = ClosedSite(b) BY <1>6 DEF world
    <3>2. begun.buildings[s] = Decided(closed.buildings[s], owed[s], rate[s]) BY <1>8
    <3> QED BY <3>1, <3>2 DEF Decided, building
  <2>3. SiteGood(s, b, Q, q, at, d, s \notin slowed) BY <1>6, <1>7 DEF SitesGood
  <2>4. s \notin slowed BY <1>3
  <2>5. SiteGood(s, b, Q, q, at, d, TRUE)
    <3>1. (s \notin slowed) = TRUE BY <2>4
    <3> QED BY <2>3, <3>1
  <2>6. b \in building /\ at \in Nat /\ d \in Nat BY <1>1, <1>10
  <2> HIDE DEF b, at, d
  <2>7. ClosedSite(b).output_share = IF stood \in 0 .. Q - 1 THEN (stood * MILLE) \div Q ELSE MILLE
        BY <1>1, <2>5, <2>6, ShareRead
  <2>8. m_last_econ_tick' * Q - (placed[s] + Duration[s]) = stood BY <1>2 DEF at
  <2> HIDE DEF stood
  <2> QED BY <2>1, <2>2, <2>7, <2>8
<1> QED BY <1>13, <1>14

LEMMA SitesNext ==
    ASSUME Inv, Sites, [Next]_vars
    PROVE  Sites' /\ (FirstShare \/ UNCHANGED vars)
<1>1. m_last_econ_tick' = m_last_econ_tick => FirstShare BY Zenon DEF FirstShare
<1>2. CASE \E s \in Site, rate \in Rates : place(s, rate)
  <2>1. PICK s \in Site, rate \in Rates : place(s, rate) BY <1>2
  <2>2. m_last_econ_tick' = m_last_econ_tick BY <2>1, PlaceIs
  <2> QED BY <1>1, <2>1, <2>2, SitesOrder
<1>3. CASE march
  <2>1. m_last_econ_tick' = m_last_econ_tick BY <1>3, MarchIs
  <2> QED BY <1>1, <1>3, <2>1, SitesMarch
<1>4. CASE frame
  <2>1. m_last_econ_tick' = m_last_econ_tick BY <1>4 DEF frame
  <2> QED BY <1>1, <1>4, <2>1, SitesFrame
<1>5. CASE step_economy BY <1>5, SitesStepEconomy
<1>6. CASE frame_ends
  <2>1. UNCHANGED <<m_last_econ_tick, live, placed, slowed, drawn>> BY <1>6 DEF frame_ends
  <2> QED BY <1>1, <2>1 DEF Sites, SitesGood
<1>7. CASE UNCHANGED vars
  <2>1. UNCHANGED <<m_last_econ_tick, live, placed, slowed, drawn>> BY <1>7 DEF vars
  <2> QED BY <1>7, <2>1 DEF Sites, SitesGood
<1> QED BY <1>2, <1>3, <1>4, <1>5, <1>6, <1>7 DEF Next

(* For any rates, debts and cuts of the days: a site is never paid for     *)
(* more days than its quarter has left, and every milli-day of work has    *)
(* its materials drawn or owed.                                            *)
THEOREM WorkAndPaymentAgree == Spec => []WorkIsPaid
<1>1. Init => Inv /\ Sites BY InitInv, SitesInit
<1>2. Inv /\ Sites /\ [Next]_vars => (Inv /\ Sites)' BY InvNext, SitesNext
<1>3. Inv /\ Sites => WorkIsPaid
  <2> SUFFICES ASSUME Inv, Sites PROVE WorkIsPaid OBVIOUS
  <2> DEFINE c == live.construction_quarter_day
  <2>1. live \in world /\ Q \in Nat /\ c \in 0 .. Q BY TypeFacts, QuarterTypes DEF Inv, world
  <2>2. ASSUME NEW s \in Site
        PROVE  SiteGood(s, live.buildings[s], c, m_last_econ_tick, placed[s], drawn[s], s \notin slowed)
               /\ live.buildings[s] \in building
        BY <2>1 DEF Sites, SitesGood, world
  <2>3. ASSUME NEW s \in Site PROVE live.buildings[s].build_paid_days <= Q - c
    <3>1. CASE placed[s] < 0
      <4>1. live.buildings[s] = no_site BY <2>2, <3>1 DEF SiteGood
      <4>2. live.buildings[s].build_paid_days = 0 BY <4>1 DEF no_site
      <4> HIDE DEF c
      <4> QED BY <2>1, <4>2
    <3>2. CASE ~(placed[s] < 0) BY <2>2, <3>2 DEF SiteGood, Kept
    <3> QED BY <3>1, <3>2
  <2>4. PaidWithinQuarter BY <2>3 DEF PaidWithinQuarter
  <2>5. MaterialsFollowWork
    <3> SUFFICES ASSUME NEW s \in Site, placed[s] >= 0
                 PROVE  LET b == live.buildings[s]
                            work == MILLE * (Duration[s] - b.days_remaining) + b.build_day_milli
                            materials == drawn[s] + b.arrears
                        IN  IF b.ticks_remaining > 0 THEN materials = work
                            ELSE work <= materials /\ materials < work + MILLE
        BY DEF MaterialsFollowWork
    <3>1. ~(placed[s] < 0) BY DEF Inv, TypeOK
    <3>2. Kept(s, live.buildings[s], c, drawn[s]) BY <2>2, <3>1 DEF SiteGood
    <3>3. live.buildings[s].ticks_remaining \in Nat BY <2>2, BuildingTypes
    <3>4. ~(live.buildings[s].ticks_remaining > 0) => live.buildings[s].ticks_remaining = 0 BY <3>3
    <3> QED BY <3>2, <3>4 DEF Kept
  <2> QED BY <2>4, <2>5 DEF WorkIsPaid
<1> QED BY <1>1, <1>2, <1>3, PTL DEF Spec

LEMMA OnItsDay ==
    ASSUME Inv, Sites
    PROVE  CompletionDay
<1> DEFINE c == live.construction_quarter_day
<1>1. /\ day_tick \in Nat /\ m_last_econ_tick \in Nat /\ live \in world /\ Q \in Nat
      BY TypeFacts, QuarterTypes DEF Inv
<1> SUFFICES ASSUME NEW s \in Site, placed[s] >= 0, s \notin slowed
             PROVE  /\ live.buildings[s].completion_day > 0 =>
                         m_last_econ_tick * Q + live.buildings[s].completion_day
                            = placed[s] + Duration[s]
                    /\ live.buildings[s].ticks_remaining > 0 /\ pc = "clock" =>
                         day_tick + live.buildings[s].days_remaining = placed[s] + Duration[s]
    BY DEF CompletionDay
<1> DEFINE b == live.buildings[s]
<1>2. ~(placed[s] < 0) BY DEF Inv, TypeOK
<1>3. Kept(s, b, c, drawn[s]) /\ Timely(s, b, c, m_last_econ_tick, placed[s])
  <2>1. SiteGood(s, b, c, m_last_econ_tick, placed[s], drawn[s], s \notin slowed)
        BY DEF Sites, SitesGood
  <2> QED BY <1>2, <2>1 DEF SiteGood
<1>4. b \in building BY <1>1 DEF world
<1>5. b.ticks_remaining \in Nat /\ b.days_remaining \in Nat BY <1>4, BuildingTypes
<1>6. ASSUME b.completion_day > 0
      PROVE  m_last_econ_tick * Q + b.completion_day = placed[s] + Duration[s]
  <2>1. b.ticks_remaining = 0
    <3>1. b.ticks_remaining > 0 => b.completion_day = 0 BY <1>3 DEF Kept
    <3>2. b.completion_day # 0 BY <1>6
    <3> QED BY <1>5, <3>1, <3>2
  <2> QED BY <1>3, <1>6, <2>1 DEF Timely
<1>7. ASSUME b.ticks_remaining > 0, pc = "clock"
      PROVE  day_tick + b.days_remaining = placed[s] + Duration[s]
  <2>1. m_last_econ_tick * Q + c + b.days_remaining = placed[s] + Duration[s]
        BY <1>3, <1>7 DEF Timely
  <2>2. m_last_econ_tick <= day_tick \div Q /\ m_last_econ_tick = day_tick \div Q
        /\ c = into_quarter(day_tick, m_last_econ_tick)
        BY <1>7 DEF Inv, Cursor
  <2>3. /\ m_last_econ_tick * Q \in Nat
        /\ into_quarter(day_tick, m_last_econ_tick) = day_tick - m_last_econ_tick * Q
        BY <1>1, <2>2, Into
  <2> DEFINE began == m_last_econ_tick * Q
             ends == placed[s] + Duration[s]
             left == b.days_remaining
  <2>4. began \in Nat /\ c = day_tick - began /\ began + c + left = ends /\ left \in Nat
        BY <1>5, <2>1, <2>2, <2>3
  <2> HIDE DEF began, ends, left, c
  <2>5. day_tick + left = ends BY <1>1, <2>4
  <2> QED BY <2>5 DEF left, ends
<1> QED BY <1>6, <1>7

(* For any length of a quarter: a site that no shelf slows completes       *)
(* exactly its days after the day it was placed, whatever quarter that     *)
(* falls in and however the frames cut the days; the tick after reads the  *)
(* share of the quarter it stood, and later ticks the whole.               *)
THEOREM EverySiteCompletesOnItsDay == Spec => CompletesOnItsDay
<1>1. Init => Inv /\ Sites BY InitInv, SitesInit
<1>2. Inv /\ Sites /\ [Next]_vars => (Inv /\ Sites)' BY InvNext, SitesNext
<1>3. Inv /\ Sites => CompletionDay BY OnItsDay
<1>4. Inv /\ Sites /\ [Next]_vars => [FirstShare]_vars BY SitesNext
<1> QED BY <1>1, <1>2, <1>3, <1>4, PTL DEF Spec, CompletesOnItsDay

=============================================================================
