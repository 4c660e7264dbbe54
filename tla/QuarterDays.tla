---------------------------- MODULE QuarterDays ----------------------------
(***************************************************************************)
(* An economy quarter is walked by the day: construction sites build and   *)
(* units march (world/economy_system.cpp, advance_quarter_to), under two   *)
(* hosts.  The live game walks the days as its clock passes them, a few a  *)
(* frame, and closes each quarter it crosses (core/app.cpp); a headless    *)
(* host only ever closes quarters, which walks the ninety days at once.    *)
(* Here the two run side by side, given the same markets and orders.       *)
(*                                                                         *)
(* A definition marked "mutant" is a plausible mistake in the one after    *)
(* it; the properties are checked to notice each.                          *)
(*                                                                         *)
(* Abstracted: a shelf is what rate it allows each site and how much of a  *)
(* debt it covers; a unit marches toward one destination, on a road that a *)
(* finished site improves; battles, fronts and carried supplies are left   *)
(* out of the military day.                                                *)
(***************************************************************************)
EXTENDS Integers

CONSTANTS
    Site,
    Q,             \* k_construction_quarter_days, sim_loop::econ_tick_days (90)
    MILLE,         \* a full rate, and a whole day of work, in milli-days (1000)
    Duration,      \* [Site -> days of work]
    Rates,         \* the rates a shelf may allow a site; 0 is a pause
    MARCH,         \* length of a march, in tiles
    MAX_OWED,      \* bound: milli-days a tick may leave owed
    MAX_FRAME,     \* bound: days one frame's clock may cross
    LAST_TICK      \* bound: quarters explored

ASSUME QuarterAssumption ==
    /\ Q \in Nat \ {0} /\ MILLE \in Nat \ {0} /\ MARCH \in Nat
    /\ Duration \in [Site -> Nat \ {0}]
    /\ Rates \subseteq 0 .. MILLE
    /\ MAX_OWED \in Nat /\ MAX_FRAME \in Nat /\ LAST_TICK \in Nat

VARIABLES
    day_tick,         \* the live clock
    m_last_econ_tick, \* quarters closed
    pc,               \* where the live frame is
    live, headless,   \* the two worlds
    in_step,          \* no order has reached the live world alone
    placed,           \* [Site -> the day it was placed, -1 before]
    slowed,           \* sites some shelf has not let build at the full rate
    drawn             \* [Site -> milli-days of materials drawn so far]

vars == <<day_tick, m_last_econ_tick, pc, live, headless, in_step, placed, slowed, drawn>>

building == [there : BOOLEAN, days_remaining : Nat, ticks_remaining : Nat, build_rate : 0 .. MILLE,
             build_paid_days : 0 .. Q, build_day_milli : 0 .. MILLE, arrears : Nat,
             completion_day : 0 .. Q, output_share : 0 .. MILLE]
world == [construction_quarter_day : 0 .. Q, buildings : [Site -> building],
          march : 0 .. MARCH, in_field : 0 .. 1, field_days : Nat]

TypeOK ==
    /\ {day_tick, m_last_econ_tick} \subseteq Nat
    /\ pc \in {"clock", "boundary"} /\ in_step \in BOOLEAN
    /\ {live, headless} \subseteq world
    /\ placed \in [Site -> Int] /\ slowed \subseteq Site /\ drawn \in [Site -> Nat]

no_site == [there |-> FALSE, days_remaining |-> 0, ticks_remaining |-> 0, build_rate |-> 0,
            build_paid_days |-> 0, build_day_milli |-> 0, arrears |-> 0,
            completion_day |-> 0, output_share |-> MILLE]

Lesser(a, b) == IF a < b THEN a ELSE b
quarters_of(days) == (days + Q - 1) \div Q

-----------------------------------------------------------------------------
(* A day of one site: it makes its rate of work, owes the materials for it *)
(* and, when no day of work is left, stands complete from this day.        *)
is_building(b) == b.ticks_remaining > 0 /\ b.build_paid_days > 0 /\ b.build_rate > 0

completed_with_debt_forgiven(b, d) == \* mutant: completion clears what is owed
    [no_site EXCEPT !.there = TRUE, !.completion_day = d]
completed(b, d) == [no_site EXCEPT !.there = TRUE, !.completion_day = d, !.arrears = b.arrears,
                                   !.output_share = b.output_share]

build_day(b, d) ==
    LET milli == b.build_day_milli + b.build_rate
        left  == b.days_remaining - milli \div MILLE
        built == [b EXCEPT !.build_paid_days = @ - 1,
                           !.arrears = @ + b.build_rate,
                           !.build_day_milli = milli % MILLE,
                           !.days_remaining = left,
                           !.ticks_remaining = quarters_of(left)]
    IN  IF ~is_building(b) THEN b ELSE IF left > 0 THEN built ELSE completed(built, d)

(* The days after day from, up to day to. *)
build_days(b, from, to) ==
    LET built[d \in 0 .. to] == IF d <= from THEN b ELSE build_day(built[d - 1], d)
    IN  built[to]

advance_construction_to(w, day) ==
    LET to == Lesser(day, Q) from == w.construction_quarter_day IN
    IF to <= from THEN w
    ELSE [w EXCEPT !.construction_quarter_day = to,
                   !.buildings = [s \in Site |-> build_days(w.buildings[s], from, to)]]

(* A day of the military: the march, quicker once a site stands complete   *)
(* (a road laid on day d is under the march from that day on).             *)
military_active(w) == w.march > 0
pace(w) == IF \E s \in Site : w.buildings[s].there /\ w.buildings[s].ticks_remaining = 0 THEN 2 ELSE 1

march_left_of(left, steps) == left - steps \* mutant: marches past its destination
march_left(left, steps) == IF left > steps THEN left - steps ELSE 0

run_military_day(w) ==
    LET left == march_left(w.march, pace(w)) IN
    [w EXCEPT !.march = left, !.in_field = IF left = 0 THEN 1 - @ ELSE @]

accumulate_war_field_days(w, days) == [w EXCEPT !.field_days = @ + days * w.in_field]

days_skipped_short(d, to) == to - d \* mutant: today is not among them
days_skipped(d, to) == to - d + 1

(* Construction's day, the military's, then the day in the field.          *)
quarter_day(w, d) ==
    accumulate_war_field_days(run_military_day(advance_construction_to(w, d)), 1)

(* Day by day while the military has anything to do, the rest in one call. *)
advance_quarter_to(w, day) ==
    LET to == Lesser(day, Q)
        walk(acc, d) ==
            IF acc.construction_quarter_day >= d THEN acc
            ELSE IF military_active(acc) THEN quarter_day(acc, d)
            ELSE accumulate_war_field_days(advance_construction_to(acc, to),
                                           days_skipped(d, to))
        walked[d \in 0 .. to] ==
            IF d <= w.construction_quarter_day THEN w ELSE walk(walked[d - 1], d)
    IN  walked[to]

-----------------------------------------------------------------------------
(* Closing the quarter: its days caught up, the completion days turned     *)
(* into the share of output this tick reads, the cursor reset.             *)
share_of(d) == ((Q - d) * MILLE) \div Q

close_construction_quarter(w) ==
    LET caught_up == advance_quarter_to(w, Q)
        share(b) == IF b.completion_day > 0 THEN share_of(b.completion_day) ELSE MILLE
    IN  [caught_up EXCEPT
            !.construction_quarter_day = 0,
            !.buildings = [s \in Site |-> LET b == caught_up.buildings[s] IN
                [b EXCEPT !.output_share = share(b), !.completion_day = 0]]]

(* What the shelves decide at a tick: how much of each debt stays owed and *)
(* the rate each unfinished site may build at in the quarter ahead.        *)
paid_days(days) == Lesser(days, Q)

run_construction(w, owed, rate) ==
    [w EXCEPT !.buildings = [s \in Site |-> LET b == w.buildings[s] IN
        IF b.ticks_remaining = 0 THEN [b EXCEPT !.arrears = owed[s]]
        ELSE [b EXCEPT !.arrears = owed[s], !.build_rate = rate[s],
                       !.build_paid_days =
                            IF rate[s] = 0 THEN 0 ELSE paid_days(b.days_remaining)]]]

-----------------------------------------------------------------------------
Init ==
    /\ day_tick = 0 /\ m_last_econ_tick = 0 /\ pc = "clock"
    /\ live = [construction_quarter_day |-> 0, buildings |-> [s \in Site |-> no_site],
               march |-> 0, in_field |-> 0, field_days |-> 0]
    /\ headless = live /\ in_step = TRUE
    /\ placed = [s \in Site |-> -1] /\ slowed = {} /\ drawn = [s \in Site |-> 0]

(* Orders are given between frames.  The headless world can share one only *)
(* where it stands itself, at the start of a quarter.                      *)
ordered(order(_)) ==
    /\ live' = order(live)
    /\ in_step' = (in_step /\ live.construction_quarter_day = 0)
    /\ headless' = IF in_step' THEN order(headless) ELSE headless

days_from_tomorrow(w, days) == \* mutant: the day of the placement builds nothing
    Lesser(days, Q - w.construction_quarter_day - 1)
days_ahead(w, days) == Lesser(days, Q - w.construction_quarter_day)

(* begin_construction_on_placement: the site builds from the day it is     *)
(* placed, at the rate the shelf allows, for what is left of the quarter.  *)
place(s, rate) ==
    LET site(w) == [no_site EXCEPT !.there = TRUE,
            !.days_remaining = Duration[s], !.ticks_remaining = quarters_of(Duration[s]),
            !.build_rate = rate,
            !.build_paid_days = IF rate = 0 THEN 0 ELSE days_ahead(w, Duration[s])]
    IN  /\ pc = "clock" /\ placed[s] = -1
        /\ ordered(LAMBDA w : [w EXCEPT !.buildings[s] = site(w)])
        /\ placed' = [placed EXCEPT ![s] = day_tick]
        /\ slowed' = IF rate < MILLE THEN slowed \cup {s} ELSE slowed
        /\ UNCHANGED <<day_tick, m_last_econ_tick, pc, drawn>>

march ==
    /\ pc = "clock" /\ live.march = 0
    /\ ordered(LAMBDA w : [w EXCEPT !.march = MARCH])
    /\ UNCHANGED <<day_tick, m_last_econ_tick, pc, placed, slowed, drawn>>

(* The days of the quarter not yet stepped that the clock has passed.      *)
into_quarter(day, tick) == Lesser(day - tick * Q, Q)
advance_construction_today(w, tick) == advance_quarter_to(w, into_quarter(day_tick', tick))

(* A frame: the clock moves by any number of days, whole quarters too when *)
(* an agent releases one, and the day loop walks to today.                 *)
frame ==
    /\ pc = "clock" /\ pc' = "boundary"
    /\ \E days \in 0 .. MAX_FRAME : day_tick' = day_tick + days
    /\ day_tick' <= LAST_TICK * Q
    /\ live' = advance_construction_today(live, m_last_econ_tick)
    /\ UNCHANGED <<m_last_econ_tick, headless, in_step, placed, slowed, drawn>>

(* Each quarter crossed: step_economy, then the new quarter's days that    *)
(* have already passed.  The headless host steps the same quarter.         *)
step_economy ==
    LET closed == close_construction_quarter(live) IN
    /\ pc = "boundary" /\ m_last_econ_tick < day_tick \div Q
    /\ m_last_econ_tick' = m_last_econ_tick + 1
    /\ UNCHANGED <<day_tick, pc, in_step, placed>>
    /\ \E owed \in [Site -> 0 .. MAX_OWED], rate \in [Site -> Rates] :
          LET debt(s) == closed.buildings[s].arrears IN
          /\ \A s \in Site : owed[s] <= debt(s)
          /\ \A s \in Site : closed.buildings[s].ticks_remaining = 0 => rate[s] = 0
          /\ live' = advance_construction_today(run_construction(closed, owed, rate),
                                                m_last_econ_tick')
          /\ headless' = run_construction(close_construction_quarter(headless), owed, rate)
          /\ drawn' = [s \in Site |-> drawn[s] + debt(s) - owed[s]]
          /\ slowed' = slowed \cup
                {s \in Site : closed.buildings[s].ticks_remaining > 0 /\ rate[s] < MILLE}

frame_ends ==
    /\ pc = "boundary" /\ m_last_econ_tick = day_tick \div Q
    /\ pc' = "clock"
    /\ UNCHANGED <<day_tick, m_last_econ_tick, live, headless, in_step, placed, slowed, drawn>>

Next == \/ \E s \in Site, rate \in Rates : place(s, rate)
        \/ march \/ frame \/ step_economy \/ frame_ends

Spec == Init /\ [][Next]_vars

-----------------------------------------------------------------------------
(* PRODUCTION.md, "Every path counts the same days": however the frames    *)
(* cut the days up, the live world at the start of a quarter is the one    *)
(* the headless host has: every site, every day in the field, the march.   *)
HostsAgree == in_step /\ live.construction_quarter_day = 0 => live = headless

(* A site is never paid for more days than the quarter has left, so none   *)
(* of what its rate claimed off the shelf is dropped when the quarter      *)
(* closes and the next rate is set.                                        *)
PaidWithinQuarter == \A s \in Site :
    live.buildings[s].build_paid_days <= Q - live.construction_quarter_day

(* By the clock, and by the days left. *)
CompletionDay == \A s \in Site : LET b == live.buildings[s] IN
    placed[s] >= 0 /\ s \notin slowed =>
        /\ b.completion_day > 0 =>
              m_last_econ_tick * Q + b.completion_day = placed[s] + Duration[s]
        /\ b.ticks_remaining > 0 /\ pc = "clock" =>
              day_tick + b.days_remaining = placed[s] + Duration[s]

(* Every milli-day built has its materials drawn or owed, and a finished   *)
(* site has paid for its days and for less than one day beyond them.       *)
MaterialsFollowWork == \A s \in Site : placed[s] >= 0 =>
    LET b == live.buildings[s]
        work == MILLE * (Duration[s] - b.days_remaining) + b.build_day_milli
        materials == drawn[s] + b.arrears
    IN  IF b.ticks_remaining > 0 THEN materials = work
        ELSE work <= materials /\ materials < work + MILLE

(* Work and its payment stay in step, through every close of a quarter,    *)
(* change of rate and completion: days paid for are days the quarter has,  *)
(* and work done is materials drawn or owed.                               *)
WorkIsPaid == PaidWithinQuarter /\ MaterialsFollowWork

(* By the share read. *)
FirstShare == \A s \in Site :
    LET b == live.buildings[s] after == live'.buildings[s]
        stood == m_last_econ_tick' * Q - (placed[s] + Duration[s])
    IN  m_last_econ_tick' # m_last_econ_tick /\ placed[s] >= 0 /\ s \notin slowed' =>
            after.output_share = IF stood \in 0 .. Q - 1 THEN (stood * MILLE) \div Q ELSE MILLE

(* PRODUCTION.md: a site that no shelf slows completes exactly its days    *)
(* after the day it was placed, on whatever day of whichever quarter; the  *)
(* tick after reads the share of the quarter it stood, and later ticks the *)
(* whole.                                                                  *)
CompletesOnItsDay == [][CompletionDay' /\ FirstShare]_vars
=============================================================================
