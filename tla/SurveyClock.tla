---------------------------- MODULE SurveyClock ----------------------------
(***************************************************************************)
(* The game clock (core/sim_loop.cpp), the surveys that run on it          *)
(* (world/survey_system.cpp) and the frame that joins them (core/app.cpp): *)
(* a dispatched survey travels, then scans its body region by region; the  *)
(* frame tells it how many whole days of the continuous clock have passed. *)
(*                                                                         *)
(* A definition marked "mutant" is a plausible mistake in the one after    *)
(* it; the properties are checked to notice each.                          *)
(*                                                                         *)
(* Abstracted: a body's distance and grid are the days and regions they    *)
(* come to; a survey's price is a constant; floating-point days are exact  *)
(* counts of the finest unit any speed moves the clock by.                 *)
(***************************************************************************)
EXTENDS Integers, Sequences

CONSTANTS
    Body,               \* the bodies a survey can be sent to
    transit_ticks, scan_ticks, regions_total,  \* [Body -> Nat]: the schedule
    Pace,               \* <<time multiplier of speed 1, ...>>, in units of sim
                        \* time per unit of wall time
    STEP,               \* units of sim time in a sim step
    sim_ticks_per_day,  \* (12)
    econ_tick_days,     \* days in a quarter (90)
    max_catchup_steps,  \* (8)
    MAX_DELTA,          \* bound: wall time between two frames
    LAST_DAY            \* bound: days explored

ASSUME ClockAssumption ==
    /\ {STEP, sim_ticks_per_day, econ_tick_days, max_catchup_steps} \subseteq Nat \ {0}
    /\ Pace \in Seq(Nat \ {0}) /\ Pace # << >> /\ \A s \in DOMAIN Pace : STEP % Pace[s] = 0
    /\ {transit_ticks, scan_ticks, regions_total} \subseteq [Body -> Nat \ {0}]
    /\ MAX_DELTA \in Nat /\ LAST_DAY \in Nat

VARIABLES
    m_speed,            \* 0 is paused
    m_accum,            \* wall time not yet stepped
    m_sim_tick,         \* sim steps done
    m_elapsed,          \* elapsed_days, in units of sim time
    m_last_survey_day,
    survey,             \* [Body -> survey_state]
    sent,               \* [Body -> the day it was dispatched, -1 before]
    saved               \* the save file, or no_save

clockVars == <<m_speed, m_accum, m_sim_tick, m_elapsed>>
vars == <<clockVars, m_last_survey_day, survey, sent, saved>>

DAY == STEP * sim_ticks_per_day
survey_day(elapsed) == elapsed \div DAY

survey_state == [phase : {"hidden", "in_transit", "scanning", "surveyed"},
                 ticks_remaining : Nat, regions_done : Nat]
hidden == [phase |-> "hidden", ticks_remaining |-> 0, regions_done |-> 0]
no_save == << >>

TypeOK ==
    /\ m_speed \in 0 .. Len(Pace)
    /\ {m_accum, m_sim_tick, m_elapsed, m_last_survey_day} \subseteq Nat
    /\ survey \in [Body -> survey_state] /\ sent \in [Body -> Int]
    /\ m_accum <= STEP * max_catchup_steps
    /\ \A b \in Body : survey[b].regions_done <= regions_total[b]
                       /\ survey[b].phase = "scanning" => survey[b].regions_done < regions_total[b]

Init ==
    /\ m_speed = 1 /\ m_accum = 0 /\ m_sim_tick = 0 /\ m_elapsed = 0
    /\ m_last_survey_day = 0
    /\ survey = [b \in Body |-> hidden] /\ sent = [b \in Body |-> -1]
    /\ saved = no_save

-----------------------------------------------------------------------------
(* The schedule of a survey.                                               *)

(* The day of the scan on which region k is done: k / regions of the scan, *)
(* rounded half up.                                                        *)
region_complete_day(b, k) ==
    (2 * k * scan_ticks[b] + regions_total[b]) \div (2 * regions_total[b])

survey_eta_days(b) ==
    LET s == survey[b] IN
    CASE s.phase = "surveyed"   -> 0
      [] s.phase = "hidden"     -> transit_ticks[b] + scan_ticks[b]
      [] s.phase = "in_transit" -> s.ticks_remaining + scan_ticks[b]
      [] s.phase = "scanning"   -> s.ticks_remaining + scan_ticks[b]
                                     - region_complete_day(b, s.regions_done + 1)

to_next_region_anew(b, done) == region_complete_day(b, done + 1) \* mutant: from the first day
to_next_region(b, done) == region_complete_day(b, done + 1) - region_complete_day(b, done)

surveyed_one_early(b, done) == done + 1 >= regions_total[b] \* mutant: a region short
surveyed_one_late(b, done) == done > regions_total[b] \* mutant: a region too many
all_done(b, done) == done >= regions_total[b]

(* The boundary a survey has reached: arrived, or one more region scanned. *)
fire(b, s) ==
    LET done == IF s.phase = "in_transit" THEN 0 ELSE s.regions_done + 1 IN
    IF all_done(b, done)
    THEN [phase |-> "surveyed", ticks_remaining |-> 0, regions_done |-> regions_total[b]]
    ELSE [phase |-> "scanning", ticks_remaining |-> to_next_region(b, done),
          regions_done |-> done]

(* A turn of advance_surveys' loop: the days run out, or a boundary fires.  *)
turn(b, r) ==
    IF r.survey.phase \in {"hidden", "surveyed"} THEN r
    ELSE IF r.survey.ticks_remaining > r.budget
    THEN [survey |-> [r.survey EXCEPT !.ticks_remaining = @ - r.budget], budget |-> 0]
    ELSE [survey |-> fire(b, r.survey), budget |-> r.budget - r.survey.ticks_remaining]

(* There are no more boundaries than regions and the arrival, so no more    *)
(* turns that change anything.                                              *)
advance_survey(b, s, days) ==
    LET after[n \in Nat] == IF n = 0 THEN [survey |-> s, budget |-> days] ELSE turn(b, after[n - 1])
    IN  after[regions_total[b] + 1].survey

advance_surveys(days) == [b \in Body |-> advance_survey(b, survey[b], days)]

-----------------------------------------------------------------------------
set_speed ==
    /\ m_speed' \in 0 .. Len(Pace)
    /\ UNCHANGED <<m_accum, m_sim_tick, m_elapsed, m_last_survey_day, survey, sent, saved>>

(* sim_loop::tick: the steps are capped, the continuous clock is not.      *)
clamped(accum, step) ==
    IF accum > step * max_catchup_steps THEN step * max_catchup_steps ELSE accum

tick(delta) ==
    IF m_speed = 0 THEN m_accum' = 0 /\ UNCHANGED <<m_sim_tick, m_elapsed>>
    ELSE LET step == STEP \div Pace[m_speed]
             accum == clamped(m_accum + delta, step)
         IN  /\ m_elapsed' = m_elapsed + delta * Pace[m_speed]
             /\ m_accum' = accum % step
             /\ m_sim_tick' = m_sim_tick + accum \div step

(* An agent's TICK releases a quarter of a paused clock, both counters.    *)
advance_days(days) ==
    /\ m_speed = 0 /\ m_accum' = 0
    /\ m_sim_tick' = m_sim_tick + days * sim_ticks_per_day
    /\ m_elapsed' = m_elapsed + days * DAY

(* A frame: the clock, then the surveys by the whole days it has crossed.  *)
frame ==
    /\ (\E delta \in 0 .. MAX_DELTA : tick(delta)) \/ advance_days(econ_tick_days)
    /\ survey_day(m_elapsed') <= LAST_DAY
    /\ LET today == survey_day(m_elapsed') IN
       IF today > m_last_survey_day
       THEN /\ survey' = advance_surveys(today - m_last_survey_day)
            /\ m_last_survey_day' = today
       ELSE UNCHANGED <<survey, m_last_survey_day>>
    /\ UNCHANGED <<m_speed, sent, saved>>

(* Between frames.                                                         *)
dispatch_survey(b) ==
    /\ survey[b].phase = "hidden"
    /\ survey' = [survey EXCEPT ![b] = [phase |-> "in_transit",
                    ticks_remaining |-> transit_ticks[b], regions_done |-> 0]]
    /\ sent' = [sent EXCEPT ![b] = survey_day(m_elapsed)]
    /\ UNCHANGED <<clockVars, m_last_survey_day, saved>>

(* write_save_game: the world and, in the envelope, the clock.             *)
save_game_to ==
    /\ saved' = [sim_tick |-> m_sim_tick, elapsed |-> m_elapsed, speed |-> m_speed,
                 survey |-> survey, sent |-> sent]
    /\ UNCHANGED <<clockVars, m_last_survey_day, survey, sent>>

(* load_game_from, in this run of the game or in one just started: the     *)
(* clock and the world are the save's, the day surveys were last advanced  *)
(* to is the one the running game happened to be at.                       *)
load_game_from ==
    /\ saved # no_save
    /\ m_sim_tick' = saved.sim_tick /\ m_elapsed' = saved.elapsed
    /\ m_speed' = saved.speed /\ m_accum' = 0
    /\ survey' = saved.survey /\ sent' = saved.sent
    /\ m_last_survey_day' \in {m_last_survey_day, 0}
    /\ UNCHANGED saved

PlayNext == set_speed \/ frame \/ \E b \in Body : dispatch_survey(b)
Next == PlayNext \/ save_game_to \/ load_game_from

(* One campaign from its first frame, and one with saves and loads.        *)
PlaySpec == Init /\ [][PlayNext]_vars
Spec == Init /\ [][Next]_vars

-----------------------------------------------------------------------------
days_out(b) == survey_day(m_elapsed) - sent[b]
regions_by(b, days) ==
    {k \in 1 .. regions_total[b] : transit_ticks[b] + region_complete_day(b, k) <= days}

(* Regions are revealed on the days of the schedule whatever the frames:   *)
(* what a survey shows is a function of the days since it was dispatched.  *)
RevealFollowsSchedule == \A b \in Body : sent[b] >= 0 =>
    /\ survey[b].phase = "in_transit" <=> days_out(b) < transit_ticks[b]
    /\ survey[b].phase = "surveyed" <=> days_out(b) >= transit_ticks[b] + scan_ticks[b]
    /\ survey[b].phase = "scanning" =>
          regions_by(b, days_out(b)) = 1 .. survey[b].regions_done

(* The days left that the survey panel shows count down a day at a time    *)
(* to zero, between region boundaries too.                                 *)
EtaIsHonest == \A b \in Body : sent[b] >= 0 =>
    LET left == transit_ticks[b] + scan_ticks[b] - days_out(b) IN
    survey_eta_days(b) = IF left > 0 THEN left ELSE 0
=============================================================================
