------------------------------- MODULE Wizard -------------------------------
(***************************************************************************)
(* The New World wizard and Begin: the player walks the rounds, rerolls,   *)
(* leans, steps Back and Begins on the main thread, while the Life gate,   *)
(* the four pass rounds and the cold build run on workers that cannot be   *)
(* recalled.  Which result may be held, shown and taken into play is       *)
(* decided when it lands (src/ui/startup_screens.cpp, src/core/app.hpp,    *)
(* src/core/app.cpp).                                                      *)
(*                                                                         *)
(* A world is what went into it: for each stage run so far, the part of    *)
(* the parameters that stage read.  Two worlds are the same exactly when   *)
(* generation, which is deterministic, makes them the same.  The --verify  *)
(* paths, where every round adopts at once, are left out, and so are the   *)
(* drawing, the playback and the progress bars.  Operators marked mutant   *)
(* are slips this code could make, not part of the model.                  *)
(***************************************************************************)
EXTENDS Integers

CONSTANTS None,        \* no slot, no record, no future
          Grounds,     \* what the setup round and the planetology leans can ask for
          Leans,       \* settings of the turbulence lean
          MaxRoll,     \* bound on a span seed, the times a round is rerolled
          MaxPresses   \* bound on the presses that change what is built

ASSUME WizardAssumption ==
  /\ Grounds \subseteq Nat /\ 0 \in Grounds
  /\ Leans \subseteq Nat /\ 0 \in Leans
  /\ MaxRoll \in Nat /\ MaxPresses \in Nat

(* The pass rounds, wizard rounds 3 to 6: Culture, Empires, Exploration and
   Industrialisation.  Round Last builds the whole world. *)
Lapses == 0 .. 3
Last == 3
Empires == 1
FirstPass == 3
LifeRound == 2
LastRound == FirstPass + Last
round_of(i) == FirstPass + i

Params == [ground : Grounds, turbulence : Leans, span : [Lapses -> 0 .. MaxRoll]]

(* What a stage reads: the gate (stage 0) the planetology and the setup round's
   inputs, a span (stage i + 1) its own seed, and Empires the lean as well. *)
stage_input(p, k) ==
  IF k = 0 THEN <<p.ground>>
  ELSE IF k = Empires + 1 THEN <<p.span[Empires], p.turbulence>>
  ELSE <<p.span[k - 1]>>

(* The first stages of the world parameters p make, and the whole of it. *)
upto(p, reached) == [k \in 0 .. reached |-> stage_input(p, k)]
whole(p) == upto(p, Last + 1)

Inputs == {<<g>> : g \in Grounds} \cup {<<r>> : r \in 0 .. MaxRoll}
          \cup {<<r, l>> : r \in 0 .. MaxRoll, l \in Leans}
Worlds == UNION {[0 .. k -> Inputs] : k \in 0 .. Last + 1}
Slot == [params : Params, world : Worlds]
Phases == {"span", "tail", "roads", "finish", "landed"}
Run == [params : Params, start : Slot \cup {None}, cancel : BOOLEAN,
        phase : Phases, world : Worlds \cup {None}, roads : BOOLEAN]
Build == [params : Params, phase : {"span", "landed"}]

ASSUME NoneAssumption == None \notin Worlds \cup Slot \cup Run \cup Build

VARIABLES
  screen,         \* m_screen: menu, generating, building, or seat: the wizard is over
  round,          \* m_wiz_round
  quick,          \* m_wiz_quick_start
  dirty,          \* m_wiz_dirty: a planetology control moved this frame
  pending,        \* m_pending_world_params
  at,             \* where the main thread is in its frame
  presses,        \* presses spent of MaxPresses
  slot,           \* m_wiz_slot: the gate and each round's closing world
  record,         \* m_wiz_history of the rounds whose record landed
  wiz_world,      \* m_wiz_world: round 6's finished world, held for Begin
  world_pending,  \* m_wiz_world_pending: the main thread's claim on the running one
  run,            \* m_wiz_history_future, with what its worker holds
  stale,          \* m_wiz_history_stale
  gate,           \* m_wiz_surface_future
  gate_stale,     \* m_wiz_surface_stale
  begin_waits,    \* m_begin_waits_round6
  worldgen_slot,  \* m_worldgen_slot, while m_worldgen_adopted
  cold,           \* m_worldgen_future
  ground,         \* the wizard's ground pre-bake: the world it last took its source from
  world           \* m_world, once play has one

player == <<screen, round, quick, dirty, pending, presses>>
held   == <<slot, record, wiz_world>>
rounds == <<run, stale, world_pending>>
gates  == <<gate, gate_stale>>
begin  == <<begin_waits, worldgen_slot, cold, world>>
vars   == <<player, at, held, rounds, gates, begin, ground>>

Init ==
  /\ screen = "menu" /\ round = 0 /\ quick = FALSE /\ dirty = FALSE
  /\ pending = [ground |-> 0, turbulence |-> 0, span |-> [i \in Lapses |-> 0]]
  /\ presses = 0 /\ at = "top"
  /\ slot = [i \in Lapses |-> None] /\ record = [i \in Lapses |-> None]
  /\ wiz_world = None /\ world_pending = FALSE
  /\ run = [i \in Lapses |-> None] /\ stale = [i \in Lapses |-> FALSE]
  /\ gate = None /\ gate_stale = FALSE
  /\ begin_waits = FALSE /\ worldgen_slot = None /\ cold = None
  /\ ground = None /\ world = None

-----------------------------------------------------------------------------
(* Workers.  A future is what its worker was launched with and what it has
   made; it is ready once its phase is "landed". *)

(* Can a slot built from one set of parameters serve as the start of round i
   under another: all must agree but what no stage before the round reads. *)
wizard_slot_serves(built, p, i) ==
  /\ built.ground = p.ground
  /\ built.turbulence = p.turbulence \/ i <= Empires
  /\ \A k \in Lapses : k < i => built.span[k] = p.span[k]

(* Where round i starts: the round before's closing world, else the gate, else
   from the parameters. *)
start_of(slots, p, i) ==
  IF slots[i] # None /\ wizard_slot_serves(slots[i].params, p, i) THEN slots[i]
  ELSE IF slots[0] # None /\ wizard_slot_serves(slots[0].params, p, 0) THEN slots[0]
  ELSE None

fresh_run(slots, p, i) ==
  [params |-> p, start |-> start_of(slots, p, i), cancel |-> FALSE,
   phase |-> "span", world |-> None, roads |-> FALSE]

carried_as_built(r, i) == \* mutant: the copy runs on under the parameters it was built with
  [k \in 0 .. i + 1 |->
     IF r.start = None THEN stage_input(r.params, k)
     ELSE IF k \in DOMAIN r.start.world THEN r.start.world[k]
     ELSE stage_input(r.start.params, k)]

(* The start carried to the end of round i, under the run's own parameters. *)
carried(r, i) ==
  [k \in 0 .. i + 1 |->
     IF r.start # None /\ k \in DOMAIN r.start.world THEN r.start.world[k]
     ELSE stage_input(r.params, k)]

landing_of(i) == [params |-> run[i].params, world |-> run[i].world]
ready_or_not(f) == f # None \* mutant: a future is taken before it is ready
ready(f) == f # None /\ f.phase = "landed"
any_running_live(runs) == \* mutant: a run that went stale no longer counts
  \E i \in Lapses : runs[i] # None /\ ~runs[i].cancel
any_running(runs) == \E i \in Lapses : runs[i] # None

(* A worker reads its stop flag before it starts and, in round 6, before and
   after the tail; a stopped run lands with nothing. *)
Stops(i) ==
  /\ run[i] # None /\ run[i].cancel
  /\ run[i].phase \in {"span", "tail", "roads"}
  /\ run' = [run EXCEPT ![i].phase = "landed", ![i].world = None]

(* The round's own stage.  Round 6 answers its record at the span's close. *)
RunsSpan(i) ==
  /\ run[i] # None /\ run[i].phase = "span" /\ ~run[i].cancel
  /\ run' = [run EXCEPT ![i].world = carried(run[i], i),
                        ![i].phase = IF i = Last THEN "tail" ELSE "landed"]

(* The tail lays the roads, and the ground's snapshot is handed over; then the
   search and the settle, with no more looks at the flag. *)
LaysTail ==
  /\ run[Last] # None /\ ~run[Last].cancel
  /\ \/ /\ run[Last].phase = "tail"
        /\ run' = [run EXCEPT ![Last].phase = "roads"]
     \/ /\ run[Last].phase = "roads"
        /\ run' = [run EXCEPT ![Last].phase = "finish", ![Last].roads = TRUE]
Finishes ==
  /\ run[Last] # None /\ run[Last].phase = "finish"
  /\ run' = [run EXCEPT ![Last].phase = "landed"]

RoundWorker(i) ==
  /\ Stops(i) \/ RunsSpan(i) \/ (i = Last /\ (LaysTail \/ Finishes))
  /\ UNCHANGED <<player, at, held, stale, world_pending, gates, begin, ground>>

BuildsGate ==
  /\ gate # None /\ gate.phase = "span"
  /\ gate' = [gate EXCEPT !.phase = "landed"]
  /\ UNCHANGED <<player, at, held, rounds, gate_stale, begin, ground>>

BuildsCold ==
  /\ cold # None /\ cold.phase = "span"
  /\ cold' = [cold EXCEPT !.phase = "landed"]
  /\ UNCHANGED <<player, at, held, rounds, gates, begin_waits, worldgen_slot, world, ground>>

build_of(p) == [params |-> p, phase |-> "span"]

-----------------------------------------------------------------------------
(* What the main thread drops: everything from pass round i on, its own
   record and closing world among it. *)

kept_records(i) == [k \in Lapses |-> IF k >= i THEN None ELSE record[k]]
kept_slots(i) == [k \in Lapses |-> IF k > i THEN None ELSE slot[k]]
superseded(i) ==
  [k \in Lapses |-> IF k >= i /\ run[k] # None
                    THEN [run[k] EXCEPT !.cancel = TRUE] ELSE run[k]]
marked_below(i) == \* mutant: only the rounds below the one that runs again are marked
  [k \in Lapses |-> stale[k] \/ (k > i /\ run[k] # None)]
marked_stale(i) == [k \in Lapses |-> stale[k] \/ (k >= i /\ run[k] # None)]

(* A round is launched unless another, stale ones included, is in flight; it
   starts from the slots and the parameters as this step leaves them.  Round
   6 supersedes the world held for Begin. *)
LaunchRound(i, runs, records, finished, claim) ==
  LET starts == ~any_running(runs) IN
  /\ run' = IF starts THEN [runs EXCEPT ![i] = fresh_run(slot', pending', i)] ELSE runs
  /\ record' = IF starts THEN [records EXCEPT ![i] = None] ELSE records
  /\ wiz_world' = IF starts /\ i = Last THEN None ELSE finished
  /\ world_pending' = IF starts /\ i = Last THEN TRUE ELSE claim

-----------------------------------------------------------------------------
(* The frame of the wizard's screen: refresh, take what has landed, start the
   round on screen, then the press. *)

(* draw_generation_screen: a moved control builds the gate anew and drops
   every pass round. *)
Refresh ==
  /\ at = "top" /\ screen = "generating"
  /\ at' = "surface"
  /\ IF dirty
     THEN /\ dirty' = FALSE
          /\ slot' = [kept_slots(0) EXCEPT ![0] = None]
          /\ record' = kept_records(0)
          /\ run' = superseded(0) /\ stale' = marked_stale(0)
          /\ wiz_world' = None /\ world_pending' = FALSE
          /\ ground' = None
          /\ IF gate = None THEN gate' = build_of(pending) /\ UNCHANGED gate_stale
                            ELSE gate_stale' = TRUE /\ UNCHANGED gate
     ELSE UNCHANGED <<dirty, held, rounds, gates, ground>>
  /\ UNCHANGED <<screen, round, quick, pending, presses, begin>>

(* poll_wizard_surface: the gate is held, or built again where the controls
   moved while it ran. *)
PollSurface ==
  /\ at = "surface"
  /\ at' = "rounds"
  /\ IF ~ready(gate) THEN UNCHANGED <<gates, slot, ground>>
     ELSE IF gate_stale
     THEN gate' = build_of(pending) /\ gate_stale' = FALSE /\ UNCHANGED <<slot, ground>>
     ELSE /\ gate' = None /\ UNCHANGED gate_stale
          /\ slot' = [slot EXCEPT ![0] = [params |-> gate.params, world |-> upto(gate.params, 0)]]
          /\ ground' = upto(gate.params, 0)
  /\ UNCHANGED <<player, record, wiz_world, rounds, begin>>

(* poll_wizard_history, rounds 3 to 5: a run that went stale is dropped with
   its world, another closes its round. *)
PollRounds ==
  /\ at = "rounds"
  /\ at' = "record"
  /\ LET landed == {i \in Lapses : i # Last /\ ready(run[i])}
         good   == {i \in landed : ~stale[i]}
     IN /\ run' = [i \in Lapses |-> IF i \in landed THEN None ELSE run[i]]
        /\ stale' = [i \in Lapses |-> stale[i] /\ i \notin landed]
        /\ record' = [i \in Lapses |-> IF i \in good THEN run[i].world
                                       ELSE IF i \in landed THEN None ELSE record[i]]
        /\ slot' = [k \in Lapses |-> IF k - 1 \in good THEN landing_of(k - 1) ELSE slot[k]]
        /\ ground' = IF good = {} THEN ground
                     ELSE run[CHOOSE i \in good : \A j \in good : j <= i].world
  /\ UNCHANGED <<player, wiz_world, world_pending, gates, begin>>

(* Round 6's record, ahead of its world, and the snapshot its tail hands over:
   never a superseded run's. *)
record_ready == run[Last] # None /\ run[Last].world # None /\ ~stale[Last]
PollRecord ==
  /\ at = "record"
  /\ at' = "world"
  /\ record' = IF record_ready THEN [record EXCEPT ![Last] = run[Last].world] ELSE record
  /\ IF record_ready /\ world_pending /\ run[Last].roads /\ ground # None
     THEN ground' = run[Last].world /\ run' = [run EXCEPT ![Last].roads = FALSE]
     ELSE UNCHANGED <<ground, run>>
  /\ UNCHANGED <<player, slot, wiz_world, stale, world_pending, gates, begin>>

(* Round 6's landing swaps only the world in. *)
PollWorld ==
  /\ at = "world"
  /\ at' = IF screen = "building" THEN "begin" ELSE "start"
  /\ IF ~ready(run[Last]) THEN UNCHANGED <<run, stale, record, wiz_world, world_pending, ground>>
     ELSE /\ run' = [run EXCEPT ![Last] = None]
          /\ stale' = [stale EXCEPT ![Last] = FALSE]
          /\ world_pending' = FALSE
          /\ IF stale[Last]
             THEN record' = [record EXCEPT ![Last] = None] /\ UNCHANGED <<wiz_world, ground>>
             ELSE /\ record' = [record EXCEPT ![Last] = run[Last].world]
                  /\ IF world_pending
                     THEN wiz_world' = landing_of(Last) /\ ground' = run[Last].world
                     ELSE UNCHANGED <<wiz_world, ground>>
  /\ UNCHANGED <<player, slot, gates, begin>>

StartRound_never == \* mutant: a start that was held back is not made good
  at = "start" /\ at' = "press" /\ UNCHANGED <<player, held, rounds, gates, begin, ground>>

(* Arriving on a round is the instruction to run it, once nothing runs. *)
StartRound ==
  LET cur == round - FirstPass IN
  /\ at = "start"
  /\ at' = "press"
  /\ UNCHANGED <<player, slot, stale, gates, begin, ground>>
  /\ IF cur \in Lapses /\ record[cur] = None /\ gate = None
     THEN LaunchRound(cur, run, record, wiz_world, world_pending)
     ELSE UNCHANGED <<record, run, wiz_world, world_pending>>
-----------------------------------------------------------------------------
(* The presses.  One or none ends a frame. *)

pressing == at = "press" /\ at' = "top"
spends == presses < MaxPresses /\ presses' = presses + 1

NoPress ==
  /\ pressing
  /\ UNCHANGED <<player, held, rounds, gates, begin, ground>>

(* A setup control, a planetology lean, or a planetology round's Reroll. *)
MoveGround ==
  /\ pressing /\ spends
  /\ round <= LifeRound
  /\ \E g \in Grounds \ {pending.ground} : pending' = [pending EXCEPT !.ground = g]
  /\ dirty' = TRUE
  /\ UNCHANGED <<screen, round, quick, held, rounds, gates, begin, ground>>

(* reroll_wizard_pass_round and the lean's own path: the round and those below
   are dropped, runs in flight superseded, and the round runs again. *)
RunAgain(i, p) ==
  /\ pressing /\ spends
  /\ round = round_of(i)
  /\ pending' = p
  /\ slot' = kept_slots(i)
  /\ stale' = marked_stale(i)
  /\ LaunchRound(i, superseded(i), kept_records(i), None, FALSE)
  /\ UNCHANGED <<screen, round, quick, dirty, gates, begin, ground>>

Reroll ==
  \E i \in Lapses \ {0} :
    /\ pending.span[i] < MaxRoll
    /\ RunAgain(i, [pending EXCEPT !.span[i] = @ + 1])
Lean ==
  \E l \in Leans \ {pending.turbulence} :
    RunAgain(Empires, [pending EXCEPT !.turbulence = l])

(* Back steps out one round; out of the first, to the menu, letting go of every
   held world, though not of the runs in flight. *)
Back ==
  /\ pressing /\ ~quick /\ round > 0
  /\ round' = round - 1
  /\ UNCHANGED <<screen, quick, dirty, pending, presses, held, rounds, gates, begin, ground>>
LeaveForMenu ==
  /\ pressing /\ spends /\ round = 0
  /\ screen' = "menu" /\ quick' = FALSE
  /\ slot' = [i \in Lapses |-> None] /\ wiz_world' = None /\ world_pending' = FALSE
  /\ ground' = None
  /\ UNCHANGED <<round, dirty, pending, record, run, stale, gates, begin>>

next_waits_running == \* mutant: a round whose start was held back does not hold Next
  \/ round = LifeRound /\ (gate # None \/ slot[0] = None)
  \/ \E i \in Lapses : round = round_of(i) /\ run[i] # None

(* Next waits for the round on screen, and starts the round it arrives on. *)
next_waits ==
  \/ round = LifeRound /\ (gate # None \/ slot[0] = None)
  \/ \E i \in Lapses : round = round_of(i) /\ (record[i] = None \/ run[i] # None)
PressNext ==
  LET arrived == round' - FirstPass IN
  /\ pressing /\ ~quick /\ round < LastRound /\ ~next_waits
  /\ round' = round + 1
  /\ UNCHANGED <<screen, quick, dirty, pending, presses, slot, stale, gates, begin, ground>>
  /\ IF arrived \in Lapses /\ record[arrived] = None /\ run[arrived] = None
     THEN LaunchRound(arrived, run, record, wiz_world, world_pending)
     ELSE UNCHANGED <<record, run, wiz_world, world_pending>>

-----------------------------------------------------------------------------
(* Begin. *)

adoptable == wiz_world # None /\ wiz_world.params = pending

(* begin_new_game commits: the rounds' held worlds go.  It waits on a running
   round 6, else adopts what it landed, else builds cold. *)
Begin ==
  /\ pressing
  /\ quick \/ round = LastRound
  /\ screen' = "building" /\ quick' = FALSE
  /\ slot' = [i \in Lapses |-> None]
  /\ begin_waits' = (run[Last] # None)
  /\ IF run[Last] # None THEN UNCHANGED <<wiz_world, world_pending, worldgen_slot, cold>>
     ELSE /\ wiz_world' = None
          /\ UNCHANGED world_pending
          /\ IF adoptable THEN worldgen_slot' = wiz_world /\ UNCHANGED cold
                          ELSE cold' = build_of(pending) /\ UNCHANGED worldgen_slot
  /\ UNCHANGED <<round, dirty, pending, presses, record, run, stale, gates, world, ground>>

(* poll_worldgen, behind the loading screen: while Begin waits it takes in the
   wizard's runs, and when round 6 has landed adopts its world or, the landing
   having been stale, builds cold. *)
WaitPolls ==
  /\ at = "top" /\ screen = "building" /\ begin_waits
  /\ at' = "rounds"
  /\ UNCHANGED <<player, held, rounds, gates, begin, ground>>

taken_into_play(w) ==
  /\ world' = w /\ screen' = "seat" /\ ground' = w
WaitOver ==
  /\ at = "begin"
  /\ at' = "top"
  /\ IF run[Last] # None THEN UNCHANGED <<begin, screen, wiz_world, ground>>
     ELSE /\ begin_waits' = FALSE /\ wiz_world' = None
          /\ IF adoptable THEN taken_into_play(wiz_world.world) /\ UNCHANGED <<worldgen_slot, cold>>
             ELSE /\ cold' = build_of(pending)
                  /\ UNCHANGED <<screen, worldgen_slot, world, ground>>
  /\ UNCHANGED <<round, quick, dirty, pending, presses, slot, record, rounds, gates>>

TakeWorld ==
  /\ at = "top" /\ screen = "building" /\ ~begin_waits
  /\ \/ /\ worldgen_slot # None
        /\ taken_into_play(worldgen_slot.world)
        /\ worldgen_slot' = None /\ UNCHANGED cold
     \/ /\ worldgen_slot = None /\ ready(cold)
        /\ taken_into_play(whole(cold.params))
        /\ cold' = None /\ UNCHANGED worldgen_slot
  /\ UNCHANGED <<at, round, quick, dirty, pending, presses, held, rounds, gates, begin_waits>>

(* The menu's two ways in.  The first frame rebuilds everything. *)
Open ==
  /\ screen = "menu"
  /\ screen' = "generating" /\ round' = 0 /\ dirty' = TRUE
  /\ quick' \in BOOLEAN
  /\ UNCHANGED <<pending, presses, at, held, rounds, gates, begin, ground>>
-----------------------------------------------------------------------------
Press ==
  \/ NoPress \/ MoveGround \/ Reroll \/ Lean
  \/ Back \/ LeaveForMenu \/ PressNext \/ Begin

Frame ==
  \/ /\ screen = "generating" /\ at \in {"top", "surface", "rounds", "record", "world", "start", "press"}
     /\ Refresh \/ PollSurface \/ PollRounds \/ PollRecord \/ PollWorld \/ StartRound \/ Press
  \/ /\ screen = "building"
     /\ WaitPolls \/ PollRounds \/ PollRecord \/ PollWorld \/ WaitOver \/ TakeWorld

Next ==
  \/ Frame \/ Open
  \/ \E i \in Lapses : RoundWorker(i)
  \/ BuildsGate \/ BuildsCold

(* A frame follows a frame whatever is or is not pressed, and workers run. *)
Fairness ==
  /\ WF_vars(Frame) /\ WF_vars(BuildsGate) /\ WF_vars(BuildsCold)
  /\ \A i \in Lapses : WF_vars(RoundWorker(i))

Spec == Init /\ [][Next]_vars /\ Fairness
-----------------------------------------------------------------------------
TypeOK ==
  /\ screen \in {"menu", "generating", "building", "seat"}
  /\ round \in 0 .. LastRound /\ quick \in BOOLEAN /\ dirty \in BOOLEAN
  /\ pending \in Params /\ presses \in 0 .. MaxPresses
  /\ at \in {"top", "surface", "rounds", "record", "world", "start", "press", "begin"}
  /\ slot \in [Lapses -> Slot \cup {None}] /\ record \in [Lapses -> Worlds \cup {None}]
  /\ wiz_world \in Slot \cup {None} /\ world_pending \in BOOLEAN
  /\ run \in [Lapses -> Run \cup {None}] /\ stale \in [Lapses -> BOOLEAN]
  /\ gate \in Build \cup {None} /\ gate_stale \in BOOLEAN
  /\ begin_waits \in BOOLEAN /\ worldgen_slot \in Slot \cup {None}
  /\ cold \in Build \cup {None}
  /\ ground \in Worlds \cup {None} /\ world \in Worlds \cup {None}

(* The world taken into play is the one the parameters on screen at Begin   *)
(* make, whatever was rerolled, leant, stepped back from or abandoned while *)
(* it was built, round by round from worlds held for it (STARTUP.md,        *)
(* Handoff: "an adopted world and a cold build open on one state hash").    *)
PlaysWhatWasAsked == world # None => world = whole(pending)

(* Nothing the wizard holds or shows is of parameters the player has moved  *)
(* away from: not a round's record, not the closing world the next round    *)
(* starts from, not the world held for Begin, nor the ground baked under    *)
(* them - though a result may land long after the press that outdated it    *)
(* ("a true history of a world the player has already rerolled away from.   *)
(* Dropped rather than drawn", startup_screens.cpp:1364).                   *)
HeldIsCurrent ==
  screen = "generating" /\ ~dirty =>
    /\ \A i \in Lapses :
         /\ record[i] # None => record[i] = upto(pending, i + 1)
         /\ slot[i] # None => slot[i].world = upto(pending, i)
    /\ wiz_world # None => wiz_world.world = whole(pending)
    /\ ground # None => ground[0] = stage_input(pending, 0)

(* Two pass rounds never build at once, superseded runs among them, a cold  *)
(* build never runs beside round 6, and Begin waits only for a run it will  *)
(* adopt, or that went stale before (STARTUP.md, The wait: "No two pass     *)
(* rounds ever build at once"; Handoff: "it never starts a second build").  *)
OneBuild ==
  /\ \A i, j \in Lapses : run[i] # None /\ run[j] # None => i = j
  /\ cold # None => run[Last] = None
  /\ begin_waits /\ run[Last] # None /\ ~stale[Last] =>
       world_pending /\ run[Last].params = pending

(* A round starts from the closing world of the round before it, never from *)
(* an earlier one and never from nothing: going forward recomputes no round *)
(* (STARTUP.md, The world cache).                                           *)
CarriesOn ==
  [][\A i \in Lapses : run[i] = None /\ run'[i] # None =>
       slot'[i] # None /\ run'[i].start = slot'[i]]_vars

(* A Begin that was pressed opens the seat, whatever it had to wait for.    *)
BeginOpensPlay == screen = "building" ~> screen = "seat"

(* A round the player stays on lands, whatever was running when it was      *)
(* asked for: "a round whose start was held back ... starts here the moment *)
(* nothing runs" (startup_screens.cpp:1427).                                *)
RoundOnScreenLands ==
  \A i \in Lapses :
    (screen = "generating" /\ round = round_of(i) /\ record[i] = None) ~>
      (record[i] # None \/ round # round_of(i) \/ screen # "generating")

(* No wait of the wizard lasts for ever.                                    *)
WaitsEnd == BeginOpensPlay /\ RoundOnScreenLands
=============================================================================
