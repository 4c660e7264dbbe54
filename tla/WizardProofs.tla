---------------------------- MODULE WizardProofs ----------------------------
(***************************************************************************)
(* Proofs about Wizard for every set of grounds and leans, and any number  *)
(* of rerolls and presses.                                                 *)
(***************************************************************************)
EXTENDS Wizard, TLAPS

(* A slot that holds for round i under p, and a run that does.             *)
SlotGood(s, i, p) == s.world = upto(p, i) /\ wizard_slot_serves(s.params, p, i)
RunGood(r, i, p) ==
  /\ r.params = p /\ ~r.cancel
  /\ r.start # None /\ r.start.world = upto(p, i)
  /\ r.world # None => r.world = upto(p, i + 1)
  /\ r.phase # "span" => r.world # None

(* Where the player and the main thread can be.                            *)
Places ==
  /\ dirty => screen = "generating" /\ at = "top" /\ round <= LifeRound
  /\ at # "top" => screen \in {"generating", "building"}
  /\ at \in {"surface", "start", "press"} => screen = "generating"
  /\ begin_waits => screen = "building"
  /\ screen = "building" /\ at # "top" => begin_waits
  /\ cold # None \/ worldgen_slot # None => screen = "building" /\ ~begin_waits
  /\ cold # None => run[Last] = None /\ worldgen_slot = None
  /\ world # None => screen = "seat"

(* One pass round runs at most, and the player is at it or above it.       *)
OneRun ==
  /\ \A i, j \in Lapses : run[i] # None /\ run[j] # None => i = j
  /\ \A i \in Lapses : run[i] # None => round <= round_of(i)

(* Unless a control has moved since the last frame, whatever is held or    *)
(* under way, and not marked stale, is of the pending parameters.          *)
Current == ~dirty =>
  /\ \A i \in Lapses : record[i] # None => record[i] = upto(pending, i + 1)
  /\ \A i \in Lapses : slot[i] # None => SlotGood(slot[i], i, pending)
  /\ \A i \in Lapses : run[i] # None /\ ~stale[i] => RunGood(run[i], i, pending)
  /\ run[Last] # None /\ ~stale[Last] /\ screen # "menu" => world_pending
  /\ gate # None /\ ~gate_stale => gate.params.ground = pending.ground
  /\ wiz_world # None => wiz_world.params = pending /\ wiz_world.world = whole(pending)
  /\ ground # None => ground[0] = stage_input(pending, 0)
  /\ worldgen_slot # None => worldgen_slot.world = whole(pending)
  /\ cold # None => cold.params = pending
  /\ world # None => world = whole(pending)

(* On a pass round every round's start is held.                            *)
Starts == screen = "generating" /\ ~dirty =>
  /\ round >= FirstPass => gate = None
  /\ \A i \in Lapses : round >= round_of(i) => slot[i] # None
  /\ \A i \in Lapses : i # Last /\ record[i] # None => slot[i + 1] # None

WizardInv == TypeOK /\ Places /\ OneRun /\ Current /\ Starts

-----------------------------------------------------------------------------
(* Worlds and what goes into them.                                         *)

(* The rounds' numbers. *)
LEMMA Rounds == /\ Lapses = {0, 1, 2, 3} /\ Last = 3 /\ Empires = 1 /\ FirstPass = 3
                /\ LifeRound = 2 /\ LastRound = 6 /\ 0 .. Last + 1 = {0, 1, 2, 3, 4}
BY DEF Lapses, Last, Empires, FirstPass, LifeRound, LastRound

(* What goes into a stage, and what comes of some of them, has its type.   *)
LEMMA InputType == ASSUME NEW p \in Params, NEW k \in 0 .. Last + 1
                   PROVE  stage_input(p, k) \in Inputs
<1>1. /\ p.ground \in Grounds /\ p.turbulence \in Leans /\ p.span \in [Lapses -> 0 .. MaxRoll]
      BY DEF Params
<1>2. CASE k = 0 BY <1>1, <1>2 DEF stage_input, Inputs
<1>3. CASE k = Empires + 1
  <2>1. p.span[Empires] \in 0 .. MaxRoll BY <1>1, Rounds
  <2>2. k # 0 BY <1>3, Rounds
  <2> QED BY <1>1, <1>3, <2>1, <2>2 DEF stage_input, Inputs
<1>4. CASE k # 0 /\ k # Empires + 1
  <2>1. k - 1 \in Lapses BY <1>4, Rounds
  <2>2. p.span[k - 1] \in 0 .. MaxRoll BY <1>1, <2>1
  <2>3. stage_input(p, k) = <<p.span[k - 1]>> BY <1>4 DEF stage_input
  <2> QED BY <2>2, <2>3 DEF Inputs
<1> QED BY <1>2, <1>3, <1>4

LEMMA UptoType == ASSUME NEW p \in Params, NEW k \in 0 .. Last + 1
                  PROVE  upto(p, k) \in Worlds
<1>1. \A j \in 0 .. k : j \in 0 .. Last + 1 BY Rounds
<1>2. \A j \in 0 .. k : stage_input(p, j) \in Inputs BY <1>1, InputType
<1>3. upto(p, k) \in [0 .. k -> Inputs] BY <1>2 DEF upto
<1> QED BY <1>3 DEF Worlds

LEMMA UptoAt == ASSUME NEW p \in Params, NEW k \in 0 .. Last + 1
                PROVE  upto(p, k)[0] = stage_input(p, 0)
<1>1. 0 \in 0 .. k BY Rounds
<1> QED BY <1>1 DEF upto

(* A slot serves a round only if the same world would be built for it.     *)
LEMMA ServesUpto ==
    ASSUME NEW p \in Params, NEW q \in Params, NEW i \in Lapses, wizard_slot_serves(q, p, i)
    PROVE  upto(q, i) = upto(p, i)
<1> SUFFICES ASSUME NEW k \in 0 .. i PROVE stage_input(q, k) = stage_input(p, k)
    BY DEF upto
<1>1. CASE k = 0 BY <1>1 DEF stage_input, wizard_slot_serves
<1>2. CASE k = Empires + 1
  <2>1. Empires < i /\ Empires \in Lapses /\ ~(i <= Empires) /\ k # 0 BY <1>2, Rounds
  <2>2. q.span[Empires] = p.span[Empires] /\ q.turbulence = p.turbulence
        BY <2>1 DEF wizard_slot_serves
  <2> QED BY <1>2, <2>1, <2>2 DEF stage_input
<1>3. CASE k # 0 /\ k # Empires + 1
  <2>1. k - 1 \in Lapses /\ k - 1 < i BY <1>3, Rounds
  <2>2. q.span[k - 1] = p.span[k - 1] BY <2>1 DEF wizard_slot_serves
  <2> QED BY <1>3, <2>2 DEF stage_input
<1> QED BY <1>1, <1>2, <1>3

(* Every set of parameters serves itself. *)
LEMMA ServesItself == ASSUME NEW p, NEW i PROVE wizard_slot_serves(p, p, i)
BY DEF wizard_slot_serves

(* A current run's world is the round's.                                   *)
LEMMA CarriedGood ==
    ASSUME NEW p \in Params, NEW i \in Lapses, NEW r, r.params = p, r.start # None,
           r.start.world = upto(p, i)
    PROVE  carried(r, i) = upto(p, i + 1)
<1>1. DOMAIN upto(p, i) = 0 .. i BY DEF upto
<1>2. \A k \in 0 .. i : upto(p, i)[k] = stage_input(p, k) BY DEF upto
<1>3. \A k \in 0 .. i + 1 :
         (IF r.start # None /\ k \in DOMAIN r.start.world THEN r.start.world[k]
          ELSE stage_input(r.params, k)) = stage_input(p, k)
      BY <1>1, <1>2
<1> QED BY <1>3 DEF carried, upto

(* Whatever a worker runs on from, it makes a world. *)
LEMMA CarriedType == ASSUME NEW i \in Lapses, NEW r \in Run PROVE carried(r, i) \in Worlds
<1>1. r.params \in Params /\ r.start \in Slot \cup {None} BY DEF Run
<1>2. i + 1 \in 0 .. Last + 1 BY Rounds
<1>3. ASSUME NEW k \in 0 .. i + 1
      PROVE  (IF r.start # None /\ k \in DOMAIN r.start.world THEN r.start.world[k]
              ELSE stage_input(r.params, k)) \in Inputs
  <2>1. k \in 0 .. Last + 1 BY Rounds
  <2>2. stage_input(r.params, k) \in Inputs BY <1>1, <2>1, InputType
  <2>3. CASE r.start # None /\ k \in DOMAIN r.start.world
    <3>1. r.start.world \in Worlds BY <1>1, <2>3 DEF Slot
    <3>2. PICK n \in 0 .. Last + 1 : r.start.world \in [0 .. n -> Inputs] BY <3>1 DEF Worlds
    <3> QED BY <2>3, <3>2
  <2> QED BY <2>2, <2>3
<1>4. carried(r, i) \in [0 .. i + 1 -> Inputs] BY <1>3 DEF carried
<1> QED BY <1>2, <1>4 DEF Worlds

(* Nothing that is made is None.                                           *)
LEMMA Somes == /\ \A w \in Worlds : w # None
               /\ \A s \in Slot : s # None
               /\ \A r \in Run : r # None
               /\ \A b \in Build : b # None
BY NoneAssumption

-----------------------------------------------------------------------------
(* Launching a round.                                                      *)

(* A run launched on a good slot is good, and starts from that slot. *)
LEMMA FreshGood ==
    ASSUME NEW slots \in [Lapses -> Slot \cup {None}], NEW p \in Params, NEW i \in Lapses
    PROVE  /\ fresh_run(slots, p, i) \in Run
           /\ slots[i] # None /\ SlotGood(slots[i], i, p) =>
                /\ RunGood(fresh_run(slots, p, i), i, p)
                /\ fresh_run(slots, p, i).start = slots[i]
<1>1. 0 \in Lapses BY Rounds
<1>2. start_of(slots, p, i) \in Slot \cup {None} BY <1>1 DEF start_of
<1>3. fresh_run(slots, p, i) \in Run BY <1>2 DEF fresh_run, Run, Phases
<1>4. ASSUME slots[i] # None, SlotGood(slots[i], i, p)
      PROVE  /\ RunGood(fresh_run(slots, p, i), i, p)
             /\ fresh_run(slots, p, i).start = slots[i]
  <2>1. start_of(slots, p, i) = slots[i] BY <1>4 DEF start_of, SlotGood
  <2> QED BY <1>4, <2>1 DEF fresh_run, RunGood, SlotGood
<1> QED BY <1>3, <1>4

(* A launch changes one round's run at most, and only when none runs.      *)
LEMMA Launched ==
    ASSUME NEW i \in Lapses, NEW runs \in [Lapses -> Run \cup {None}],
           NEW records \in [Lapses -> Worlds \cup {None}],
           NEW finished \in Slot \cup {None}, NEW claim \in BOOLEAN,
           slot' \in [Lapses -> Slot \cup {None}], pending' \in Params,
           LaunchRound(i, runs, records, finished, claim),
           \A j, k \in Lapses : runs[j] # None /\ runs[k] # None => j = k
    PROVE  /\ run' \in [Lapses -> Run \cup {None}]
           /\ record' \in [Lapses -> Worlds \cup {None}]
           /\ wiz_world' \in {finished, None} /\ world_pending' \in BOOLEAN
           /\ \A j, k \in Lapses : run'[j] # None /\ run'[k] # None => j = k
           /\ \A k \in Lapses : record'[k] \in {records[k], None}
           /\ \A k \in Lapses : \/ run'[k] = runs[k]
                                \/ k = i /\ runs[k] = None /\ run'[k] = fresh_run(slot', pending', i)
           /\ world_pending' = claim \/ (world_pending' /\ i = Last)
           /\ i = Last /\ run'[Last] # runs[Last] => world_pending'
<1> DEFINE starts == ~any_running(runs)
<1>1. CASE ~starts
  <2>1. run' = runs /\ record' = records /\ wiz_world' = finished /\ world_pending' = claim
        BY <1>1 DEF LaunchRound
  <2> QED BY <2>1
<1>2. CASE starts
  <2>1. \A k \in Lapses : runs[k] = None BY <1>2 DEF any_running
  <2>2. /\ run' = [runs EXCEPT ![i] = fresh_run(slot', pending', i)]
        /\ record' = [records EXCEPT ![i] = None]
        /\ wiz_world' = IF i = Last THEN None ELSE finished
        /\ world_pending' = IF i = Last THEN TRUE ELSE claim
        BY <1>2 DEF LaunchRound
  <2>3. fresh_run(slot', pending', i) \in Run BY FreshGood
  <2>4. \A k \in Lapses : k # i => run'[k] = None BY <2>1, <2>2
  <2>5. run'[i] = fresh_run(slot', pending', i) BY <2>2
  <2>6. run' \in [Lapses -> Run \cup {None}] BY <2>2, <2>3
  <2>7. record' \in [Lapses -> Worlds \cup {None}] BY <2>2
  <2>8. \A j, k \in Lapses : run'[j] # None /\ run'[k] # None => j = k BY <2>4
  <2>9. \A k \in Lapses : record'[k] \in {records[k], None} BY <2>2
  <2>10. wiz_world' \in {finished, None} BY <2>2
  <2>11. world_pending' \in BOOLEAN /\ (world_pending' = claim \/ (world_pending' /\ i = Last))
         BY <2>2
  <2>12. i = Last => world_pending' BY <2>2
  <2> QED BY <2>1, <2>4, <2>5, <2>6, <2>7, <2>8, <2>9, <2>10, <2>11, <2>12
<1> QED BY <1>1, <1>2

-----------------------------------------------------------------------------
(* The invariant is one of Init and of every step.                         *)

(* The program starts in the menu with nothing held. *)
LEMMA InitInv == Init => WizardInv
<1> SUFFICES ASSUME Init PROVE WizardInv OBVIOUS
<1>1. pending \in Params
  <2>1. 0 \in 0 .. MaxRoll /\ 0 \in Grounds /\ 0 \in Leans BY WizardAssumption
  <2> QED BY <2>1 DEF Init, Params
<1>2. TypeOK
  <2>1. 0 \in 0 .. LastRound /\ 0 \in 0 .. MaxPresses BY WizardAssumption, Rounds
  <2>2. /\ slot \in [Lapses -> Slot \cup {None}] /\ record \in [Lapses -> Worlds \cup {None}]
        /\ run \in [Lapses -> Run \cup {None}] /\ stale \in [Lapses -> BOOLEAN]
        BY DEF Init
  <2> QED BY <1>1, <2>1, <2>2 DEF Init, TypeOK
<1>3. Places BY Rounds DEF Init, Places
<1>4. OneRun BY DEF Init, OneRun
<1>5. Current BY Rounds DEF Init, Current
<1>6. Starts BY DEF Init, Starts
<1> QED BY <1>2, <1>3, <1>4, <1>5, <1>6 DEF WizardInv

(* A worker's step moves one run on, and a good run stays good.            *)
MovesOn(i, r) ==
  /\ run[i] # None /\ r \in Run /\ run' = [run EXCEPT ![i] = r]
  /\ \A p \in Params : RunGood(run[i], i, p) => RunGood(r, i, p)

LEMMA WorkerMoves ==
    ASSUME WizardInv, NEW i \in Lapses, RoundWorker(i)
    PROVE  \E r : MovesOn(i, r)
<1>1. run \in [Lapses -> Run \cup {None}] BY DEF WizardInv, TypeOK
<1>2. run[i] # None => run[i] \in Run BY <1>1
<1>3. CASE Stops(i)
  <2> DEFINE r == [run[i] EXCEPT !.phase = "landed", !.world = None]
  <2>1. run[i] # None /\ run[i].cancel BY <1>3 DEF Stops
  <2>2. run' = [run EXCEPT ![i] = r] BY <1>1, <1>3 DEF Stops
  <2>3. r \in Run BY <1>2, <2>1 DEF Run, Phases
  <2>4. \A p \in Params : ~RunGood(run[i], i, p) BY <2>1 DEF RunGood
  <2> QED BY <2>1, <2>2, <2>3, <2>4 DEF MovesOn
<1>4. CASE RunsSpan(i)
  <2> DEFINE r == [run[i] EXCEPT !.world = carried(run[i], i),
                                 !.phase = IF i = Last THEN "tail" ELSE "landed"]
  <2>1. run[i] # None BY <1>4 DEF RunsSpan
  <2>2. run' = [run EXCEPT ![i] = r] BY <1>1, <1>4 DEF RunsSpan
  <2>3. carried(run[i], i) \in Worlds BY <1>2, <2>1, CarriedType
  <2>4. /\ r \in Run /\ r.params = run[i].params /\ r.start = run[i].start
        /\ r.cancel = run[i].cancel /\ r.world = carried(run[i], i)
        BY <1>2, <2>1, <2>3 DEF Run, Phases
  <2>5. ASSUME NEW p \in Params, RunGood(run[i], i, p) PROVE RunGood(r, i, p)
    <3>1. carried(run[i], i) = upto(p, i + 1) BY <2>5, CarriedGood DEF RunGood
    <3>2. r.world # None BY <2>3, <2>4, Somes
    <3> QED BY <2>4, <2>5, <3>1, <3>2 DEF RunGood
  <2> QED BY <2>1, <2>2, <2>4, <2>5 DEF MovesOn
<1>5. CASE i = Last /\ LaysTail
  <2>1. PICK f \in {"roads", "finish"}, b \in BOOLEAN :
             run' = [run EXCEPT ![Last] = [run[Last] EXCEPT !.phase = f, !.roads = b]]
    <3>1. run[Last] \in Run BY <1>2, <1>5 DEF LaysTail
    <3>2. CASE run' = [run EXCEPT ![Last].phase = "roads"]
      <4>1. [run[Last] EXCEPT !.phase = "roads", !.roads = run[Last].roads]
               = [run[Last] EXCEPT !.phase = "roads"] BY <3>1 DEF Run
      <4> QED BY <1>1, <3>1, <3>2, <4>1 DEF Run
    <3>3. CASE run' = [run EXCEPT ![Last].phase = "finish", ![Last].roads = TRUE]
          BY <1>1, <3>3
    <3> QED BY <1>5, <3>2, <3>3 DEF LaysTail
  <2> DEFINE r == [run[i] EXCEPT !.phase = f, !.roads = b]
  <2>2. run[i] # None /\ run[i].phase # "span" BY <1>5 DEF LaysTail
  <2>3. /\ r \in Run /\ r.params = run[i].params /\ r.start = run[i].start
        /\ r.cancel = run[i].cancel /\ r.world = run[i].world
        BY <1>2, <2>2 DEF Run, Phases
  <2>4. \A p \in Params : RunGood(run[i], i, p) => RunGood(r, i, p)
        BY <2>2, <2>3 DEF RunGood
  <2> QED BY <1>5, <2>1, <2>2, <2>3, <2>4 DEF MovesOn
<1>6. CASE i = Last /\ Finishes
  <2> DEFINE r == [run[i] EXCEPT !.phase = "landed"]
  <2>2. run[i] # None /\ run[i].phase # "span" BY <1>6 DEF Finishes
  <2>3. /\ r \in Run /\ r.params = run[i].params /\ r.start = run[i].start
        /\ r.cancel = run[i].cancel /\ r.world = run[i].world
        BY <1>2, <2>2 DEF Run, Phases
  <2>4. \A p \in Params : RunGood(run[i], i, p) => RunGood(r, i, p)
        BY <2>2, <2>3 DEF RunGood
  <2>5. run' = [run EXCEPT ![i] = r] BY <1>1, <1>6 DEF Finishes
  <2> QED BY <2>2, <2>3, <2>4, <2>5 DEF MovesOn
<1> QED BY <1>3, <1>4, <1>5, <1>6 DEF RoundWorker

(* A worker changes no more than its own run. *)
LEMMA WorkerInv == ASSUME WizardInv, NEW i \in Lapses, RoundWorker(i) PROVE WizardInv'
<1>1. PICK r : MovesOn(i, r) BY WorkerMoves
<1>2. /\ run \in [Lapses -> Run \cup {None}] /\ pending \in Params BY DEF WizardInv, TypeOK
<1>3. UNCHANGED <<player, at, held, stale, world_pending, gates, begin, ground>>
      BY DEF RoundWorker
<1>4. /\ run' \in [Lapses -> Run \cup {None}]
      /\ \A k \in Lapses : run'[k] = None <=> run[k] = None
      /\ \A k \in Lapses : run[k] # None /\ RunGood(run[k], k, pending)
                             => RunGood(run'[k], k, pending)
      BY <1>1, <1>2, Somes DEF MovesOn
<1>5. TypeOK'
      BY <1>3, <1>4 DEF WizardInv, TypeOK, player, held, gates, begin
<1>6. Places'
      BY <1>3, <1>4, Rounds DEF WizardInv, Places, player, gates, begin
<1>7. OneRun' BY <1>3, <1>4 DEF WizardInv, OneRun, player
<1>8. Current'
      BY <1>3, <1>4, Rounds DEF WizardInv, Current, player, held, gates, begin
<1>9. Starts' BY <1>3 DEF WizardInv, Starts, player, held, gates
<1> QED BY <1>5, <1>6, <1>7, <1>8, <1>9 DEF WizardInv

(* The gate's and the cold build's workers only land. *)
LEMMA GateInv == ASSUME WizardInv, BuildsGate PROVE WizardInv'
<1>1. /\ gate \in Build /\ gate' = [gate EXCEPT !.phase = "landed"]
      /\ UNCHANGED <<player, at, held, rounds, gate_stale, begin, ground>>
      BY DEF WizardInv, TypeOK, BuildsGate
<1>2. gate' \in Build /\ gate'.params = gate.params /\ gate # None /\ gate' # None
  <2>1. gate \in Build BY <1>1
  <2>2. gate' \in Build /\ gate'.params = gate.params BY <1>1 DEF Build
  <2>3. gate # None /\ gate' # None BY <2>1, <2>2, Somes
  <2> QED BY <2>2, <2>3
<1>3. TypeOK' BY <1>1, <1>2 DEF WizardInv, TypeOK, player, held, rounds, begin
<1>4. Places' BY <1>1 DEF WizardInv, Places, player, rounds, begin
<1>5. OneRun' BY <1>1 DEF WizardInv, OneRun, rounds, player
<1>6. Current' BY <1>1, <1>2 DEF WizardInv, Current, player, held, rounds, begin
<1>7. Starts' BY <1>1, <1>2 DEF WizardInv, Starts, player, held
<1> QED BY <1>3, <1>4, <1>5, <1>6, <1>7 DEF WizardInv

LEMMA ColdInv == ASSUME WizardInv, BuildsCold PROVE WizardInv'
<1>1. /\ cold \in Build /\ cold' = [cold EXCEPT !.phase = "landed"]
      /\ UNCHANGED <<player, at, held, rounds, gates, begin_waits, worldgen_slot, world, ground>>
      BY DEF WizardInv, TypeOK, BuildsCold
<1>2. cold' \in Build /\ cold'.params = cold.params /\ cold # None /\ cold' # None
  <2>1. cold \in Build BY <1>1
  <2>2. cold' \in Build /\ cold'.params = cold.params BY <1>1 DEF Build
  <2>3. cold # None /\ cold' # None BY <2>1, <2>2, Somes
  <2> QED BY <2>2, <2>3
<1>3. TypeOK' BY <1>1, <1>2 DEF WizardInv, TypeOK, player, held, rounds, gates
<1>4. Places' BY <1>1, <1>2 DEF WizardInv, Places, player, rounds
<1>5. OneRun' BY <1>1 DEF WizardInv, OneRun, rounds, player
<1>6. Current' BY <1>1, <1>2 DEF WizardInv, Current, player, held, rounds, gates
<1>7. Starts' BY <1>1 DEF WizardInv, Starts, player, held, gates
<1> QED BY <1>3, <1>4, <1>5, <1>6, <1>7 DEF WizardInv

-----------------------------------------------------------------------------
(* The frame: refresh, the four polls, the start held back.                *)

LEMMA BuildType == ASSUME NEW p \in Params PROVE build_of(p) \in Build /\ build_of(p).params = p
BY DEF build_of, Build

(* Dropping from round i on supersedes its run and those below, and no     *)
(* other.                                                                  *)
LEMMA Superseded ==
    ASSUME TypeOK, NEW i \in Lapses
    PROVE  /\ superseded(i) \in [Lapses -> Run \cup {None}]
           /\ \A k \in Lapses : superseded(i)[k] = None <=> run[k] = None
           /\ \A k \in Lapses : ~(k >= i) => superseded(i)[k] = run[k]
<1>1. \A k \in Lapses : run[k] # None => [run[k] EXCEPT !.cancel = TRUE] \in Run
  <2> SUFFICES ASSUME NEW k \in Lapses, run[k] # None
               PROVE  [run[k] EXCEPT !.cancel = TRUE] \in Run OBVIOUS
  <2>1. run[k] \in Run BY DEF TypeOK
  <2> QED BY <2>1 DEF Run
<1> QED BY <1>1, Somes DEF superseded, TypeOK

(* Whatever runs from round i on is marked stale, and no mark is lost. *)
LEMMA Marked ==
    ASSUME TypeOK, NEW i \in Lapses
    PROVE  /\ marked_stale(i) \in [Lapses -> BOOLEAN]
           /\ \A k \in Lapses : k >= i /\ run[k] # None => marked_stale(i)[k]
           /\ \A k \in Lapses : stale[k] => marked_stale(i)[k]
<1>1. marked_stale(i) \in [Lapses -> BOOLEAN] BY Zenon DEF marked_stale
<1>2. \A k \in Lapses : k >= i /\ run[k] # None => marked_stale(i)[k] BY Zenon DEF marked_stale
<1>3. \A k \in Lapses : stale[k] => marked_stale(i)[k] BY Zenon DEF marked_stale
<1> QED BY <1>1, <1>2, <1>3

(* A moved control drops all there is and marks all that runs.             *)
LEMMA RefreshInv ==
    ASSUME WizardInv, Refresh, screen = "generating" PROVE WizardInv'
<1>t. TypeOK BY DEF WizardInv
<1>0. UNCHANGED <<screen, round, quick, pending, presses, begin>> /\ at = "top" /\ at' = "surface"
      BY DEF Refresh
<1>1. CASE ~dirty
  <2>1. UNCHANGED <<dirty, held, rounds, gates, ground>> BY <1>1 DEF Refresh
  <2>2. TypeOK' BY <1>0, <2>1 DEF WizardInv, TypeOK, held, rounds, gates, begin
  <2>3. Places' BY <1>0, <1>1, <2>1 DEF WizardInv, Places, held, rounds, gates, begin
  <2>4. OneRun' BY <1>0, <2>1 DEF WizardInv, OneRun, rounds
  <2>5. Current' BY <1>0, <2>1 DEF WizardInv, Current, held, rounds, gates, begin
  <2>6. Starts' BY <1>0, <2>1 DEF WizardInv, Starts, held, gates
  <2> QED BY <2>2, <2>3, <2>4, <2>5, <2>6 DEF WizardInv
<1>2. CASE dirty
  <2>1. /\ ~dirty' /\ dirty' \in BOOLEAN
        /\ slot' = [kept_slots(0) EXCEPT ![0] = None] /\ record' = kept_records(0)
        /\ run' = superseded(0) /\ stale' = marked_stale(0)
        /\ wiz_world' = None /\ world_pending' = FALSE /\ ground' = None
        /\ \/ gate' = build_of(pending) /\ UNCHANGED gate_stale
           \/ gate_stale' = TRUE /\ UNCHANGED gate
        BY <1>2 DEF Refresh
  <2>2. /\ slot' \in [Lapses -> Slot \cup {None}] /\ \A i \in Lapses : slot'[i] = None
        BY <2>1, <1>t, Rounds DEF kept_slots, TypeOK
  <2>3. /\ record' \in [Lapses -> Worlds \cup {None}] /\ \A i \in Lapses : record'[i] = None
        BY <2>1, <1>t, Rounds DEF kept_records, TypeOK
  <2>4. /\ 0 \in Lapses /\ \A k \in Lapses : k >= 0 BY Rounds
  <2>5. /\ run' \in [Lapses -> Run \cup {None}]
        /\ \A k \in Lapses : run'[k] = None <=> run[k] = None
        BY <1>t, <2>1, <2>4, Superseded
  <2>6. /\ stale' \in [Lapses -> BOOLEAN] /\ \A k \in Lapses : run'[k] # None => stale'[k]
        BY <1>t, <2>1, <2>4, <2>5, Marked
  <2>7. gate' \in Build \cup {None} /\ gate_stale' \in BOOLEAN
        /\ (gate' # None /\ ~gate_stale' => gate'.params = pending)
        BY <1>t, <2>1, BuildType DEF TypeOK
  <2>8. round <= LifeRound /\ cold = None /\ worldgen_slot = None /\ world = None
        BY <1>2 DEF WizardInv, Places
  <2>9. TypeOK' BY <1>t, <1>0, <2>1, <2>2, <2>3, <2>5, <2>6, <2>7 DEF TypeOK, begin
  <2>10. Places' BY <1>0, <2>1, <2>8 DEF WizardInv, Places, begin
  <2>11. OneRun' BY <1>0, <2>5 DEF WizardInv, OneRun
  <2>12. Current' BY <1>0, <2>1, <2>2, <2>3, <2>6, <2>7, <2>8, Rounds DEF Current, begin
  <2>13. Starts'
    <3>1. ~(round' >= FirstPass) /\ \A i \in Lapses : ~(round' >= round_of(i))
          BY <1>0, <1>t, <2>8, Rounds DEF round_of, TypeOK
    <3> QED BY <3>1, <2>3 DEF Starts
  <2> QED BY <2>9, <2>10, <2>11, <2>12, <2>13 DEF WizardInv
<1> QED BY <1>1, <1>2, <1>t DEF TypeOK

(* A gate that lands is held only if nothing moved while it ran. *)
LEMMA PollSurfaceInv == ASSUME WizardInv, PollSurface, screen = "generating" PROVE WizardInv'
<1>t. TypeOK BY DEF WizardInv
<1>0. /\ UNCHANGED <<player, record, wiz_world, rounds, begin>> /\ at' = "rounds"
      /\ ~dirty /\ dirty' = dirty
      BY DEF PollSurface, WizardInv, Places, player, TypeOK
<1>1. pending \in Params /\ 0 \in Lapses BY <1>t, Rounds DEF TypeOK
<1>2. /\ slot' \in [Lapses -> Slot \cup {None}] /\ gate' \in Build \cup {None}
      /\ gate_stale' \in BOOLEAN /\ ground' \in Worlds \cup {None}
      /\ \A i \in Lapses : i # 0 => slot'[i] = slot[i]
      /\ slot'[0] = slot[0] \/ SlotGood(slot'[0], 0, pending)
      /\ slot[0] # None => slot'[0] # None
      /\ gate = None => gate' = None
      /\ gate' # None /\ ~gate_stale' => gate'.params.ground = pending.ground
      /\ ground' = ground \/ ground'[0] = stage_input(pending, 0)
  <2>0. gate # None /\ ~gate_stale => gate.params.ground = pending.ground
        BY <1>0 DEF WizardInv, Current
  <2>1. CASE ~ready(gate)
    <3>1. UNCHANGED <<gates, slot, ground>> BY <2>1 DEF PollSurface
    <3> QED BY <3>1, <2>0, <1>t DEF gates, TypeOK
  <2>2. CASE ready(gate) /\ gate_stale
    <3>1. gate # None BY <2>2 DEF ready
    <3>2. gate' = build_of(pending) /\ gate_stale' = FALSE /\ UNCHANGED <<slot, ground>>
          BY <2>2 DEF PollSurface
    <3> QED BY <1>1, <1>t, <3>1, <3>2, BuildType DEF TypeOK
  <2>3. CASE ready(gate) /\ ~gate_stale
    <3> DEFINE s == [params |-> gate.params, world |-> upto(gate.params, 0)]
    <3>1. gate \in Build /\ gate # None BY <1>t, <2>3 DEF ready, TypeOK
    <3>2. gate.params \in Params /\ 0 \in 0 .. Last + 1 BY <3>1, Rounds DEF Build
    <3>3. upto(gate.params, 0) \in Worlds BY <3>2, UptoType
    <3>4. s \in Slot BY <3>2, <3>3 DEF Slot
    <3>5. gate' = None /\ gate_stale' = gate_stale /\ slot' = [slot EXCEPT ![0] = s]
          /\ ground' = upto(gate.params, 0)
          BY <2>3 DEF PollSurface
    <3>6. wizard_slot_serves(gate.params, pending, 0)
          BY <2>0, <2>3, <3>1, Rounds DEF wizard_slot_serves
    <3>7. upto(gate.params, 0) = upto(pending, 0) BY <1>1, <3>2, <3>6, ServesUpto
    <3>8. SlotGood(s, 0, pending) BY <3>6, <3>7 DEF SlotGood
    <3>9. ground'[0] = stage_input(pending, 0) BY <1>1, <3>2, <3>5, <3>7, UptoAt
    <3>10. slot'[0] = s /\ \A i \in Lapses : i # 0 => slot'[i] = slot[i]
           BY <1>1, <1>t, <3>5 DEF TypeOK
    <3>11. slot' \in [Lapses -> Slot \cup {None}] BY <1>t, <3>4, <3>5 DEF TypeOK
    <3> HIDE DEF s
    <3> QED BY <1>t, <2>3, <3>3, <3>4, <3>5, <3>8, <3>9, <3>10, <3>11, Somes DEF TypeOK
  <2> QED BY <2>1, <2>2, <2>3
<1>3. TypeOK' BY <1>t, <1>0, <1>2 DEF TypeOK, player, rounds, begin
<1>4. Places' BY <1>0 DEF WizardInv, Places, player, rounds, begin
<1>5. OneRun' BY <1>0 DEF WizardInv, OneRun, rounds, player
<1>6. Current' BY <1>0, <1>2 DEF WizardInv, Current, player, rounds, begin
<1>7. Starts' BY <1>0, <1>2, Rounds DEF WizardInv, Starts, player
<1> QED BY <1>3, <1>4, <1>5, <1>6, <1>7 DEF WizardInv

(* A round's run that landed and is not stale is of the pending parameters. *)
LEMMA LandedGood ==
    ASSUME WizardInv, ~dirty, NEW i \in Lapses, run[i] # None, ~stale[i], run[i].phase # "span"
    PROVE  /\ run[i] \in Run /\ run[i].params = pending /\ pending \in Params
           /\ run[i].world = upto(pending, i + 1) /\ run[i].world # None
           /\ run[i].world \in Worlds
           /\ landing_of(i) \in Slot
           /\ run[i].world[0] = stage_input(pending, 0)
<1>1. run[i] \in Run /\ pending \in Params BY DEF WizardInv, TypeOK
<1>2. RunGood(run[i], i, pending) BY DEF WizardInv, Current
<1>3. run[i].params = pending /\ run[i].world # None /\ run[i].world = upto(pending, i + 1)
      BY <1>2 DEF RunGood
<1>4. run[i].world \in Worlds BY <1>1, <1>3 DEF Run
<1>5. i + 1 \in 0 .. Last + 1 BY Rounds
<1>6. run[i].world[0] = stage_input(pending, 0) BY <1>1, <1>3, <1>5, UptoAt
<1>7. landing_of(i) \in Slot BY <1>1, <1>3, <1>4 DEF landing_of, Slot
<1> QED BY <1>1, <1>3, <1>4, <1>6, <1>7

(* Rounds 3 to 5 land: the good close their round, the stale are dropped. *)
LEMMA PollRoundsInv ==
    ASSUME WizardInv, PollRounds, screen \in {"generating", "building"} PROVE WizardInv'
<1> DEFINE landed == {i \in Lapses : i # Last /\ ready(run[i])}
           good   == {i \in landed : ~stale[i]}
<1>t. TypeOK BY DEF WizardInv
<1>0. /\ UNCHANGED <<player, wiz_world, world_pending, gates, begin>> /\ at = "rounds"
      /\ at' = "record" /\ ~dirty /\ dirty' = dirty
      BY DEF PollRounds, WizardInv, Places, player, TypeOK
<1>1. /\ run' = [i \in Lapses |-> IF i \in landed THEN None ELSE run[i]]
      /\ stale' = [i \in Lapses |-> stale[i] /\ i \notin landed]
      /\ record' = [i \in Lapses |-> IF i \in good THEN run[i].world
                                     ELSE IF i \in landed THEN None ELSE record[i]]
      /\ slot' = [k \in Lapses |-> IF k - 1 \in good THEN landing_of(k - 1) ELSE slot[k]]
      /\ ground' = IF good = {} THEN ground
                   ELSE run[CHOOSE i \in good : \A j \in good : j <= i].world
      BY DEF PollRounds
<1>2. ASSUME NEW i \in good
      PROVE  /\ i \in Lapses /\ i # Last /\ run[i].params = pending
             /\ run[i].world = upto(pending, i + 1) /\ run[i].world # None
             /\ run[i].world \in Worlds /\ landing_of(i) \in Slot
             /\ SlotGood(landing_of(i), i + 1, pending)
             /\ run[i].world[0] = stage_input(pending, 0)
  <2>1. i \in Lapses /\ i # Last /\ run[i] # None /\ run[i].phase # "span" /\ ~stale[i]
        BY DEF ready
  <2>2. SlotGood(landing_of(i), i + 1, pending)
        BY <1>0, <2>1, LandedGood, ServesItself DEF landing_of, SlotGood
  <2> QED BY <1>0, <2>1, <2>2, LandedGood
<1>3. /\ run' \in [Lapses -> Run \cup {None}]
      /\ \A k \in Lapses : run'[k] # None => run'[k] = run[k] /\ k \notin landed
      /\ run'[Last] = run[Last]
      BY <1>1, <1>t, Rounds DEF TypeOK
<1>4. stale' \in [Lapses -> BOOLEAN] BY <1>1, Zenon
<1>5. \A k \in Lapses : k \notin landed /\ ~stale'[k] => ~stale[k] BY <1>1, Zenon
<1>6. /\ record' \in [Lapses -> Worlds \cup {None}]
      /\ \A k \in Lapses : record'[k] # None =>
            k \in good \/ (k \notin landed /\ record'[k] = record[k])
      /\ \A k \in Lapses : k \in good => record'[k] = upto(pending, k + 1)
  <2> HIDE DEF landed, good
  <2>1. \A k \in good : k \in Lapses /\ run[k].world \in Worlds /\ run[k].world = upto(pending, k + 1)
        BY <1>2
  <2> QED BY <1>1, <1>t, <2>1 DEF TypeOK
<1>7. /\ slot' \in [Lapses -> Slot \cup {None}]
      /\ \A k \in Lapses : slot'[k] = slot[k] \/ (slot'[k] # None /\ SlotGood(slot'[k], k, pending))
      /\ \A k \in good : slot'[k + 1] # None
  <2>1. ASSUME NEW k \in Lapses, k - 1 \in good
        PROVE  slot'[k] \in Slot /\ slot'[k] # None /\ SlotGood(slot'[k], k, pending)
    <3>1. slot'[k] = landing_of(k - 1) BY <1>1, <2>1
    <3>2. k - 1 + 1 = k BY Rounds
    <3>3. landing_of(k - 1) \in Slot /\ SlotGood(landing_of(k - 1), k - 1 + 1, pending)
          BY <1>2, <2>1
    <3> QED BY <3>1, <3>2, <3>3, Somes
  <2>2. ASSUME NEW k \in Lapses, k - 1 \notin good PROVE slot'[k] = slot[k]
        BY <1>1, <2>2
  <2>3. \A k \in good : \E m \in Lapses : m = k + 1 /\ m - 1 = k
    <3>1. \A k \in Lapses : k # Last => \E m \in Lapses : m = k + 1 /\ m - 1 = k BY Rounds
    <3> QED BY <3>1
  <2> HIDE DEF landed, good
  <2>4. \A k \in Lapses : slot'[k] \in Slot \cup {None} BY <1>t, <2>1, <2>2 DEF TypeOK
  <2>5. slot' \in [Lapses -> Slot \cup {None}] BY <1>1, <2>4
  <2>6. ASSUME NEW k \in good PROVE slot'[k + 1] # None
    <3>1. PICK m \in Lapses : m = k + 1 /\ m - 1 = k BY <2>3
    <3>2. m - 1 \in good BY <3>1
    <3>3. slot'[m] # None BY <2>1, <3>1, <3>2
    <3> QED BY <3>1, <3>3
  <2> QED BY <2>1, <2>2, <2>5, <2>6
<1>8. ground' = ground \/ (ground' \in Worlds /\ ground'[0] = stage_input(pending, 0))
  <2>1. CASE good = {} BY <1>1, <2>1
  <2>2. CASE good # {}
    <3>1. PICK m \in good : TRUE BY <2>2
    <3>2. \A j \in good : j = m BY DEF WizardInv, OneRun, ready
    <3>3. m \in Int BY Rounds
    <3>4. \E i \in good : \A j \in good : j <= i BY <3>1, <3>2, <3>3
    <3>5. (CHOOSE i \in good : \A j \in good : j <= i) \in good BY <3>4, Zenon
    <3> HIDE DEF landed, good
    <3> QED BY <1>1, <1>2, <2>2, <3>5
  <2> QED BY <2>1, <2>2
<1>9. TypeOK' BY <1>t, <1>0, <1>3, <1>4, <1>6, <1>7, <1>8 DEF TypeOK, player, gates, begin
<1>10. Places' BY <1>0, <1>3 DEF WizardInv, Places, player, gates, begin
<1>11. OneRun' BY <1>0, <1>3 DEF WizardInv, OneRun, player
<1>12. Current'
  <2>1. \A k \in Lapses : record'[k] # None => record'[k] = upto(pending, k + 1)
        BY <1>0, <1>6 DEF WizardInv, Current
  <2>2. \A k \in Lapses : slot'[k] # None => SlotGood(slot'[k], k, pending)
        BY <1>0, <1>7 DEF WizardInv, Current
  <2>3. \A k \in Lapses : run'[k] # None /\ ~stale'[k] => RunGood(run'[k], k, pending)
        BY <1>0, <1>3, <1>5 DEF WizardInv, Current
  <2>4. run'[Last] # None /\ ~stale'[Last] => run[Last] # None /\ ~stale[Last]
        BY <1>3, <1>5, Rounds
  <2>5. ground' # None => ground'[0] = stage_input(pending, 0)
        BY <1>0, <1>8 DEF WizardInv, Current
  <2> HIDE DEF landed, good
  <2> QED BY <1>0, <2>1, <2>2, <2>3, <2>4, <2>5 DEF WizardInv, Current, player, gates, begin
<1>13. Starts'
  <2>1. \A k \in Lapses : slot[k] # None => slot'[k] # None BY <1>7
  <2>2. ASSUME NEW k \in Lapses, k # Last, screen = "generating", record'[k] # None
        PROVE  slot'[k + 1] # None
    <3>1. CASE k \in good BY <3>1, <1>7
    <3>2. CASE k \notin good
      <4>1. record[k] # None BY <1>6, <2>2, <3>2
      <4>2. k + 1 \in Lapses BY <2>2, Rounds
      <4> QED BY <1>0, <2>1, <2>2, <4>1, <4>2 DEF WizardInv, Starts
    <3> QED BY <3>1, <3>2
  <2> HIDE DEF landed, good
  <2> QED BY <1>0, <2>1, <2>2 DEF WizardInv, Starts, player, gates
<1> QED BY <1>9, <1>10, <1>11, <1>12, <1>13 DEF WizardInv

(* Round 6's record comes ahead of its world. *)
LEMMA PollRecordInv ==
    ASSUME WizardInv, PollRecord, screen \in {"generating", "building"} PROVE WizardInv'
<1>t. TypeOK BY DEF WizardInv
<1>0. /\ UNCHANGED <<player, slot, wiz_world, stale, world_pending, gates, begin>>
      /\ at = "record" /\ at' = "world" /\ ~dirty /\ dirty' = dirty /\ Last \in Lapses
      BY Rounds DEF PollRecord, WizardInv, Places, player, TypeOK
<1>1. ASSUME record_ready
      PROVE  /\ run[Last] # None /\ run[Last] \in Run /\ run[Last].world \in Worlds
             /\ run[Last].world = upto(pending, Last + 1)
             /\ run[Last].world[0] = stage_input(pending, 0)
  <2>1. run[Last] # None /\ run[Last].world # None /\ ~stale[Last] BY <1>1 DEF record_ready
  <2>2. run[Last] \in Run /\ pending \in Params BY <1>0, <1>t, <2>1 DEF TypeOK
  <2>3. RunGood(run[Last], Last, pending) BY <1>0, <2>1 DEF WizardInv, Current
  <2>4. run[Last].world = upto(pending, Last + 1) BY <2>1, <2>3 DEF RunGood
  <2>5. run[Last].world \in Worlds BY <2>1, <2>2 DEF Run
  <2>6. Last + 1 \in 0 .. Last + 1 BY Rounds
  <2>7. run[Last].world[0] = stage_input(pending, 0) BY <2>2, <2>4, <2>6, UptoAt
  <2> QED BY <2>1, <2>2, <2>4, <2>5, <2>7
<1>2. /\ record' \in [Lapses -> Worlds \cup {None}]
      /\ \A k \in Lapses : record'[k] = record[k] \/ (k = Last /\ record'[k] = upto(pending, k + 1))
      BY <1>0, <1>1, <1>t DEF PollRecord, TypeOK
<1>3. /\ run' \in [Lapses -> Run \cup {None}]
      /\ \A k \in Lapses : run'[k] = None <=> run[k] = None
      /\ \A k \in Lapses : run[k] # None /\ RunGood(run[k], k, pending)
                             => RunGood(run'[k], k, pending)
      /\ ground' = ground \/ (ground' \in Worlds /\ ground'[0] = stage_input(pending, 0))
  <2>1. CASE UNCHANGED <<ground, run>> BY <2>1, <1>t DEF TypeOK
  <2>2. CASE ~UNCHANGED <<ground, run>>
    <3> DEFINE r == [run[Last] EXCEPT !.roads = FALSE]
    <3>1. record_ready /\ ground' = run[Last].world /\ run' = [run EXCEPT ![Last].roads = FALSE]
          BY <2>2 DEF PollRecord
    <3>2. run' = [run EXCEPT ![Last] = r] BY <1>t, <1>0, <3>1 DEF TypeOK
    <3>3. /\ r \in Run /\ r.params = run[Last].params /\ r.start = run[Last].start
          /\ r.cancel = run[Last].cancel /\ r.world = run[Last].world /\ r.phase = run[Last].phase
          BY <1>1, <3>1 DEF Run
    <3>4. RunGood(run[Last], Last, pending) => RunGood(r, Last, pending) BY <3>3 DEF RunGood
    <3>5. r # None /\ run[Last] # None BY <3>3, <1>1, <3>1, Somes
    <3> HIDE DEF r
    <3> QED BY <1>0, <1>1, <1>t, <3>1, <3>2, <3>3, <3>4, <3>5 DEF TypeOK
  <2> QED BY <2>1, <2>2
<1>4. TypeOK' BY <1>t, <1>0, <1>2, <1>3 DEF TypeOK, player, gates, begin
<1>5. Places' BY <1>0, <1>3 DEF WizardInv, Places, player, gates, begin
<1>6. OneRun' BY <1>0, <1>3 DEF WizardInv, OneRun, player
<1>7. Current' BY <1>0, <1>2, <1>3 DEF WizardInv, Current, player, gates, begin
<1>8. Starts' BY <1>0, <1>2 DEF WizardInv, Starts, player, gates
<1> QED BY <1>4, <1>5, <1>6, <1>7, <1>8 DEF WizardInv

(* Round 6's world is held only if it is not stale. *)
LEMMA PollWorldInv ==
    ASSUME WizardInv, PollWorld, screen \in {"generating", "building"} PROVE WizardInv'
<1>t. TypeOK BY DEF WizardInv
<1>0. /\ UNCHANGED <<player, slot, gates, begin>> /\ at = "world" /\ ~dirty /\ dirty' = dirty
      /\ at' = IF screen = "building" THEN "begin" ELSE "start"
      /\ Last \in Lapses
      BY Rounds DEF PollWorld, WizardInv, Places, player, TypeOK
<1>1. CASE ~ready(run[Last])
  <2>1. UNCHANGED <<run, stale, record, wiz_world, world_pending, ground>> BY <1>1 DEF PollWorld
  <2>2. TypeOK' BY <1>t, <1>0, <2>1 DEF TypeOK, player, gates, begin
  <2>3. Places' BY <1>0, <2>1 DEF WizardInv, Places, player, gates, begin
  <2>4. OneRun' BY <1>0, <2>1 DEF WizardInv, OneRun, player
  <2>5. Current' BY <1>0, <2>1 DEF WizardInv, Current, player, gates, begin
  <2>6. Starts' BY <1>0, <2>1 DEF WizardInv, Starts, player, gates
  <2> QED BY <2>2, <2>3, <2>4, <2>5, <2>6 DEF WizardInv
<1>2. CASE ready(run[Last])
  <2>1. run[Last] # None /\ run[Last].phase # "span" BY <1>2 DEF ready
  <2>2. /\ run' = [run EXCEPT ![Last] = None] /\ stale' = [stale EXCEPT ![Last] = FALSE]
        /\ world_pending' = FALSE
        BY <1>2 DEF PollWorld
  <2>3. /\ run' \in [Lapses -> Run \cup {None}] /\ stale' \in [Lapses -> BOOLEAN]
        /\ run'[Last] = None
        /\ \A k \in Lapses : k # Last => run'[k] = run[k] /\ stale'[k] = stale[k]
        BY <1>t, <1>0, <2>2 DEF TypeOK
  <2>4. /\ record' \in [Lapses -> Worlds \cup {None}]
        /\ \A k \in Lapses : \/ record'[k] = record[k]
                             \/ k = Last /\ record'[k] \in {None, upto(pending, k + 1)}
        /\ wiz_world' = wiz_world
           \/ (wiz_world' \in Slot /\ wiz_world'.params = pending /\ wiz_world'.world = whole(pending))
        /\ ground' = ground \/ (ground' \in Worlds /\ ground'[0] = stage_input(pending, 0))
    <3>1. CASE stale[Last]
      <4>1. record' = [record EXCEPT ![Last] = None] /\ UNCHANGED <<wiz_world, ground>>
            BY <1>2, <3>1 DEF PollWorld
      <4> QED BY <1>t, <1>0, <4>1 DEF TypeOK
    <3>2. CASE ~stale[Last]
      <4>1. /\ record' = [record EXCEPT ![Last] = run[Last].world]
            /\ \/ wiz_world' = landing_of(Last) /\ ground' = run[Last].world
               \/ UNCHANGED <<wiz_world, ground>>
            BY <1>2, <3>2 DEF PollWorld
      <4>2. /\ run[Last].params = pending /\ run[Last].world = upto(pending, Last + 1)
            /\ run[Last].world \in Worlds /\ landing_of(Last) \in Slot
            /\ run[Last].world[0] = stage_input(pending, 0)
            BY <1>0, <2>1, <3>2, LandedGood
      <4>3. landing_of(Last).params = pending /\ landing_of(Last).world = whole(pending)
            BY <4>2 DEF landing_of, whole
      <4> QED BY <1>t, <1>0, <4>1, <4>2, <4>3 DEF TypeOK
    <3> QED BY <3>1, <3>2
  <2>5. TypeOK' BY <1>t, <1>0, <2>2, <2>3, <2>4 DEF TypeOK, player, gates, begin
  <2>6. Places' BY <1>0, <2>3 DEF WizardInv, Places, player, gates, begin
  <2>7. OneRun' BY <1>0, <2>3 DEF WizardInv, OneRun, player
  <2>8. Current' BY <1>0, <2>3, <2>4 DEF WizardInv, Current, player, gates, begin
  <2>9. Starts' BY <1>0, <2>4 DEF WizardInv, Starts, player, gates
  <2> QED BY <2>5, <2>6, <2>7, <2>8, <2>9 DEF WizardInv
<1> QED BY <1>1, <1>2

(* A start held back or arrived on: the round takes its slot and changes   *)
(* nothing that is held but what it supersedes.                            *)
LEMMA LaunchNext ==
    ASSUME WizardInv, ~dirty, screen = "generating",
           NEW i \in Lapses, slot[i] # None,
           LaunchRound(i, run, record, wiz_world, world_pending),
           UNCHANGED <<screen, dirty, pending, slot, stale, gates, begin, ground>>
    PROVE  /\ run' \in [Lapses -> Run \cup {None}]
           /\ record' \in [Lapses -> Worlds \cup {None}]
           /\ wiz_world' \in Slot \cup {None} /\ world_pending' \in BOOLEAN
           /\ \A j, k \in Lapses : run'[j] # None /\ run'[k] # None => j = k
           /\ \A k \in Lapses : k # i => run'[k] = run[k]
           /\ \A k \in Lapses : record'[k] # None => record[k] # None
           /\ Current'
<1>t. /\ slot' = slot /\ pending' = pending /\ pending \in Params
      /\ slot \in [Lapses -> Slot \cup {None}] /\ run \in [Lapses -> Run \cup {None}]
      /\ record \in [Lapses -> Worlds \cup {None}] /\ wiz_world \in Slot \cup {None}
      /\ world_pending \in BOOLEAN
      BY DEF WizardInv, TypeOK
<1>0. \A j, k \in Lapses : run[j] # None /\ run[k] # None => j = k BY DEF WizardInv, OneRun
<1>1. /\ run' \in [Lapses -> Run \cup {None}]
      /\ record' \in [Lapses -> Worlds \cup {None}]
      /\ wiz_world' \in {wiz_world, None} /\ world_pending' \in BOOLEAN
      /\ \A j, k \in Lapses : run'[j] # None /\ run'[k] # None => j = k
      /\ \A k \in Lapses : record'[k] \in {record[k], None}
      /\ \A k \in Lapses : \/ run'[k] = run[k]
                           \/ k = i /\ run[k] = None /\ run'[k] = fresh_run(slot', pending', i)
      /\ world_pending' = world_pending \/ (world_pending' /\ i = Last)
      /\ i = Last /\ run'[Last] # run[Last] => world_pending'
      BY <1>t, <1>0, Launched
<1>2. SlotGood(slot[i], i, pending) BY DEF WizardInv, Current
<1>3. RunGood(fresh_run(slot, pending, i), i, pending) BY <1>t, <1>2, FreshGood
<1>4. \A k \in Lapses : run'[k] # None /\ ~stale'[k] => RunGood(run'[k], k, pending')
      BY <1>1, <1>3, <1>t DEF WizardInv, Current
<1>5. run'[Last] # None /\ ~stale'[Last] /\ screen' # "menu" => world_pending'
  <2>1. Last \in Lapses BY Rounds
  <2>2. CASE run'[Last] = run[Last] BY <1>1, <2>2 DEF WizardInv, Current
  <2>3. CASE run'[Last] # run[Last] BY <1>1, <2>1, <2>3
  <2> QED BY <2>2, <2>3
<1>6. Current' BY <1>1, <1>4, <1>5, <1>t DEF WizardInv, Current, gates, begin
<1> QED BY <1>1, <1>t, <1>6

(* A round starts on a frame when it is on screen and nothing runs. *)
LEMMA StartRoundInv == ASSUME WizardInv, StartRound, screen = "generating" PROVE WizardInv'
<1>t. TypeOK BY DEF WizardInv
<1>0. /\ UNCHANGED <<player, slot, stale, gates, begin, ground>> /\ at = "start" /\ at' = "press"
      /\ ~dirty
      BY DEF StartRound, WizardInv, Places, TypeOK
<1>1. CASE UNCHANGED <<record, run, wiz_world, world_pending>>
  <2>1. TypeOK' BY <1>t, <1>0, <1>1 DEF TypeOK, player, gates, begin
  <2>2. Places' BY <1>0, <1>1 DEF WizardInv, Places, player, gates, begin
  <2>3. OneRun' BY <1>0, <1>1 DEF WizardInv, OneRun, player
  <2>4. Current' BY <1>0, <1>1 DEF WizardInv, Current, player, gates, begin
  <2>5. Starts' BY <1>0, <1>1 DEF WizardInv, Starts, player, gates
  <2> QED BY <2>1, <2>2, <2>3, <2>4, <2>5 DEF WizardInv
<1>2. CASE ~UNCHANGED <<record, run, wiz_world, world_pending>>
  <2> DEFINE i == round - FirstPass
  <2>1. i \in Lapses /\ LaunchRound(i, run, record, wiz_world, world_pending)
        BY <1>2 DEF StartRound
  <2>2. round = round_of(i) /\ round \in Int /\ round_of(i) \in Int
        BY <1>t, Rounds DEF TypeOK, round_of
  <2>3. slot[i] # None BY <1>0, <2>1, <2>2 DEF WizardInv, Starts
  <2>4. UNCHANGED <<screen, dirty, pending>> BY <1>0 DEF player
  <2> HIDE DEF i
  <2>5. /\ run' \in [Lapses -> Run \cup {None}]
        /\ record' \in [Lapses -> Worlds \cup {None}]
        /\ wiz_world' \in Slot \cup {None} /\ world_pending' \in BOOLEAN
        /\ \A j, k \in Lapses : run'[j] # None /\ run'[k] # None => j = k
        /\ \A k \in Lapses : k # i => run'[k] = run[k]
        /\ \A k \in Lapses : record'[k] # None => record[k] # None
        /\ Current'
        BY <1>0, <2>1, <2>3, <2>4, LaunchNext
  <2>6. TypeOK' BY <1>t, <1>0, <2>5 DEF TypeOK, player, gates, begin
  <2>7. Places' BY <1>0, <2>5 DEF WizardInv, Places, player, gates, begin
  <2>8. OneRun' BY <1>0, <2>2, <2>5 DEF WizardInv, OneRun, player
  <2>9. Starts' BY <1>0, <2>5 DEF WizardInv, Starts, player, gates
  <2> QED BY <2>5, <2>6, <2>7, <2>8, <2>9 DEF WizardInv
<1> QED BY <1>1, <1>2

-----------------------------------------------------------------------------
(* The presses.                                                            *)

LEMMA NoPressInv == ASSUME WizardInv, NoPress, screen = "generating" PROVE WizardInv'
<1>0. UNCHANGED <<player, held, rounds, gates, begin, ground>> /\ at = "press" /\ at' = "top"
      BY DEF NoPress, pressing
<1>1. TypeOK' BY <1>0 DEF WizardInv, TypeOK, player, held, rounds, gates, begin
<1>2. Places' BY <1>0 DEF WizardInv, Places, player, held, rounds, gates, begin
<1>3. OneRun' BY <1>0 DEF WizardInv, OneRun, player, rounds
<1>4. Current' BY <1>0 DEF WizardInv, Current, player, held, rounds, gates, begin
<1>5. Starts' BY <1>0 DEF WizardInv, Starts, player, held, gates
<1> QED BY <1>1, <1>2, <1>3, <1>4, <1>5 DEF WizardInv

LEMMA Spent == ASSUME TypeOK, spends PROVE presses' \in 0 .. MaxPresses
BY WizardAssumption DEF TypeOK, spends

(* A moved control leaves everything to the refresh that follows. *)
LEMMA MoveGroundInv == ASSUME WizardInv, MoveGround, screen = "generating" PROVE WizardInv'
<1>t. TypeOK BY DEF WizardInv
<1>0. /\ UNCHANGED <<screen, round, quick, held, rounds, gates, begin, ground>>
      /\ at = "press" /\ at' = "top" /\ dirty' = TRUE /\ round <= LifeRound
      BY DEF MoveGround, pressing
<1>1. presses' \in 0 .. MaxPresses BY <1>t, Spent DEF MoveGround
<1>2. PICK g \in Grounds : pending' = [pending EXCEPT !.ground = g] BY DEF MoveGround
<1>3. pending' \in Params BY <1>t, <1>2 DEF TypeOK, Params
<1>4. TypeOK' BY <1>t, <1>0, <1>1, <1>3 DEF TypeOK, held, rounds, gates, begin
<1>5. Places' BY <1>0 DEF WizardInv, Places, held, rounds, gates, begin
<1>6. OneRun' BY <1>0 DEF WizardInv, OneRun, rounds
<1>7. Current' BY <1>0 DEF Current
<1>8. Starts' BY <1>0 DEF Starts
<1> QED BY <1>4, <1>5, <1>6, <1>7, <1>8 DEF WizardInv

(* Running a round again drops it and those below, and starts it from the  *)
(* round before's world, which the parameters moved leave as it was.       *)
LEMMA RunAgainInv ==
    ASSUME WizardInv, screen = "generating", NEW i \in Lapses, NEW p \in Params, RunAgain(i, p),
           \A k \in Lapses : k <= i => wizard_slot_serves(pending, p, k)
    PROVE  WizardInv'
<1>t. TypeOK BY DEF WizardInv
<1>0. /\ UNCHANGED <<screen, round, quick, dirty, gates, begin, ground>>
      /\ at = "press" /\ at' = "top" /\ ~dirty /\ pending' = p
      /\ round = round_of(i) /\ round >= FirstPass /\ \A k \in Lapses : k >= i \/ k + 1 <= i
      /\ slot' = kept_slots(i) /\ stale' = marked_stale(i)
      /\ LaunchRound(i, superseded(i), kept_records(i), None, FALSE)
  <2>1. /\ UNCHANGED <<screen, round, quick, dirty, gates, begin, ground>>
        /\ at = "press" /\ at' = "top" /\ pending' = p /\ round = round_of(i)
        /\ slot' = kept_slots(i) /\ stale' = marked_stale(i)
        /\ LaunchRound(i, superseded(i), kept_records(i), None, FALSE)
        BY DEF RunAgain, pressing
  <2>2. ~dirty BY <2>1 DEF WizardInv, Places
  <2>3. round_of(i) >= FirstPass /\ \A k \in Lapses : k >= i \/ k + 1 <= i BY Rounds DEF round_of
  <2> QED BY <2>1, <2>2, <2>3
<1>1. presses' \in 0 .. MaxPresses BY <1>t, Spent DEF RunAgain
<1>2. \A k \in Lapses : round >= round_of(k) <=> k <= i BY <1>0, Rounds DEF round_of
<1>3. \A k \in Lapses : run[k] # None => k >= i
  <2>1. \A k \in Lapses : round <= round_of(k) => k >= i BY <1>0, Rounds DEF round_of
  <2> QED BY <2>1 DEF WizardInv, OneRun
<1>4. /\ slot' \in [Lapses -> Slot \cup {None}]
      /\ \A k \in Lapses : slot'[k] = IF k > i THEN None ELSE slot[k]
      BY <1>t, <1>0 DEF TypeOK, kept_slots
<1>5. /\ kept_records(i) \in [Lapses -> Worlds \cup {None}]
      /\ \A k \in Lapses : kept_records(i)[k] = IF k >= i THEN None ELSE record[k]
      BY <1>t DEF TypeOK, kept_records
<1>6. /\ superseded(i) \in [Lapses -> Run \cup {None}]
      /\ \A k \in Lapses : superseded(i)[k] = None <=> run[k] = None
      BY <1>t, Superseded
<1>7. /\ stale' \in [Lapses -> BOOLEAN]
      /\ \A k \in Lapses : superseded(i)[k] # None => stale'[k]
      BY <1>t, <1>0, <1>3, <1>6, Marked
<1>8. \A j, k \in Lapses : superseded(i)[j] # None /\ superseded(i)[k] # None => j = k
      BY <1>6 DEF WizardInv, OneRun
<1>9. /\ run' \in [Lapses -> Run \cup {None}]
      /\ record' \in [Lapses -> Worlds \cup {None}]
      /\ wiz_world' = None /\ world_pending' \in BOOLEAN
      /\ \A j, k \in Lapses : run'[j] # None /\ run'[k] # None => j = k
      /\ \A k \in Lapses : record'[k] \in {kept_records(i)[k], None}
      /\ \A k \in Lapses : \/ run'[k] = superseded(i)[k]
                           \/ k = i /\ run'[k] = fresh_run(slot', pending', i)
      /\ i = Last /\ run'[Last] # superseded(i)[Last] => world_pending'
  <2> DEFINE runs == superseded(i)
             records == kept_records(i)
             claim == FALSE
             finished == None
  <2>1. /\ slot' \in [Lapses -> Slot \cup {None}] /\ pending' \in Params
        /\ runs \in [Lapses -> Run \cup {None}] /\ records \in [Lapses -> Worlds \cup {None}]
        /\ \A j, k \in Lapses : runs[j] # None /\ runs[k] # None => j = k
        /\ LaunchRound(i, runs, records, finished, claim)
        BY <1>0, <1>4, <1>5, <1>6, <1>8
  <2>2. finished \in Slot \cup {None} /\ claim \in BOOLEAN OBVIOUS
  <2> HIDE DEF runs, records, claim, finished
  <2>3. /\ run' \in [Lapses -> Run \cup {None}]
        /\ record' \in [Lapses -> Worlds \cup {None}]
        /\ wiz_world' \in {finished, None} /\ world_pending' \in BOOLEAN
        /\ \A j, k \in Lapses : run'[j] # None /\ run'[k] # None => j = k
        /\ \A k \in Lapses : record'[k] \in {records[k], None}
        /\ \A k \in Lapses : \/ run'[k] = runs[k]
                             \/ k = i /\ runs[k] = None /\ run'[k] = fresh_run(slot', pending', i)
        /\ world_pending' = claim \/ (world_pending' /\ i = Last)
        /\ i = Last /\ run'[Last] # runs[Last] => world_pending'
        BY <2>1, <2>2, Launched
  <2> QED BY <2>3 DEF runs, records, finished
<1>10. \A k \in Lapses : k <= i => upto(pending, k) = upto(p, k)
       BY <1>t, ServesUpto DEF TypeOK
<1>11. \A k \in Lapses : slot'[k] # None => k <= i /\ SlotGood(slot'[k], k, p)
  <2> SUFFICES ASSUME NEW k \in Lapses, slot'[k] # None PROVE k <= i /\ SlotGood(slot'[k], k, p)
      OBVIOUS
  <2>1. k <= i /\ slot'[k] = slot[k] BY <1>0, <1>4, Rounds
  <2>2. slot[k].world = upto(pending, k) /\ wizard_slot_serves(slot[k].params, pending, k)
        BY <1>0, <2>1 DEF WizardInv, Current, SlotGood
  <2>3. wizard_slot_serves(pending, p, k) BY <2>1
  <2>4. wizard_slot_serves(slot[k].params, p, k) BY <2>2, <2>3 DEF wizard_slot_serves
  <2> QED BY <1>10, <2>1, <2>2, <2>4 DEF SlotGood
<1>12. slot[i] # None /\ slot'[i] = slot[i]
  <2>1. slot[i] # None BY <1>0, <1>2, Rounds DEF WizardInv, Starts
  <2> QED BY <2>1, <1>4, Rounds
<1>13. RunGood(fresh_run(slot', pending', i), i, p)
       BY <1>0, <1>4, <1>11, <1>12, FreshGood
<1>14. \A k \in Lapses : record'[k] # None => k + 1 <= i /\ record'[k] = record[k]
       BY <1>0, <1>5, <1>9
<1>15. ASSUME NEW k \in Lapses, record'[k] # None PROVE record'[k] = upto(p, k + 1)
  <2>1. k + 1 \in Lapses /\ k + 1 <= i BY <1>14, <1>15, Rounds
  <2>2. record'[k] = upto(pending, k + 1) BY <1>0, <1>14, <1>15 DEF WizardInv, Current
  <2> QED BY <1>10, <2>1, <2>2
<1>16. stage_input(p, 0) = stage_input(pending, 0)
  <2>1. wizard_slot_serves(pending, p, i) BY Rounds
  <2> QED BY <2>1 DEF wizard_slot_serves, stage_input
<1>17. run'[Last] # None /\ ~stale'[Last] => world_pending'
  <2>1. Last \in Lapses BY Rounds
  <2> QED BY <1>7, <1>9, <2>1
<1>18. gate = None /\ cold = None /\ worldgen_slot = None /\ world = None
       BY <1>0 DEF WizardInv, Places, Starts
<1>19. TypeOK' BY <1>t, <1>0, <1>1, <1>4, <1>7, <1>9 DEF TypeOK, gates, begin
<1>20. Places' BY <1>0, <1>18 DEF WizardInv, Places, gates, begin
<1>21. OneRun'
  <2>1. \A k \in Lapses : run'[k] # None => k = i \/ run[k] # None BY <1>6, <1>9
  <2>2. round_of(i) <= round_of(i) BY Rounds DEF round_of
  <2> QED BY <1>0, <1>9, <2>1, <2>2 DEF WizardInv, OneRun
<1>22. Current'
  <2>1. \A k \in Lapses : run'[k] # None /\ ~stale'[k] => RunGood(run'[k], k, p)
        BY <1>7, <1>9, <1>13
  <2>2. gate' = None /\ cold' = None /\ worldgen_slot' = None /\ world' = None
        BY <1>0, <1>18 DEF gates, begin
  <2>3. ground # None => ground[0] = stage_input(p, 0) BY <1>0, <1>16 DEF WizardInv, Current
  <2> QED BY <1>0, <1>9, <1>11, <1>15, <1>17, <2>1, <2>2, <2>3 DEF Current
<1>23. Starts'
  <2>1. \A k \in Lapses : k <= i => slot'[k] = slot[k] BY <1>0, <1>4, Rounds
  <2>2. \A k \in Lapses : k # Last => k + 1 \in Lapses BY Rounds
  <2> QED BY <1>0, <1>2, <1>14, <1>18, <2>1, <2>2 DEF WizardInv, Starts, gates
<1> QED BY <1>19, <1>20, <1>21, <1>22, <1>23 DEF WizardInv

(* A reroll and a lean move what no round before theirs reads. *)
LEMMA RerollInv == ASSUME WizardInv, Reroll, screen = "generating" PROVE WizardInv'
<1>1. PICK i \in Lapses \ {0} :
        pending.span[i] < MaxRoll /\ RunAgain(i, [pending EXCEPT !.span[i] = @ + 1])
      BY DEF Reroll
<1> DEFINE p == [pending EXCEPT !.span[i] = @ + 1]
<1>2. pending \in Params BY DEF WizardInv, TypeOK
<1>3. /\ p \in Params /\ p.ground = pending.ground /\ p.turbulence = pending.turbulence
      /\ \A k \in Lapses : k # i => p.span[k] = pending.span[k]
      BY <1>1, <1>2, WizardAssumption DEF Params
<1>4. \A k \in Lapses : k <= i => wizard_slot_serves(pending, p, k)
  <2>1. \A k \in Lapses : k \in Int BY Rounds
  <2> QED BY <1>1, <1>3, <2>1 DEF wizard_slot_serves
<1> HIDE DEF p
<1> QED BY <1>1, <1>3, <1>4, RunAgainInv DEF p

LEMMA LeanInv == ASSUME WizardInv, Lean, screen = "generating" PROVE WizardInv'
<1>1. PICK l \in Leans : RunAgain(Empires, [pending EXCEPT !.turbulence = l])
      BY DEF Lean
<1> DEFINE p == [pending EXCEPT !.turbulence = l]
<1>2. pending \in Params BY DEF WizardInv, TypeOK
<1>3. /\ p \in Params /\ p.ground = pending.ground /\ p.span = pending.span
      BY <1>1, <1>2 DEF Params
<1>4. \A k \in Lapses : k <= Empires => wizard_slot_serves(pending, p, k)
      BY <1>3 DEF wizard_slot_serves
<1>5. Empires \in Lapses BY Rounds
<1> HIDE DEF p
<1> QED BY <1>1, <1>3, <1>4, <1>5, RunAgainInv DEF p

(* Back leaves every round held. *)
LEMMA BackInv == ASSUME WizardInv, Back, screen = "generating" PROVE WizardInv'
<1>t. TypeOK BY DEF WizardInv
<1>0. /\ UNCHANGED <<screen, quick, dirty, pending, presses, held, rounds, gates, begin, ground>>
      /\ at = "press" /\ at' = "top" /\ round > 0 /\ round' = round - 1 /\ ~dirty
      BY DEF Back, pressing, WizardInv, Places
<1>1. round' \in 0 .. LastRound BY <1>t, <1>0, Rounds DEF TypeOK
<1>2. TypeOK' BY <1>t, <1>0, <1>1 DEF TypeOK, held, rounds, gates, begin
<1>3. Places' BY <1>0 DEF WizardInv, Places, held, rounds, gates, begin
<1>4. round \in Int /\ \A k \in Lapses : round_of(k) \in Int BY <1>t, Rounds DEF TypeOK, round_of
<1>5. OneRun'
  <2>1. \A k \in Lapses : round <= round_of(k) => round' <= round_of(k) BY <1>0, <1>4
  <2> QED BY <1>0, <2>1 DEF WizardInv, OneRun, rounds
<1>6. Current' BY <1>0 DEF WizardInv, Current, held, rounds, gates, begin
<1>7. Starts'
  <2>1. \A k \in Lapses : round' >= round_of(k) => round >= round_of(k) BY <1>0, <1>4
  <2>2. round' >= FirstPass => round >= FirstPass BY <1>0, <1>4, Rounds
  <2> QED BY <1>0, <2>1, <2>2 DEF WizardInv, Starts, held, gates
<1> QED BY <1>2, <1>3, <1>5, <1>6, <1>7 DEF WizardInv

(* Leaving lets go of every slot, and the runs in flight land unheld. *)
LEMMA LeaveForMenuInv == ASSUME WizardInv, LeaveForMenu, screen = "generating" PROVE WizardInv'
<1>t. TypeOK BY DEF WizardInv
<1>0. /\ UNCHANGED <<round, dirty, pending, record, run, stale, gates, begin>>
      /\ at = "press" /\ at' = "top" /\ ~dirty /\ screen' = "menu" /\ quick' = FALSE
      /\ wiz_world' = None /\ world_pending' = FALSE /\ ground' = None
      BY DEF LeaveForMenu, pressing, WizardInv, Places
<1>1. presses' \in 0 .. MaxPresses BY <1>t, Spent DEF LeaveForMenu
<1>2. slot' \in [Lapses -> Slot \cup {None}] /\ \A k \in Lapses : slot'[k] = None
      BY DEF LeaveForMenu
<1>3. TypeOK' BY <1>t, <1>0, <1>1, <1>2 DEF TypeOK, gates, begin
<1>4. ~begin_waits /\ cold = None /\ worldgen_slot = None /\ world = None
      BY DEF WizardInv, Places
<1>5. Places' BY <1>0, <1>4 DEF Places, begin
<1>6. OneRun' BY <1>0 DEF WizardInv, OneRun
<1>7. Current' BY <1>0, <1>2 DEF WizardInv, Current, gates, begin
<1>8. Starts' BY <1>0 DEF Starts
<1> QED BY <1>3, <1>5, <1>6, <1>7, <1>8 DEF WizardInv

(* Next waits for the round's own record, so the round arrived on has the  *)
(* closing world it starts from.                                           *)
LEMMA Arrives ==
    ASSUME WizardInv, PressNext, screen = "generating"
    PROVE  /\ gate = None \/ ~(round' >= FirstPass)
           /\ \A k \in Lapses : round' >= round_of(k) => slot[k] # None
           /\ \A k \in Lapses : run[k] # None => round' <= round_of(k)
<1>t. TypeOK BY DEF WizardInv
<1>0. /\ at = "press" /\ ~dirty /\ ~next_waits /\ round' = round + 1 /\ round \in Int
      BY <1>t, Rounds DEF PressNext, pressing, WizardInv, Places, TypeOK
<1>1. round = LifeRound => gate = None /\ slot[0] # None BY <1>0 DEF next_waits
<1>2. \A k \in Lapses : round = round_of(k) => record[k] # None /\ run[k] = None
      BY <1>0 DEF next_waits
<1>3. gate = None \/ ~(round' >= FirstPass)
      BY <1>0, <1>1, Rounds DEF WizardInv, Starts
<1>4. ASSUME NEW k \in Lapses, round' >= round_of(k) PROVE slot[k] # None
  <2>1. CASE round >= round_of(k) BY <1>0, <2>1 DEF WizardInv, Starts
  <2>2. CASE ~(round >= round_of(k)) /\ k = 0
    <3>1. round = LifeRound BY <1>0, <1>4, <2>2, Rounds DEF round_of
    <3> QED BY <1>1, <2>2, <3>1
  <2>3. CASE ~(round >= round_of(k)) /\ k # 0
    <3>1. PICK j \in Lapses : k = j + 1 /\ j # Last BY <2>3, Rounds
    <3>2. round = round_of(j) BY <1>0, <1>4, <2>3, <3>1, Rounds DEF round_of
    <3>3. record[j] # None BY <1>2, <3>2
    <3> QED BY <1>0, <3>1, <3>3 DEF WizardInv, Starts
  <2> QED BY <2>1, <2>2, <2>3
<1>5. ASSUME NEW k \in Lapses, run[k] # None PROVE round' <= round_of(k)
  <2>1. round <= round_of(k) /\ round # round_of(k) BY <1>2, <1>5 DEF WizardInv, OneRun
  <2> QED BY <1>0, <2>1, Rounds DEF round_of
<1> QED BY <1>3, <1>4, <1>5

LEMMA Shift == ASSUME NEW a \in Int, NEW b \in Int, a = b - 3 PROVE b = 3 + a
OBVIOUS

LEMMA PressNextInv == ASSUME WizardInv, PressNext, screen = "generating" PROVE WizardInv'
<1>t. TypeOK BY DEF WizardInv
<1>0. /\ UNCHANGED <<screen, quick, dirty, pending, presses, slot, stale, gates, begin, ground>>
      /\ at = "press" /\ at' = "top" /\ ~dirty /\ round' = round + 1
      BY DEF PressNext, pressing, WizardInv, Places
<1>1. round' \in 0 .. LastRound BY <1>t, <1>0, Rounds DEF PressNext, TypeOK
<1>2. /\ gate = None \/ ~(round' >= FirstPass)
      /\ \A k \in Lapses : round' >= round_of(k) => slot[k] # None
      /\ \A k \in Lapses : run[k] # None => round' <= round_of(k)
      BY Arrives
<1>3. CASE UNCHANGED <<record, run, wiz_world, world_pending>>
  <2>1. TypeOK' BY <1>t, <1>0, <1>1, <1>3 DEF TypeOK, gates, begin
  <2>2. Places' BY <1>0, <1>3 DEF WizardInv, Places, gates, begin
  <2>3. OneRun' BY <1>2, <1>3 DEF WizardInv, OneRun
  <2>4. Current' BY <1>0, <1>3 DEF WizardInv, Current, gates, begin
  <2>5. Starts' BY <1>0, <1>2, <1>3 DEF WizardInv, Starts, gates
  <2> QED BY <2>1, <2>2, <2>3, <2>4, <2>5 DEF WizardInv
<1>4. CASE ~UNCHANGED <<record, run, wiz_world, world_pending>>
  <2>1. PICK i \in Lapses :
          i = round' - FirstPass /\ LaunchRound(i, run, record, wiz_world, world_pending)
        BY <1>4 DEF PressNext
  <2>2. round' = round_of(i) /\ round' >= round_of(i) /\ round' <= round_of(i)
    <3>1. i \in Int BY Rounds
    <3>2. round' \in Int BY <1>1
    <3>3. i = round' - 3 BY <2>1, Rounds
    <3>4. round_of(i) = 3 + i BY Rounds DEF round_of
    <3>5. round' = 3 + i BY <3>1, <3>2, <3>3, Shift
    <3> QED BY <3>2, <3>4, <3>5
  <2>3. slot[i] # None BY <1>2, <2>2
  <2>5. /\ run' \in [Lapses -> Run \cup {None}]
        /\ record' \in [Lapses -> Worlds \cup {None}]
        /\ wiz_world' \in Slot \cup {None} /\ world_pending' \in BOOLEAN
        /\ \A j, k \in Lapses : run'[j] # None /\ run'[k] # None => j = k
        /\ \A k \in Lapses : k # i => run'[k] = run[k]
        /\ \A k \in Lapses : record'[k] # None => record[k] # None
        /\ Current'
        BY <1>0, <2>1, <2>3, LaunchNext
  <2>6. TypeOK' BY <1>t, <1>0, <1>1, <2>5 DEF TypeOK, gates, begin
  <2>7. Places' BY <1>0, <2>5 DEF WizardInv, Places, gates, begin
  <2>8. OneRun' BY <1>2, <2>2, <2>5 DEF OneRun
  <2>9. Starts' BY <1>0, <1>2, <2>5 DEF WizardInv, Starts, gates
  <2> QED BY <2>5, <2>6, <2>7, <2>8, <2>9 DEF WizardInv
<1> QED BY <1>3, <1>4

(* Begin adopts, waits or builds cold, never two of them. *)
LEMMA BeginInv == ASSUME WizardInv, Begin, screen = "generating" PROVE WizardInv'
<1>t. TypeOK BY DEF WizardInv
<1>0. /\ UNCHANGED <<round, dirty, pending, presses, record, run, stale, gates, world, ground>>
      /\ at = "press" /\ at' = "top" /\ ~dirty /\ screen' = "building" /\ quick' = FALSE
      /\ UNCHANGED world_pending
      /\ begin_waits' = (run[Last] # None)
      BY DEF Begin, pressing, WizardInv, Places
<1>1. slot' \in [Lapses -> Slot \cup {None}] /\ \A k \in Lapses : slot'[k] = None
      BY DEF Begin
<1>2. cold = None /\ worldgen_slot = None /\ world = None BY DEF WizardInv, Places
<1>3. /\ wiz_world' \in {wiz_world, None}
      /\ worldgen_slot' = None \/ (run[Last] = None /\ cold' = None /\ adoptable /\ worldgen_slot' = wiz_world)
      /\ cold' = None \/ (run[Last] = None /\ worldgen_slot' = None /\ cold' = build_of(pending))
      BY <1>2 DEF Begin
<1>4. worldgen_slot' # None => worldgen_slot'.world = whole(pending) /\ run[Last] = None
      BY <1>0, <1>3 DEF WizardInv, Current
<1>5. pending \in Params /\ build_of(pending) \in Build /\ build_of(pending).params = pending
      BY <1>t, BuildType DEF TypeOK
<1>6. wiz_world' \in Slot \cup {None} /\ worldgen_slot' \in Slot \cup {None} /\ cold' \in Build \cup {None}
      BY <1>t, <1>3, <1>5 DEF TypeOK
<1>7. TypeOK' BY <1>t, <1>0, <1>1, <1>6 DEF TypeOK, gates
<1>8. Places' BY <1>0, <1>2, <1>3, <1>4 DEF WizardInv, Places
<1>9. OneRun' BY <1>0 DEF WizardInv, OneRun
<1>10. Current' BY <1>0, <1>1, <1>3, <1>4, <1>5 DEF WizardInv, Current, gates
<1>11. Starts' BY <1>0 DEF Starts
<1> QED BY <1>7, <1>8, <1>9, <1>10, <1>11 DEF WizardInv

-----------------------------------------------------------------------------
(* Behind the loading screen, and the menu's way in.                       *)

LEMMA WaitPollsInv == ASSUME WizardInv, WaitPolls, screen = "building" PROVE WizardInv'
<1>0. /\ UNCHANGED <<player, held, rounds, gates, begin, ground>> /\ at' = "rounds" /\ begin_waits
      /\ ~dirty
      BY DEF WaitPolls, WizardInv, Places
<1>1. TypeOK' BY <1>0 DEF WizardInv, TypeOK, player, held, rounds, gates, begin
<1>2. Places' BY <1>0 DEF WizardInv, Places, player, held, rounds, gates, begin
<1>3. OneRun' BY <1>0 DEF WizardInv, OneRun, player, rounds
<1>4. Current' BY <1>0 DEF WizardInv, Current, player, held, rounds, gates, begin
<1>5. Starts' BY <1>0 DEF WizardInv, Starts, player, held, gates
<1> QED BY <1>1, <1>2, <1>3, <1>4, <1>5 DEF WizardInv

LEMMA WholeWorld == ASSUME NEW p \in Params
                    PROVE  whole(p) \in Worlds /\ whole(p)[0] = stage_input(p, 0)
<1>1. Last + 1 \in 0 .. Last + 1 BY Rounds
<1> QED BY <1>1, UptoType, UptoAt DEF whole

(* A wait that is over takes round 6's world, or builds what it would have been. *)
LEMMA WaitOverInv == ASSUME WizardInv, WaitOver, screen = "building" PROVE WizardInv'
<1>t. TypeOK BY DEF WizardInv
<1>0. /\ UNCHANGED <<round, quick, dirty, pending, presses, slot, record, rounds, gates>>
      /\ at = "begin" /\ at' = "top" /\ ~dirty /\ begin_waits
      /\ cold = None /\ worldgen_slot = None /\ world = None /\ pending \in Params
      BY <1>t DEF WaitOver, WizardInv, Places, TypeOK
<1>1. OneRun' BY <1>0 DEF WizardInv, OneRun, rounds
<1>2. CASE run[Last] # None
  <2>1. UNCHANGED <<begin, screen, wiz_world, ground>> BY <1>2 DEF WaitOver
  <2>2. TypeOK' BY <1>t, <1>0, <2>1 DEF TypeOK, rounds, gates, begin
  <2>3. Places' BY <1>0, <2>1 DEF WizardInv, Places, rounds, begin
  <2>4. Current' BY <1>0, <2>1 DEF WizardInv, Current, rounds, gates, begin
  <2>5. Starts' BY <2>1 DEF Starts
  <2> QED BY <1>1, <2>2, <2>3, <2>4, <2>5 DEF WizardInv
<1>3. CASE run[Last] = None /\ adoptable
  <2>1. begin_waits' = FALSE /\ wiz_world' = None /\ world' = wiz_world.world /\ screen' = "seat"
        /\ ground' = wiz_world.world /\ worldgen_slot' = None /\ cold' = None
        BY <1>0, <1>3 DEF WaitOver, taken_into_play
  <2>2. wiz_world.world = whole(pending) BY <1>0, <1>3 DEF WizardInv, Current, adoptable
  <2>3. whole(pending) \in Worlds /\ whole(pending)[0] = stage_input(pending, 0)
        BY <1>0, WholeWorld
  <2>4. TypeOK' BY <1>t, <1>0, <2>1, <2>2, <2>3 DEF TypeOK, rounds, gates
  <2>5. Places' BY <1>0, <2>1 DEF Places
  <2>6. Current' BY <1>0, <2>1, <2>2, <2>3 DEF WizardInv, Current, rounds, gates
  <2>7. Starts' BY <2>1 DEF Starts
  <2> QED BY <1>1, <2>4, <2>5, <2>6, <2>7 DEF WizardInv
<1>4. CASE run[Last] = None /\ ~adoptable
  <2>1. begin_waits' = FALSE /\ wiz_world' = None /\ cold' = build_of(pending)
        /\ UNCHANGED <<screen, worldgen_slot, world, ground>>
        BY <1>4 DEF WaitOver
  <2>2. build_of(pending) \in Build /\ build_of(pending).params = pending BY <1>0, BuildType
  <2>3. TypeOK' BY <1>t, <1>0, <2>1, <2>2 DEF TypeOK, rounds, gates
  <2>4. Places' BY <1>0, <1>4, <2>1 DEF Places, rounds
  <2>5. Current' BY <1>0, <2>1, <2>2 DEF WizardInv, Current, rounds, gates
  <2>6. Starts' BY <2>1 DEF Starts
  <2> QED BY <1>1, <2>3, <2>4, <2>5, <2>6 DEF WizardInv
<1> QED BY <1>2, <1>3, <1>4

LEMMA TakeWorldInv == ASSUME WizardInv, TakeWorld, screen = "building" PROVE WizardInv'
<1>t. TypeOK BY DEF WizardInv
<1>0. /\ UNCHANGED <<at, round, quick, dirty, pending, presses, held, rounds, gates, begin_waits>>
      /\ at = "top" /\ ~dirty /\ ~begin_waits /\ pending \in Params
      BY <1>t DEF TakeWorld, WizardInv, Places, TypeOK
<1>1. /\ world' = whole(pending) /\ screen' = "seat" /\ ground' = whole(pending)
      /\ worldgen_slot' = None /\ cold' = None
  <2>1. CASE worldgen_slot # None
    <3>1. cold = None BY <2>1 DEF WizardInv, Places
    <3>2. worldgen_slot.world = whole(pending) BY <1>0, <2>1 DEF WizardInv, Current
    <3> QED BY <2>1, <3>1, <3>2 DEF TakeWorld, taken_into_play
  <2>2. CASE worldgen_slot = None
    <3>1. cold # None BY <2>2 DEF TakeWorld, ready
    <3>2. cold.params = pending BY <1>0, <3>1 DEF WizardInv, Current
    <3> QED BY <2>2, <3>2 DEF TakeWorld, taken_into_play
  <2> QED BY <2>1, <2>2
<1>2. whole(pending) \in Worlds /\ whole(pending)[0] = stage_input(pending, 0) BY <1>0, WholeWorld
<1>3. TypeOK' BY <1>t, <1>0, <1>1, <1>2 DEF TypeOK, held, rounds, gates
<1>4. Places' BY <1>0, <1>1 DEF Places
<1>5. OneRun' BY <1>0 DEF WizardInv, OneRun, rounds
<1>6. Current' BY <1>0, <1>1, <1>2 DEF WizardInv, Current, held, rounds, gates
<1>7. Starts' BY <1>1 DEF Starts
<1> QED BY <1>3, <1>4, <1>5, <1>6, <1>7 DEF WizardInv

(* The menu opens on parameters to be read afresh. *)
LEMMA OpenInv == ASSUME WizardInv, Open PROVE WizardInv'
<1>t. TypeOK BY DEF WizardInv
<1>0. /\ UNCHANGED <<pending, presses, at, held, rounds, gates, begin, ground>>
      /\ screen' = "generating" /\ round' = 0 /\ dirty' = TRUE /\ quick' \in BOOLEAN
      /\ at = "top" /\ ~begin_waits /\ cold = None /\ worldgen_slot = None /\ world = None
      BY <1>t DEF Open, WizardInv, Places, TypeOK
<1>1. 0 \in 0 .. LastRound /\ 0 <= LifeRound /\ \A k \in Lapses : 0 <= round_of(k)
      BY Rounds DEF round_of
<1>2. TypeOK' BY <1>t, <1>0, <1>1 DEF TypeOK, held, rounds, gates, begin
<1>3. Places' BY <1>0, <1>1 DEF Places, begin
<1>4. OneRun' BY <1>0, <1>1 DEF WizardInv, OneRun, rounds
<1>5. Current' BY <1>0 DEF Current
<1>6. Starts' BY <1>0 DEF Starts
<1> QED BY <1>2, <1>3, <1>4, <1>5, <1>6 DEF WizardInv

(* A frame, and then any step, keeps the invariant. *)
LEMMA FrameInv == ASSUME WizardInv, Frame PROVE WizardInv'
<1>1. CASE /\ screen = "generating"
           /\ Refresh \/ PollSurface \/ PollRounds \/ PollRecord \/ PollWorld \/ StartRound \/ Press
  <2>1. CASE Refresh BY <1>1, <2>1, RefreshInv
  <2>2. CASE PollSurface BY <1>1, <2>2, PollSurfaceInv
  <2>3. CASE PollRounds BY <1>1, <2>3, PollRoundsInv
  <2>4. CASE PollRecord BY <1>1, <2>4, PollRecordInv
  <2>5. CASE PollWorld BY <1>1, <2>5, PollWorldInv
  <2>6. CASE StartRound BY <1>1, <2>6, StartRoundInv
  <2>7. CASE NoPress BY <1>1, <2>7, NoPressInv
  <2>8. CASE MoveGround BY <1>1, <2>8, MoveGroundInv
  <2>9. CASE Reroll BY <1>1, <2>9, RerollInv
  <2>10. CASE Lean BY <1>1, <2>10, LeanInv
  <2>11. CASE Back BY <1>1, <2>11, BackInv
  <2>12. CASE LeaveForMenu BY <1>1, <2>12, LeaveForMenuInv
  <2>13. CASE PressNext BY <1>1, <2>13, PressNextInv
  <2>14. CASE Begin BY <1>1, <2>14, BeginInv
  <2> QED BY <1>1, <2>1, <2>2, <2>3, <2>4, <2>5, <2>6, <2>7, <2>8, <2>9, <2>10, <2>11, <2>12,
             <2>13, <2>14 DEF Press
<1>2. CASE /\ screen = "building"
           /\ WaitPolls \/ PollRounds \/ PollRecord \/ PollWorld \/ WaitOver \/ TakeWorld
  <2>1. CASE WaitPolls BY <1>2, <2>1, WaitPollsInv
  <2>2. CASE PollRounds BY <1>2, <2>2, PollRoundsInv
  <2>3. CASE PollRecord BY <1>2, <2>3, PollRecordInv
  <2>4. CASE PollWorld BY <1>2, <2>4, PollWorldInv
  <2>5. CASE WaitOver BY <1>2, <2>5, WaitOverInv
  <2>6. CASE TakeWorld BY <1>2, <2>6, TakeWorldInv
  <2> QED BY <1>2, <2>1, <2>2, <2>3, <2>4, <2>5, <2>6
<1> QED BY <1>1, <1>2 DEF Frame

LEMMA StepInv == WizardInv /\ [Next]_vars => WizardInv'
<1> SUFFICES ASSUME WizardInv, [Next]_vars PROVE WizardInv' OBVIOUS
<1>1. CASE Frame BY <1>1, FrameInv
<1>2. CASE Open BY <1>2, OpenInv
<1>3. ASSUME NEW i \in Lapses, RoundWorker(i) PROVE WizardInv' BY <1>3, WorkerInv
<1>4. CASE BuildsGate BY <1>4, GateInv
<1>5. CASE BuildsCold BY <1>5, ColdInv
<1>6. CASE UNCHANGED vars
  <2>0. UNCHANGED <<player, at, held, rounds, gates, begin, ground>> BY <1>6 DEF vars
  <2>1. TypeOK' BY <2>0 DEF WizardInv, TypeOK, player, held, rounds, gates, begin
  <2>2. Places' BY <2>0 DEF WizardInv, Places, player, held, rounds, gates, begin
  <2>3. OneRun' BY <2>0 DEF WizardInv, OneRun, player, rounds
  <2>4. Current' BY <2>0 DEF WizardInv, Current, player, held, rounds, gates, begin
  <2>5. Starts' BY <2>0 DEF WizardInv, Starts, player, held, gates
  <2> QED BY <2>1, <2>2, <2>3, <2>4, <2>5 DEF WizardInv
<1> QED BY <1>1, <1>2, <1>3, <1>4, <1>5, <1>6 DEF Next

(* The inductive invariant: where the player is, that one round runs and   *)
(* none above the player, that whatever is held or under way and not stale *)
(* is of the pending parameters, and that the round on screen has its      *)
(* start.                                                                  *)
THEOREM WizardInvariant == Spec => []WizardInv
<1>1. Init => WizardInv BY InitInv
<1>2. WizardInv /\ [Next]_vars => WizardInv' BY StepInv
<1> QED BY <1>1, <1>2, PTL DEF Spec

(* The model's variables keep their types (src/core/app.hpp,               *)
(* src/ui/startup_screens.cpp).                                            *)
THEOREM WizardTyped == Spec => []TypeOK
<1>1. WizardInv => TypeOK BY DEF WizardInv
<1> QED BY <1>1, WizardInvariant, PTL

(* The world poll_worldgen takes into play is the one begin_new_game's     *)
(* parameters make, adopted or built cold.                                 *)
THEOREM PlayedIsAsked == Spec => []PlaysWhatWasAsked
<1>1. WizardInv => PlaysWhatWasAsked
      BY DEF WizardInv, Places, Current, PlaysWhatWasAsked
<1> QED BY <1>1, WizardInvariant, PTL

(* Nothing poll_wizard_surface and poll_wizard_history took in, and no     *)
(* press left behind, is of parameters the player has moved away from.     *)
THEOREM HeldCurrent == Spec => []HeldIsCurrent
<1>1. WizardInv => HeldIsCurrent
      BY DEF WizardInv, Current, SlotGood, HeldIsCurrent
<1> QED BY <1>1, WizardInvariant, PTL

(* One pass round builds at a time, no cold build beside round 6, and      *)
(* Begin waits only for a run it will adopt or one already stale.          *)
THEOREM NoTwoBuilds == Spec => []OneBuild
<1>1. WizardInv => OneBuild
  <2> SUFFICES ASSUME WizardInv PROVE OneBuild OBVIOUS
  <2>1. \A i, j \in Lapses : run[i] # None /\ run[j] # None => i = j BY DEF WizardInv, OneRun
  <2>2. cold # None => run[Last] = None BY DEF WizardInv, Places
  <2>3. ASSUME begin_waits, run[Last] # None, ~stale[Last]
        PROVE  world_pending /\ run[Last].params = pending
    <3>1. screen = "building" /\ ~dirty BY <2>3 DEF WizardInv, Places
    <3>2. Last \in Lapses BY Rounds
    <3> QED BY <2>3, <3>1, <3>2 DEF WizardInv, Current, RunGood
  <2> QED BY <2>1, <2>2, <2>3 DEF OneBuild
<1> QED BY <1>1, WizardInvariant, PTL

-----------------------------------------------------------------------------
(* Going forward recomputes nothing.                                       *)

(* A run that appears is the launched round's, and starts from its slot.   *)
LEMMA LaunchCarries ==
    ASSUME WizardInv', ~dirty', screen' = "generating",
           NEW i \in Lapses, round' >= round_of(i), NEW runs \in [Lapses -> Run \cup {None}],
           NEW records, NEW finished, NEW claim, LaunchRound(i, runs, records, finished, claim),
           NEW k \in Lapses, runs[k] = None, run'[k] # None
    PROVE  slot'[k] # None /\ run'[k].start = slot'[k]
<1>1. run' = [runs EXCEPT ![i] = fresh_run(slot', pending', i)] \/ run' = runs
      BY DEF LaunchRound
<1>2. k = i /\ run'[i] = fresh_run(slot', pending', i) BY <1>1
<1>3. slot'[i] # None BY DEF WizardInv, Starts
<1>4. slot' \in [Lapses -> Slot \cup {None}] /\ pending' \in Params BY DEF WizardInv, TypeOK
<1>5. SlotGood(slot'[i], i, pending') BY <1>3 DEF WizardInv, Current
<1> QED BY <1>2, <1>3, <1>4, <1>5, FreshGood

(* No other step makes a run appear. *)
LEMMA StepCarries ==
    ASSUME WizardInv, WizardInv', [Next]_vars, NEW k \in Lapses, run[k] = None, run'[k] # None
    PROVE  slot'[k] # None /\ run'[k].start = slot'[k]
<1>t. TypeOK /\ TypeOK' BY DEF WizardInv
<1>r. run \in [Lapses -> Run \cup {None}] BY <1>t DEF TypeOK
<1>1. CASE StartRound /\ screen = "generating"
  <2>1. UNCHANGED player /\ ~dirty /\ run # run' BY <1>1 DEF StartRound, WizardInv, Places
  <2>2. PICK i \in Lapses : i = round - FirstPass /\ LaunchRound(i, run, record, wiz_world, world_pending)
        BY <1>1, <2>1 DEF StartRound
  <2>3. round' >= round_of(i)
    <3>1. i \in Int /\ round' = round /\ round \in Int BY <1>t, <2>1, Rounds DEF player, TypeOK
    <3>2. i = round - 3 BY <2>2, Rounds
    <3>3. round = 3 + i BY <3>1, <3>2, Shift
    <3>4. round_of(i) = 3 + i BY Rounds DEF round_of
    <3> QED BY <3>1, <3>3, <3>4
  <2>4. ~dirty' /\ screen' = "generating" BY <1>1, <2>1 DEF player
  <2> QED BY <1>r, <2>2, <2>3, <2>4, LaunchCarries
<1>2. CASE PressNext /\ screen = "generating"
  <2>1. ~dirty' /\ screen' = "generating" /\ run # run'
        BY <1>2 DEF PressNext, pressing, WizardInv, Places
  <2>2. PICK i \in Lapses : i = round' - FirstPass /\ LaunchRound(i, run, record, wiz_world, world_pending)
        BY <1>2, <2>1 DEF PressNext
  <2>3. round' >= round_of(i)
    <3>1. i \in Int /\ round' \in Int BY <1>t, Rounds DEF TypeOK
    <3>2. i = round' - 3 BY <2>2, Rounds
    <3>3. round' = 3 + i BY <3>1, <3>2, Shift
    <3>4. round_of(i) = 3 + i BY Rounds DEF round_of
    <3> QED BY <3>1, <3>3, <3>4
  <2> QED BY <1>r, <2>1, <2>2, <2>3, LaunchCarries
<1>3. CASE (Reroll \/ Lean) /\ screen = "generating"
  <2>1. \E i \in Lapses : \E p : RunAgain(i, p)
    <3>1. Empires \in Lapses BY Rounds
    <3> QED BY <1>3, <3>1 DEF Reroll, Lean
  <2>i. PICK i \in Lapses : \E p : RunAgain(i, p) BY <2>1
  <2>2. /\ ~dirty' /\ screen' = "generating" /\ round' = round_of(i)
        /\ LaunchRound(i, superseded(i), kept_records(i), None, FALSE)
    <3>1. PICK p : RunAgain(i, p) BY <2>i
    <3>2. /\ pressing /\ round = round_of(i) /\ screen' = screen /\ round' = round /\ dirty' = dirty
          /\ LaunchRound(i, superseded(i), kept_records(i), None, FALSE)
          BY <3>1 DEF RunAgain
    <3> QED BY <1>3, <3>2 DEF pressing, WizardInv, Places
  <2>3. round' >= round_of(i)
    <3>1. round_of(i) \in Int BY Rounds DEF round_of
    <3> QED BY <2>2, <3>1
  <2>4. superseded(i) \in [Lapses -> Run \cup {None}] /\ superseded(i)[k] = None
        BY <1>t, Superseded
  <2> DEFINE runs == superseded(i)
             records == kept_records(i)
             claim == FALSE
             finished == None
  <2>5. runs \in [Lapses -> Run \cup {None}] /\ runs[k] = None
        /\ LaunchRound(i, runs, records, finished, claim)
        BY <2>2, <2>4
  <2> HIDE DEF runs, records, claim, finished
  <2> QED BY <2>2, <2>3, <2>5, LaunchCarries
<1>4. CASE Refresh
  <2>1. run' = run \/ run' = superseded(0) BY <1>4 DEF Refresh, rounds
  <2>2. 0 \in Lapses BY Rounds
  <2> QED BY <1>t, <2>1, <2>2, Superseded
<1>5. CASE PollRounds BY <1>5 DEF PollRounds
<1>6. CASE PollRecord BY <1>6, <1>r DEF PollRecord, record_ready
<1>7. CASE PollWorld BY <1>7, <1>r DEF PollWorld
<1>8. ASSUME NEW i \in Lapses, RoundWorker(i) PROVE FALSE
  <2>1. PICK r : MovesOn(i, r) BY <1>8, WorkerMoves
  <2> QED BY <1>r, <2>1 DEF MovesOn
<1>9. CASE run' = run BY <1>9
<1>10. CASE \/ PollSurface \/ NoPress \/ MoveGround \/ Back \/ LeaveForMenu \/ Begin
            \/ WaitPolls \/ WaitOver \/ TakeWorld \/ Open \/ BuildsGate \/ BuildsCold
            \/ UNCHANGED vars
       BY <1>9, <1>10 DEF PollSurface, NoPress, MoveGround, Back, LeaveForMenu, Begin, WaitPolls,
          WaitOver, TakeWorld, Open, BuildsGate, BuildsCold, vars, rounds
<1> QED BY <1>1, <1>2, <1>3, <1>4, <1>5, <1>6, <1>7, <1>8, <1>10 DEF Next, Frame, Press

(* Every round, started, held back or run again, takes the closing world   *)
(* of the round before it (launch_wizard_history_run).                     *)
THEOREM ForwardCarries == Spec => CarriesOn
<1>1. WizardInv /\ WizardInv' /\ [Next]_vars
        => [\A i \in Lapses : run[i] = None /\ run'[i] # None =>
              slot'[i] # None /\ run'[i].start = slot'[i]]_vars
      BY StepCarries
<1> QED BY <1>1, WizardInvariant, PTL DEF Spec, CarriesOn
=============================================================================
