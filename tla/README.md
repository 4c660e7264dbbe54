# A verification project for Project Io

Project Io (`src/`) is a near-future grand strategy game in C++: a world of nations, companies and
bodies that steps by the day and by the ninety-day quarter, a desktop application around it, and a
line protocol through which an agent outside the process plays.  This directory holds TLA+ modules of
the parts of it whose correctness depends on the order of things, the TLC configurations that check
them on small instances, and theorems about them that TLAPS proves.

`PROJECT.json` is the index: the components, the runs, the mutated definitions each property is known
to notice, the source lines each definition models, the findings, the hazards and the theorems.

## 1. The system

The simulation is single-threaded: one frame loop (`app::run`, `src/src/core/app.cpp`) moves everything
on.  A frame, in order: pump the agent seam; tick the clock; advance orbits; advance surveys by the
whole days crossed; walk the quarter's days that have passed (construction, then the military); and, for
every quarter the clock crossed, drain the agent's commands, step the economy and walk the days of the new
quarter that are already gone.  Between frames the player's panels issue *verbs* through the command
seam (`apply_corp_command`), which validates everything first and mutates nothing on a refusal.

| component | state it keeps | operations | talks to |
|---|---|---|---|
| stance (`world/stance.cpp`) | hostile rows (directed), friendships, pending offers | declare_hostile, offer/accept_friendship, return_to_neutral | read by war, battles, marches |
| war and peace (`world/war.cpp`) | wars, offers, refusals, truces, history, exhaustion | declare, answer, offer/accept/refuse/impose peace, quarter | writes stances, tile owners, holders, closes battles |
| land battles and the march (`world/battle_system.cpp`, `run_military_day`) | units and their orders, live battles, military holder of a province | muster, march, halt, disband, open, day, withdraw, advance, conclude | hostile rows, war records |
| command seam (`world/corp_command.cpp`) | none | some sixty verbs | every table |
| agent seam (`core/agent_seam.cpp`) | socket, lines, deferred commands, tick pending, output, transcript | pump, drain at a boundary, answer a tick | frame loop, clock |
| agent protocol, headless server (`core/agent_protocol.cpp`, `main.cpp`) | the standard input's lines | service a line, step a quarter | command seam |
| frame loop (`core/app.cpp`) | last survey day, last quarter | frame, save, load | all of the above |
| simulation clock (`core/sim_loop.cpp`) | speed, accumulator, counters, continuous days | tick, advance_days, restore | frame loop |
| surveys (`world/survey_system.cpp`) | a phase, days left and regions done per body | init, dispatch, advance, eta | clock |
| construction, quarter walk (`world/economy_system.cpp`) | day cursor, site fields | place, walk days, close quarter, set rates | march, field days, markets |
| markets, trade, convoys, logistic points | stocks, orders, reservations, convoys | clear, dispatch, credit | treasury |
| treasury, budget, law; state industry | money, allocations | a quarter's transfers | markets |
| nation and company AI | none | choose verbs | command seam |
| recruits, units and supply (`world/recruits.cpp`) | heads drawn, three pools a nation, musters, units, wings | recruit, hire, refill, refund, lose, decommission | population centres, the economy step, cessions |
| research; fronts and air combat; sentiment | progress, missions, moods | quarter and day passes | command seam |
| world generation, campaign assembly | the world | one long function of a seed, on a worker thread | the wizard, through a future |
| new-world wizard and Begin (`ui/startup_screens.cpp`, `core/app.hpp`, `core/app.cpp`) | the pending parameters, a slot and a record for each round, futures with a stop flag | reroll, lean, Back, Next, leave, Begin; poll, land, wait, adopt | world generation, the ground layer's pre-bake |
| ground layer (`core/ground_layer.cpp`) | job and result queues, a snapshot, a table of hashes and the painted chunks of each body, disk writes | bake, sweep, patch, evict, pre-bake, forget | renderer; the wizard; the frame loop pumps it |
| save and load | a file | write, read, restore | all tables |
| user interface, scripting, session history | panels; read-only registries; logs | draw, read once, append | command seam |

What is hard in it:

* **Verbs of several actors in any order.**  Two or more nations declare, offer, accept, fight and cede,
  each verb reading tables that the others wrote; what was checked when an offer was made may be
  false when it is taken.
* **One military day, many units.**  A day fights every battle, moves every unit and then opens the battles
  that the moves asked for.  Each loop reads tiles that an earlier unit of the same loop has just left or
  taken, and a unit may be listed in several battles at once.
* **One clock, several hosts.**  The live loop cuts a quarter into frames, the headless server steps it
  whole, the agent releases quarters of a paused clock, and all should agree.
* **Two calendars.**  The step counter and the continuous clock move apart, and different parts
  of the game read different ones.
* **A peer that fails.**  The agent may send without reading, go away between a command and its result,
  or be replaced.
* **Time that runs out.**  Truces, cooldowns, quarters and regions all end on a given tick or day.
* **Save and load.**  A load replaces the world in a process with a past of its own.
* **Workers that cannot be recalled.**  The ground layer's threads bake from snapshots while the world moves and
  while worlds are replaced; the wizard's builds run on while the player rerolls, steps back or begins.  What a
  result is still good for is decided when it lands.
* **Books kept by hand.**  Counts of jobs and of finished chunks, and men counted in heads, thousands, pools, crews and
  establishments, each moved in several places.

The properties that make each part correct are named in section 3; the hazards behind them, each at its
line, are in `PROJECT.json`.

## 2. The modules

### War (`War.tla`, `WarMC.tla`, `WarProofs.tla`)

The tables `world` keeps are the variables, under their names (`corp_hostile_pairs`,
`corp_friend_pairs`, `corp_friend_offers`, `wars`, `peace_offers`, `peace_refusals`, `truces`,
`war_history`, `province_holder`, `battles`, `current_econ_tick`); `tile_owner` is what
`province_owner` reads off the tiles.  A map of the code is a function on the set of its keys, so
a row that is absent is absent.  A canonical pair is a set of two nations.

Each verb is an action: its guard is everything the verb validates and the seam's own conditions (the
stance verbs are refused toward a nation at war or, for hostility, under a truce).  The order of the checks only chooses the
error that is returned; a refused verb is a stuttering step.  `conclude_peace` is one step, as
it is one call: cession, return of the occupied goals, closing of battles, and the rows of every table.
A battle has an arbitrary outcome each day (`battle_day`, `battle_concludes`), which is more
than the resolver can produce; `loser_remains` is the case where the beaten side still has a unit
in the province and the holder stays.  The war score is computed exactly, in integers:
`llround` of halves of two shares is what the code's doubles come to at these sizes.

`WarTables` gathers what the tables of a pair must agree on: one war (`OneWarPerPair`), hostile on the declarer's side and on
both once answered (`WarIsHostile`), offers and refusals only on open wars (`OffersOnOpenWars`).
`TermsRunOut` gathers the two clocks of a peace: a truce runs its course, a refused offer waits.

### The field (`Field.tla`, `FieldMC.tla`, `FieldProofs.tla`)

`War` takes a battle's outcome as given; `Field` is where battles come from.  Its variables are
`units` (tile, order, and whether the unit can fight, is spent or is dead), `battles` (the two lists, the units
that lead the attack, the request to withdraw), the hostile rows, the holders, the musters that are due, and
the list of attacks the day's march has registered.

`run_military_day` is one call in the code and many steps here: `phase` is the loop it is in, `todo` what that
loop has still to visit, and `leave` and `visited` are the locals of `withdraw_units`' walk.  The visiting order
is the code's: mobilised nations' units first, then by id; battles by tile, attacker, defender.

| action | code |
|---|---|
| `march_unit`, `halt_unit`, `disband_unit`, `request_withdraw`, `declare_hostile`, `return_to_neutral` | the verbs of `corp_command.cpp`, between two days |
| `conclude_peace`, `withdraw_units`, `withdrawn` | a peace: the pair's battles close, its occupied goals go back, the units walk out step by step |
| `advance_musters` | a unit that is raised, on its base's tile, once no foreign unit stands there |
| `begin_day` | the day's start |
| `battle_day` | one battle's rounds: wear, then retreat of the beaten, advance of the victors, or the next day |
| `disband_orphaned_units` | dead units, and those that starved, leave every list |
| `march_attacks`, `march_blocked`, `march_steps`, `march_banks`, `marched` | `run_unit_march`, a hop at a time |
| `open_tile_battle` | `open_tile_battles`, one identity of tile, attacker and defender at a time |
| `recover_out_of_contact` | the end of the day |

Men, readiness, morale and supply are three states of a unit, changed in every way a round could change
them, so that any battle may end in any way.  Of equally short routes any may be taken, and of equally
near ways home.

### The agent (`AgentServe.tla`, `AgentSeam.tla`, `AgentSeamProofs.tla`)

`AgentServe` is what the protocol promises and what `run_serve` literally is: one request at a time, in
order; a TICK steps a quarter; a read changes nothing.  Its one liberty is `Close`: the unanswered
requests are lost, after some prefix of those being served has taken effect.

`AgentSeam` is the live seam inside the frame loop, at the grain of one syscall or one loop pass: `pc` is
where the frame is.  `accept_pending`, `read_client`, `classify_line` and `pump_ends` are
`agent_seam::pump`; `host_events` is the code after it that takes the clock on attach and releases a
quarter; `drain_boundary` and `step_economy` are the loop over quarters.  The peer (`connect`,
`send_line`, `peer_closes`) and the human (`set_speed`) are actions of their own that may come
between any two of those.  A send may write any part of the output buffer.  A line is its number and its
kind; the byte caps of the code are counted in lines.

`Server == INSTANCE AgentServe WITH ...` reads the seam as that server: the requests are the
deferred commands, the pending tick and the lines; a quarter of the clock is a step of the world.  The server's
`gate` says that the agent alone moves the clock: it rises when a client is served and falls (`Release`) when the human
touches the speed, and while it is up no `Quarter` passes but by a TICK.  So the refinement also says that a seated
agent never loses a quarter it did not ask for.

### The quarter (`QuarterDays.tla`, `QuarterDaysMC.tla`, `QuarterDaysProofs.tla`)

Two worlds are kept side by side, `live` and `headless`, and given the same orders and the same
decisions of the markets.  The live one is walked by `frame` and `step_economy` with any number of days
to a frame; the headless one has every quarter closed at once.  The code's milli-day arithmetic, the
construction cursor, the shortcut for days on which the military is idle, the close of the quarter,
the debt of materials and the share of a first quarter are all as in `economy_system.cpp`.
`run_construction`'s shelves are reduced to what they decide: the rate each site may have
and how much of its debt stays.  `in_step` becomes false when the live world gets an
order in mid-quarter, which a headless host cannot have received.  The code's two loops over days, a site's
(`build_days`) and the walk's (`advance_quarter_to`), are recursive functions of the day.

### Surveys (`SurveyClock.tla`, `SurveyClockMC.tla`, `SurveyClockProofs.tla`)

The clock in both of its forms (`m_sim_tick` and `m_elapsed`), the frame that advances surveys
by the whole days crossed, the survey's three phases with regions that may fall on the same day, and what
a save keeps and a load restores.  Real time is an integer, scaled so that a step at every
speed is whole.  `advance_surveys`' loop is a function of its turns: there are no more boundaries in a
survey than its regions and the arrival.

### The ground's baking pool (`GroundBake.tla`, `GroundBakeMC.tla`, `GroundBakeProofs.tla`)

The pool is `m_jobs` (waiting), `running` (in each worker's hands), `m_results`, and the two numbers kept by hand,
`m_inflight` and `m_seq_counter`.  `body`, `slot` and `page` are what `m_bodies` keeps of a body, of each of its chunks and
of its far page; `present` are the keys of `m_bodies`.  A snapshot (`bake_source`) is a value for each chunk: which
world, how often that ground has moved, and whether the Logistics lens stripped its roads.  Equal values stand for
equal hashes.  `px` is what is painted, `hash` what the slot says is painted: a patch computed against other pixels leaves
`Torn`.

| action | code |
|---|---|
| `Take`, `Finish` | `worker_main` and `run_job`, a whole bake or a patch |
| `tick`, `Leave`, `prebake`, `resnapshot`, `Open` | what the app does to the layer once a frame, on leaving a body, under the wizard, at a change of the world and when the game opens |
| `forget_world` | a new game or a load: the queues, slots and pages are cleared while workers still paint |
| `pump` | takes the results, and begins the walk `main` keeps: land, age, house, feed |
| `LandFar`, `LandSweep`, `LandMaster`, `LandOrphan` | `land`, one result at a time |
| `Drained`, `HouseKept`, `Fed` | the snapshot's age and refresh; far pages and sweeps; `feed` |
| `WorldMoves` | anything that changes the ground |

A master dropped for room (`drop_master`) is a parameter of the steps in which the code evicts.  The distance by
which chunks of one body are ordered is left out: among them any goes first.

### The wizard and Begin (`Wizard.tla`, `WizardProofs.tla`)

A world is, for each stage run so far, the parameters that stage read (`upto`, `whole`): generation is
deterministic, so two worlds are the same when these are.  The main thread's frame is the walk `at`: the
surface (`Refresh`, `PollSurface`), the rounds that landed (`PollRounds`), the record shown before the last round's roads are in
(`PollRecord`), the finished world (`PollWorld`), a start that was held back (`StartRound`), and one press: `MoveGround`,
`Reroll`, `Lean`, `Back`, `LeaveForMenu`, `PressNext`, `Begin`, or none.  `Begin` leads to the wait (`WaitPolls`,
`WaitOver`), to the cold build (`TakeWorld`), or straight to the seat.  `Open` is the menu's New World or Quick Start.  The workers are `RoundWorker(i)`
(its span, its tail, its roads and its finish, each of which looks at the stop flag), `BuildsGate` (the Life gate) and
`BuildsCold`.  `run[i]` is the future of round i with its start and its flag, `stale[i]` says its result is
to be dropped; `slot`, `record` and `wiz_world` are what is held.

### Men (`Recruits.tla`, `RecruitsMC.tla`, `RecruitsProofs.tla`)

Men move from population centres (in thousands, less `recruit_heads_taken`) to a nation's three pools, to musters, units and wings, and back.
The economy step is one call; here `phase` says which of its loops it is in and `todo` what is left of it:
`begin_tick`, `run_recruitment`, `plan_refills`, `apply_recruit_refills`, `apply_wing_refills`, `growth_pass`,
`run_population_migration`, `end_agency`, `advance_musters`, `close_tick`.  Verbs fall between steps (`phase = "open"`) or
come from an AI inside one (`"agency"`): `hire_unit`, `hire_wing`, `idle`, `resume`, `demolish`, `disband_unit`, `raze_centre`,
`complete_site`.  `cede_provinces` is what a peace does to the bases, musters, units and wings on the ground it
moves, `run_military_day` a day's losses.  Money, equipment and logistic points are reduced to how many of the planned men
arrive (`unit_refill`, `wing_refill` take any number up to the plan); where a unit stands is `Field`'s.

## 3. What the runs check

Every passing run also checks its module's type invariant.  Every property is known to fail for at
least one plausible mistake in the definition it is about; those are the definitions marked "mutant".

| run | states | asks | shows |
|---|---|---|---|
| `war_two` | 0.38 M | two nations courting, at war, in battle, at peace | `WarTables`; `TruceIsQuiet`: under a truce no battle and no hostile row of the old war; `NationKeepsGround`: no nation is ceded away; `TermsRunOut`; `GroundMovesByPeace`: ground changes owner only by a peace whose terms hold when it is taken; `PeaceReturnsGoals`: a peace returns the goals its parties hold of each other, and nothing a third holds |
| `field` | 1.51 M | three nations' units, marching and fighting over six tiles | `OneNationPerTile`; `FightsInOrder`: fighters stand on or beside their battle's tile, an order leads on from where its unit stands, a unit leads one attack at a time; `StepByStep`: nothing moves but by a step a march can take; `OrderSpentByItsBattle`: an attack ends in its battle or gives the order back |
| `agent` | 2.49 M | agent and human, commands, reads and ticks at one clock | `ImplementsServer`; `TranscriptReplays`: the transcript, replayed, is the world's history; `QueuesBounded`; `TickAnswered`: a tick is answered, its session ends or a hand takes the clock |
| `quarter_days` | 0.71 M | two sites, a march, frames of up to more than a quarter | `HostsAgree`; `WorkIsPaid`: nothing is paid past the quarter, and debt follows work; `CompletesOnItsDay`: neither early nor late, the first quarter prorated |
| `survey_clock` | 0.68 M | two bodies, two speeds, a cap | `RevealFollowsSchedule` whatever the frames; `EtaIsHonest`: the estimate is what is left |
| `ground` | 0.85 M | two bodies baked while the world moves, the view switches, masters are dropped and worlds forgotten | `PoolBooks`: no job is lost or counted twice; `PixelsMatchHash`: no patch or result lands on ground it was not made for; `CurrentShowsSource`: a body that counts as current shows its snapshot; `SettlesOnSource`: left alone, it comes to show the world |
| `wizard` | 0.39 M | every way through the rounds in three presses, builds landing whenever | `PlaysWhatWasAsked`; `HeldIsCurrent`; `OneBuild`; `CarriesOn`: a round starts from the round before it; `WaitsEnd`: Begin opens play and the round on screen lands |
| `recruits` | 0.38 M | hires, losses, refills, ceded and demolished bases, razed and resettled centres | `RaisedAtHome`: nothing answers to a base abroad; `PlanStands`: a plan made before two loops is good in both; `MenAreMoved`: no man is lost or made by recruitment, a hire, a refill or a muster's turn, but over a full pool; `MustersEnd` |

Four more runs look for a violation, and find it: they state what a comment or a document says, and the
code does otherwise.

| run | said | what happens |
|---|---|---|
| `war_friend_finding` | a nation is never both hostile and friendly toward one target | an offer pending toward a nation that is already hostile is accepted |
| `survey_load_finding` | the reveal schedule is deterministic | a load leaves the last survey day where the process had it |
| `ground_lens_finding` | a body is current when every chunk landed against the latest snapshot and that snapshot's sweep has run | the lens is switched on and off while a chunk bakes behind a full queue: it lands without its roads, and no sweep looks at it (told below) |
| `recruits_ceded_finding` | a hire queued at a base that is lost returns its recruits | a cession drops the muster and its men with it |

The trace of `ground_lens_finding`, with one worker and a queue of two:

1. The body is drawn with its roads.  The far page is in the worker's hands, chunk c2 waits, and a sweep of the snapshot is
   queued: call that snapshot S.
2. The lens goes on: the snapshot is now S without roads.  `feed` starts no sweep of it, since the one of S is still
   outstanding, and queues c1, the chunk under a road.
3. The worker finishes the sweep of S and takes c1.  The next `feed`, which has not drained that sweep yet, again starts
   none, and queues c3: with c2 and c3 the queue is full.
4. c1 is finished.  The next `pump` lands the sweep (the table is of S) and then c1.  Table and snapshot differ,
   so the landing does not mark c1 stale; and `feed` returns at the full queue before it would start a sweep.
5. The lens goes off: the snapshot is S again, the one the table was swept against.  No sweep is due.  c2 and c3
   land, and the body counts as current with c1 painted without its roads; nothing re-bakes it until the body's snapshot
   changes again.

### Bounds, and why they are enough

* War (`war_two`): two nations and three provinces, one goal to a war.  Every rule is about a pair, and `WarProofs` proves
  every property of the run for any number of nations, provinces and goals, third nations' holds included; one
  province on one side and two on the other is what "never the last" needs.  `LAST_TICK` (2), `MAX_LOST` (1), `MAX_WARS` (2)
  and `MAX_BATTLES` (1) bound ticks, losses and tables; truce and cooldown are shrunk to two ticks, so that whole ones fit.
  A run of a bounded war may stop, hence no deadlock check there.
* Field: five units of three nations on two rows of three hexes: room for a battle, a second one beside it, a third nation in
  the way and a tile to retreat to.  Routes have up to two hops (`MAX_ROUTE`), three units are under
  orders at once (`MAX_ORDERS`), three verbs or musters fall between days (`MAX_VERBS`), over
  three days (`LAST_DAY`): one to meet, one to fight, one for what the fight left.  The first
  hostile rows are any subset of `Quarrels`.  One unit may starve or lose readiness away from the enemy (`Unsupplied`).  The
  days end, hence no deadlock check.
* Agent: four lines (`MAX_LINES`) and two sessions (`MAX_PEERS`); caps of two or three lines, all of which are hit; a quarter of
  two days, three days of a free clock (`LAST_DAY`).  The system never stops, and deadlock is checked.
* Quarter: three days of three parts, so that rates of 2/3 leave fractions; sites shorter and longer
  than a quarter; a frame of up to four days crosses a boundary and more.
* Surveys: a body with several regions on a day and one with days to a region; a frame longer than the cap.
* Ground: two bodies of one chunk, a page of one piece, one worker, a queue of two, a snapshot at every pump, three moves of the
  world, the player or the app (`MaxMoves`): enough for a job to outlive its world, its slot and its view.  The chunks of
  one body may go in any order, so it takes two bodies to give the priorities their meaning.  `WorkersWhenRead` holds workers back
  to the two steps that read what they write; `GroundBakeMC` says what that leaves out, and the proofs are not so constrained.
  `Routed` is empty, so that no value of the ground comes back: the finding's run has one body with three chunks, one of
  them under a road, a snapshot at every third pump, and as its three moves the body coming on screen, the lens going on and
  the lens going off.  Three chunks are what it takes: one to be taken by the worker and two to fill the queue behind it.
* Wizard: two grounds, two leans, one reroll to a round (`MaxRoll`), three presses that change what is built
  (`MaxPresses`); Back, Next and Begin are not counted.  One press outdates a run, a second its successor, a third the press itself.
  The wizard ends at the seat, hence no deadlock check.
* Recruits: two nations, one with a military base, an airbase and two centres of one thousand (of three heads each) in one
  province, the other with an airbase still a site in another.  A unit of two men, a wing of crew two and three health, pools of at most four
  with a cap of two quarters' making, musters of two quarters, two hires, one wing, two events (`MAX_EVENTS`: verbs, losses,
  shortfalls of a treasury, growth and cessions); the quarters themselves are unbounded.  No port stands in the run; the
  proofs cover ports, and any number of shortfalls.

### Fairness

`TickAnswered`: weak fairness of the frame loop's actions taken together.  The loop
runs for as long as the game is open, never blocks on the socket (every read, write and accept is
non-blocking), and each of its passes ends.  Nothing is assumed of the peer or the human: the property
is stated for a clock no hand has touched, since a human who pauses it leaves a tick taken while it
ran unanswered for as long as the pause lasts.

`SettlesOnSource`: weak fairness of the main thread (it pumps every frame) and of each worker's taking and
finishing a job; a worker's loop waits on a condition variable that every enqueue notifies.  Moves of world and player are
bounded, which is the property's "left alone".

`WaitsEnd`: weak fairness of the frame and of each worker's next phase: a build is a function that
ends.  Nothing is assumed of the player.

`MustersEnd`: weak fairness of the economy step (quarters go on), and strong fairness of a ready muster's unit standing: the
foreign stack on a base's tile, which holds a muster back for as long as it stays, is away in some of the
quarters in which the muster is ready.  Without that a base occupied for ever holds its musters for ever, which is the code's rule.

### Observations

Some things met on the way are no runs.

* A client dropped from `drain_boundary`, `queue_response` or
  `flush_outbuf` raises no detach, so its transcript reaches the disk only at the next detach or at
  the exit (`agent_seam.cpp:237, 256, 371`), and results of commands that were applied are dropped with the client.
* A frame longer than the catch-up cap moves
  the continuous clock by all of it and the step counter by eight steps (`sim_loop.cpp:47, 53`), so the
  two calendars part; surveys follow the first.
* The verb that disbands a unit leaves its id in the lists
  of a battle it fights (`corp_command.cpp:1549`), which `disband_orphaned_units` takes care to clear.
* A peace returns war goals alone: other provinces taken in battle stay held (`war.cpp:796`, against the comment at 788-789).
* A far page can be uploaded part-written: it is drawn from the pieces that have landed (`ground_layer.cpp:2249`, against the comment at 1308-1309).
* A centre whose people were all recruited declines to one thousand heads that nobody bore
  (`economy_system.cpp:3223`, against its comment at 3098-3100 and `docs/economy/POPULATION.md:266`); so `MenAreMoved`
  does not speak of the growth pass.
* Quick Start's cold build may run beside an abandoned round 3, 4 or 5: those share nothing, so `OneBuild` asks only for round 6.

## 4. What is proved

### War

`WarProofs.tla` proves, for every set of nations and provinces and every duration, from the two assumptions
of `War.tla` (finite sets; at least one goal, a truce of at least one tick):

* `TypeCorrect`: `Spec => []TypeOK`.
* `WarInvariant`: `Spec => []WarInv`.  The invariants of `war_two` are proved together because
  they lean on each other: that a war is hostile survives a peace of *another* pair only because a
  peace clears the rows of its own pair, and that pair has no second war (`OneWarPerPair`); a
  declaration finds no stale offer because offers are only on open wars.  Two parts no run
  checks alone complete it: `PendingOfferIsFresh` (an offer that waits was not refused within the cooldown)
  and `TruceRemembered` (a truce is in force for as long as the history says since the war closed).
* `WarTablesAgree`, `TrucesAreQuiet`: the run's invariants `WarTables` and `TruceIsQuiet`, out of it.
* `TermsWaited` (`TermsRunOut`, of `TruceOutlasted` and `RefusalsWait`), `GroundMoves` (`GroundMovesByPeace`),
  `NoNationVanishes` (`NationKeepsGround`), `GoalsReturn` (`PeaceReturnsGoals`): the action properties of section 3, from that
  invariant.  `NoNationVanishes` counts: the
  cession's provinces are among the loser's, fewer than all of them, so one is left.

The proof has a lemma for each action, one step per conjunct it can disturb.

### The field

`FieldProofs.tla` proves, for every map, every set of nations and units and every bound, from the assumptions of
`Field.tla` (ids are numbers and finitely many; a neighbour is never the tile itself; the force
starts with one nation to a tile):

* `FieldTypeCorrect`: `Spec => []TypeOK`.
* `OneNationKept`: `Spec => []OneNationPerTile`.
* `FieldInvariant`: `Spec => []Inv`, what the two rest on.

One nation to a tile is not inductive.  The code moves a *side* of a battle at once: retreats and advances read
the tiles that are foreign to the side's nation, once, and move every unit the side lists.  Were a unit of
another nation on the list it would be moved by the wrong reading.  `Inv` therefore adds that a battle
lists, on either side, units of that side's nation (`SidesOwn`), that an attack's unit is its attacker's
(`AttackersOwn`), and that the day's loops are done with when the day is (`Drained`).  `MovedOneNation` is
the heart of it: one nation's units, each moved to a tile no foreign unit stands on or left where it was, leave
one nation to a tile.

Who fights whom is a second invariant over the first, `FieldInOrder`: `Spec => [](Inv /\ InOrder)`.  `Fights` says that a standing
unit of a battle is on its tile or beside it, that it leads one attack and that whatever else it fights is where it stands, and
that it can step onto the tile it attacks.  That needs the rest: a nation never fights itself (`Opposed`) and not with units
still in the musters (`Raised`); orders lead on from where their units are (`OrdersLead`); an attack the day's march registered
is one unit's, once, and the unit's turn is over (`AttacksLead`, `Underway`), so that nothing moves it before its battle
opens.  From it:

* `FightsStayInOrder`: `Spec => []FightsInOrder`.
* `UnitsMoveStepByStep`: `Spec => StepByStep`; a retreat or an advance is one step because the fighters were at hand.
* `OrdersAreSpentByBattles`: `Spec => OrderSpentByItsBattle`.

### The agent

`AgentSeamProofs.tla` proves, for any caps, any length of a quarter and any number of sessions and lines:

* `SeamInvariant`: `Spec => []SeamInv`, and out of it `SeamTyped` (`TypeOK`) and `QueuesKept` (`QueuesBounded`).  Beside types and caps it says
  that nothing waits when nobody is served (`Unserved`); that a tick is never among the deferred commands and at most one is
  pending (`Sorted`); how many quarters are due at each place of the frame (`Places`); and that while the agent alone
  has the clock, the quarters due are its tick's (`Gated`).
* `SeamImplementsServer`: `Spec => ImplementsServer`, the refinement: the initial states are the server's, and each step of the
  frame, the network, the peer or the hand is a step of the server or none.  A dropped client is the server's `Close`: what was
  being served at a boundary has taken effect, the rest is gone.
* `SeamTranscript`: `Spec => []TranscriptReplays`.  The transcript says of each command the quarter it was applied in; the step
  invariant adds that the world has as many entries as quarters and commands, and that no stamp lies ahead (`Stamped`).

### The quarter

`QuarterDaysProofs.tla` proves, for any length of a quarter, any sites, durations, rates and marches:

* `WorldsTyped`: `Spec => []TypeOK`.
* `EveryPathCountsTheSameDays`: `Spec => []HostsAgree`.  The invariant says more than the property: as long as every order
  reached both, the live world is at *every* moment the headless one walked to the live day (`InStep`).  Its heart is that a walk can be cut anywhere: to one day and
  from there to another is to the other.  For that the walk's shortcut over an idle military's days must come to
  those days one by one, and a site's days must not depend on how far one call goes.
* `WorkAndPaymentAgree`: `Spec => []WorkIsPaid`, and `EverySiteCompletesOnItsDay`: `Spec => CompletesOnItsDay`.  A day of a site is one of
  four (`Still`, `Part`, `Whole`, `Last`), each of which keeps the balance of work, materials and days paid for
  (`Kept`) and, for a site no shelf slows, the day it will stand (`Timely`).

### Surveys

`SurveyClockProofs.tla` proves, for any bodies, schedules, speeds and caps:

* `SurveyTyped`: `Spec => []TypeOK`, saves and loads included.
* `CampaignInvariant`: `PlaySpec => []InPlay`, of a game that is never loaded: surveys have been advanced to the clock's day, and
  what each shows is what the days since it was sent call for.  A call of `advance_surveys` over several
  days, past several boundaries, some on one day, ends where the days one by one would.
* `RevealsOnSchedule` (`RevealFollowsSchedule`) and `EtaCountsDown` (`EtaIsHonest`), from it.  They are of `PlaySpec` because with loads
  they are false: that is the finding `survey_load_finding`.

### The ground's baking pool

`GroundBakeProofs.tla` proves, for any bodies, chunks and workers, any queue cap, cadence and bound on moves, and without the runs' action
constraint:

* `GroundTyped`: `Spec => []TypeOK`, with it that no job is numbered past the counter.
* `PoolBooksBalance`: `Spec => []PoolBooks`, of `InflightIsExact`, `NothingIsLost` and `ReadyIsCounted`.  The counts are
  cardinalities of sets that lose and gain elements in several places; that an awaited job exists follows from two facts
  about every step: a job that goes is one nobody waits for any more, and what is newly waited for is there.
* `PixelsAreTheHashed`: `Spec => []PixelsMatchHash`.  The strengthening (`PixelInv`) speaks of the jobs under way: one that a slot
  still waits for was given what the slot holds now, and a snapshot of the world being played.  So nothing may replace
  what a slot holds between a job's making and its landing without the slot ceasing to wait for it.
* `CurrentWhileRoadsStay`: `Spec /\ []RoadsStay => []CurrentShowsSource`, where `RoadsStay` says that the lens strips no road (it is off, or no
  chunk is under one).  Chunks are compared with a sweep's table only when the table is the snapshot's, so the argument is
  that a replaced snapshot never comes back: a body's snapshot moves on, never ahead of the ground
  (`NotAhead`), table and sweep follow behind it (`TableBehind`, `SweepsBehind`), so if they are equal now no snapshot has been
  taken in between that differs, and every clean chunk is of it (`CleanIsCurrent`).  The hypothesis cannot go: a road that
  is stripped comes back, which is the finding `ground_lens_finding`.

The assumptions: finitely many workers, at least one; finitely many chunks; a home body among the bodies; positive caps; `None` is
none of the values, snapshots or jobs.

### The wizard

`WizardProofs.tla` proves, for any grounds and leans and any number of rerolls and presses, `WizardInvariant`:
`Spec => []WizardInv`, the conjunction of `TypeOK` and four parts.  `Places` says where the player and the main thread can be at once;
`OneRun` that at most one pass round runs, the player at it or above; `Current` that whatever is held or under way
and not marked stale is of the pending parameters; `Starts` that every round on or under the player has a
start.  They lean on each other: a landing is current because its run was marked when the parameters moved, and
a run is only ever marked, never forgotten, because the next round starts only when none runs.  From it: `WizardTyped`,
`PlayedIsAsked` (`PlaysWhatWasAsked`), `HeldCurrent` (`HeldIsCurrent`), `NoTwoBuilds` (`OneBuild`), `ForwardCarries` (`CarriesOn`).

### Men

`RecruitsProofs.tla` proves, for any nations, bases, centres, rates and bounds:

* `RecruitsTypeCorrect`: `Spec => []TypeOK`, whose numeric parts are what the save reader refuses a world over: heads carried under a
  thousand, pools within their most, no unit over its establishment, no centre below nobody.  The carry is a division (`Division`), and a
  draw never takes more of a centre than it has.
* `RaisedAtHomeAlways`: `Spec => []RaisedAtHome`.  Raising reads the muster's base long after the hire that
  checked it: the proof needs that the loop over musters has only queued ones left to visit (`Awaiting`), and that whatever changes an
  owner or tears a base down takes the musters, units and wings with it.
* `PlanStandsAlways`: `Spec => []PlanStands`.  A plan is made for both loops at once and granted unit by unit, then wing by wing; the
  strengthening (`PlanFits`) says while units are served that no wing is planned more than it lacks.
* `MenAreMovedAlways`: `Spec => MenAreMoved`.  Each step is a balance of four sums: heads in the centres, men in the pools, in
  queued musters and in units.  A hire is a muster or a unit and never both (`Apart`), or its men would be counted twice.

Sums over sets are `MapThenSumSet` of the community modules, a fold.  What the proofs need of it (`Total`, `TotalApart`, `TotalChange`,
`TotalPart` and others) is proved from its definition, once for all sets.

The assumptions: finitely many nations, bases, centres, hires and wings, numbered; positive crews, health and thousands; `None` is no number,
muster, unit or wing.

### Induction

The library's induction theorems take an operator as parameter, which the provers cannot instantiate.  Where an
argument goes by the days of a walk, the turns of a survey or the members of a set, it is put as a set of numbers instead:
those for which the statement holds are all, because the least number outside (`LeastNat`) would have a predecessor inside.

### What is only model-checked

Every invariant and action property of the passing runs is stated by a theorem, `RevealFollowsSchedule` and `EtaIsHonest` for
games without loads and `CurrentShowsSource` while the lens strips no road.  The liveness properties `TickAnswered`, `SettlesOnSource`,
`WaitsEnd` and `MustersEnd` rest on fairness and `ENABLED`, which the prover does not handle: TLC checks them.

## 5. What is not modelled

* War exhaustion (added under a clamp, moved to a residual at a war's end, `war.cpp:690`), sentiment, the levied
  buildings and the roster that follow ceded ground.
* The numeric core: market clearing, prices, wages, budgets, the battle resolver, path costs.  They are
  floating-point folds whose correctness is a matter of values rather than of order.
* In the field: fronts, air wings and bunkers, recon, orders that a dispatch or an AI gives, shared tiles made by a
  cession and their resolution (`resolve_shared_tiles`).  That a march blocked day after day finds its way
  in the end is not asked (`economy_system.cpp:4845`), nor what becomes of the first of two requests to withdraw on one
  day: the second replaces it (`battle_system.cpp:541`), and either may come.
* In the agent seam: listening and shutdown, formatting, and that a client dropped inside a boundary goes
  unseen by the host (`agent_seam.cpp:371`).
* In the ground layer: the disk cache and its writer, the background fill, the page of a body's neighbourhood, chunk textures, a body
  that leaves the world in play, and the capture's synchronous bake.
* In the wizard: the scripted paths on which every round adopts at once, playback, drawing and colours.
* Among men: supply and its decay, equipment, the amounts of logistic points and money, designs and refits, a nation
  that is folded into another, the opening kit.
* World generation itself, a function of a seed run once, by far the largest part of the repository, and the AI's scorers: the models
  allow any verb the seam accepts, whoever chose it.
* User interface, scripting, capture and logs: they hold no state the game reads.

## 6. Plan

1. Fronts and air wings on top of `Field`; shared tiles after a cession; war exhaustion and its residual on
   top of `War`; the field's battles as a refinement of those `War` takes as given.
2. Convoys, reservations and logistic points: nothing is spent twice, nothing vanishes; then `Recruits`' arrivals
   out of them.
3. The quarter's transfers (treasury, budget, law), research.
4. Save and load of a whole session, the agent attached; the ground layer's disk cache.
5. Proofs: that the field's battles refine those `War` takes as given, once the refinement is stated; what a load may
   still be relied on for (the surveys of a game loaded into a fresh process).
