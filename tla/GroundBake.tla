----------------------------- MODULE GroundBake -----------------------------
(***************************************************************************)
(* The ground layer's baking pool: the painted ground of each body, kept   *)
(* in chunks that worker threads bake from snapshots of the world while    *)
(* the main thread moves on (src/src/core/ground_layer.cpp).               *)
(*                                                                         *)
(* A snapshot (bake_source) holds a value for each chunk: the world it was *)
(* taken from, how often that ground has moved, and whether the Logistics  *)
(* lens stripped its painted roads.  Equal values stand for equal hashes,  *)
(* equal snapshots for equal digests.  The main thread runs one routine at *)
(* a time (`main` is where it stands); workers take and finish jobs in     *)
(* between.  The distance to the view's centre, by which the chunks of one *)
(* body are ordered, is left out: among them any may go first.  The disk   *)
(* cache is closed (cache_live() false), so a master over budget is        *)
(* dropped, and the background fill is off (background_enabled false).     *)
(*                                                                         *)
(* A definition marked "mutant" is a plausible mistake in the one after    *)
(* it; the properties are checked to notice each.                          *)
(***************************************************************************)
EXTENDS Integers, Sequences, FiniteSets, Functions

CONSTANTS
    Bodies,      \* the bodies that have a grid
    Home,        \* the home body (w.home_body)
    Chunks,      \* the master chunks of a body
    Routed,      \* the chunks a painted road reaches
    Near,        \* the chunks under the view at a level fine enough for roads
    NPieces,     \* the pieces a far page is baked in
    Workers,     \* the pool's threads
    Cap,         \* feed stops at this many waiting jobs (twice the pool)
    k_src_cadence,     \* pumps between two snapshots of a drawn body (k_src_cadence)
    NoBody,      \* the null entity
    None,        \* nothing there: no pixels, no snapshot, no job in hand
    Torn,        \* what a patch leaves on pixels it was not computed against
    MaxMoves     \* bound: how often the world, the player or the app moves

Pieces == 1 .. NPieces

ASSUME BodiesAssumption == Home \in Bodies /\ NoBody \notin Bodies
ASSUME ChunksAssumption == /\ Chunks # {} /\ IsFiniteSet(Chunks)
                           /\ Routed \subseteq Chunks /\ Near \subseteq Chunks
ASSUME PoolAssumption == IsFiniteSet(Workers) /\ Workers # {}
ASSUME NumbersAssumption ==
    /\ NPieces \in Nat \ {0} /\ Cap \in Nat \ {0}
    /\ k_src_cadence \in Nat \ {0} /\ MaxMoves \in Nat

VARIABLES
    m_jobs,    \* the jobs that wait
    running,   \* the job in each worker's hands
    m_results, \* the results not yet drained, in the order the jobs finished
    m_inflight, \* the count of jobs queued or in hand
    m_seq_counter, \* the number of the last job
    present,   \* the keys of m_bodies
    body,      \* per body: snapshot, its age, sweep table, sweep job, n_ready
    slot,      \* per body and chunk: outstanding job, pixels and their hash
    page,      \* per body: its far page and the jobs that paint it
    view,      \* m_active, m_prebake, m_home, m_hide_routes, the far texture
    ground,    \* the world: how often each chunk's ground moved
    world,     \* which world is played (a new game or a load replaces it)
    held,      \* the app holds a world (it passes one to pump)
    main,      \* where the main thread stands
    done,      \* the results drain() took and has not landed yet
    queued,    \* feed()'s own count of waiting jobs
    moves      \* how many bounded moves have been made

poolVars == <<m_jobs, running, m_results, m_inflight, m_seq_counter>>
bodyVars == <<present, body, slot, page>>
envVars  == <<ground, world, held, moves>>
mainVars == <<main, done, queued>>
vars == <<m_jobs, running, m_results, m_inflight, m_seq_counter, present, body, slot, page, view,
          ground, world, held, main, done, queued, moves>>

Value    == [world : Nat, move : Nat, bare : BOOLEAN]
Snapshot == [Chunks -> Value]
Job == [kind : {"far", "sweep", "master"}, prio : 0 .. 3, body : Bodies,
        part : Chunks \cup Pieces \cup {None}, seq : Nat \ {0},
        snap : Snapshot, old : Value \cup {None}, patched : BOOLEAN]

ASSUME NoneAssumption == None \notin Value /\ None \notin Snapshot /\ None \notin Job

EmptyBody == [src |-> None, age |-> 0, swept |-> None, sweep |-> 0, n_ready |-> 0]
EmptySlot == [job |-> 0, ready |-> FALSE, dirty |-> FALSE,
              px |-> None, hash |-> None, old |-> None]
EmptyPage == [job |-> [k \in Pieces |-> 0], px |-> [k \in Pieces |-> None],
              baking |-> None, hash |-> None, ver |-> 0]
EmptyView == [active |-> NoBody, prebake |-> NoBody, home |-> NoBody, hide |-> FALSE,
              texVer |-> None, tex |-> None]

Init ==
    /\ m_jobs = {} /\ running = [w \in Workers |-> None] /\ m_results = <<>>
    /\ m_inflight = 0 /\ m_seq_counter = 0
    /\ present = {}
    /\ body = [b \in Bodies |-> EmptyBody]
    /\ slot = [b \in Bodies |-> [c \in Chunks |-> EmptySlot]]
    /\ page = [b \in Bodies |-> EmptyPage]
    /\ view = EmptyView
    /\ ground = [b \in Bodies |-> [c \in Chunks |-> 0]]
    /\ world = 0 /\ held = FALSE /\ moves = 0
    /\ main = "idle" /\ done = <<>> /\ queued = 0

----------------------------------------------------------------------------
(* The pool *)

(* far pages first, then sweeps, then the drawn body's chunks               *)
k_prio_far == 0
k_prio_sweep == 1
prio_of(b) == IF b = view.active THEN 2 ELSE 3

(* worker_main(): a worker takes a waiting job of the lowest priority ...   *)
Take(w) ==
    /\ running[w] = None
    /\ \E j \in m_jobs :
         /\ \A k \in m_jobs : j.prio <= k.prio
         /\ m_jobs' = m_jobs \ {j}
         /\ running' = [running EXCEPT ![w] = j]
    /\ UNCHANGED <<m_results, m_inflight, m_seq_counter, bodyVars, view, envVars, mainVars>>

(* ... runs it (run_job) and hands over the result.  A re-bake may come     *)
(* back as a patch: only the windows in which the snapshot differs from the *)
(* one the stored pixels were baked against.                                *)
Finish(w) ==
    /\ running[w] # None
    /\ \E patched \in BOOLEAN :
         /\ patched => running[w].old # None
         /\ m_results' = Append(m_results, [running[w] EXCEPT !.patched = patched])
    /\ running' = [running EXCEPT ![w] = None]
    /\ m_inflight' = m_inflight - 1
    /\ UNCHANGED <<m_jobs, m_seq_counter, bodyVars, view, envVars, mainVars>>

(* enqueue(): the jobs wait, and count as in flight *)
enqueue_unnumbered(js) == \* mutant: the sequence counter is not moved on
    /\ m_jobs' = m_jobs \cup js
    /\ m_inflight' = m_inflight + Cardinality(js)
    /\ m_seq_counter' = m_seq_counter
enqueue(js) ==
    /\ m_jobs' = m_jobs \cup js
    /\ m_inflight' = m_inflight + Cardinality(js)
    /\ m_seq_counter' = m_seq_counter + Cardinality(js)

----------------------------------------------------------------------------
(* Snapshots and room *)

(* prepare_source(), with strip_painted_routes() when bare *)
prepare_source(b, bare) ==
    [c \in Chunks |-> [world |-> world, move |-> ground[b][c],
                       bare |-> bare /\ c \in Routed]]

(* set_source() *)
set_source(b, bare) == [body[b] EXCEPT !.src = prepare_source(b, bare), !.age = 0]

(* make_room() may choose any body but these with a master to give up       *)
Evictable(b, kept) ==
    /\ b \in present \ (kept \cup {view.home})
    /\ \E c \in Chunks : slot[b][c].px # None

(* drop_master() on each body of V: its waiting master jobs are purged, its *)
(* slots forget theirs; the far page and the sweep table stay.              *)
MasterJobsOf(V) == {j \in m_jobs : j.kind = "master" /\ j.body \in V}
drop_master_uncounted(V) == \* mutant: the purged jobs still count as in flight
    /\ m_jobs' = m_jobs \ MasterJobsOf(V) /\ UNCHANGED m_inflight
    /\ slot' = [b \in Bodies |-> IF b \in V THEN [c \in Chunks |-> EmptySlot] ELSE slot[b]]
drop_master(V) ==
    /\ m_jobs' = m_jobs \ MasterJobsOf(V)
    /\ m_inflight' = m_inflight - Cardinality(MasterJobsOf(V))
    /\ slot' = [b \in Bodies |-> IF b \in V THEN [c \in Chunks |-> EmptySlot] ELSE slot[b]]

(* feed() returns at once on a full queue *)
StartFeed(js) ==
    /\ queued' = Cardinality(js)
    /\ main' = IF queued' >= Cap THEN "idle" ELSE "house"

----------------------------------------------------------------------------
(* The player and the app *)

Move == moves < MaxMoves /\ moves' = moves + 1

WorldMoves(b, c) ==
    /\ main = "idle" /\ Move
    /\ ground' = [ground EXCEPT ![b][c] = @ + 1]
    /\ UNCHANGED <<poolVars, bodyVars, view, world, held, mainVars>>

(* tick() with body b on screen and the lens at hide: a switch flushes the  *)
(* textures and re-takes an aged snapshot, room is made, a flip of the lens *)
(* re-takes the snapshot now, and a far page newer than the texture is      *)
(* uploaded.                                                                *)
tick(b, hide, V) ==
    LET switch == b # view.active
        retake == \/ b \notin present
                  \/ switch /\ body[b].age > 0
                  \/ hide # view.hide
        texVer == IF switch THEN None ELSE view.texVer
        upload == page[b].hash # None /\ texVer # page[b].ver
    IN /\ main = "idle" /\ held
       /\ \A v \in V : Evictable(v, {b, view.prebake, Home})
       /\ IF switch \/ hide # view.hide \/ V # {} THEN Move ELSE UNCHANGED moves
       /\ present' = present \cup {b}
       /\ drop_master(V)
       /\ body' = [x \in Bodies |->
                     IF x = b /\ retake THEN set_source(b, hide)
                     ELSE IF x \in V THEN [body[x] EXCEPT !.n_ready = 0] ELSE body[x]]
       /\ view' = [view EXCEPT !.active = b, !.home = Home, !.hide = hide,
                     !.texVer = IF upload THEN page[b].ver ELSE texVer,
                     !.tex = IF upload THEN page[b].px ELSE @]
       /\ UNCHANGED <<running, m_results, m_seq_counter, page, ground, world, held, mainVars>>

(* tick() with no gridded body on screen *)
Leave ==
    /\ main = "idle" /\ held /\ view.active # NoBody /\ Move
    /\ view' = [view EXCEPT !.active = NoBody, !.home = Home, !.texVer = None]
    /\ UNCHANGED <<poolVars, bodyVars, ground, world, held, mainVars>>

(* prebake() of the home body from a wizard's world; `retake` when the      *)
(* surveyed flag it asks for is not the one the snapshot was taken with     *)
prebake(retake, V) ==
    /\ main = "idle" /\ ~held /\ Move
    /\ \A v \in V : Evictable(v, {Home, view.active})
    /\ present' = present \cup {Home}
    /\ drop_master(V)
    /\ body' = [x \in Bodies |->
                  IF x = Home /\ (Home \notin present \/ retake) THEN set_source(Home, view.hide)
                  ELSE IF x \in V THEN [body[x] EXCEPT !.n_ready = 0] ELSE body[x]]
    /\ view' = [view EXCEPT !.prebake = Home, !.home = Home]
    /\ StartFeed(m_jobs \ MasterJobsOf(V))
    /\ UNCHANGED <<running, m_results, m_seq_counter, page, ground, world, held, done>>

(* resnapshot() and land_boundary(): a round boundary's snapshot, roads and *)
(* all                                                                      *)
resnapshot ==
    /\ main = "idle" /\ ~held /\ view.prebake \in present /\ Move
    /\ body' = [body EXCEPT ![view.prebake] = set_source(view.prebake, FALSE)]
    /\ StartFeed(m_jobs)
    /\ UNCHANGED <<poolVars, present, slot, page, view, ground, world, held, done>>

(* the wizard's world becomes the one the app holds *)
Open ==
    /\ main = "idle" /\ ~held
    /\ held' = TRUE
    /\ UNCHANGED <<poolVars, bodyVars, view, ground, world, moves, mainVars>>

(* forget_world(): every waiting job and every result goes; what a worker   *)
(* has in hand does not.  The sequence counter runs on, and so does the lens*)
forget_world ==
    /\ main = "idle" /\ Move
    /\ m_inflight' = m_inflight - Cardinality(m_jobs)
    /\ m_jobs' = {} /\ m_results' = <<>>
    /\ present' = {}
    /\ body' = [b \in Bodies |-> EmptyBody]
    /\ slot' = [b \in Bodies |-> [c \in Chunks |-> EmptySlot]]
    /\ page' = [b \in Bodies |-> EmptyPage]
    /\ view' = [view EXCEPT !.active = NoBody, !.prebake = NoBody, !.home = NoBody,
                            !.texVer = None]
    /\ world' = world + 1
    /\ held' \in BOOLEAN
    /\ UNCHANGED <<running, m_seq_counter, ground, mainVars>>

----------------------------------------------------------------------------
(* pump(): drain, snapshots on their cadence, feed *)

(* drain() takes the results there are *)
pump ==
    /\ main = "idle"
    /\ main' = "land" /\ done' = m_results /\ m_results' = <<>>
    /\ UNCHANGED <<m_jobs, running, m_inflight, m_seq_counter, bodyVars, view, envVars, queued>>

Landing(kind) == main = "land" /\ done # <<>> /\ Head(done).kind = kind

(* the result is the one its slot, its piece or its body waits for          *)
Awaited(d) ==
    /\ d.body \in present
    /\ \/ d.kind = "far" /\ page[d.body].job[d.part] = d.seq
       \/ d.kind = "sweep" /\ body[d.body].sweep = d.seq
       \/ d.kind = "master" /\ slot[d.body][d.part].job = d.seq

Landed == done' = Tail(done) /\ UNCHANGED <<poolVars, present, view, envVars, main, queued>>

(* an orphan: dropped, superseded, or of a body that is gone                *)
LandOrphan ==
    /\ main = "land" /\ done # <<>> /\ ~Awaited(Head(done))
    /\ Landed /\ UNCHANGED <<body, slot, page>>

(* A piece of the far page is copied in as it lands; the last one makes the *)
(* page whole.                                                              *)
LandFar ==
    /\ Landing("far") /\ Awaited(Head(done))
    /\ LET d == Head(done)
           p == [page[d.body] EXCEPT !.job[d.part] = 0, !.px[d.part] = d.snap]
           whole == \A k \in Pieces : p.job[k] = 0
       IN page' = [page EXCEPT ![d.body] =
                     IF whole THEN [p EXCEPT !.hash = p.baking, !.ver = @ + 1] ELSE p]
    /\ Landed /\ UNCHANGED <<body, slot>>

ReadyClean(ss) == {c \in Chunks : ss[c].ready /\ ~ss[c].dirty}

(* the sweep's table says which stored chunks its snapshot left behind      *)
LandSweep ==
    /\ Landing("sweep") /\ Awaited(Head(done))
    /\ LET d == Head(done)
           ss == [c \in Chunks |-> [slot[d.body][c] EXCEPT
                     !.dirty = slot[d.body][c].ready /\ slot[d.body][c].hash # d.snap[c]]]
       IN /\ slot' = [slot EXCEPT ![d.body] = ss]
          /\ body' = [body EXCEPT ![d.body] = [@ EXCEPT
                        !.sweep = 0, !.swept = d.snap, !.n_ready = Cardinality(ReadyClean(ss))]]
    /\ Landed /\ UNCHANGED page

(* A patch is blitted over the stored pixels, a whole chunk replaces them;  *)
(* a table of the current snapshot says at once whether the chunk is stale. *)
never_stale(b, d) == FALSE \* mutant: a landed chunk is taken to be current
Stale(b, d) == body[b].swept = body[b].src /\ body[b].swept[d.part] # d.snap[d.part]

stored_as_current(s, d) == \* mutant: its next patch is diffed from the current snapshot
    [job |-> 0, ready |-> TRUE, dirty |-> Stale(d.body, d),
     px |-> IF d.patched /\ s.px # d.old THEN Torn ELSE d.snap[d.part],
     hash |-> d.snap[d.part], old |-> body[d.body].src[d.part]]
Stored(s, d) ==
    [job |-> 0, ready |-> TRUE, dirty |-> Stale(d.body, d),
     px |-> IF d.patched /\ s.px # d.old THEN Torn ELSE d.snap[d.part],
     hash |-> d.snap[d.part], old |-> d.snap[d.part]]

Counted(s) == IF s.ready /\ ~s.dirty THEN 1 ELSE 0

LandMaster ==
    /\ Landing("master") /\ Awaited(Head(done))
    /\ LET d == Head(done)
           s == slot[d.body][d.part]
           t == Stored(s, d)
       IN IF d.patched /\ s.px = None
          THEN slot' = [slot EXCEPT ![d.body][d.part].job = 0] /\ UNCHANGED body
          ELSE /\ slot' = [slot EXCEPT ![d.body][d.part] = t]
               /\ body' = [body EXCEPT ![d.body].n_ready = @ + Counted(t) - Counted(s)]
    /\ Landed /\ UNCHANGED page

(* The drawn and the pre-baked body: their snapshots age, and are re-taken  *)
(* on the cadence - from a world the app holds, never from a wizard's.      *)
Worked == {view.active, view.prebake} \cap present

Aged(b) == IF body[b].age + 1 >= k_src_cadence THEN set_source(b, view.hide)
           ELSE [body[b] EXCEPT !.age = @ + 1]

Drained ==
    /\ main = "land" /\ done = <<>>
    /\ IF held THEN /\ view' = [view EXCEPT !.home = Home]
                    /\ body' = [b \in Bodies |-> IF b \in Worked THEN Aged(b) ELSE body[b]]
               ELSE UNCHANGED <<view, body>>
    /\ StartFeed(m_jobs)
    /\ UNCHANGED <<poolVars, present, slot, page, envVars, done>>

----------------------------------------------------------------------------
(* feed() *)

NeedsFar(b) ==
    /\ b \in Worked
    /\ page[b].hash = None \/ (page[b].hash # body[b].src /\ ~view.hide)
    /\ \A k \in Pieces : page[b].job[k] = 0

NeedsSweep(b) ==
    /\ b \in Worked
    /\ \E c \in Chunks : slot[b][c].ready \/ slot[b][c].job # 0
    /\ body[b].swept # body[b].src
    /\ body[b].sweep = 0

JobOf(kind, prio, b, part, n, old) ==
    [kind |-> kind, prio |-> prio, body |-> b, part |-> part, seq |-> n,
     snap |-> body[b].src, old |-> old, patched |-> FALSE]

(* start_far() *)
start_far(b) ==
    /\ main = "house" /\ NeedsFar(b)
    /\ page' = [page EXCEPT ![b] = [@ EXCEPT !.baking = body[b].src,
                                             !.job = [k \in Pieces |-> m_seq_counter + k]]]
    /\ enqueue({JobOf("far", k_prio_far, b, k, m_seq_counter + k, None) : k \in Pieces})
    /\ queued' = queued + NPieces
    /\ UNCHANGED <<running, m_results, present, body, slot, view, envVars, main, done>>

make_sweep_job(b) ==
    /\ main = "house" /\ NeedsSweep(b)
    /\ body' = [body EXCEPT ![b].sweep = m_seq_counter + 1]
    /\ enqueue({JobOf("sweep", k_prio_sweep, b, None, m_seq_counter + 1, None)})
    /\ queued' = queued + 1
    /\ UNCHANGED <<running, m_results, present, slot, page, view, envVars, main, done>>

HouseKept ==
    /\ main = "house" /\ \A b \in Bodies : ~NeedsFar(b) /\ ~NeedsSweep(b)
    /\ main' = "fill"
    /\ UNCHANGED <<poolVars, bodyVars, view, envVars, done, queued>>

(* A chunk wants a bake when it has none or a stale one; a stale one waits  *)
(* for the sweep of the current snapshot, and, under the lens, until the    *)
(* view shows it close.                                                     *)
wants_missing(b, c) == slot[b][c].job = 0 /\ ~slot[b][c].ready \* mutant: stale ones are left
Wants(b, c) ==
    /\ slot[b][c].job = 0 /\ (~slot[b][c].ready \/ slot[b][c].dirty)
    /\ ~(/\ slot[b][c].ready /\ slot[b][c].dirty
         /\ \/ body[b].swept # body[b].src
            \/ b = view.active /\ view.hide /\ c \notin Near)

Fillable(b) == b \in Worked /\ \E c \in Chunks : Wants(b, c)

(* make_master_job(): the drawn body's chunks before the pre-baked one's;   *)
(* a stored chunk may re-bake as a patch over what it was baked against     *)
make_master_job(b, c) ==
    /\ main = "fill" /\ queued < Cap
    /\ b \in Worked /\ Wants(b, c)
    /\ b # view.active => ~Fillable(view.active)
    /\ slot' = [slot EXCEPT ![b][c].job = m_seq_counter + 1]
    /\ enqueue({JobOf("master", prio_of(b), b, c, m_seq_counter + 1, slot[b][c].old)})
    /\ queued' = queued + 1
    /\ UNCHANGED <<running, m_results, present, body, page, view, envVars, main, done>>

Fed ==
    /\ main = "fill" /\ (queued >= Cap \/ \A b \in Bodies : ~Fillable(b))
    /\ main' = "idle" /\ queued' = 0
    /\ UNCHANGED <<poolVars, bodyVars, view, envVars, done>>

----------------------------------------------------------------------------
MainStep ==
    \/ pump \/ LandOrphan \/ LandFar \/ LandSweep \/ LandMaster \/ Drained
    \/ HouseKept \/ Fed
    \/ \E b \in Bodies : start_far(b) \/ make_sweep_job(b) \/ \E c \in Chunks : make_master_job(b, c)

AppStep ==
    \/ \E b \in Bodies, hide \in BOOLEAN, V \in SUBSET Bodies : tick(b, hide, V)
    \/ Leave \/ resnapshot \/ Open \/ forget_world
    \/ \E retake \in BOOLEAN, V \in SUBSET Bodies : prebake(retake, V)
    \/ \E b \in Bodies, c \in Chunks : WorldMoves(b, c)

Next == MainStep \/ AppStep \/ \E w \in Workers : Take(w) \/ Finish(w)

Spec == Init /\ [][Next]_vars

(* The app pumps every frame and the pool's threads run *)
FairSpec == /\ Spec /\ WF_vars(MainStep)
            /\ \A w \in Workers : WF_vars(Take(w)) /\ WF_vars(Finish(w))

----------------------------------------------------------------------------
(* Every outstanding or landed job: what waits, what a worker has in hand,  *)
(* what has been handed over and what is being landed.                      *)
InHands == {running[w] : w \in Workers} \ {None}
Live == m_jobs \cup InHands \cup Range(m_results) \cup Range(done)

PoolTypeOK ==
    /\ m_jobs \subseteq Job /\ IsFiniteSet(m_jobs)
    /\ running \in [Workers -> Job \cup {None}]
    /\ m_results \in Seq(Job) /\ done \in Seq(Job)
    /\ m_inflight \in Int /\ m_seq_counter \in Nat
    /\ \A j \in Live : j.seq <= m_seq_counter

Body == [src : Snapshot \cup {None}, age : Nat, swept : Snapshot \cup {None},
         sweep : Nat, n_ready : Int]
Slot == [job : Nat, ready : BOOLEAN, dirty : BOOLEAN, px : Value \cup {None, Torn},
         hash : Value \cup {None}, old : Value \cup {None}]
Page == [job : [Pieces -> Nat], px : [Pieces -> Snapshot \cup {None}],
         baking : Snapshot \cup {None}, hash : Snapshot \cup {None}, ver : Nat]
View == [active : Bodies \cup {NoBody}, prebake : Bodies \cup {NoBody},
         home : Bodies \cup {NoBody}, hide : BOOLEAN, texVer : Nat \cup {None},
         tex : [Pieces -> Snapshot \cup {None}] \cup {None}]

GroundTypeOK ==
    /\ present \subseteq Bodies
    /\ body \in [Bodies -> Body]
    /\ slot \in [Bodies -> [Chunks -> Slot]]
    /\ page \in [Bodies -> Page]
    /\ view \in View
    /\ ground \in [Bodies -> [Chunks -> Nat]] /\ world \in Nat /\ moves \in Nat
    /\ held \in BOOLEAN /\ main \in {"idle", "land", "house", "fill"} /\ queued \in Nat

TypeOK == PoolTypeOK /\ GroundTypeOK

(* The count of jobs in flight is lowered where a result is handed over,    *)
(* where a master's waiting jobs are purged and where a world is forgotten: *)
(* it is always the jobs that wait and those in a worker's hands.           *)
InflightExact ==
    m_inflight = Cardinality(m_jobs) + Cardinality({w \in Workers : running[w] # None})

(* A slot, a piece or a body that waits for a job waits for one that exists *)
(* - no purge, drop or forgotten world leaves it waiting for ever, since    *)
(* neither feed nor a sweep starts a second job while one is outstanding.   *)
Names(n, kind, b, part) ==
    n # 0 => \E j \in Live : j.seq = n /\ j.kind = kind /\ j.body = b /\ j.part = part
NothingLost ==
    \A b \in Bodies :
      /\ Names(body[b].sweep, "sweep", b, None)
      /\ \A c \in Chunks : Names(slot[b][c].job, "master", b, c)
      /\ \A k \in Pieces : Names(page[b].job[k], "far", b, k)

(* The pixels a chunk holds are the ones its hash names, of this world: a   *)
(* patch only ever lands on the pixels it was computed against, whatever    *)
(* was dropped, forgotten or re-baked while a worker painted it, and a job  *)
(* of a forgotten world never lands on the same body of the next.           *)
PixelsMatchHash ==
    \A b \in Bodies, c \in Chunks :
      /\ slot[b][c].ready => slot[b][c].px = slot[b][c].hash
      /\ slot[b][c].px \notin {None, Torn} => slot[b][c].px.world = world

(* n_ready, kept by hand at every landing, sweep and drop, is the number of *)
(* chunks that are stored and not stale.                                    *)
ReadyCounted == \A b \in Bodies : body[b].n_ready = Cardinality(ReadyClean(slot[b]))

(* The pool's books balance: the two counts kept by hand and the numbers   *)
(* slots, pages and bodies wait by all speak of the jobs there are.        *)
PoolBooks == InflightExact /\ NothingLost /\ ReadyCounted

(* master_current(): "every chunk landed against the latest source          *)
(* snapshot, and that snapshot's sweep has run" (ground_layer.hpp:135).     *)
(* So it is while no value of the ground comes back: `move` only grows, so  *)
(* with Routed empty none does.  The lens brings one back, by taking the    *)
(* roads off and on again.                                                  *)
master_current(b) ==
    /\ b \in present /\ body[b].n_ready >= Cardinality(Chunks)
    /\ body[b].sweep = 0 /\ body[b].swept = body[b].src
CurrentShowsSource ==
    \A b \in Bodies : master_current(b) => \A c \in Chunks : slot[b][c].px = body[b].src[c]

(* Once nobody moves, every body drawn or pre-baked comes to show the       *)
(* world: its snapshot is the world's, every chunk is painted from it (or   *)
(* left alone by the lens, out of the view), and so is the far page.        *)
Settled(b) ==
    /\ held => body[b].src = prepare_source(b, view.hide)
    /\ \A c \in Chunks : \/ slot[b][c].px = body[b].src[c]
                         \/ slot[b][c].ready /\ b = view.active /\ view.hide /\ c \notin Near
    /\ page[b].hash = body[b].src \/ (view.hide /\ page[b].hash # None)
SettlesOnSource == <>[](\A b \in Worked : Settled(b))

=============================================================================
