-------------------------- MODULE GroundBakeProofs --------------------------
(***************************************************************************)
(* Proofs about GroundBake for every set of bodies, chunks and workers,    *)
(* every queue cap and cadence, and every bound on the moves.              *)
(***************************************************************************)
EXTENDS GroundBake, FiniteSetTheorems, SequenceTheorems, TLAPS

----------------------------------------------------------------------------
(* Sequences of jobs *)

LEMMA RangeEmpty == Range(<< >>) = {}
BY DEF Range

LEMMA RangeAppend ==
    ASSUME NEW S, NEW s \in Seq(S), NEW e \in S
    PROVE  Append(s, e) \in Seq(S) /\ Range(Append(s, e)) = Range(s) \cup {e}
<1>1. DOMAIN s = 1 .. Len(s) /\ DOMAIN Append(s, e) = 1 .. Len(s) + 1 /\ Len(s) \in Nat
      OBVIOUS
<1>2. \A i \in 1 .. Len(s) : Append(s, e)[i] = s[i] OBVIOUS
<1>3. Append(s, e)[Len(s) + 1] = e OBVIOUS
<1> QED BY <1>1, <1>2, <1>3 DEF Range

LEMMA RangeTail ==
    ASSUME NEW S, NEW s \in Seq(S), s # << >>
    PROVE  /\ Head(s) \in S /\ Tail(s) \in Seq(S)
           /\ Range(s) = Range(Tail(s)) \cup {Head(s)}
<1>1. /\ Head(s) \in S /\ Tail(s) \in Seq(S) /\ Len(Tail(s)) = Len(s) - 1
      /\ \A i \in 1 .. Len(Tail(s)) : Tail(s)[i] = s[i + 1]
      BY HeadTailProperties
<1>2. /\ Len(s) \in Nat \ {0} /\ DOMAIN s = 1 .. Len(s)
      /\ DOMAIN Tail(s) = 1 .. Len(s) - 1 /\ Head(s) = s[1]
      BY <1>1, LenProperties, EmptySeq
<1>3. Range(s) \subseteq Range(Tail(s)) \cup {Head(s)}
  <2> SUFFICES ASSUME NEW i \in 1 .. Len(s) PROVE s[i] \in Range(Tail(s)) \cup {Head(s)}
      BY <1>2 DEF Range
  <2>1. CASE i = 1 BY <2>1, <1>2
  <2>2. CASE i # 1
    <3>1. i - 1 \in 1 .. Len(s) - 1 /\ Tail(s)[i - 1] = s[i] BY <2>2, <1>1, <1>2
    <3> QED BY <3>1, <1>2 DEF Range
  <2> QED BY <2>1, <2>2
<1>4. Range(Tail(s)) \cup {Head(s)} \subseteq Range(s)
  <2>1. \A i \in 1 .. Len(s) - 1 : Tail(s)[i] = s[i + 1] /\ i + 1 \in 1 .. Len(s)
        BY <1>1, <1>2
  <2>2. 1 \in 1 .. Len(s) BY <1>2
  <2> QED BY <2>1, <2>2, <1>2 DEF Range
<1> QED BY <1>1, <1>3, <1>4

----------------------------------------------------------------------------
(* What each kind of step does to the jobs there are *)

LEMMA LiveInit == Init => Live = {}
<1> SUFFICES ASSUME Init PROVE Live = {} OBVIOUS
<1> QED BY RangeEmpty DEF Init, Live, InHands

LEMMA LiveTake ==
    ASSUME PoolTypeOK, NEW w \in Workers, Take(w) PROVE Live' = Live
<1>1. PICK j \in m_jobs : m_jobs' = m_jobs \ {j} /\ running' = [running EXCEPT ![w] = j]
      BY DEF Take
<1>2. j # None /\ running[w] = None BY NoneAssumption DEF PoolTypeOK, Take
<1>3. running \in [Workers -> Job \cup {None}] BY DEF PoolTypeOK
<1>4. InHands' = InHands \cup {j}
  <2>1. running'[w] = j /\ \A v \in Workers \ {w} : running'[v] = running[v] BY <1>1, <1>3
  <2> QED BY <2>1, <1>2 DEF InHands
<1>5. m_results' = m_results /\ done' = done BY DEF Take, mainVars
<1> QED BY <1>1, <1>4, <1>5 DEF Live

LEMMA LiveFinish ==
    ASSUME PoolTypeOK, NEW w \in Workers, Finish(w)
    PROVE  \E p \in BOOLEAN :
             /\ p => running[w].old # None
             /\ running[w] \in Job /\ running[w] \in Live
             /\ [running[w] EXCEPT !.patched = p] \in Job
             /\ m_results' \in Seq(Job)
             /\ Live' \subseteq Live \cup {[running[w] EXCEPT !.patched = p]}
             /\ Live \subseteq Live' \cup {running[w]}
             /\ [running[w] EXCEPT !.patched = p] \in Live'
<1>1. PICK p \in BOOLEAN : /\ p => running[w].old # None
                           /\ m_results' = Append(m_results, [running[w] EXCEPT !.patched = p])
      BY DEF Finish
<1> DEFINE r == [running[w] EXCEPT !.patched = p]
<1>2. running[w] \in Job /\ running[w] # None BY DEF PoolTypeOK, Finish
<1>3. r \in Job BY <1>2 DEF Job
<1>4. m_results' \in Seq(Job) /\ Range(m_results') = Range(m_results) \cup {r}
  <2>1. m_results \in Seq(Job) /\ m_results' = Append(m_results, r) BY <1>1 DEF PoolTypeOK
  <2> HIDE DEF r
  <2>2. Append(m_results, r) \in Seq(Job) /\ Range(Append(m_results, r)) = Range(m_results) \cup {r}
        BY <1>3, <2>1, RangeAppend
  <2> QED BY <2>1, <2>2
<1>5. running' = [running EXCEPT ![w] = None] /\ m_jobs' = m_jobs /\ done' = done
      BY DEF Finish, mainVars
<1>6. InHands' \subseteq InHands /\ InHands \subseteq InHands' \cup {running[w]}
  <2>1. running'[w] = None /\ \A v \in Workers \ {w} : running'[v] = running[v]
        BY <1>5 DEF PoolTypeOK
  <2> QED BY <2>1 DEF InHands
<1>7. running[w] \in InHands BY <1>2 DEF InHands
<1> QED BY <1>1, <1>2, <1>3, <1>4, <1>5, <1>6, <1>7 DEF Live

LEMMA LiveEnqueue ==
    ASSUME NEW js, m_jobs' = m_jobs \cup js, UNCHANGED <<running, m_results, done>>
    PROVE  Live' = Live \cup js
BY DEF Live, InHands

LEMMA LivePump ==
    ASSUME PoolTypeOK, pump, done = << >> PROVE Live' = Live
<1>1. /\ m_results' = << >> /\ done' = m_results /\ m_jobs' = m_jobs /\ running' = running
      BY DEF pump
<1>2. Range(m_results') = Range(done) BY <1>1
<1> QED BY <1>1, <1>2 DEF Live, InHands

LEMMA LiveLanded ==
    ASSUME PoolTypeOK, Landed, done # << >>
    PROVE  /\ Live = Live' \cup {Head(done)} /\ done' \in Seq(Job) /\ Head(done) \in Job
<1>1. /\ done' = Tail(done) /\ UNCHANGED <<m_jobs, running, m_results>> BY DEF Landed, poolVars
<1>2. Range(done) = Range(done') \cup {Head(done)} /\ done' \in Seq(Job) /\ Head(done) \in Job
      BY <1>1, RangeTail DEF PoolTypeOK
<1> QED BY <1>1, <1>2 DEF Live, InHands

LEMMA LiveSame ==
    ASSUME UNCHANGED <<m_jobs, running, m_results, done>> PROVE Live' = Live
BY DEF Live, InHands

LEMMA LiveDrop ==
    ASSUME NEW V, drop_master(V), UNCHANGED <<running, m_results, done>>
    PROVE  /\ Live' \subseteq Live
           /\ \A j \in Live : j \in Live' \/ (j.kind = "master" /\ j.body \in V)
BY DEF Live, InHands, drop_master, MasterJobsOf

LEMMA LiveForget == ASSUME forget_world PROVE Live' \subseteq Live
<1>1. m_jobs' = {} /\ m_results' = << >> /\ running' = running /\ done' = done
      BY DEF forget_world, mainVars
<1> QED BY <1>1, RangeEmpty DEF Live, InHands

----------------------------------------------------------------------------
(* Types *)

(* The bodies known have a snapshot of this world; a body not known waits  *)
(* for nothing; nothing is being landed while the main thread is elsewhere;*)
(* a job's part is of its kind, and a patch has pixels to be laid over.    *)
Sourced == \A b \in present : body[b].src \in Snapshot /\ \A c \in Chunks : body[b].src[c].world = world
Absent == \A b \in Bodies \ present :
            /\ body[b].sweep = 0
            /\ \A c \in Chunks : slot[b][c].job = 0
            /\ \A k \in Pieces : page[b].job[k] = 0
NothingInHand == main # "land" => done = << >>
JobsFit == \A j \in Live : /\ j.kind = "master" => j.part \in Chunks
                           /\ j.kind = "far" => j.part \in Pieces
                           /\ j.patched => j.old # None

LEMMA TakenType ==
    ASSUME GroundTypeOK, NEW b \in Bodies, NEW bare \in BOOLEAN
    PROVE  /\ prepare_source(b, bare) \in Snapshot
           /\ \A c \in Chunks : prepare_source(b, bare)[c].world = world
           /\ set_source(b, bare) \in Body
           /\ set_source(b, bare).src = prepare_source(b, bare)
           /\ set_source(b, bare).sweep = body[b].sweep
           /\ set_source(b, bare).swept = body[b].swept
           /\ set_source(b, bare).n_ready = body[b].n_ready
<1>1. \A c \in Chunks : [world |-> world, move |-> ground[b][c],
                         bare |-> bare /\ c \in Routed] \in Value
      BY DEF GroundTypeOK, Value
<1>2. prepare_source(b, bare) \in Snapshot BY <1>1 DEF prepare_source, Snapshot
<1>3. body[b] \in Body BY DEF GroundTypeOK
<1> QED BY <1>2, <1>3 DEF prepare_source, set_source, Body

LEMMA AgedType ==
    ASSUME GroundTypeOK, NEW b \in Bodies
    PROVE  /\ Aged(b) \in Body
           /\ Aged(b).src \in {body[b].src, prepare_source(b, view.hide)}
           /\ Aged(b).sweep = body[b].sweep
           /\ Aged(b).swept = body[b].swept
           /\ Aged(b).n_ready = body[b].n_ready
<1>1. view.hide \in BOOLEAN BY DEF GroundTypeOK, View
<1>2. body[b] \in Body BY DEF GroundTypeOK
<1>3. CASE body[b].age + 1 >= k_src_cadence BY <1>1, <1>3, TakenType DEF Aged
<1>4. CASE ~(body[b].age + 1 >= k_src_cadence)
  <2>1. Aged(b) = [body[b] EXCEPT !.age = @ + 1] BY <1>4 DEF Aged
  <2> QED BY <2>1, <1>2 DEF Body
<1> QED BY <1>3, <1>4

LEMMA JobType ==
    ASSUME GroundTypeOK, Sourced, NEW b \in present, NEW kind \in {"far", "sweep", "master"},
           NEW prio \in 0 .. 3, NEW part \in Chunks \cup Pieces \cup {None},
           NEW n \in Nat \ {0}, NEW old \in Value \cup {None}
    PROVE  JobOf(kind, prio, b, part, n, old) \in Job
BY DEF GroundTypeOK, Sourced, Job, JobOf

LEMMA FarJobs ==
    ASSUME GroundTypeOK, PoolTypeOK, Sourced, NEW b \in present
    PROVE  LET js == {JobOf("far", k_prio_far, b, k, m_seq_counter + k, None) : k \in Pieces}
           IN js \subseteq Job /\ IsFiniteSet(js) /\ Cardinality(js) = NPieces
<1> DEFINE f == [k \in Pieces |-> JobOf("far", k_prio_far, b, k, m_seq_counter + k, None)]
           js == {JobOf("far", k_prio_far, b, k, m_seq_counter + k, None) : k \in Pieces}
<1>1. \A k \in Pieces : k \in Nat \ {0} /\ m_seq_counter + k \in Nat \ {0}
      BY NumbersAssumption DEF Pieces, PoolTypeOK
<1>2. js \subseteq Job
  <2> SUFFICES ASSUME NEW k \in Pieces PROVE JobOf("far", k_prio_far, b, k, m_seq_counter + k, None) \in Job
      OBVIOUS
  <2>1. k_prio_far \in 0 .. 3 BY DEF k_prio_far
  <2> QED BY <1>1, <2>1, JobType
<1>3. \A k, l \in Pieces : f[k] = f[l] => k = l
  <2>1. \A k \in Pieces : f[k].part = k BY DEF JobOf
  <2> QED BY <2>1
<1>4. f \in Bijection(Pieces, js)
  <2>1. f \in [Pieces -> js] OBVIOUS
  <2>2. \A j \in js : \E k \in Pieces : f[k] = j OBVIOUS
  <2> HIDE DEF f, js
  <2> QED BY <2>1, <2>2, <1>3 DEF Bijection, Injection, Surjection, IsInjective
<1>5. IsFiniteSet(Pieces) /\ Cardinality(Pieces) = NPieces
      BY FS_Interval, NumbersAssumption DEF Pieces
<1>6. ExistsBijection(Pieces, js) BY <1>4 DEF ExistsBijection
<1>7. IsFiniteSet(js) /\ Cardinality(js) = Cardinality(Pieces) BY <1>5, <1>6, FS_Bijection
<1> QED BY <1>2, <1>5, <1>7

LEMMA InitType == Init => PoolTypeOK /\ GroundTypeOK /\ Sourced /\ Absent /\ NothingInHand /\ JobsFit
<1> SUFFICES ASSUME Init
             PROVE  PoolTypeOK /\ GroundTypeOK /\ Sourced /\ Absent /\ NothingInHand /\ JobsFit
    OBVIOUS
<1>1. Live = {} BY LiveInit
<1>2. PoolTypeOK BY <1>1, FS_EmptySet DEF Init, PoolTypeOK
<1>3. EmptyBody \in Body BY DEF EmptyBody, Body
<1>4. EmptySlot \in Slot BY DEF EmptySlot, Slot
<1>5. EmptyPage \in Page BY DEF EmptyPage, Page
<1>6. EmptyView \in View BY DEF EmptyView, View
<1>7. GroundTypeOK BY <1>3, <1>4, <1>5, <1>6 DEF Init, GroundTypeOK
<1>8. Sourced /\ NothingInHand /\ JobsFit BY <1>1 DEF Init, Sourced, NothingInHand, JobsFit
<1>9. Absent BY DEF Init, Absent, EmptyBody, EmptySlot, EmptyPage
<1> QED BY <1>2, <1>7, <1>8, <1>9

----------------------------------------------------------------------------
(* Types, step by step.  TypeInv is what every action preserves.           *)

TypeInv == PoolTypeOK /\ GroundTypeOK /\ Sourced /\ Absent /\ NothingInHand /\ JobsFit

LEMMA TakeType == ASSUME TypeInv, NEW w \in Workers, Take(w) PROVE TypeInv'
<1>1. Live' = Live BY LiveTake DEF TypeInv
<1>2. PICK j \in m_jobs : m_jobs' = m_jobs \ {j} /\ running' = [running EXCEPT ![w] = j]
      BY DEF Take
<1>3. UNCHANGED <<m_results, m_inflight, m_seq_counter, done>> BY DEF Take, mainVars
<1>4. IsFiniteSet(m_jobs') BY <1>2, FS_RemoveElement DEF TypeInv, PoolTypeOK
<1>5. PoolTypeOK' BY <1>1, <1>2, <1>3, <1>4 DEF TypeInv, PoolTypeOK
<1>6. UNCHANGED <<bodyVars, view, envVars, mainVars>> BY DEF Take
<1> QED BY <1>1, <1>5, <1>6 DEF TypeInv, GroundTypeOK, Sourced, Absent, NothingInHand, JobsFit,
                               bodyVars, envVars, mainVars

LEMMA FinishType == ASSUME TypeInv, NEW w \in Workers, Finish(w) PROVE TypeInv'
<1>1. PICK p \in BOOLEAN :
             /\ p => running[w].old # None
             /\ running[w] \in Job /\ running[w] \in Live
             /\ [running[w] EXCEPT !.patched = p] \in Job
             /\ m_results' \in Seq(Job)
             /\ Live' \subseteq Live \cup {[running[w] EXCEPT !.patched = p]}
      BY LiveFinish DEF TypeInv
<1> DEFINE r == [running[w] EXCEPT !.patched = p]
<1>2. /\ r.seq = running[w].seq /\ r.kind = running[w].kind /\ r.part = running[w].part
      /\ r.old = running[w].old /\ r.patched = p
      BY <1>1 DEF Job
<1>3. /\ running' = [running EXCEPT ![w] = None] /\ m_inflight' = m_inflight - 1
      /\ UNCHANGED <<m_jobs, m_seq_counter, bodyVars, view, envVars, mainVars>>
      BY DEF Finish
<1> HIDE DEF r
<1>4. Live' \subseteq Live \cup {r} BY <1>1 DEF r
<1>5. PoolTypeOK'
  <2>1. \A j \in Live' : j.seq <= m_seq_counter' BY <1>1, <1>2, <1>3, <1>4 DEF TypeInv, PoolTypeOK
  <2> QED BY <2>1, <1>1, <1>3 DEF TypeInv, PoolTypeOK, mainVars
<1>6. JobsFit' BY <1>1, <1>2, <1>4 DEF TypeInv, JobsFit
<1> QED BY <1>3, <1>5, <1>6 DEF TypeInv, GroundTypeOK, Sourced, Absent, NothingInHand,
                               bodyVars, envVars, mainVars

(* enqueue(): fresh jobs join the pool *)
LEMMA EnqueueType ==
    ASSUME TypeInv, NEW js, js \subseteq Job, IsFiniteSet(js), enqueue(js),
           UNCHANGED <<running, m_results, done>>,
           \A j \in js : /\ m_seq_counter < j.seq /\ j.seq <= m_seq_counter + Cardinality(js) /\ ~j.patched
                         /\ j.kind = "master" => j.part \in Chunks
                         /\ j.kind = "far" => j.part \in Pieces
    PROVE  PoolTypeOK' /\ JobsFit' /\ Live' = Live \cup js
<1>1. Live' = Live \cup js BY LiveEnqueue DEF enqueue
<1>2. Cardinality(js) \in Nat BY FS_CardinalityType
<1>3. IsFiniteSet(m_jobs \cup js) BY FS_Union DEF TypeInv, PoolTypeOK
<1>4. \A j \in Live' : j.seq <= m_seq_counter'
  <2>1. Live \subseteq Job
    <3>1. Range(m_results) \subseteq Job /\ Range(done) \subseteq Job
          BY LenProperties DEF TypeInv, PoolTypeOK, Range
    <3> QED BY <3>1 DEF Live, InHands, TypeInv, PoolTypeOK
  <2>2. \A j \in Live : j.seq \in Nat /\ j.seq <= m_seq_counter BY <2>1 DEF TypeInv, PoolTypeOK, Job
  <2>3. \A j \in js : j.seq \in Nat BY DEF Job
  <2> QED BY <1>1, <1>2, <2>2, <2>3 DEF enqueue, TypeInv, PoolTypeOK
<1>5. PoolTypeOK' BY <1>2, <1>3, <1>4 DEF enqueue, TypeInv, PoolTypeOK
<1>6. JobsFit' BY <1>1 DEF TypeInv, JobsFit
<1> QED BY <1>1, <1>5, <1>6

LEMMA StartFarJobs ==
    ASSUME TypeInv, NEW b \in Bodies, start_far(b)
    PROVE  LET js == {JobOf("far", k_prio_far, b, k, m_seq_counter + k, None) : k \in Pieces}
           IN /\ b \in present /\ js \subseteq Job /\ IsFiniteSet(js) /\ Cardinality(js) = NPieces
              /\ enqueue(js) /\ m_seq_counter' = m_seq_counter + NPieces
              /\ PoolTypeOK' /\ JobsFit' /\ Live' = Live \cup js
<1> DEFINE js == {JobOf("far", k_prio_far, b, k, m_seq_counter + k, None) : k \in Pieces}
<1>1. b \in present BY DEF start_far, NeedsFar, Worked
<1>2. js \subseteq Job /\ IsFiniteSet(js) /\ Cardinality(js) = NPieces
      BY <1>1, FarJobs DEF TypeInv
<1>3. enqueue(js) /\ UNCHANGED <<running, m_results, done>> BY DEF start_far
<1>4. \A j \in js : /\ m_seq_counter < j.seq /\ j.seq <= m_seq_counter + Cardinality(js) /\ ~j.patched
                    /\ j.kind = "master" => j.part \in Chunks
                    /\ j.kind = "far" => j.part \in Pieces
  <2> SUFFICES ASSUME NEW k \in Pieces
               PROVE  LET j == JobOf("far", k_prio_far, b, k, m_seq_counter + k, None)
                      IN /\ m_seq_counter < j.seq /\ j.seq <= m_seq_counter + Cardinality(js) /\ ~j.patched
                         /\ j.kind = "master" => j.part \in Chunks
                         /\ j.kind = "far" => j.part \in Pieces
      OBVIOUS
  <2>1. k \in Nat /\ 1 <= k /\ k <= NPieces BY NumbersAssumption DEF Pieces
  <2>2. m_seq_counter \in Nat BY DEF TypeInv, PoolTypeOK
  <2> HIDE DEF js
  <2> QED BY <2>1, <2>2, <1>2, NumbersAssumption DEF JobOf
<1> HIDE DEF js
<1>5. PoolTypeOK' /\ JobsFit' /\ Live' = Live \cup js BY <1>2, <1>3, <1>4, EnqueueType
<1>6. m_seq_counter' = m_seq_counter + NPieces BY <1>2, <1>3 DEF enqueue
<1> QED BY <1>1, <1>2, <1>3, <1>5, <1>6 DEF js

(* one job more, for a body that has a snapshot *)
LEMMA StartOneJob ==
    ASSUME TypeInv, NEW b \in present, NEW kind \in {"sweep", "master"}, NEW prio \in 0 .. 3,
           NEW part \in Chunks \cup {None}, NEW old \in Value \cup {None},
           kind = "master" => part \in Chunks,
           enqueue({JobOf(kind, prio, b, part, m_seq_counter + 1, old)}),
           UNCHANGED <<running, m_results, done>>
    PROVE  LET j == JobOf(kind, prio, b, part, m_seq_counter + 1, old)
           IN /\ j \in Job /\ m_seq_counter' = m_seq_counter + 1 /\ m_inflight' = m_inflight + 1
              /\ PoolTypeOK' /\ JobsFit' /\ Live' = Live \cup {j}
<1> DEFINE j == JobOf(kind, prio, b, part, m_seq_counter + 1, old)
<1>1. m_seq_counter + 1 \in Nat \ {0} BY DEF TypeInv, PoolTypeOK
<1>2. j \in Job BY <1>1, JobType DEF TypeInv
<1>3. IsFiniteSet({j}) /\ Cardinality({j}) = 1 BY FS_Singleton
<1>4. /\ j.seq = m_seq_counter + 1 /\ j.patched = FALSE /\ j.kind = kind /\ j.part = part BY DEF JobOf
<1>5. m_seq_counter \in Nat BY DEF TypeInv, PoolTypeOK
<1>6. /\ m_seq_counter < j.seq /\ j.seq <= m_seq_counter + Cardinality({j}) /\ ~j.patched
      /\ j.kind = "master" => j.part \in Chunks
      /\ j.kind = "far" => j.part \in Pieces
      BY <1>3, <1>4, <1>5
<1> HIDE DEF j
<1>7. enqueue({j}) BY DEF j
<1>8. PoolTypeOK' /\ JobsFit' /\ Live' = Live \cup {j}
      BY <1>2, <1>3, <1>6, <1>7, EnqueueType
<1>9. m_seq_counter' = m_seq_counter + 1 /\ m_inflight' = m_inflight + 1 BY <1>3, <1>7 DEF enqueue
<1> QED BY <1>2, <1>8, <1>9 DEF j

LEMMA StartFarType == ASSUME TypeInv, NEW b \in Bodies, start_far(b) PROVE TypeInv'
<1>1. b \in present /\ PoolTypeOK' /\ JobsFit' BY StartFarJobs
<1>2. /\ page' = [page EXCEPT ![b] = [@ EXCEPT !.baking = body[b].src,
                                              !.job = [k \in Pieces |-> m_seq_counter + k]]]
      /\ queued' = queued + NPieces
      /\ UNCHANGED <<present, body, slot, view, envVars, main, done>>
      BY DEF start_far
<1>3. page' \in [Bodies -> Page]
  <2>1. page[b] \in Page /\ body[b].src \in Snapshot BY <1>1 DEF TypeInv, GroundTypeOK, Sourced
  <2>2. [k \in Pieces |-> m_seq_counter + k] \in [Pieces -> Nat] BY DEF TypeInv, PoolTypeOK, Pieces
  <2>3. [page[b] EXCEPT !.baking = body[b].src, !.job = [k \in Pieces |-> m_seq_counter + k]] \in Page
        BY <2>1, <2>2 DEF Page
  <2> QED BY <1>2, <2>3 DEF TypeInv, GroundTypeOK
<1>4. GroundTypeOK' BY <1>2, <1>3, NumbersAssumption DEF TypeInv, GroundTypeOK, envVars
<1>5. Absent' BY <1>1, <1>2 DEF TypeInv, Absent, GroundTypeOK
<1> QED BY <1>1, <1>2, <1>4, <1>5 DEF TypeInv, Sourced, NothingInHand, envVars

LEMMA StartSweepType ==
    ASSUME TypeInv, NEW b \in Bodies, make_sweep_job(b)
    PROVE  TypeInv' /\ b \in present /\ m_seq_counter' = m_seq_counter + 1 /\ m_inflight' = m_inflight + 1
           /\ JobOf("sweep", k_prio_sweep, b, None, m_seq_counter + 1, None) \in Job
           /\ Live' = Live \cup {JobOf("sweep", k_prio_sweep, b, None, m_seq_counter + 1, None)}
<1>1. b \in present BY DEF make_sweep_job, NeedsSweep, Worked
<1>2. /\ body' = [body EXCEPT ![b].sweep = m_seq_counter + 1] /\ queued' = queued + 1
      /\ enqueue({JobOf("sweep", k_prio_sweep, b, None, m_seq_counter + 1, None)})
      /\ UNCHANGED <<running, m_results, present, slot, page, view, envVars, main, done>>
      BY DEF make_sweep_job
<1>3. /\ PoolTypeOK' /\ JobsFit' /\ m_seq_counter' = m_seq_counter + 1 /\ m_inflight' = m_inflight + 1
      /\ JobOf("sweep", k_prio_sweep, b, None, m_seq_counter + 1, None) \in Job
      /\ Live' = Live \cup {JobOf("sweep", k_prio_sweep, b, None, m_seq_counter + 1, None)}
  <2>1. k_prio_sweep \in 0 .. 3 BY DEF k_prio_sweep
  <2> QED BY <1>1, <1>2, <2>1, StartOneJob
<1>4. body' \in [Bodies -> Body]
  <2>1. body[b] \in Body /\ m_seq_counter + 1 \in Nat BY DEF TypeInv, GroundTypeOK, PoolTypeOK
  <2>2. [body[b] EXCEPT !.sweep = m_seq_counter + 1] \in Body BY <2>1 DEF Body
  <2> QED BY <1>2, <2>2 DEF TypeInv, GroundTypeOK
<1>5. GroundTypeOK' BY <1>2, <1>4 DEF TypeInv, GroundTypeOK, envVars
<1>6. \A x \in Bodies : body'[x].src = body[x].src
  <2>1. body[b] \in Body BY DEF TypeInv, GroundTypeOK
  <2> QED BY <1>2, <2>1 DEF Body, TypeInv, GroundTypeOK
<1>7. Sourced' BY <1>2, <1>6 DEF TypeInv, Sourced, GroundTypeOK, envVars
<1>8. Absent' BY <1>1, <1>2 DEF TypeInv, Absent, GroundTypeOK
<1> QED BY <1>1, <1>2, <1>3, <1>5, <1>7, <1>8 DEF TypeInv, NothingInHand

LEMMA StartMasterType ==
    ASSUME TypeInv, NEW b \in Bodies, NEW c \in Chunks, make_master_job(b, c)
    PROVE  TypeInv' /\ b \in present /\ m_seq_counter' = m_seq_counter + 1 /\ m_inflight' = m_inflight + 1
           /\ JobOf("master", prio_of(b), b, c, m_seq_counter + 1, slot[b][c].old) \in Job
           /\ Live' = Live \cup {JobOf("master", prio_of(b), b, c, m_seq_counter + 1, slot[b][c].old)}
<1>1. b \in present BY DEF make_master_job, Worked
<1>2. /\ slot' = [slot EXCEPT ![b][c].job = m_seq_counter + 1] /\ queued' = queued + 1
      /\ enqueue({JobOf("master", prio_of(b), b, c, m_seq_counter + 1, slot[b][c].old)})
      /\ UNCHANGED <<running, m_results, present, body, page, view, envVars, main, done>>
      BY DEF make_master_job
<1>3. slot[b][c] \in Slot BY DEF TypeInv, GroundTypeOK
<1>4. /\ PoolTypeOK' /\ JobsFit' /\ m_seq_counter' = m_seq_counter + 1 /\ m_inflight' = m_inflight + 1
      /\ JobOf("master", prio_of(b), b, c, m_seq_counter + 1, slot[b][c].old) \in Job
      /\ Live' = Live \cup {JobOf("master", prio_of(b), b, c, m_seq_counter + 1, slot[b][c].old)}
  <2>1. prio_of(b) \in 0 .. 3 BY DEF prio_of
  <2>2. slot[b][c].old \in Value \cup {None} BY <1>3 DEF Slot
  <2> QED BY <1>1, <1>2, <2>1, <2>2, StartOneJob
<1>5. slot' \in [Bodies -> [Chunks -> Slot]]
  <2>1. m_seq_counter + 1 \in Nat BY DEF TypeInv, PoolTypeOK
  <2>2. [slot[b][c] EXCEPT !.job = m_seq_counter + 1] \in Slot BY <1>3, <2>1 DEF Slot
  <2>3. slot' = [slot EXCEPT ![b] = [slot[b] EXCEPT ![c] = [slot[b][c] EXCEPT !.job = m_seq_counter + 1]]]
        BY <1>2
  <2> QED BY <2>2, <2>3 DEF TypeInv, GroundTypeOK
<1>6. GroundTypeOK' BY <1>2, <1>5 DEF TypeInv, GroundTypeOK, envVars
<1>7. Sourced' BY <1>2 DEF TypeInv, Sourced, envVars
<1>8. \A x \in Bodies \ {b} : slot'[x] = slot[x] BY <1>2 DEF TypeInv, GroundTypeOK
<1>9. Absent' BY <1>1, <1>2, <1>8 DEF TypeInv, Absent
<1> QED BY <1>1, <1>2, <1>4, <1>6, <1>7, <1>9 DEF TypeInv, NothingInHand

LEMMA PumpType == ASSUME TypeInv, pump PROVE TypeInv' /\ Live' = Live
<1>1. done = << >> BY DEF pump, TypeInv, NothingInHand
<1>2. Live' = Live BY <1>1, LivePump DEF TypeInv
<1>3. /\ main' = "land" /\ done' = m_results /\ m_results' = << >>
      /\ UNCHANGED <<m_jobs, running, m_inflight, m_seq_counter, bodyVars, view, envVars, queued>>
      BY DEF pump
<1>4. PoolTypeOK' BY <1>2, <1>3 DEF TypeInv, PoolTypeOK
<1>5. GroundTypeOK' BY <1>3 DEF TypeInv, GroundTypeOK, bodyVars, envVars
<1> QED BY <1>2, <1>3, <1>4, <1>5
        DEF TypeInv, Sourced, Absent, NothingInHand, JobsFit, bodyVars, envVars

(* landing one result leaves the pool, and every body but its own, alone   *)
LEMMA LandedType ==
    ASSUME TypeInv, main = "land", done # << >>, Landed
    PROVE  /\ PoolTypeOK' /\ JobsFit' /\ NothingInHand'
           /\ Live = Live' \cup {Head(done)} /\ Head(done) \in Job
           /\ UNCHANGED <<m_jobs, running, m_results, m_inflight, m_seq_counter, present, view,
                          ground, world, held, moves, main, queued>>
<1>1. /\ Live = Live' \cup {Head(done)} /\ done' \in Seq(Job) /\ Head(done) \in Job
      BY LiveLanded DEF TypeInv
<1>2. UNCHANGED <<m_jobs, running, m_results, m_inflight, m_seq_counter, present, view,
                  ground, world, held, moves, main, queued>>
      BY DEF Landed, poolVars, envVars
<1>3. PoolTypeOK' BY <1>1, <1>2 DEF TypeInv, PoolTypeOK
<1>4. JobsFit' BY <1>1 DEF TypeInv, JobsFit
<1>5. NothingInHand' BY <1>2 DEF NothingInHand
<1> QED BY <1>1, <1>2, <1>3, <1>4, <1>5

LEMMA LandOrphanType == ASSUME TypeInv, LandOrphan PROVE TypeInv'
<1>1. /\ main = "land" /\ done # << >> /\ Landed /\ UNCHANGED <<body, slot, page>>
      BY DEF LandOrphan
<1>2. /\ PoolTypeOK' /\ JobsFit' /\ NothingInHand'
      /\ UNCHANGED <<present, view, ground, world, held, moves, main, queued>>
      BY <1>1, LandedType
<1> QED BY <1>1, <1>2 DEF TypeInv, GroundTypeOK, Sourced, Absent

LEMMA AwaitedFits ==
    ASSUME TypeInv, NEW d \in Live, d \in Job, Awaited(d)
    PROVE  /\ d.body \in present /\ d.body \in Bodies
           /\ d.kind = "master" => d.part \in Chunks
           /\ d.kind = "far" => d.part \in Pieces
           /\ d.snap \in Snapshot
BY DEF Awaited, TypeInv, JobsFit, Job

LEMMA LandFarType == ASSUME TypeInv, LandFar PROVE TypeInv'
<1> DEFINE d == Head(done)
           p == [page[d.body] EXCEPT !.job[d.part] = 0, !.px[d.part] = d.snap]
           q == IF \A k \in Pieces : p.job[k] = 0
                THEN [p EXCEPT !.hash = p.baking, !.ver = @ + 1] ELSE p
<1>1. /\ main = "land" /\ done # << >> /\ Landed /\ UNCHANGED <<body, slot>>
      /\ d.kind = "far" /\ Awaited(d) /\ page' = [page EXCEPT ![d.body] = q]
      BY DEF LandFar, Landing
<1>2. /\ PoolTypeOK' /\ JobsFit' /\ NothingInHand' /\ d \in Live /\ d \in Job
      /\ UNCHANGED <<present, view, ground, world, held, moves, main, queued>>
      BY <1>1, LandedType
<1>3. d.body \in present /\ d.body \in Bodies /\ d.part \in Pieces /\ d.snap \in Snapshot
      BY <1>1, <1>2, AwaitedFits
<1>4. q \in Page
  <2>1. page[d.body] \in Page BY <1>3 DEF TypeInv, GroundTypeOK
  <2>2. p \in Page BY <2>1, <1>3 DEF Page
  <2> HIDE DEF p
  <2>3. p.baking \in Snapshot \cup {None} /\ p.ver + 1 \in Nat BY <2>2 DEF Page
  <2>4. [p EXCEPT !.hash = p.baking, !.ver = @ + 1] \in Page BY <2>2, <2>3 DEF Page
  <2> QED BY <2>2, <2>4
<1> HIDE DEF q
<1>5. page' \in [Bodies -> Page] BY <1>1, <1>3, <1>4 DEF TypeInv, GroundTypeOK
<1>6. GroundTypeOK' BY <1>1, <1>2, <1>5 DEF TypeInv, GroundTypeOK
<1>7. Absent' BY <1>1, <1>2, <1>3 DEF TypeInv, Absent, GroundTypeOK
<1> QED BY <1>1, <1>2, <1>6, <1>7 DEF TypeInv, Sourced

LEMMA LandSweepType == ASSUME TypeInv, LandSweep PROVE TypeInv'
<1> DEFINE d == Head(done)
           ss == [c \in Chunks |-> [slot[d.body][c] EXCEPT
                     !.dirty = slot[d.body][c].ready /\ slot[d.body][c].hash # d.snap[c]]]
           n == Cardinality(ReadyClean(ss))
<1>1. /\ main = "land" /\ done # << >> /\ Landed /\ UNCHANGED page
      /\ d.kind = "sweep" /\ Awaited(d) /\ slot' = [slot EXCEPT ![d.body] = ss]
      /\ body' = [body EXCEPT ![d.body] =
                    [@ EXCEPT !.sweep = 0, !.swept = d.snap, !.n_ready = n]]
      BY DEF LandSweep, Landing
<1>2. /\ PoolTypeOK' /\ JobsFit' /\ NothingInHand' /\ d \in Live /\ d \in Job
      /\ UNCHANGED <<present, view, ground, world, held, moves, main, queued>>
      BY <1>1, LandedType
<1>3. d.body \in present /\ d.body \in Bodies /\ d.snap \in Snapshot
      BY <1>1, <1>2, AwaitedFits
<1>4. ss \in [Chunks -> Slot]
  <2> SUFFICES ASSUME NEW c \in Chunks
               PROVE  [slot[d.body][c] EXCEPT !.dirty =
                         slot[d.body][c].ready /\ slot[d.body][c].hash # d.snap[c]] \in Slot
      OBVIOUS
  <2>1. slot[d.body][c] \in Slot BY <1>3 DEF TypeInv, GroundTypeOK
  <2>2. slot[d.body][c].ready \in BOOLEAN BY <2>1 DEF Slot
  <2>3. (slot[d.body][c].ready /\ slot[d.body][c].hash # d.snap[c]) \in BOOLEAN BY <2>2
  <2> QED BY <2>1, <2>3 DEF Slot
<1>5. n \in Int
  <2>1. IsFiniteSet(ReadyClean(ss)) BY ChunksAssumption, FS_Subset DEF ReadyClean
  <2> QED BY <2>1, FS_CardinalityType
<1>6. body[d.body] \in Body BY <1>3 DEF TypeInv, GroundTypeOK
<1>7. [body[d.body] EXCEPT !.sweep = 0, !.swept = d.snap, !.n_ready = n] \in Body
  <2> HIDE DEF n
  <2> QED BY <1>3, <1>5, <1>6 DEF Body
<1> HIDE DEF ss, n
<1>8. GroundTypeOK' BY <1>1, <1>2, <1>3, <1>4, <1>7 DEF TypeInv, GroundTypeOK
<1>9. \A x \in Bodies : body'[x].src = body[x].src BY <1>1, <1>6 DEF Body, TypeInv, GroundTypeOK
<1>10. Sourced' BY <1>2, <1>9 DEF TypeInv, Sourced, GroundTypeOK
<1>11. Absent' BY <1>1, <1>2, <1>3 DEF TypeInv, Absent, GroundTypeOK
<1> QED BY <1>2, <1>8, <1>10, <1>11 DEF TypeInv

LEMMA StoredType ==
    ASSUME NEW s \in Slot, NEW d \in Job, d.part \in Chunks, d.snap \in Snapshot
    PROVE  /\ Stored(s, d) \in Slot /\ d.snap[d.part] \in Value
           /\ Stored(s, d).job = 0 /\ Stored(s, d).ready = TRUE
           /\ Stored(s, d).dirty = Stale(d.body, d)
           /\ Stored(s, d).hash = d.snap[d.part] /\ Stored(s, d).old = d.snap[d.part]
           /\ Stored(s, d).px = IF d.patched /\ s.px # d.old THEN Torn ELSE d.snap[d.part]
<1>1. d.snap[d.part] \in Value BY DEF Snapshot
<1>2. Stale(d.body, d) \in BOOLEAN BY DEF Stale
<1> QED BY <1>1, <1>2 DEF Stored, Slot

LEMMA CountedType == \A s : Counted(s) \in {0, 1}
BY DEF Counted

LEMMA LandMasterType == ASSUME TypeInv, LandMaster PROVE TypeInv'
<1> DEFINE d == Head(done)
           s == slot[d.body][d.part]
           t == Stored(s, d)
<1>1. /\ main = "land" /\ done # << >> /\ Landed /\ UNCHANGED page
      /\ d.kind = "master" /\ Awaited(d)
      /\ \/ /\ slot' = [slot EXCEPT ![d.body][d.part].job = 0] /\ UNCHANGED body
         \/ /\ slot' = [slot EXCEPT ![d.body][d.part] = t]
            /\ body' = [body EXCEPT ![d.body].n_ready = @ + Counted(t) - Counted(s)]
      BY DEF LandMaster, Landing
<1>2. /\ PoolTypeOK' /\ JobsFit' /\ NothingInHand' /\ d \in Live /\ d \in Job
      /\ UNCHANGED <<present, view, ground, world, held, moves, main, queued>>
      BY <1>1, LandedType
<1>3. d.body \in present /\ d.body \in Bodies /\ d.part \in Chunks /\ d.snap \in Snapshot
      BY <1>1, <1>2, AwaitedFits
<1>4. s \in Slot /\ body[d.body] \in Body BY <1>3 DEF TypeInv, GroundTypeOK
<1>5. t \in Slot BY <1>2, <1>3, <1>4, StoredType
<1>6. Counted(t) \in {0, 1} /\ Counted(s) \in {0, 1} BY CountedType
<1> HIDE DEF t
<1>7. CASE slot' = [slot EXCEPT ![d.body][d.part].job = 0] /\ UNCHANGED body
  <2>1. [s EXCEPT !.job = 0] \in Slot BY <1>4 DEF Slot
  <2>2. slot' = [slot EXCEPT ![d.body] = [slot[d.body] EXCEPT ![d.part] = [s EXCEPT !.job = 0]]]
        BY <1>7
  <2>3. slot' \in [Bodies -> [Chunks -> Slot]] BY <1>3, <2>1, <2>2 DEF TypeInv, GroundTypeOK
  <2>4. GroundTypeOK' BY <1>1, <1>2, <1>7, <2>3 DEF TypeInv, GroundTypeOK
  <2>5. Absent' BY <1>1, <1>2, <1>3, <1>7 DEF TypeInv, Absent, GroundTypeOK
  <2> QED BY <1>2, <1>7, <2>4, <2>5 DEF TypeInv, Sourced
<1>8. CASE /\ slot' = [slot EXCEPT ![d.body][d.part] = t]
           /\ body' = [body EXCEPT ![d.body].n_ready = @ + Counted(t) - Counted(s)]
  <2>1. slot' \in [Bodies -> [Chunks -> Slot]] BY <1>3, <1>5, <1>8 DEF TypeInv, GroundTypeOK
  <2>2. body[d.body].n_ready + Counted(t) - Counted(s) \in Int BY <1>4, <1>6 DEF Body
  <2>3. [body[d.body] EXCEPT !.n_ready = @ + Counted(t) - Counted(s)] \in Body
        BY <1>4, <2>2 DEF Body
  <2>4. body' \in [Bodies -> Body] BY <1>3, <1>8, <2>3 DEF TypeInv, GroundTypeOK
  <2>5. GroundTypeOK' BY <1>1, <1>2, <2>1, <2>4 DEF TypeInv, GroundTypeOK
  <2>6. \A x \in Bodies : body'[x].src = body[x].src
        BY <1>3, <1>4, <1>8 DEF Body, TypeInv, GroundTypeOK
  <2>7. Sourced' BY <1>2, <2>6 DEF TypeInv, Sourced, GroundTypeOK
  <2>8. Absent' BY <1>1, <1>2, <1>3, <1>8 DEF TypeInv, Absent, GroundTypeOK
  <2> QED BY <1>2, <2>5, <2>7, <2>8 DEF TypeInv
<1> QED BY <1>1, <1>7, <1>8

(* the steps that touch no job, no slot and no page *)
LEMMA QuietPool ==
    ASSUME TypeInv, UNCHANGED <<m_jobs, running, m_results, m_inflight, m_seq_counter, done>>
    PROVE  PoolTypeOK' /\ JobsFit' /\ Live' = Live
<1>1. Live' = Live BY LiveSame
<1> QED BY <1>1 DEF TypeInv, PoolTypeOK, JobsFit

LEMMA StartFeedType ==
    ASSUME TypeInv, NEW js, js \subseteq m_jobs, StartFeed(js)
    PROVE  main' \in {"idle", "house"} /\ queued' \in Nat
<1>1. IsFiniteSet(js) BY FS_Subset DEF TypeInv, PoolTypeOK
<1>2. queued' \in Nat BY <1>1, FS_CardinalityType DEF StartFeed
<1> QED BY <1>2 DEF StartFeed

LEMMA DrainedType == ASSUME TypeInv, Drained PROVE TypeInv' /\ Live' = Live
<1>1. /\ main = "land" /\ done = << >> /\ StartFeed(m_jobs)
      /\ UNCHANGED <<m_jobs, running, m_results, m_inflight, m_seq_counter, present, slot, page,
                     ground, world, held, moves, done>>
      /\ \/ held /\ view' = [view EXCEPT !.home = Home]
            /\ body' = [b \in Bodies |-> IF b \in Worked THEN Aged(b) ELSE body[b]]
         \/ UNCHANGED <<view, body>>
      BY DEF Drained, poolVars, envVars
<1>2. PoolTypeOK' /\ JobsFit' /\ Live' = Live BY <1>1, QuietPool
<1>3. main' \in {"idle", "house"} /\ queued' \in Nat BY <1>1, StartFeedType
<1>4. view' \in View BY <1>1, BodiesAssumption DEF TypeInv, GroundTypeOK, View
<1>5. \A b \in Bodies : /\ body'[b] \in Body /\ body'[b].sweep = body[b].sweep
                        /\ body'[b].src \in {body[b].src, prepare_source(b, view.hide)}
  <2> SUFFICES ASSUME NEW b \in Bodies
               PROVE  /\ body'[b] \in Body /\ body'[b].sweep = body[b].sweep
                      /\ body'[b].src \in {body[b].src, prepare_source(b, view.hide)}
      OBVIOUS
  <2>1. body'[b] = Aged(b) \/ body'[b] = body[b] BY <1>1
  <2>2. body[b] \in Body BY DEF TypeInv, GroundTypeOK
  <2> QED BY <2>1, <2>2, AgedType DEF TypeInv
<1>6. body' \in [Bodies -> Body] BY <1>1, <1>5 DEF TypeInv, GroundTypeOK
<1>7. GroundTypeOK' BY <1>1, <1>3, <1>4, <1>6 DEF TypeInv, GroundTypeOK
<1>8. Sourced'
  <2> SUFFICES ASSUME NEW b \in present
               PROVE  body'[b].src \in Snapshot /\ \A c \in Chunks : body'[b].src[c].world = world
      BY <1>1 DEF Sourced
  <2>1. b \in Bodies /\ view.hide \in BOOLEAN BY DEF TypeInv, GroundTypeOK, View
  <2>2. /\ prepare_source(b, view.hide) \in Snapshot
        /\ \A c \in Chunks : prepare_source(b, view.hide)[c].world = world
        BY <2>1, TakenType DEF TypeInv
  <2> QED BY <1>5, <2>1, <2>2 DEF TypeInv, Sourced
<1>9. Absent' BY <1>1, <1>5 DEF TypeInv, Absent
<1>10. NothingInHand' BY <1>1 DEF NothingInHand
<1> QED BY <1>2, <1>7, <1>8, <1>9, <1>10 DEF TypeInv

LEMMA PlainType ==
    ASSUME TypeInv, HouseKept \/ Fed \/ Leave \/ Open \/
                    \E b \in Bodies, c \in Chunks : WorldMoves(b, c)
    PROVE  TypeInv' /\ Live' = Live
<1>1. /\ UNCHANGED <<m_jobs, running, m_results, m_inflight, m_seq_counter, done, present, body, slot, page, world>>
      /\ main' \in {"idle", "fill"} /\ main # "land" /\ queued' \in Nat
      /\ held' \in BOOLEAN /\ moves' \in Nat /\ view' \in View
      /\ ground' \in [Bodies -> [Chunks -> Nat]]
  <2>1. CASE HouseKept
        BY <2>1 DEF HouseKept, TypeInv, GroundTypeOK, poolVars, bodyVars, envVars
  <2>2. CASE Fed BY <2>2 DEF Fed, TypeInv, GroundTypeOK, poolVars, bodyVars, envVars
  <2>3. CASE Leave
    <3>1. [view EXCEPT !.active = NoBody, !.home = Home, !.texVer = None] \in View
          BY BodiesAssumption DEF TypeInv, GroundTypeOK, View
    <3> QED BY <2>3, <3>1 DEF Leave, Move, TypeInv, GroundTypeOK, poolVars, bodyVars, mainVars
  <2>4. CASE Open
        BY <2>4 DEF Open, TypeInv, GroundTypeOK, poolVars, bodyVars, mainVars
  <2>5. ASSUME NEW b \in Bodies, NEW c \in Chunks, WorldMoves(b, c)
        PROVE  <1>1!1 /\ <1>1!2 /\ <1>1!3 /\ <1>1!4
    <3>1. ground' = [ground EXCEPT ![b] = [ground[b] EXCEPT ![c] = ground[b][c] + 1]]
          BY <2>5 DEF WorldMoves
    <3>2. ground' \in [Bodies -> [Chunks -> Nat]] BY <3>1 DEF TypeInv, GroundTypeOK
    <3> QED BY <2>5, <3>2
            DEF WorldMoves, Move, TypeInv, GroundTypeOK, poolVars, bodyVars, mainVars
  <2> QED BY <2>1, <2>2, <2>3, <2>4, <2>5
<1>2. PoolTypeOK' /\ JobsFit' /\ Live' = Live BY <1>1, QuietPool
<1>3. GroundTypeOK' BY <1>1 DEF TypeInv, GroundTypeOK
<1>4. done = << >> BY <1>1 DEF TypeInv, NothingInHand
<1> QED BY <1>1, <1>2, <1>3, <1>4 DEF TypeInv, Sourced, Absent, NothingInHand

LEMMA ResnapshotType == ASSUME TypeInv, resnapshot PROVE TypeInv' /\ Live' = Live
<1>1. /\ main = "idle" /\ view.prebake \in present /\ StartFeed(m_jobs)
      /\ body' = [body EXCEPT ![view.prebake] = set_source(view.prebake, FALSE)]
      /\ UNCHANGED <<m_jobs, running, m_results, m_inflight, m_seq_counter, present, slot, page, view,
                     ground, world, held, done>>
      /\ moves' \in Nat
      BY DEF resnapshot, Move, poolVars, TypeInv, GroundTypeOK
<1>2. PoolTypeOK' /\ JobsFit' /\ Live' = Live BY <1>1, QuietPool
<1>3. main' \in {"idle", "house"} /\ queued' \in Nat BY <1>1, StartFeedType
<1>4. view.prebake \in Bodies BY <1>1 DEF TypeInv, GroundTypeOK
<1>5. /\ set_source(view.prebake, FALSE) \in Body
      /\ set_source(view.prebake, FALSE).sweep = body[view.prebake].sweep
      /\ set_source(view.prebake, FALSE).src \in Snapshot
      /\ \A c \in Chunks : set_source(view.prebake, FALSE).src[c].world = world
      BY <1>4, TakenType DEF TypeInv
<1>6. GroundTypeOK' BY <1>1, <1>3, <1>5 DEF TypeInv, GroundTypeOK
<1>7. Sourced' BY <1>1, <1>4, <1>5 DEF TypeInv, Sourced, GroundTypeOK
<1>8. Absent' BY <1>1, <1>4, <1>5 DEF TypeInv, Absent, GroundTypeOK
<1>9. NothingInHand' BY <1>1 DEF TypeInv, NothingInHand
<1> QED BY <1>2, <1>6, <1>7, <1>8, <1>9 DEF TypeInv

LEMMA EmptyTypes == EmptyBody \in Body /\ EmptySlot \in Slot /\ EmptyPage \in Page
BY DEF EmptyBody, Body, EmptySlot, Slot, EmptyPage, Page

(* drop_master() leaves a smaller pool and empty slots *)
LEMMA DropType ==
    ASSUME TypeInv, NEW V, drop_master(V), UNCHANGED <<running, m_results, done, m_seq_counter>>
    PROVE  /\ PoolTypeOK' /\ JobsFit' /\ Live' \subseteq Live
           /\ slot' \in [Bodies -> [Chunks -> Slot]]
           /\ \A b \in Bodies, c \in Chunks :
                slot'[b][c] = IF b \in V THEN EmptySlot ELSE slot[b][c]
<1>1. Live' \subseteq Live BY LiveDrop
<1>2. /\ m_jobs' = m_jobs \ MasterJobsOf(V)
      /\ m_inflight' = m_inflight - Cardinality(MasterJobsOf(V))
      /\ slot' = [b \in Bodies |-> IF b \in V THEN [c \in Chunks |-> EmptySlot] ELSE slot[b]]
      BY DEF drop_master
<1>3. IsFiniteSet(m_jobs') /\ IsFiniteSet(MasterJobsOf(V))
      BY <1>2, FS_Subset DEF TypeInv, PoolTypeOK, MasterJobsOf
<1>4. Cardinality(MasterJobsOf(V)) \in Nat BY <1>3, FS_CardinalityType
<1>5. PoolTypeOK' BY <1>1, <1>2, <1>3, <1>4 DEF TypeInv, PoolTypeOK
<1>6. JobsFit' BY <1>1 DEF TypeInv, JobsFit
<1>7. slot' \in [Bodies -> [Chunks -> Slot]] BY <1>2, EmptyTypes DEF TypeInv, GroundTypeOK
<1>8. \A b \in Bodies, c \in Chunks :
        slot'[b][c] = IF b \in V THEN EmptySlot ELSE slot[b][c]
      BY <1>2
<1> QED BY <1>1, <1>5, <1>6, <1>7, <1>8


(* what tick() and prebake() share: room is made, and the snapshot of one  *)
(* body may be re-taken                                                    *)
LEMMA RoomType ==
    ASSUME TypeInv, main = "idle", NEW V, NEW b \in Bodies, NEW hide \in BOOLEAN,
           drop_master(V), UNCHANGED <<running, m_results, done, m_seq_counter, page, world>>,
           present' = present \cup {b},
           NEW retake, b \notin present => retake,
           body' = [x \in Bodies |->
                      IF x = b /\ retake THEN set_source(b, hide)
                      ELSE IF x \in V THEN [body[x] EXCEPT !.n_ready = 0] ELSE body[x]]
    PROVE  /\ PoolTypeOK' /\ JobsFit' /\ Sourced' /\ Absent' /\ Live' \subseteq Live
           /\ present' \subseteq Bodies
           /\ body' \in [Bodies -> Body] /\ slot' \in [Bodies -> [Chunks -> Slot]]
           /\ done = << >>
           /\ \A x \in Bodies, c \in Chunks :
                slot'[x][c] = IF x \in V THEN EmptySlot ELSE slot[x][c]
           /\ \A x \in Bodies : body'[x].sweep = body[x].sweep
<1>1. /\ PoolTypeOK' /\ JobsFit' /\ Live' \subseteq Live
      /\ slot' \in [Bodies -> [Chunks -> Slot]]
      /\ \A x \in Bodies, c \in Chunks :
           slot'[x][c] = IF x \in V THEN EmptySlot ELSE slot[x][c]
      BY DropType
<1>2. /\ set_source(b, hide) \in Body /\ set_source(b, hide).sweep = body[b].sweep
      /\ set_source(b, hide).src \in Snapshot
      /\ \A c \in Chunks : set_source(b, hide).src[c].world = world
      BY TakenType DEF TypeInv
<1>3. \A x \in Bodies : /\ body'[x] \in Body /\ body'[x].sweep = body[x].sweep
                        /\ body'[x].src = IF x = b /\ retake THEN set_source(b, hide).src
                                                             ELSE body[x].src
  <2> SUFFICES ASSUME NEW x \in Bodies
               PROVE  /\ body'[x] \in Body /\ body'[x].sweep = body[x].sweep
                      /\ body'[x].src = IF x = b /\ retake THEN set_source(b, hide).src
                                                           ELSE body[x].src
      OBVIOUS
  <2>1. body[x] \in Body BY DEF TypeInv, GroundTypeOK
  <2>2. [body[x] EXCEPT !.n_ready = 0] \in Body BY <2>1 DEF Body
  <2>3. /\ [body[x] EXCEPT !.n_ready = 0].sweep = body[x].sweep
        /\ [body[x] EXCEPT !.n_ready = 0].src = body[x].src
        BY <2>1 DEF Body
  <2>4. body'[x] = IF x = b /\ retake THEN set_source(b, hide)
                   ELSE IF x \in V THEN [body[x] EXCEPT !.n_ready = 0] ELSE body[x]
        OBVIOUS
  <2> QED BY <2>1, <2>2, <2>3, <2>4, <1>2
<1>4. body' \in [Bodies -> Body] BY <1>3
<1>5. present' \subseteq Bodies BY DEF TypeInv, GroundTypeOK
<1>6. Sourced'
  <2> SUFFICES ASSUME NEW x \in present'
               PROVE  body'[x].src \in Snapshot /\ \A c \in Chunks : body'[x].src[c].world = world
      BY DEF Sourced
  <2>1. CASE x = b /\ retake BY <2>1, <1>2, <1>3, <1>5
  <2>2. CASE ~(x = b /\ retake) BY <2>2, <1>3, <1>5 DEF TypeInv, Sourced
  <2> QED BY <2>1, <2>2
<1>7. Absent' BY <1>1, <1>3 DEF TypeInv, Absent, EmptySlot
<1>8. done = << >> BY DEF TypeInv, NothingInHand
<1> QED BY <1>1, <1>3, <1>4, <1>5, <1>6, <1>7, <1>8

LEMMA TickRoom ==
    ASSUME TypeInv, NEW b \in Bodies, NEW hide \in BOOLEAN, NEW V, tick(b, hide, V)
    PROVE  /\ main = "idle" /\ drop_master(V)
           /\ UNCHANGED <<running, m_results, done, m_seq_counter, page, world, ground, held, main, queued>>
           /\ present' = present \cup {b}
           /\ \E retake \in BOOLEAN :
                /\ b \notin present => retake
                /\ body' = [x \in Bodies |->
                      IF x = b /\ retake THEN set_source(b, hide)
                      ELSE IF x \in V THEN [body[x] EXCEPT !.n_ready = 0] ELSE body[x]]
           /\ view' \in View /\ moves' \in Nat
<1> DEFINE switch == b # view.active
           retake == b \notin present \/ (switch /\ body[b].age > 0) \/ hide # view.hide
           texVer == IF switch THEN None ELSE view.texVer
           upload == page[b].hash # None /\ texVer # page[b].ver
<1>1. view' = [view EXCEPT !.active = b, !.home = Home, !.hide = hide,
                     !.texVer = IF upload THEN page[b].ver ELSE texVer,
                     !.tex = IF upload THEN page[b].px ELSE @]
      BY DEF tick
<1>2. view \in View /\ page[b] \in Page BY DEF TypeInv, GroundTypeOK
<1>3. view' \in View
  <2>1. texVer \in Nat \cup {None} BY <1>2 DEF View
  <2>2. page[b].ver \in Nat /\ page[b].px \in [Pieces -> Snapshot \cup {None}]
        BY <1>2 DEF Page
  <2>3. (IF upload THEN page[b].ver ELSE texVer) \in Nat \cup {None} BY <2>1, <2>2
  <2>4. (IF upload THEN page[b].px ELSE view.tex)
           \in [Pieces -> Snapshot \cup {None}] \cup {None}
        BY <1>2, <2>2 DEF View
  <2> HIDE DEF upload, texVer
  <2> QED BY <1>1, <1>2, <2>3, <2>4, BodiesAssumption DEF View
<1>4. moves' \in Nat BY DEF tick, Move, TypeInv, GroundTypeOK
<1>5. retake \in BOOLEAN OBVIOUS
<1>6. body' = [x \in Bodies |->
                 IF x = b /\ retake THEN set_source(b, hide)
                 ELSE IF x \in V THEN [body[x] EXCEPT !.n_ready = 0] ELSE body[x]]
      BY DEF tick
<1>7. b \notin present => retake OBVIOUS
<1>8. /\ main = "idle" /\ drop_master(V) /\ present' = present \cup {b}
      /\ UNCHANGED <<running, m_results, done, m_seq_counter, page, world, ground, held, main, queued>>
      BY DEF tick, mainVars
<1> HIDE DEF retake
<1> QED BY <1>3, <1>4, <1>5, <1>6, <1>7, <1>8

LEMMA TickType ==
    ASSUME TypeInv, NEW b \in Bodies, NEW hide \in BOOLEAN, NEW V, tick(b, hide, V)
    PROVE  TypeInv'
<1>1. /\ main = "idle" /\ drop_master(V)
      /\ UNCHANGED <<running, m_results, done, m_seq_counter, page, world, ground, held, main, queued>>
      /\ present' = present \cup {b} /\ view' \in View /\ moves' \in Nat
      BY TickRoom
<1>2. PICK retake \in BOOLEAN :
         /\ b \notin present => retake
         /\ body' = [x \in Bodies |->
               IF x = b /\ retake THEN set_source(b, hide)
               ELSE IF x \in V THEN [body[x] EXCEPT !.n_ready = 0] ELSE body[x]]
      BY TickRoom
<1>3. /\ PoolTypeOK' /\ JobsFit' /\ Sourced' /\ Absent' /\ present' \subseteq Bodies
      /\ body' \in [Bodies -> Body] /\ slot' \in [Bodies -> [Chunks -> Slot]] /\ done = << >>
      BY <1>1, <1>2, RoomType
<1>4. GroundTypeOK' BY <1>1, <1>3 DEF TypeInv, GroundTypeOK
<1> QED BY <1>1, <1>3, <1>4 DEF TypeInv, NothingInHand

LEMMA PrebakeRoom ==
    ASSUME TypeInv, NEW again \in BOOLEAN, NEW V, prebake(again, V)
    PROVE  /\ main = "idle" /\ drop_master(V) /\ Home \in Bodies /\ view.hide \in BOOLEAN
           /\ UNCHANGED <<running, m_results, done, m_seq_counter, page, world, ground, held>>
           /\ present' = present \cup {Home}
           /\ \E retake \in BOOLEAN :
                /\ Home \notin present => retake
                /\ body' = [x \in Bodies |->
                      IF x = Home /\ retake THEN set_source(Home, view.hide)
                      ELSE IF x \in V THEN [body[x] EXCEPT !.n_ready = 0] ELSE body[x]]
           /\ view' \in View /\ moves' \in Nat
           /\ StartFeed(m_jobs \ MasterJobsOf(V))
<1> DEFINE retake == Home \notin present \/ again
<1>1. /\ Home \in Bodies /\ view.hide \in BOOLEAN /\ view \in View
      BY BodiesAssumption DEF TypeInv, GroundTypeOK, View
<1>2. view' \in View
  <2>1. view' = [view EXCEPT !.prebake = Home, !.home = Home] BY DEF prebake
  <2> QED BY <2>1, <1>1 DEF View
<1>3. moves' \in Nat BY DEF prebake, Move, TypeInv, GroundTypeOK
<1>4. /\ body' = [x \in Bodies |->
                 IF x = Home /\ retake THEN set_source(Home, view.hide)
                 ELSE IF x \in V THEN [body[x] EXCEPT !.n_ready = 0] ELSE body[x]]
      /\ retake \in BOOLEAN /\ (Home \notin present => retake)
      BY DEF prebake
<1>5. /\ main = "idle" /\ drop_master(V) /\ present' = present \cup {Home}
      /\ UNCHANGED <<running, m_results, done, m_seq_counter, page, world, ground, held>>
      /\ StartFeed(m_jobs \ MasterJobsOf(V))
      BY DEF prebake
<1> HIDE DEF retake
<1> QED BY <1>1, <1>2, <1>3, <1>4, <1>5

LEMMA PrebakeType ==
    ASSUME TypeInv, NEW again \in BOOLEAN, NEW V, prebake(again, V) PROVE TypeInv'
<1>1. /\ main = "idle" /\ drop_master(V) /\ Home \in Bodies /\ view.hide \in BOOLEAN
      /\ UNCHANGED <<running, m_results, done, m_seq_counter, page, world, ground, held>>
      /\ present' = present \cup {Home} /\ view' \in View /\ moves' \in Nat
      /\ StartFeed(m_jobs \ MasterJobsOf(V))
      BY PrebakeRoom
<1>2. PICK retake \in BOOLEAN :
         /\ Home \notin present => retake
         /\ body' = [x \in Bodies |->
               IF x = Home /\ retake THEN set_source(Home, view.hide)
               ELSE IF x \in V THEN [body[x] EXCEPT !.n_ready = 0] ELSE body[x]]
      BY PrebakeRoom
<1>3. /\ PoolTypeOK' /\ JobsFit' /\ Sourced' /\ Absent' /\ present' \subseteq Bodies
      /\ body' \in [Bodies -> Body] /\ slot' \in [Bodies -> [Chunks -> Slot]] /\ done = << >>
      BY <1>1, <1>2, RoomType
<1>4. main' \in {"idle", "house"} /\ queued' \in Nat
      BY <1>1, StartFeedType
<1>5. GroundTypeOK' BY <1>1, <1>3, <1>4 DEF TypeInv, GroundTypeOK
<1> QED BY <1>1, <1>3, <1>4, <1>5 DEF TypeInv, NothingInHand

LEMMA ForgetWorldType == ASSUME TypeInv, forget_world PROVE TypeInv' /\ Live' \subseteq Live
<1>1. /\ main = "idle" /\ m_jobs' = {} /\ m_results' = << >> /\ present' = {}
      /\ m_inflight' = m_inflight - Cardinality(m_jobs)
      /\ body' = [b \in Bodies |-> EmptyBody]
      /\ slot' = [b \in Bodies |-> [c \in Chunks |-> EmptySlot]]
      /\ page' = [b \in Bodies |-> EmptyPage]
      /\ view' = [view EXCEPT !.active = NoBody, !.prebake = NoBody, !.home = NoBody,
                              !.texVer = None]
      /\ world' = world + 1 /\ held' \in BOOLEAN
      /\ UNCHANGED <<running, m_seq_counter, ground, main, done, queued>>
      BY DEF forget_world, mainVars
<1>2. moves' \in Nat BY DEF forget_world, Move, TypeInv, GroundTypeOK
<1>3. Live' \subseteq Live BY LiveForget
<1>4. Cardinality(m_jobs) \in Nat BY FS_CardinalityType DEF TypeInv, PoolTypeOK
<1>5. PoolTypeOK' BY <1>1, <1>3, <1>4, FS_EmptySet DEF TypeInv, PoolTypeOK
<1>6. JobsFit' BY <1>3 DEF TypeInv, JobsFit
<1>7. view' \in View BY <1>1 DEF TypeInv, GroundTypeOK, View
<1>8. /\ body' \in [Bodies -> Body] /\ slot' \in [Bodies -> [Chunks -> Slot]]
      /\ page' \in [Bodies -> Page]
      BY <1>1, EmptyTypes
<1>9. GroundTypeOK' BY <1>1, <1>2, <1>7, <1>8 DEF TypeInv, GroundTypeOK
<1>10. Sourced' BY <1>1 DEF Sourced
<1>11. Absent' BY <1>1 DEF Absent, EmptyBody, EmptySlot, EmptyPage
<1>12. NothingInHand' BY <1>1 DEF TypeInv, NothingInHand
<1> QED BY <1>3, <1>5, <1>6, <1>9, <1>10, <1>11, <1>12 DEF TypeInv

LEMMA TypeStep == TypeInv /\ [Next]_vars => TypeInv'
<1> SUFFICES ASSUME TypeInv, [Next]_vars PROVE TypeInv' OBVIOUS
<1>1. CASE MainStep
      BY <1>1, PumpType, LandOrphanType, LandFarType, LandSweepType, LandMasterType,
         DrainedType, PlainType, StartFarType, StartSweepType, StartMasterType DEF MainStep
<1>2. CASE AppStep
      BY <1>2, TickType, PlainType, ResnapshotType, ForgetWorldType, PrebakeType DEF AppStep
<1>3. CASE \E w \in Workers : Take(w) \/ Finish(w) BY <1>3, TakeType, FinishType
<1>4. CASE UNCHANGED vars
  <2>1. Live' = Live BY <1>4, LiveSame DEF vars
  <2> QED BY <1>4, <2>1 DEF vars, TypeInv, PoolTypeOK, GroundTypeOK, Sourced, Absent,
                            NothingInHand, JobsFit
<1> QED BY <1>1, <1>2, <1>3, <1>4 DEF Next

(* Every reachable state is well typed, and so are the strengthenings      *)
(* TypeInv adds: known bodies hold a snapshot of the world being played,   *)
(* unknown bodies wait for nothing, jobs fit their kind (the pool's and    *)
(* the main thread's handlers, ground_layer.cpp).                          *)
THEOREM GroundTyped == Spec => []TypeOK
<1>1. Init => TypeInv BY InitType DEF TypeInv
<1>2. TypeInv => TypeOK BY DEF TypeInv, TypeOK
<1> QED BY <1>1, <1>2, TypeStep, PTL DEF Spec

----------------------------------------------------------------------------
(* The count of jobs in flight *)

LEMMA LiveJobs == PoolTypeOK => Live \subseteq Job
<1> SUFFICES ASSUME PoolTypeOK PROVE Live \subseteq Job OBVIOUS
<1>1. Range(m_results) \subseteq Job /\ Range(done) \subseteq Job
      BY LenProperties DEF PoolTypeOK, Range
<1> QED BY <1>1 DEF Live, InHands, PoolTypeOK

Busy == {w \in Workers : running[w] # None}

LEMMA BusyFinite == IsFiniteSet(Busy)
BY PoolAssumption, FS_Subset DEF Busy

(* fresh jobs are not among those that wait *)
LEMMA CountEnqueue ==
    ASSUME TypeInv, InflightExact, NEW js, js \subseteq Job, IsFiniteSet(js), enqueue(js),
           UNCHANGED running, \A j \in js : m_seq_counter < j.seq
    PROVE  InflightExact'
<1>1. js \cap m_jobs = {}
  <2> SUFFICES ASSUME NEW j \in js, j \in m_jobs PROVE FALSE OBVIOUS
  <2>1. m_seq_counter < j.seq /\ j.seq \in Nat BY DEF Job
  <2>2. j.seq <= m_seq_counter BY DEF TypeInv, PoolTypeOK, Live
  <2> QED BY <2>1, <2>2 DEF TypeInv, PoolTypeOK
<1>2. IsFiniteSet(m_jobs) BY DEF TypeInv, PoolTypeOK
<1>3. m_jobs' = m_jobs \cup js /\ m_inflight' = m_inflight + Cardinality(js) BY DEF enqueue
<1>4. Cardinality(m_jobs \cup js) = Cardinality(m_jobs) + Cardinality(js)
  <2>1. m_jobs \cap js = {} BY <1>1
  <2>2. Cardinality(m_jobs \cup js)
          = Cardinality(m_jobs) + Cardinality(js) - Cardinality(m_jobs \cap js)
        BY <1>2, FS_Union
  <2>3. Cardinality(m_jobs \cap js) = 0 BY <2>1, FS_EmptySet
  <2> QED BY <1>2, <2>2, <2>3, FS_CardinalityType
<1>5. /\ Cardinality(m_jobs) \in Nat /\ Cardinality(js) \in Nat /\ Cardinality(Busy) \in Nat
      BY <1>2, BusyFinite, FS_CardinalityType
<1>6. Busy' = Busy BY DEF Busy
<1> QED BY <1>3, <1>4, <1>5, <1>6 DEF InflightExact, Busy

LEMMA CountTake ==
    ASSUME TypeInv, InflightExact, NEW w \in Workers, Take(w) PROVE InflightExact'
<1>1. PICK j \in m_jobs : m_jobs' = m_jobs \ {j} /\ running' = [running EXCEPT ![w] = j]
      BY DEF Take
<1>2. IsFiniteSet(m_jobs) /\ j \in Job /\ running \in [Workers -> Job \cup {None}]
      BY DEF TypeInv, PoolTypeOK
<1>3. j # None /\ running[w] = None BY <1>2, NoneAssumption DEF Take
<1>4. Cardinality(m_jobs') = Cardinality(m_jobs) - 1 /\ Cardinality(m_jobs) \in Nat
      BY <1>1, <1>2, FS_RemoveElement, FS_CardinalityType
<1>5. Busy' = Busy \cup {w} /\ w \notin Busy
  <2>1. running'[w] = j /\ \A v \in Workers \ {w} : running'[v] = running[v] BY <1>1, <1>2
  <2> QED BY <1>3, <2>1 DEF Busy
<1>6. Cardinality(Busy') = Cardinality(Busy) + 1 /\ Cardinality(Busy) \in Nat
      BY <1>5, BusyFinite, FS_AddElement, FS_CardinalityType
<1>7. m_inflight' = m_inflight BY DEF Take
<1> QED BY <1>4, <1>6, <1>7 DEF InflightExact, Busy

LEMMA CountFinish ==
    ASSUME TypeInv, InflightExact, NEW w \in Workers, Finish(w) PROVE InflightExact'
<1>1. /\ running' = [running EXCEPT ![w] = None] /\ m_jobs' = m_jobs
      /\ m_inflight' = m_inflight - 1 /\ running[w] # None
      BY DEF Finish
<1>2. Busy' = Busy \ {w} /\ w \in Busy
  <2>1. running'[w] = None /\ \A v \in Workers \ {w} : running'[v] = running[v]
        BY <1>1 DEF TypeInv, PoolTypeOK
  <2> QED BY <1>1, <2>1 DEF Busy
<1>3. Cardinality(Busy') = Cardinality(Busy) - 1 /\ Cardinality(Busy) \in Nat
      BY <1>2, BusyFinite, FS_RemoveElement, FS_CardinalityType
<1>4. Cardinality(m_jobs) \in Nat BY FS_CardinalityType DEF TypeInv, PoolTypeOK
<1> QED BY <1>1, <1>3, <1>4 DEF InflightExact, Busy

LEMMA CountDrop ==
    ASSUME TypeInv, InflightExact, NEW V, drop_master(V), UNCHANGED running
    PROVE  InflightExact'
<1> DEFINE M == MasterJobsOf(V)
<1>1. M \subseteq m_jobs BY DEF MasterJobsOf
<1>2. m_jobs' = m_jobs \ M /\ m_inflight' = m_inflight - Cardinality(M) BY DEF drop_master
<1>3. IsFiniteSet(m_jobs) /\ IsFiniteSet(M) BY <1>1, FS_Subset DEF TypeInv, PoolTypeOK
<1>4. Cardinality(m_jobs \ M) = Cardinality(m_jobs) - Cardinality(M)
  <2>1. m_jobs \cap M = M BY <1>1
  <2> HIDE DEF M
  <2>2. Cardinality(m_jobs \ M) = Cardinality(m_jobs) - Cardinality(m_jobs \cap M)
        BY <1>3, FS_Difference
  <2> QED BY <2>1, <2>2
<1> HIDE DEF M
<1>5. Cardinality(m_jobs) \in Nat /\ Cardinality(M) \in Nat /\ Cardinality(Busy) \in Nat
      BY <1>3, BusyFinite, FS_CardinalityType
<1>6. Busy' = Busy BY DEF Busy
<1> QED BY <1>2, <1>4, <1>5, <1>6 DEF InflightExact, Busy

LEMMA CountForget == ASSUME TypeInv, InflightExact, forget_world PROVE InflightExact'
<1>1. m_jobs' = {} /\ m_inflight' = m_inflight - Cardinality(m_jobs) /\ running' = running
      BY DEF forget_world
<1>2. /\ Cardinality(m_jobs) \in Nat /\ Cardinality(Busy) \in Nat /\ Cardinality({}) = 0
      BY BusyFinite, FS_CardinalityType, FS_EmptySet DEF TypeInv, PoolTypeOK
<1>3. Busy' = Busy BY <1>1 DEF Busy
<1> QED BY <1>1, <1>2, <1>3 DEF InflightExact, Busy

LEMMA CountStarts ==
    ASSUME TypeInv, InflightExact, NEW b \in Bodies,
           start_far(b) \/ make_sweep_job(b) \/ \E c \in Chunks : make_master_job(b, c)
    PROVE  InflightExact'
<1>1. CASE start_far(b)
  <2> DEFINE js == {JobOf("far", k_prio_far, b, k, m_seq_counter + k, None) : k \in Pieces}
  <2>1. js \subseteq Job /\ IsFiniteSet(js) /\ enqueue(js) BY <1>1, StartFarJobs
  <2>2. running' = running BY <1>1 DEF start_far
  <2>3. \A j \in js : m_seq_counter < j.seq
    <3> SUFFICES ASSUME NEW k \in Pieces
                 PROVE  m_seq_counter < JobOf("far", k_prio_far, b, k, m_seq_counter + k, None).seq
        OBVIOUS
    <3>1. JobOf("far", k_prio_far, b, k, m_seq_counter + k, None).seq = m_seq_counter + k BY DEF JobOf
    <3> QED BY <3>1 DEF Pieces, TypeInv, PoolTypeOK
  <2> HIDE DEF js
  <2> QED BY <2>1, <2>2, <2>3, CountEnqueue
<1>2. CASE make_sweep_job(b)
  <2> DEFINE j == JobOf("sweep", k_prio_sweep, b, None, m_seq_counter + 1, None)
  <2>1. enqueue({j}) /\ UNCHANGED running BY <1>2 DEF make_sweep_job
  <2>2. b \in present BY <1>2 DEF make_sweep_job, NeedsSweep, Worked
  <2>3. j \in Job
    <3>1. k_prio_sweep \in 0 .. 3 /\ m_seq_counter + 1 \in Nat \ {0} BY DEF k_prio_sweep, TypeInv, PoolTypeOK
    <3> QED BY <2>2, <3>1, JobType DEF TypeInv
  <2>4. m_seq_counter < j.seq BY DEF JobOf, TypeInv, PoolTypeOK
  <2>5. IsFiniteSet({j}) BY FS_Singleton
  <2> HIDE DEF j
  <2> QED BY <2>1, <2>3, <2>4, <2>5, CountEnqueue
<1>3. ASSUME NEW c \in Chunks, make_master_job(b, c) PROVE InflightExact'
  <2> DEFINE j == JobOf("master", prio_of(b), b, c, m_seq_counter + 1, slot[b][c].old)
  <2>1. enqueue({j}) /\ UNCHANGED running /\ b \in present
        BY <1>3 DEF make_master_job, Worked
  <2>2. j \in Job
    <3>1. prio_of(b) \in 0 .. 3 /\ m_seq_counter + 1 \in Nat \ {0}
          BY DEF prio_of, TypeInv, PoolTypeOK
    <3>2. slot[b][c].old \in Value \cup {None}
      <4>1. slot[b][c] \in Slot BY DEF TypeInv, GroundTypeOK
      <4> QED BY <4>1 DEF Slot
    <3> QED BY <2>1, <3>1, <3>2, JobType DEF TypeInv
  <2>3. m_seq_counter < j.seq BY DEF JobOf, TypeInv, PoolTypeOK
  <2>4. IsFiniteSet({j}) BY FS_Singleton
  <2> HIDE DEF j
  <2> QED BY <2>1, <2>2, <2>3, <2>4, CountEnqueue
<1> QED BY <1>1, <1>2, <1>3

LEMMA CountStep == TypeInv /\ InflightExact /\ [Next]_vars => InflightExact'
<1> SUFFICES ASSUME TypeInv, InflightExact, [Next]_vars PROVE InflightExact' OBVIOUS
<1>0. ASSUME UNCHANGED <<m_jobs, running, m_inflight>> PROVE InflightExact'
      BY <1>0 DEF InflightExact
<1>1. CASE MainStep
  <2>1. CASE pump \/ Drained \/ HouseKept \/ Fed
        BY <2>1, <1>0 DEF pump, Drained, HouseKept, Fed, poolVars
  <2>2. CASE LandOrphan \/ LandFar \/ LandSweep \/ LandMaster
        BY <2>2, <1>0 DEF LandOrphan, LandFar, LandSweep, LandMaster, Landed, poolVars
  <2>3. ASSUME NEW b \in Bodies,
               start_far(b) \/ make_sweep_job(b) \/ \E c \in Chunks : make_master_job(b, c)
        PROVE  InflightExact'
        BY <2>3, CountStarts
  <2> QED BY <1>1, <2>1, <2>2, <2>3 DEF MainStep
<1>2. CASE AppStep
  <2>1. ASSUME NEW b \in Bodies, NEW hide \in BOOLEAN, NEW V, tick(b, hide, V)
        PROVE  InflightExact'
        BY <2>1, CountDrop DEF tick
  <2>2. ASSUME NEW again \in BOOLEAN, NEW V, prebake(again, V) PROVE InflightExact'
        BY <2>2, CountDrop DEF prebake
  <2>3. CASE Leave \/ resnapshot \/ Open BY <2>3, <1>0 DEF Leave, resnapshot, Open, poolVars
  <2>4. ASSUME NEW b \in Bodies, NEW c \in Chunks, WorldMoves(b, c) PROVE InflightExact'
        BY <2>4, <1>0 DEF WorldMoves, poolVars
  <2>5. CASE forget_world BY <2>5, CountForget
  <2> QED BY <1>2, <2>1, <2>2, <2>3, <2>4, <2>5 DEF AppStep
<1>3. CASE \E w \in Workers : Take(w) \/ Finish(w) BY <1>3, CountTake, CountFinish
<1>4. CASE UNCHANGED vars BY <1>4, <1>0 DEF vars
<1> QED BY <1>1, <1>2, <1>3, <1>4 DEF Next

(* m_inflight is exact: the three places that lower it (a result handed    *)
(* over, a dropped master's purge, a forgotten world) and the one that     *)
(* raises it never disagree, for any pool and any queue.                   *)
THEOREM InflightIsExact == Spec => []InflightExact
<1>1. Init => TypeInv BY InitType DEF TypeInv
<1>2. Init => InflightExact
  <2> SUFFICES ASSUME Init PROVE InflightExact OBVIOUS
  <2>1. m_jobs = {} /\ Busy = {} /\ m_inflight = 0 BY DEF Init, Busy
  <2> QED BY <2>1, FS_EmptySet DEF InflightExact, Busy
<1> QED BY <1>1, <1>2, TypeStep, CountStep, PTL DEF Spec

----------------------------------------------------------------------------
(* The pixels of a chunk                                                   *)
(*                                                                         *)
(* A chunk that is ready holds pixels of the world being played, the ones  *)
(* its hash names and the ones a patch of it is computed against; one that *)
(* is not ready holds nothing.  A job a slot waits for was given what the  *)
(* slot holds now.  Together they are inductive: between the moment a job  *)
(* is sent and the moment it lands nothing may replace what its slot holds *)
(* without the slot ceasing to wait for it.                                *)

SlotHolds(s) ==
    IF s.ready THEN s.px \in Value /\ s.px = s.hash /\ s.px = s.old /\ s.px.world = world
               ELSE s.px = None /\ s.old = None
Slots == \A b \in Bodies, c \in Chunks : SlotHolds(slot[b][c])

WaitsFor(j) == slot[j.body][j.part].job = j.seq
Given(j) == j.old = slot[j.body][j.part].old /\ j.snap[j.part].world = world
Awaiting == \A j \in Live : j.kind = "master" /\ WaitsFor(j) => Given(j)

PixelInv == TypeInv /\ Slots /\ Awaiting

(* the masters of the next state are masters of this one *)
OldMasters == \A j \in Live' : j.kind = "master" =>
                 \E i \in Live : /\ i.kind = "master" /\ i.seq = j.seq /\ i.body = j.body
                                 /\ i.part = j.part /\ i.old = j.old /\ i.snap = j.snap
(* every slot keeps what it holds, or is emptied *)
OldSlots == \A b \in Bodies, c \in Chunks :
              \/ /\ slot'[b][c].job = 0
                 /\ slot'[b][c].ready = FALSE /\ slot'[b][c].px = None /\ slot'[b][c].old = None
              \/ /\ slot'[b][c].job \in {0, slot[b][c].job}
                 /\ slot'[b][c].ready = slot[b][c].ready /\ slot'[b][c].px = slot[b][c].px
                 /\ slot'[b][c].hash = slot[b][c].hash /\ slot'[b][c].old = slot[b][c].old

LEMMA KeepPixels ==
    ASSUME PixelInv, TypeInv', world' = world, OldMasters, OldSlots PROVE PixelInv'
<1>1. Slots'
  <2> SUFFICES ASSUME NEW b \in Bodies, NEW c \in Chunks PROVE SlotHolds(slot[b][c])'
      BY DEF Slots
  <2>1. SlotHolds(slot[b][c]) BY DEF PixelInv, Slots
  <2> QED BY <2>1 DEF OldSlots, SlotHolds
<1>2. Awaiting'
  <2> SUFFICES ASSUME NEW j \in Live', j.kind = "master", WaitsFor(j)' PROVE Given(j)'
      BY DEF Awaiting
  <2>1. PICK i \in Live : /\ i.kind = "master" /\ i.seq = j.seq /\ i.body = j.body
                          /\ i.part = j.part /\ i.old = j.old /\ i.snap = j.snap
        BY DEF OldMasters
  <2>2. i \in Job BY LiveJobs DEF PixelInv, TypeInv
  <2>3. i.body \in Bodies /\ i.part \in Chunks /\ i.seq # 0
        BY <2>1, <2>2 DEF Job, PixelInv, TypeInv, JobsFit
  <2>4. slot'[i.body][i.part].job = i.seq BY <2>1 DEF WaitsFor
  <2>5. slot[i.body][i.part].job = i.seq /\ slot'[i.body][i.part].old = slot[i.body][i.part].old
        BY <2>3, <2>4 DEF OldSlots
  <2>6. Given(i) BY <2>1, <2>5 DEF PixelInv, Awaiting, WaitsFor
  <2> QED BY <2>1, <2>5, <2>6 DEF Given
<1> QED BY <1>1, <1>2 DEF PixelInv

LEMMA FewerJobs == Live' \subseteq Live => OldMasters
BY DEF OldMasters

LEMMA SameSlots == UNCHANGED slot => OldSlots
BY DEF OldSlots

LEMMA PixelsWorker ==
    ASSUME PixelInv, NEW w \in Workers, Take(w) \/ Finish(w) PROVE PixelInv'
<1>1. TypeInv' BY TakeType, FinishType DEF PixelInv
<1>2. world' = world /\ OldSlots BY SameSlots DEF Take, Finish, bodyVars, envVars
<1>3. OldMasters
  <2>1. CASE Take(w) BY <2>1, LiveTake, FewerJobs DEF PixelInv, TypeInv
  <2>2. CASE Finish(w)
    <3>1. PICK p \in BOOLEAN :
             /\ running[w] \in Job /\ running[w] \in Live
             /\ Live' \subseteq Live \cup {[running[w] EXCEPT !.patched = p]}
          BY <2>2, LiveFinish DEF PixelInv, TypeInv
    <3> DEFINE r == [running[w] EXCEPT !.patched = p]
    <3>2. /\ r.kind = running[w].kind /\ r.seq = running[w].seq /\ r.body = running[w].body
          /\ r.part = running[w].part /\ r.old = running[w].old /\ r.snap = running[w].snap
          BY <3>1 DEF Job
    <3>3. Live' \subseteq Live \cup {r} BY <3>1
    <3> HIDE DEF r
    <3> QED BY <3>1, <3>2, <3>3 DEF OldMasters
  <2> QED BY <2>1, <2>2
<1> QED BY <1>1, <1>2, <1>3, KeepPixels

LEMMA PixelsHouse ==
    ASSUME PixelInv, NEW b \in Bodies, start_far(b) \/ make_sweep_job(b) PROVE PixelInv'
<1>1. TypeInv' BY StartFarType, StartSweepType DEF PixelInv
<1>2. world' = world /\ OldSlots BY SameSlots DEF start_far, make_sweep_job, envVars
<1>3. \A j \in Live' : j.kind = "master" => j \in Live
  <2>1. CASE start_far(b)
    <3> DEFINE js == {JobOf("far", k_prio_far, b, k, m_seq_counter + k, None) : k \in Pieces}
    <3>1. Live' = Live \cup js BY <2>1, StartFarJobs DEF PixelInv
    <3>2. \A j \in js : j.kind # "master" BY DEF JobOf
    <3> QED BY <3>1, <3>2
  <2>2. CASE make_sweep_job(b)
    <3> DEFINE j == JobOf("sweep", k_prio_sweep, b, None, m_seq_counter + 1, None)
    <3>1. Live' = Live \cup {j}
          BY <2>2, LiveEnqueue DEF make_sweep_job, enqueue
    <3>2. j.kind # "master" BY DEF JobOf
    <3> QED BY <3>1, <3>2
  <2> QED BY <2>1, <2>2
<1>4. OldMasters BY <1>3 DEF OldMasters
<1> QED BY <1>1, <1>2, <1>4, KeepPixels

LEMMA PixelsStart ==
    ASSUME PixelInv, NEW b \in Bodies, NEW c \in Chunks, make_master_job(b, c) PROVE PixelInv'
<1> DEFINE n == JobOf("master", prio_of(b), b, c, m_seq_counter + 1, slot[b][c].old)
<1>1. TypeInv' BY StartMasterType DEF PixelInv
<1>2. /\ b \in present /\ slot' = [slot EXCEPT ![b][c].job = m_seq_counter + 1]
      /\ enqueue({n}) /\ UNCHANGED <<running, m_results, done, world>>
      BY DEF make_master_job, Worked, envVars
<1>3. Live' = Live \cup {n} BY <1>2, LiveEnqueue DEF enqueue
<1>4. slot \in [Bodies -> [Chunks -> Slot]] BY DEF PixelInv, TypeInv, GroundTypeOK
<1>5. \A x \in Bodies, y \in Chunks :
        /\ x = b /\ y = c => slot'[x][y].job = m_seq_counter + 1
        /\ ~(x = b /\ y = c) => slot'[x][y].job = slot[x][y].job
        /\ slot'[x][y].ready = slot[x][y].ready /\ slot'[x][y].px = slot[x][y].px
        /\ slot'[x][y].hash = slot[x][y].hash /\ slot'[x][y].old = slot[x][y].old
      BY <1>2, <1>4 DEF Slot
<1>6. Slots' BY <1>2, <1>5 DEF PixelInv, Slots, SlotHolds
<1>7. ASSUME NEW j \in Live', j.kind = "master", WaitsFor(j)' PROVE Given(j)'
  <2>1. CASE j = n
    <3>1. n.body = b /\ n.part = c /\ n.old = slot[b][c].old /\ n.snap = body[b].src
          BY DEF JobOf
    <3>2. body[b].src[c].world = world BY <1>2 DEF PixelInv, TypeInv, Sourced
    <3> HIDE DEF n
    <3> QED BY <2>1, <3>1, <3>2, <1>2, <1>5 DEF Given
  <2>2. CASE j \in Live
    <3>1. j \in Job BY <2>2, LiveJobs DEF PixelInv, TypeInv
    <3>2. j.body \in Bodies /\ j.part \in Chunks /\ j.seq \in Nat
          BY <1>7, <2>2, <3>1 DEF Job, PixelInv, TypeInv, JobsFit
    <3>3. j.seq <= m_seq_counter /\ m_seq_counter \in Nat BY <2>2 DEF PixelInv, TypeInv, PoolTypeOK
    <3>4. slot'[j.body][j.part].job = j.seq BY <1>7 DEF WaitsFor
    <3>5. slot[j.body][j.part].job = j.seq BY <1>5, <3>2, <3>3, <3>4
    <3>6. Given(j) BY <1>7, <2>2, <3>5 DEF PixelInv, Awaiting, WaitsFor
    <3> QED BY <1>2, <1>5, <3>2, <3>6 DEF Given
  <2> QED BY <1>3, <2>1, <2>2
<1> QED BY <1>1, <1>6, <1>7 DEF PixelInv, Awaiting

LEMMA PixelsLand ==
    ASSUME PixelInv, LandOrphan \/ LandFar \/ LandSweep PROVE PixelInv'
<1>1. TypeInv' BY LandOrphanType, LandFarType, LandSweepType DEF PixelInv
<1>2. done # << >> /\ Landed BY DEF LandOrphan, LandFar, LandSweep, Landing
<1>3. OldMasters BY <1>2, LiveLanded, FewerJobs DEF PixelInv, TypeInv
<1>4. world' = world BY <1>2 DEF Landed, envVars
<1>5. OldSlots
  <2>1. CASE LandOrphan \/ LandFar BY <2>1, SameSlots DEF LandOrphan, LandFar
  <2>2. CASE LandSweep
    <3> DEFINE d == Head(done)
               ss == [c \in Chunks |-> [slot[d.body][c] EXCEPT
                     !.dirty = slot[d.body][c].ready /\ slot[d.body][c].hash # d.snap[c]]]
    <3>1. slot' = [slot EXCEPT ![d.body] = ss] BY <2>2 DEF LandSweep
    <3>2. slot \in [Bodies -> [Chunks -> Slot]] BY DEF PixelInv, TypeInv, GroundTypeOK
    <3>3. d.body \in Bodies
      <4>1. d \in Live /\ d \in Job BY <1>2, LiveLanded DEF PixelInv, TypeInv
      <4> QED BY <4>1 DEF Job
    <3>4. \A c \in Chunks :
            /\ ss[c].job = slot[d.body][c].job /\ ss[c].ready = slot[d.body][c].ready
            /\ ss[c].px = slot[d.body][c].px /\ ss[c].hash = slot[d.body][c].hash
            /\ ss[c].old = slot[d.body][c].old
          BY <3>2, <3>3 DEF Slot
    <3> HIDE DEF ss
    <3> QED BY <3>1, <3>2, <3>3, <3>4 DEF OldSlots
  <2> QED BY <2>1, <2>2
<1> QED BY <1>1, <1>3, <1>4, <1>5, KeepPixels

(* A master lands where its slot still waits for it: a whole chunk replaces*)
(* the pixels, and a patch lies over the ones it was computed against.     *)
LEMMA PixelsLandMaster == ASSUME PixelInv, LandMaster PROVE PixelInv'
<1> DEFINE d == Head(done)
           s == slot[d.body][d.part]
           t == Stored(s, d)
<1>1. /\ main = "land" /\ done # << >> /\ Landed /\ d.kind = "master" /\ Awaited(d)
      /\ \/ slot' = [slot EXCEPT ![d.body][d.part].job = 0]
         \/ slot' = [slot EXCEPT ![d.body][d.part] = t]
      BY DEF LandMaster, Landing
<1>2. TypeInv' BY LandMasterType DEF PixelInv
<1>3. /\ Live = Live' \cup {d} /\ d \in Live /\ d \in Job /\ world' = world
      BY <1>1, LiveLanded DEF PixelInv, TypeInv, Landed, envVars
<1>4. d.body \in Bodies /\ d.part \in Chunks /\ d.snap \in Snapshot /\ d.seq \in Nat
      BY <1>1, <1>3, AwaitedFits DEF PixelInv, Job
<1>5. slot \in [Bodies -> [Chunks -> Slot]] BY DEF PixelInv, TypeInv, GroundTypeOK
<1>6. CASE slot' = [slot EXCEPT ![d.body][d.part].job = 0]
  <2>1. OldSlots BY <1>4, <1>5, <1>6 DEF OldSlots, Slot
  <2>2. OldMasters BY <1>3, FewerJobs
  <2> QED BY <1>2, <1>3, <2>1, <2>2, KeepPixels
<1>7. CASE slot' = [slot EXCEPT ![d.body][d.part] = t]
  <2>1. Given(d)
    <3>1. s.job = d.seq BY <1>1, <1>4 DEF Awaited
    <3> QED BY <1>1, <1>3, <3>1 DEF PixelInv, Awaiting, WaitsFor
  <2>2. SlotHolds(s) /\ s \in Slot BY <1>4, <1>5 DEF PixelInv, Slots
  <2>3. /\ t.job = 0 /\ t.ready = TRUE /\ d.snap[d.part] \in Value
        /\ t.hash = d.snap[d.part] /\ t.old = d.snap[d.part]
        /\ t.px = IF d.patched /\ s.px # d.old THEN Torn ELSE d.snap[d.part]
        BY <1>3, <1>4, <2>2, StoredType
  <2>4. d.patched => s.px = d.old
    <3>1. d.patched => d.old # None BY <1>3 DEF PixelInv, TypeInv, JobsFit
    <3> QED BY <3>1, <2>1, <2>2 DEF Given, SlotHolds
  <2>5. SlotHolds(t) BY <2>1, <2>3, <2>4 DEF SlotHolds, Given
  <2> HIDE DEF t
  <2>6. \A b \in Bodies, c \in Chunks :
          slot'[b][c] = IF b = d.body /\ c = d.part THEN t ELSE slot[b][c]
        BY <1>4, <1>5, <1>7
  <2>7. Slots'
    <3>1. \A b \in Bodies, c \in Chunks : SlotHolds(slot'[b][c])
          BY <2>5, <2>6 DEF PixelInv, Slots
    <3> QED BY <1>3, <3>1 DEF Slots, SlotHolds
  <2>8. ASSUME NEW j \in Live', j.kind = "master", WaitsFor(j)' PROVE Given(j)'
    <3>1. j \in Live /\ j \in Job BY <1>3, LiveJobs DEF PixelInv, TypeInv
    <3>2. j.body \in Bodies /\ j.part \in Chunks /\ j.seq # 0
          BY <2>8, <3>1 DEF Job, PixelInv, TypeInv, JobsFit
    <3>3. slot'[j.body][j.part].job = j.seq BY <2>8 DEF WaitsFor
    <3>4. slot'[j.body][j.part] = slot[j.body][j.part] BY <2>3, <2>6, <3>2, <3>3
    <3>5. Given(j) BY <2>8, <3>1, <3>3, <3>4 DEF PixelInv, Awaiting, WaitsFor
    <3> QED BY <1>3, <3>4, <3>5 DEF Given
  <2> QED BY <1>2, <2>7, <2>8 DEF PixelInv, Awaiting
<1> QED BY <1>1, <1>6, <1>7

LEMMA EmptySlots ==
    ASSUME NEW V, \A x \in Bodies, c \in Chunks :
                    slot'[x][c] = IF x \in V THEN EmptySlot ELSE slot[x][c]
    PROVE  OldSlots
BY DEF OldSlots, EmptySlot

LEMMA PixelsTick ==
    ASSUME PixelInv, NEW b \in Bodies, NEW hide \in BOOLEAN, NEW V, tick(b, hide, V)
    PROVE  PixelInv'
<1>1. TypeInv' BY TickType DEF PixelInv
<1>2. /\ drop_master(V) /\ UNCHANGED <<running, m_results, done, m_seq_counter, world>>
      BY TickRoom DEF PixelInv
<1>3. /\ Live' \subseteq Live
      /\ \A x \in Bodies, c \in Chunks :
           slot'[x][c] = IF x \in V THEN EmptySlot ELSE slot[x][c]
      BY <1>2, DropType DEF PixelInv
<1> QED BY <1>1, <1>2, <1>3, FewerJobs, EmptySlots, KeepPixels

LEMMA PixelsPrebake ==
    ASSUME PixelInv, NEW again \in BOOLEAN, NEW V, prebake(again, V) PROVE PixelInv'
<1>1. TypeInv' BY PrebakeType DEF PixelInv
<1>2. /\ drop_master(V) /\ UNCHANGED <<running, m_results, done, m_seq_counter, world>>
      BY PrebakeRoom DEF PixelInv
<1>3. /\ Live' \subseteq Live
      /\ \A x \in Bodies, c \in Chunks :
           slot'[x][c] = IF x \in V THEN EmptySlot ELSE slot[x][c]
      BY <1>2, DropType DEF PixelInv
<1> QED BY <1>1, <1>2, <1>3, FewerJobs, EmptySlots, KeepPixels

(* every chunk is empty after a world is forgotten: what a worker still has*)
(* in hand is no longer waited for                                         *)
LEMMA PixelsForget == ASSUME PixelInv, forget_world PROVE PixelInv'
<1>1. TypeInv' /\ Live' \subseteq Live BY ForgetWorldType DEF PixelInv
<1>2. \A b \in Bodies, c \in Chunks : slot'[b][c] = EmptySlot BY DEF forget_world
<1>3. Slots' BY <1>2 DEF Slots, SlotHolds, EmptySlot
<1>4. Awaiting'
  <2> SUFFICES ASSUME NEW j \in Live', j.kind = "master", WaitsFor(j)' PROVE FALSE
      BY DEF Awaiting
  <2>1. j \in Live /\ j \in Job BY <1>1, LiveJobs DEF PixelInv, TypeInv
  <2>2. j.body \in Bodies /\ j.part \in Chunks /\ j.seq # 0
        BY <2>1 DEF Job, PixelInv, TypeInv, JobsFit
  <2> QED BY <1>2, <2>2 DEF WaitsFor, EmptySlot
<1> QED BY <1>1, <1>3, <1>4 DEF PixelInv

LEMMA PixelsPlain ==
    ASSUME PixelInv,
           \/ pump \/ Drained \/ HouseKept \/ Fed \/ Leave \/ Open \/ resnapshot
           \/ \E b \in Bodies, c \in Chunks : WorldMoves(b, c)
    PROVE  PixelInv'
<1>1. TypeInv' /\ Live' = Live BY PumpType, DrainedType, PlainType, ResnapshotType DEF PixelInv
<1>2. UNCHANGED <<slot, world>>
      BY DEF pump, Drained, HouseKept, Fed, Leave, Open, resnapshot, WorldMoves, bodyVars, envVars
<1> QED BY <1>1, <1>2, FewerJobs, SameSlots, KeepPixels

LEMMA PixelStep == PixelInv /\ [Next]_vars => PixelInv'
<1> SUFFICES ASSUME PixelInv, [Next]_vars PROVE PixelInv' OBVIOUS
<1>1. CASE MainStep
      BY <1>1, PixelsPlain, PixelsLand, PixelsLandMaster, PixelsHouse, PixelsStart DEF MainStep
<1>2. CASE AppStep
      BY <1>2, PixelsPlain, PixelsTick, PixelsPrebake, PixelsForget DEF AppStep
<1>3. CASE \E w \in Workers : Take(w) \/ Finish(w) BY <1>3, PixelsWorker
<1>4. CASE UNCHANGED vars
  <2>1. Live' = Live BY <1>4, LiveSame DEF vars
  <2>2. TypeInv' BY TypeStep DEF PixelInv
  <2>3. UNCHANGED <<slot, world>> BY <1>4 DEF vars
  <2> QED BY <2>1, <2>2, <2>3, FewerJobs, SameSlots, KeepPixels
<1> QED BY <1>1, <1>2, <1>3, <1>4 DEF Next

LEMMA PixelInit == Init => PixelInv
<1> SUFFICES ASSUME Init PROVE PixelInv OBVIOUS
<1>1. TypeInv BY InitType DEF TypeInv
<1>2. Slots BY DEF Init, Slots, SlotHolds, EmptySlot
<1>3. Awaiting BY LiveInit DEF Awaiting
<1> QED BY <1>1, <1>2, <1>3 DEF PixelInv

(* The pixels a chunk holds are the ones its hash names, however often the *)
(* chunk was dropped, forgotten or re-baked while a worker patched it, and *)
(* none of a forgotten world, although forget_world() lets the workers'    *)
(* jobs in hand run on.                                                    *)
THEOREM PixelsAreTheHashed == Spec => []PixelsMatchHash
<1>1. PixelInv => PixelsMatchHash
  <2> SUFFICES ASSUME PixelInv, NEW b \in Bodies, NEW c \in Chunks
               PROVE  /\ slot[b][c].ready => slot[b][c].px = slot[b][c].hash
                      /\ slot[b][c].px \notin {None, Torn} => slot[b][c].px.world = world
      BY DEF PixelsMatchHash
  <2>1. SlotHolds(slot[b][c]) BY DEF PixelInv, Slots
  <2>2. slot[b][c] \in Slot BY DEF PixelInv, TypeInv, GroundTypeOK
  <2>3. slot[b][c].ready \in BOOLEAN BY <2>2 DEF Slot
  <2> QED BY <2>1, <2>3 DEF SlotHolds
<1> QED BY PixelInit, <1>1, PixelStep, PTL DEF Spec

----------------------------------------------------------------------------
(* No one waits for a job that does not exist *)

(* somebody still waits for job j *)
Expected(j) ==
    \/ j.kind = "sweep" /\ body[j.body].sweep = j.seq
    \/ j.kind = "master" /\ slot[j.body][j.part].job = j.seq
    \/ j.kind = "far" /\ page[j.body].job[j.part] = j.seq

SameName(i, j) == i.seq = j.seq /\ i.kind = j.kind /\ i.body = j.body /\ i.part = j.part

(* a job that is gone is one nobody waits for any more ... *)
OldJobsKept == \A j \in Live : (\E i \in Live' : SameName(i, j)) \/ ~Expected(j)'

(* ... and what is newly waited for exists *)
NewJobsNamed ==
    \A b \in Bodies :
      /\ body'[b].sweep = body[b].sweep \/ Names(body[b].sweep, "sweep", b, None)'
      /\ \A c \in Chunks : \/ slot'[b][c].job = slot[b][c].job
                           \/ Names(slot[b][c].job, "master", b, c)'
      /\ \A k \in Pieces : \/ page'[b].job[k] = page[b].job[k]
                           \/ Names(page[b].job[k], "far", b, k)'

LEMMA KeepNames ==
    ASSUME NothingLost, OldJobsKept, NewJobsNamed PROVE NothingLost'
<1> SUFFICES ASSUME NEW b \in Bodies
             PROVE  /\ Names(body[b].sweep, "sweep", b, None)'
                    /\ \A c \in Chunks : Names(slot[b][c].job, "master", b, c)'
                    /\ \A k \in Pieces : Names(page[b].job[k], "far", b, k)'
    BY DEF NothingLost
<1>1. Names(body[b].sweep, "sweep", b, None)'
  <2> SUFFICES ASSUME body'[b].sweep = body[b].sweep, body'[b].sweep # 0
               PROVE  \E i \in Live' : /\ i.seq = body'[b].sweep /\ i.kind = "sweep"
                                       /\ i.body = b /\ i.part = None
      BY DEF NewJobsNamed, Names
  <2>1. PICK j \in Live : /\ j.seq = body[b].sweep /\ j.kind = "sweep"
                          /\ j.body = b /\ j.part = None
        BY DEF NothingLost, Names
  <2>2. Expected(j)' BY <2>1 DEF Expected
  <2> QED BY <2>1, <2>2 DEF OldJobsKept, SameName
<1>2. ASSUME NEW c \in Chunks PROVE Names(slot[b][c].job, "master", b, c)'
  <2> SUFFICES ASSUME slot'[b][c].job = slot[b][c].job, slot'[b][c].job # 0
               PROVE  \E i \in Live' : /\ i.seq = slot'[b][c].job /\ i.kind = "master"
                                       /\ i.body = b /\ i.part = c
      BY DEF NewJobsNamed, Names
  <2>1. PICK j \in Live : /\ j.seq = slot[b][c].job /\ j.kind = "master"
                          /\ j.body = b /\ j.part = c
        BY DEF NothingLost, Names
  <2>2. Expected(j)' BY <2>1 DEF Expected
  <2> QED BY <2>1, <2>2 DEF OldJobsKept, SameName
<1>3. ASSUME NEW k \in Pieces PROVE Names(page[b].job[k], "far", b, k)'
  <2> SUFFICES ASSUME page'[b].job[k] = page[b].job[k], page'[b].job[k] # 0
               PROVE  \E i \in Live' : /\ i.seq = page'[b].job[k] /\ i.kind = "far"
                                       /\ i.body = b /\ i.part = k
      BY DEF NewJobsNamed, Names
  <2>1. PICK j \in Live : /\ j.seq = page[b].job[k] /\ j.kind = "far"
                          /\ j.body = b /\ j.part = k
        BY DEF NothingLost, Names
  <2>2. Expected(j)' BY <2>1 DEF Expected
  <2> QED BY <2>1, <2>2 DEF OldJobsKept, SameName
<1> QED BY <1>1, <1>2, <1>3

LEMMA AllKept == Live \subseteq Live' => OldJobsKept
BY DEF OldJobsKept, SameName

LEMMA NoneNew == UNCHANGED <<slot, page>> /\ (\A b \in Bodies : body'[b].sweep = body[b].sweep)
                   => NewJobsNamed
BY DEF NewJobsNamed

LEMMA NamesWorker ==
    ASSUME TypeInv, NothingLost, NEW w \in Workers, Take(w) \/ Finish(w) PROVE NothingLost'
<1>1. NewJobsNamed BY NoneNew DEF Take, Finish, bodyVars
<1>2. OldJobsKept
  <2>1. CASE Take(w) BY <2>1, LiveTake, AllKept DEF TypeInv
  <2>2. CASE Finish(w)
    <3>1. PICK p \in BOOLEAN :
             /\ running[w] \in Job
             /\ Live \subseteq Live' \cup {running[w]}
             /\ [running[w] EXCEPT !.patched = p] \in Live'
          BY <2>2, LiveFinish DEF TypeInv
    <3> DEFINE r == [running[w] EXCEPT !.patched = p]
    <3>2. SameName(r, running[w]) BY <3>1 DEF SameName, Job
    <3>3. r \in Live' BY <3>1
    <3> HIDE DEF r
    <3>4. \A j \in Live' : SameName(j, j) BY DEF SameName
    <3> QED BY <3>1, <3>2, <3>3, <3>4 DEF OldJobsKept
  <2> QED BY <2>1, <2>2
<1> QED BY <1>1, <1>2, KeepNames

LEMMA NamesStart ==
    ASSUME TypeInv, NothingLost, NEW b \in Bodies,
           start_far(b) \/ make_sweep_job(b) \/ \E c \in Chunks : make_master_job(b, c)
    PROVE  NothingLost'
<1>1. CASE start_far(b)
  <2> DEFINE js == {JobOf("far", k_prio_far, b, k, m_seq_counter + k, None) : k \in Pieces}
  <2>1. Live' = Live \cup js BY <1>1, StartFarJobs
  <2>2. /\ page' = [page EXCEPT ![b] = [@ EXCEPT !.baking = body[b].src,
                                             !.job = [k \in Pieces |-> m_seq_counter + k]]]
        /\ UNCHANGED <<body, slot>>
        BY <1>1 DEF start_far
  <2>3. page \in [Bodies -> Page] BY DEF TypeInv, GroundTypeOK
  <2>4. /\ \A k \in Pieces : page'[b].job[k] = m_seq_counter + k
        /\ \A x \in Bodies \ {b} : page'[x] = page[x]
        BY <2>2, <2>3 DEF Page
  <2>5. \A k \in Pieces : LET j == JobOf("far", k_prio_far, b, k, m_seq_counter + k, None)
                          IN j \in js /\ j.seq = m_seq_counter + k /\ j.kind = "far"
                             /\ j.body = b /\ j.part = k
        BY DEF JobOf
  <2> HIDE DEF js
  <2>6. \A k \in Pieces : Names(page[b].job[k], "far", b, k)'
        BY <2>1, <2>4, <2>5 DEF Names
  <2>7. NewJobsNamed BY <2>2, <2>4, <2>6 DEF NewJobsNamed
  <2>8. OldJobsKept BY <2>1, AllKept
  <2> QED BY <2>7, <2>8, KeepNames
<1>2. CASE make_sweep_job(b)
  <2> DEFINE j == JobOf("sweep", k_prio_sweep, b, None, m_seq_counter + 1, None)
  <2>1. /\ Live' = Live \cup {j} /\ UNCHANGED <<slot, page>>
        /\ body' = [body EXCEPT ![b].sweep = m_seq_counter + 1]
        BY <1>2, LiveEnqueue DEF make_sweep_job, enqueue
  <2>2. /\ body'[b].sweep = m_seq_counter + 1 /\ \A x \in Bodies \ {b} : body'[x] = body[x]
    <3>1. body \in [Bodies -> Body] BY DEF TypeInv, GroundTypeOK
    <3> QED BY <2>1, <3>1 DEF Body
  <2>3. j.seq = m_seq_counter + 1 /\ j.kind = "sweep" /\ j.body = b /\ j.part = None BY DEF JobOf
  <2> HIDE DEF j
  <2>4. Names(body[b].sweep, "sweep", b, None)' BY <2>1, <2>2, <2>3 DEF Names
  <2>5. NewJobsNamed BY <2>1, <2>2, <2>4 DEF NewJobsNamed
  <2>6. OldJobsKept BY <2>1, AllKept
  <2> QED BY <2>5, <2>6, KeepNames
<1>3. ASSUME NEW c \in Chunks, make_master_job(b, c) PROVE NothingLost'
  <2> DEFINE j == JobOf("master", prio_of(b), b, c, m_seq_counter + 1, slot[b][c].old)
  <2>1. /\ Live' = Live \cup {j} /\ UNCHANGED <<body, page>>
        /\ slot' = [slot EXCEPT ![b][c].job = m_seq_counter + 1]
        BY <1>3, LiveEnqueue DEF make_master_job, enqueue
  <2>2. \A x \in Bodies, y \in Chunks :
          slot'[x][y].job = IF x = b /\ y = c THEN m_seq_counter + 1 ELSE slot[x][y].job
    <3>1. slot \in [Bodies -> [Chunks -> Slot]] BY DEF TypeInv, GroundTypeOK
    <3> QED BY <2>1, <3>1 DEF Slot
  <2>3. j.seq = m_seq_counter + 1 /\ j.kind = "master" /\ j.body = b /\ j.part = c BY DEF JobOf
  <2> HIDE DEF j
  <2>4. Names(slot[b][c].job, "master", b, c)' BY <2>1, <2>2, <2>3 DEF Names
  <2>5. NewJobsNamed BY <2>1, <2>2, <2>4 DEF NewJobsNamed
  <2>6. OldJobsKept BY <2>1, AllKept
  <2> QED BY <2>5, <2>6, KeepNames
<1> QED BY <1>1, <1>2, <1>3

(* an orphan is awaited by nobody; a landing clears what awaited it *)
LEMMA NamesLand ==
    ASSUME TypeInv, NothingLost, LandOrphan \/ LandFar \/ LandSweep \/ LandMaster
    PROVE  NothingLost'
<1>1. /\ done # << >> /\ Landed
      BY DEF LandOrphan, LandFar, LandSweep, LandMaster, Landing
<1>0. PICK d \in Job : d = Head(done) BY <1>1, LiveLanded DEF TypeInv
<1>2. Live = Live' \cup {d} /\ d \in Live /\ d \in Job
      BY <1>0, <1>1, LiveLanded DEF TypeInv
<1>3. d.body \in Bodies /\ d.seq # 0 BY <1>2 DEF Job
<1>4. /\ body \in [Bodies -> Body] /\ slot \in [Bodies -> [Chunks -> Slot]]
      /\ page \in [Bodies -> Page]
      BY DEF TypeInv, GroundTypeOK
<1>5. (d.kind = "master" => d.part \in Chunks) /\ (d.kind = "far" => d.part \in Pieces)
      BY <1>2 DEF TypeInv, JobsFit
<1>6. CASE LandOrphan
  <2>1. UNCHANGED <<body, slot, page>> /\ ~Awaited(d) BY <1>0, <1>6 DEF LandOrphan
  <2>2. ~Expected(d)
    <3>1. d.body \in present => ~Expected(d) BY <2>1 DEF Awaited, Expected
    <3>2. d.body \notin present => ~Expected(d)
          BY <1>3, <1>5 DEF TypeInv, Absent, Expected
    <3> QED BY <3>1, <3>2
  <2>3. OldJobsKept BY <1>2, <2>1, <2>2 DEF OldJobsKept, SameName, Expected
  <2>4. NewJobsNamed BY <2>1, NoneNew
  <2> QED BY <2>3, <2>4, KeepNames
<1>7. CASE LandFar
  <2> DEFINE p == [page[d.body] EXCEPT !.job[d.part] = 0, !.px[d.part] = d.snap]
             q == IF \A k \in Pieces : p.job[k] = 0
                  THEN [p EXCEPT !.hash = p.baking, !.ver = @ + 1] ELSE p
  <2>1. /\ d.kind = "far" /\ page' = [page EXCEPT ![d.body] = q] /\ UNCHANGED <<body, slot>>
        BY <1>0, <1>7 DEF LandFar, Landing
  <2>2. d.part \in Pieces BY <1>5, <2>1
  <2>3. q.job = [page[d.body].job EXCEPT ![d.part] = 0]
    <3>1. page[d.body] \in Page BY <1>3, <1>4
    <3> QED BY <3>1, <2>2 DEF Page
  <2> HIDE DEF q
  <2>4. \A b \in Bodies, k \in Pieces :
          page'[b].job[k] = IF b = d.body /\ k = d.part THEN 0 ELSE page[b].job[k]
    <3>1. page[d.body].job \in [Pieces -> Nat] BY <1>3, <1>4 DEF Page
    <3> QED BY <1>3, <1>4, <2>1, <2>2, <2>3, <3>1
  <2>5. NewJobsNamed BY <2>1, <2>4 DEF NewJobsNamed, Names
  <2>6. ~Expected(d)' BY <1>3, <2>1, <2>2, <2>4 DEF Expected
  <2>7. OldJobsKept BY <1>2, <2>6 DEF OldJobsKept, SameName
  <2> QED BY <2>5, <2>7, KeepNames
<1>8. CASE LandSweep
  <2> DEFINE ss == [c \in Chunks |-> [slot[d.body][c] EXCEPT
                     !.dirty = slot[d.body][c].ready /\ slot[d.body][c].hash # d.snap[c]]]
             n == Cardinality(ReadyClean(ss))
  <2>1. /\ d.kind = "sweep" /\ slot' = [slot EXCEPT ![d.body] = ss] /\ UNCHANGED page
        /\ body' = [body EXCEPT ![d.body] =
                      [@ EXCEPT !.sweep = 0, !.swept = d.snap, !.n_ready = n]]
        BY <1>0, <1>8 DEF LandSweep, Landing
  <2>2. \A c \in Chunks : ss[c].job = slot[d.body][c].job BY <1>3, <1>4 DEF Slot
  <2> HIDE DEF ss, n
  <2>3. \A b \in Bodies, c \in Chunks : slot'[b][c].job = slot[b][c].job
        BY <1>3, <1>4, <2>1, <2>2
  <2>4. body'[d.body].sweep = 0 /\ \A b \in Bodies \ {d.body} : body'[b] = body[b]
        BY <1>3, <1>4, <2>1 DEF Body
  <2>5. NewJobsNamed BY <2>1, <2>3, <2>4 DEF NewJobsNamed, Names
  <2>6. ~Expected(d)' BY <1>3, <2>1, <2>4 DEF Expected
  <2>7. OldJobsKept BY <1>2, <2>6 DEF OldJobsKept, SameName
  <2> QED BY <2>5, <2>7, KeepNames
<1>9. CASE LandMaster
  <2> DEFINE t == Stored(slot[d.body][d.part], d)
  <2>1. /\ d.kind = "master" /\ Awaited(d) /\ UNCHANGED page
        /\ \/ slot' = [slot EXCEPT ![d.body][d.part].job = 0]
           \/ slot' = [slot EXCEPT ![d.body][d.part] = t]
        BY <1>0, <1>9 DEF LandMaster, Landing
  <2>2. d.part \in Chunks BY <1>5, <2>1
  <2>3. \A b \in Bodies : body'[b].sweep = body[b].sweep
    <3>1. \/ UNCHANGED body
          \/ \E n : body' = [body EXCEPT ![d.body] = [@ EXCEPT !.n_ready = n]]
          BY <1>0, <1>9 DEF LandMaster
    <3>2. ASSUME NEW n, body' = [body EXCEPT ![d.body] = [@ EXCEPT !.n_ready = n]],
                 NEW b \in Bodies
          PROVE  body'[b].sweep = body[b].sweep
      <4>1. body[d.body] \in Body BY <1>3, <1>4
      <4>2. CASE b = d.body BY <1>4, <3>2, <4>1, <4>2 DEF Body
      <4>3. CASE b # d.body BY <1>4, <3>2, <4>3
      <4> QED BY <4>2, <4>3
    <3> QED BY <3>1, <3>2
  <2>4. t.job = 0 BY DEF Stored
  <2> HIDE DEF t
  <2>5. \A b \in Bodies, c \in Chunks :
          slot'[b][c].job = IF b = d.body /\ c = d.part THEN 0 ELSE slot[b][c].job
        BY <1>3, <1>4, <2>1, <2>2, <2>4 DEF Slot
  <2>6. NewJobsNamed BY <2>1, <2>3, <2>5 DEF NewJobsNamed, Names
  <2>7. ~Expected(d)' BY <1>3, <2>1, <2>2, <2>5 DEF Expected
  <2>8. OldJobsKept BY <1>2, <2>7 DEF OldJobsKept, SameName
  <2> QED BY <2>6, <2>8, KeepNames
<1> QED BY <1>6, <1>7, <1>8, <1>9

(* drop_master() purges the waiting masters of the bodies whose slots it    *)
(* empties, and no other job                                               *)
LEMMA NamesRoom ==
    ASSUME TypeInv, NothingLost, NEW V, drop_master(V),
           UNCHANGED <<running, m_results, done, m_seq_counter, page>>,
           \A x \in Bodies : body'[x].sweep = body[x].sweep
    PROVE  NothingLost'
<1>1. \A j \in Live : j \in Live' \/ (j.kind = "master" /\ j.body \in V) BY LiveDrop
<1>2. \A x \in Bodies, c \in Chunks :
        slot'[x][c] = IF x \in V THEN EmptySlot ELSE slot[x][c]
      BY DropType
<1>3. NewJobsNamed BY <1>2 DEF NewJobsNamed, Names, EmptySlot
<1>4. OldJobsKept
  <2> SUFFICES ASSUME NEW j \in Live, j \notin Live' PROVE ~Expected(j)'
      BY DEF OldJobsKept, SameName
  <2>1. j.kind = "master" /\ j.body \in V BY <1>1
  <2>2. j.body \in Bodies /\ j.part \in Chunks /\ j.seq # 0
        BY <2>1, LiveJobs DEF TypeInv, JobsFit, Job
  <2> QED BY <1>2, <2>1, <2>2 DEF Expected, EmptySlot
<1> QED BY <1>3, <1>4, KeepNames

LEMMA NamesTick ==
    ASSUME TypeInv, NothingLost, NEW b \in Bodies, NEW hide \in BOOLEAN, NEW V,
           tick(b, hide, V)
    PROVE  NothingLost'
<1>1. /\ main = "idle" /\ drop_master(V)
      /\ UNCHANGED <<running, m_results, done, m_seq_counter, page, world>>
      /\ present' = present \cup {b}
      BY TickRoom
<1>2. PICK retake \in BOOLEAN :
         /\ b \notin present => retake
         /\ body' = [x \in Bodies |->
               IF x = b /\ retake THEN set_source(b, hide)
               ELSE IF x \in V THEN [body[x] EXCEPT !.n_ready = 0] ELSE body[x]]
      BY TickRoom
<1>3. \A x \in Bodies : body'[x].sweep = body[x].sweep BY <1>1, <1>2, RoomType
<1> QED BY <1>1, <1>3, NamesRoom

LEMMA NamesPrebake ==
    ASSUME TypeInv, NothingLost, NEW again \in BOOLEAN, NEW V, prebake(again, V)
    PROVE  NothingLost'
<1>1. /\ main = "idle" /\ drop_master(V) /\ Home \in Bodies /\ view.hide \in BOOLEAN
      /\ UNCHANGED <<running, m_results, done, m_seq_counter, page, world>>
      /\ present' = present \cup {Home}
      BY PrebakeRoom
<1>2. PICK retake \in BOOLEAN :
         /\ Home \notin present => retake
         /\ body' = [x \in Bodies |->
               IF x = Home /\ retake THEN set_source(Home, view.hide)
               ELSE IF x \in V THEN [body[x] EXCEPT !.n_ready = 0] ELSE body[x]]
      BY PrebakeRoom
<1>3. \A x \in Bodies : body'[x].sweep = body[x].sweep BY <1>1, <1>2, RoomType
<1> QED BY <1>1, <1>3, NamesRoom

LEMMA NamesPlain ==
    ASSUME TypeInv, NothingLost,
           \/ pump \/ Drained \/ HouseKept \/ Fed \/ Leave \/ Open \/ resnapshot
           \/ \E b \in Bodies, c \in Chunks : WorldMoves(b, c)
    PROVE  NothingLost'
<1>1. Live' = Live BY PumpType, DrainedType, PlainType, ResnapshotType
<1>2. \A b \in Bodies : body'[b].sweep = body[b].sweep
  <2>1. CASE Drained
    <3> SUFFICES ASSUME NEW b \in Bodies PROVE body'[b].sweep = body[b].sweep OBVIOUS
    <3>1. body'[b] = Aged(b) \/ body'[b] = body[b] BY <2>1 DEF Drained
    <3> QED BY <3>1, AgedType DEF TypeInv
  <2>2. CASE resnapshot
    <3>1. view.prebake \in Bodies /\ body \in [Bodies -> Body]
          BY <2>2 DEF resnapshot, TypeInv, GroundTypeOK
    <3> QED BY <2>2, <3>1, TakenType DEF resnapshot, TypeInv
  <2>3. CASE ~Drained /\ ~resnapshot
        BY <2>3 DEF pump, HouseKept, Fed, Leave, Open, WorldMoves, bodyVars
  <2> QED BY <2>1, <2>2, <2>3
<1>3. UNCHANGED <<slot, page>>
      BY DEF pump, Drained, HouseKept, Fed, Leave, Open, resnapshot, WorldMoves, bodyVars
<1> QED BY <1>1, <1>2, <1>3, AllKept, NoneNew, KeepNames

LEMMA NamesForget == ASSUME forget_world PROVE NothingLost'
BY DEF forget_world, NothingLost, Names, EmptyBody, EmptySlot, EmptyPage

LEMMA NamesStep == TypeInv /\ NothingLost /\ [Next]_vars => NothingLost'
<1> SUFFICES ASSUME TypeInv, NothingLost, [Next]_vars PROVE NothingLost' OBVIOUS
<1>1. CASE MainStep BY <1>1, NamesPlain, NamesLand, NamesStart DEF MainStep
<1>2. CASE AppStep BY <1>2, NamesPlain, NamesTick, NamesPrebake, NamesForget DEF AppStep
<1>3. CASE \E w \in Workers : Take(w) \/ Finish(w) BY <1>3, NamesWorker
<1>4. CASE UNCHANGED vars
  <2>1. Live' = Live BY <1>4, LiveSame DEF vars
  <2> QED BY <1>4, <2>1, AllKept, NoneNew, KeepNames DEF vars
<1> QED BY <1>1, <1>2, <1>3, <1>4 DEF Next

(* Nothing outstanding is lost: a slot, a piece or a body that waits for a *)
(* job always waits for one that is queued, in hand or not yet landed.     *)
THEOREM NothingIsLost == Spec => []NothingLost
<1>1. Init => TypeInv BY InitType DEF TypeInv
<1>2. Init => NothingLost
      BY DEF Init, NothingLost, Names, EmptyBody, EmptySlot, EmptyPage
<1> QED BY <1>1, <1>2, TypeStep, NamesStep, PTL DEF Spec

----------------------------------------------------------------------------
(* The count of chunks that are stored and not stale *)

LEMMA ReadyFinite == \A ss : IsFiniteSet(ReadyClean(ss)) /\ Cardinality(ReadyClean(ss)) \in Nat
<1> SUFFICES ASSUME NEW ss
             PROVE  IsFiniteSet(ReadyClean(ss)) /\ Cardinality(ReadyClean(ss)) \in Nat
    OBVIOUS
<1>1. IsFiniteSet(ReadyClean(ss)) BY ChunksAssumption, FS_Subset DEF ReadyClean
<1> QED BY <1>1, FS_CardinalityType

(* what LandMaster adds to the count is what replacing one chunk adds to   *)
(* the set                                                                 *)
LEMMA CountOne ==
    ASSUME NEW ss, NEW tt, NEW c \in Chunks,
           \A y \in Chunks \ {c} : tt[y] = ss[y]
    PROVE  Cardinality(ReadyClean(tt))
             = Cardinality(ReadyClean(ss)) + Counted(tt[c]) - Counted(ss[c])
<1> DEFINE R == ReadyClean(ss) \ {c}
<1>1. IsFiniteSet(R) /\ c \notin R /\ Cardinality(R) \in Nat
      BY ReadyFinite, FS_Subset, FS_CardinalityType
<1>2. ReadyClean(ss) = IF ss[c].ready /\ ~ss[c].dirty THEN R \cup {c} ELSE R BY DEF ReadyClean
<1>3. ReadyClean(tt) = IF tt[c].ready /\ ~tt[c].dirty THEN R \cup {c} ELSE R BY DEF ReadyClean
<1>4. Cardinality(R \cup {c}) = Cardinality(R) + 1 BY <1>1, FS_AddElement
<1> HIDE DEF R
<1>5. Cardinality(ReadyClean(ss)) = Cardinality(R) + Counted(ss[c]) BY <1>1, <1>2, <1>4 DEF Counted
<1>6. Cardinality(ReadyClean(tt)) = Cardinality(R) + Counted(tt[c]) BY <1>1, <1>3, <1>4 DEF Counted
<1>7. Counted(ss[c]) \in {0, 1} /\ Counted(tt[c]) \in {0, 1} BY CountedType
<1> QED BY <1>1, <1>5, <1>6, <1>7

LEMMA EmptyReady == Cardinality(ReadyClean([c \in Chunks |-> EmptySlot])) = 0
<1>1. ReadyClean([c \in Chunks |-> EmptySlot]) = {} BY DEF ReadyClean, EmptySlot
<1> QED BY <1>1, FS_EmptySet

LEMMA SameReady ==
    ASSUME ReadyCounted, \A b \in Bodies : body'[b].n_ready = body[b].n_ready,
           \A b \in Bodies, c \in Chunks :
             slot'[b][c].ready = slot[b][c].ready /\ slot'[b][c].dirty = slot[b][c].dirty
    PROVE  ReadyCounted'
<1>1. \A b \in Bodies : ReadyClean(slot'[b]) = ReadyClean(slot[b]) BY DEF ReadyClean
<1> QED BY <1>1 DEF ReadyCounted

(* a body that gives up its master counts none; the one whose snapshot is  *)
(* re-taken gives up nothing                                               *)
LEMMA ReadyRoom ==
    ASSUME TypeInv, ReadyCounted, NEW V, NEW b \in Bodies, b \notin V, NEW hide \in BOOLEAN,
           NEW retake, drop_master(V),
           body' = [x \in Bodies |->
                      IF x = b /\ retake THEN set_source(b, hide)
                      ELSE IF x \in V THEN [body[x] EXCEPT !.n_ready = 0] ELSE body[x]]
    PROVE  ReadyCounted'
<1> SUFFICES ASSUME NEW x \in Bodies
             PROVE  body'[x].n_ready = Cardinality(ReadyClean(slot'[x]))
    BY DEF ReadyCounted
<1>1. slot'[x] = IF x \in V THEN [c \in Chunks |-> EmptySlot] ELSE slot[x] BY DEF drop_master
<1>2. body[x] \in Body BY DEF TypeInv, GroundTypeOK
<1>3. body'[x] = IF x = b /\ retake THEN set_source(b, hide)
                 ELSE IF x \in V THEN [body[x] EXCEPT !.n_ready = 0] ELSE body[x]
      OBVIOUS
<1>4. CASE x \in V BY <1>1, <1>2, <1>3, <1>4, EmptyReady DEF Body
<1>5. CASE x \notin V
  <2>1. set_source(b, hide).n_ready = body[b].n_ready BY TakenType DEF TypeInv
  <2> QED BY <1>1, <1>3, <1>5, <2>1 DEF ReadyCounted
<1> QED BY <1>4, <1>5

LEMMA ReadyLandSweep == ASSUME TypeInv, ReadyCounted, LandSweep PROVE ReadyCounted'
<1>1. done # << >> /\ Landed BY DEF LandSweep, Landing
<1>2. PICK d \in Job : d = Head(done) BY <1>1, LiveLanded DEF TypeInv
<1> DEFINE ss == [c \in Chunks |-> [slot[d.body][c] EXCEPT
                     !.dirty = slot[d.body][c].ready /\ slot[d.body][c].hash # d.snap[c]]]
           n == Cardinality(ReadyClean(ss))
<1>3. /\ slot' = [slot EXCEPT ![d.body] = ss]
      /\ body' = [body EXCEPT ![d.body] = [@ EXCEPT !.sweep = 0, !.swept = d.snap, !.n_ready = n]]
      BY <1>2 DEF LandSweep
<1>4. d.body \in Bodies /\ slot \in [Bodies -> [Chunks -> Slot]] /\ body \in [Bodies -> Body]
      BY DEF Job, TypeInv, GroundTypeOK
<1> HIDE DEF ss
<1>5. slot'[d.body] = ss /\ \A b \in Bodies \ {d.body} : slot'[b] = slot[b] BY <1>3, <1>4
<1>6. body'[d.body].n_ready = Cardinality(ReadyClean(ss))
  <2> HIDE DEF n
  <2>1. body'[d.body].n_ready = n BY <1>3, <1>4 DEF Body
  <2> QED BY <2>1 DEF n
<1>7. \A b \in Bodies \ {d.body} : body'[b] = body[b] BY <1>3, <1>4
<1> QED BY <1>4, <1>5, <1>6, <1>7 DEF ReadyCounted

LEMMA ReadyLandMaster == ASSUME TypeInv, ReadyCounted, LandMaster PROVE ReadyCounted'
<1>1. done # << >> /\ Landed /\ Head(done).kind = "master" BY DEF LandMaster, Landing
<1>2. PICK d \in Job : d = Head(done) BY <1>1, LiveLanded DEF TypeInv
<1>3. d.body \in Bodies /\ d.part \in Chunks
      BY <1>1, <1>2, LiveLanded DEF Job, TypeInv, JobsFit
<1> DEFINE s == slot[d.body][d.part]
           t == Stored(s, d)
<1>4. slot \in [Bodies -> [Chunks -> Slot]] /\ body \in [Bodies -> Body]
      BY DEF TypeInv, GroundTypeOK
<1>5. \/ slot' = [slot EXCEPT ![d.body][d.part].job = 0] /\ UNCHANGED body
      \/ /\ slot' = [slot EXCEPT ![d.body][d.part] = t]
         /\ body' = [body EXCEPT ![d.body].n_ready = @ + Counted(t) - Counted(s)]
      BY <1>2 DEF LandMaster
<1>6. CASE slot' = [slot EXCEPT ![d.body][d.part].job = 0] /\ UNCHANGED body
      BY <1>3, <1>4, <1>6, SameReady DEF Slot
<1>7. CASE /\ slot' = [slot EXCEPT ![d.body][d.part] = t]
           /\ body' = [body EXCEPT ![d.body].n_ready = @ + Counted(t) - Counted(s)]
  <2> HIDE DEF t
  <2>1. /\ slot'[d.body][d.part] = t
        /\ \A y \in Chunks \ {d.part} : slot'[d.body][y] = slot[d.body][y]
        /\ \A b \in Bodies \ {d.body} : slot'[b] = slot[b]
        BY <1>3, <1>4, <1>7
  <2>2. body'[d.body].n_ready = body[d.body].n_ready + Counted(t) - Counted(s)
        BY <1>3, <1>4, <1>7 DEF Body
  <2>3. \A b \in Bodies \ {d.body} : body'[b] = body[b] BY <1>3, <1>4, <1>7
  <2>4. Cardinality(ReadyClean(slot'[d.body]))
          = Cardinality(ReadyClean(slot[d.body])) + Counted(slot'[d.body][d.part])
              - Counted(slot[d.body][d.part])
        BY <1>3, <2>1, CountOne
  <2>5. body'[d.body].n_ready = Cardinality(ReadyClean(slot'[d.body]))
        BY <1>3, <2>1, <2>2, <2>4 DEF ReadyCounted
  <2> QED BY <2>1, <2>3, <2>5 DEF ReadyCounted
<1> QED BY <1>5, <1>6, <1>7

LEMMA ReadyMain == ASSUME TypeInv, ReadyCounted, MainStep PROVE ReadyCounted'
<1>0. body \in [Bodies -> Body] /\ slot \in [Bodies -> [Chunks -> Slot]]
      BY DEF TypeInv, GroundTypeOK
<1>1. CASE pump \/ LandOrphan \/ LandFar \/ HouseKept \/ Fed
      BY <1>1, SameReady DEF pump, LandOrphan, LandFar, HouseKept, Fed, bodyVars
<1>2. CASE LandSweep BY <1>2, ReadyLandSweep
<1>3. CASE LandMaster BY <1>3, ReadyLandMaster
<1>4. CASE Drained
  <2>1. \A b \in Bodies : body'[b].n_ready = body[b].n_ready
    <3> SUFFICES ASSUME NEW b \in Bodies PROVE body'[b].n_ready = body[b].n_ready OBVIOUS
    <3>1. body'[b] = Aged(b) \/ body'[b] = body[b] BY <1>4 DEF Drained
    <3> QED BY <3>1, AgedType DEF TypeInv
  <2> QED BY <1>4, <2>1, SameReady DEF Drained
<1>5. ASSUME NEW b \in Bodies, start_far(b) \/ make_sweep_job(b) PROVE ReadyCounted'
  <2>1. slot' = slot BY <1>5 DEF start_far, make_sweep_job
  <2>2. body' = body \/ body' = [body EXCEPT ![b].sweep = m_seq_counter + 1]
        BY <1>5 DEF start_far, make_sweep_job
  <2>3. \A x \in Bodies : body'[x].n_ready = body[x].n_ready BY <1>0, <2>2 DEF Body
  <2> QED BY <2>1, <2>3, SameReady
<1>6. ASSUME NEW b \in Bodies, NEW c \in Chunks, make_master_job(b, c) PROVE ReadyCounted'
      BY <1>0, <1>6, SameReady DEF make_master_job, Slot
<1> QED BY <1>1, <1>2, <1>3, <1>4, <1>5, <1>6 DEF MainStep

LEMMA ReadyApp == ASSUME TypeInv, ReadyCounted, AppStep PROVE ReadyCounted'
<1>1. ASSUME NEW b \in Bodies, NEW hide \in BOOLEAN, NEW V, tick(b, hide, V)
      PROVE  ReadyCounted'
  <2>1. b \notin V BY <1>1 DEF tick, Evictable
  <2>2. drop_master(V) BY <1>1, TickRoom
  <2>3. PICK retake \in BOOLEAN :
         /\ b \notin present => retake
         /\ body' = [x \in Bodies |->
               IF x = b /\ retake THEN set_source(b, hide)
               ELSE IF x \in V THEN [body[x] EXCEPT !.n_ready = 0] ELSE body[x]]
        BY <1>1, TickRoom
  <2> QED BY <2>1, <2>2, <2>3, ReadyRoom
<1>2. ASSUME NEW again \in BOOLEAN, NEW V, prebake(again, V) PROVE ReadyCounted'
  <2>1. Home \notin V BY <1>2 DEF prebake, Evictable
  <2>2. drop_master(V) /\ Home \in Bodies /\ view.hide \in BOOLEAN BY <1>2, PrebakeRoom
  <2>3. PICK retake \in BOOLEAN :
         /\ Home \notin present => retake
         /\ body' = [x \in Bodies |->
               IF x = Home /\ retake THEN set_source(Home, view.hide)
               ELSE IF x \in V THEN [body[x] EXCEPT !.n_ready = 0] ELSE body[x]]
        BY <1>2, PrebakeRoom
  <2> QED BY <2>1, <2>2, <2>3, ReadyRoom
<1>3. CASE Leave \/ Open BY <1>3, SameReady DEF Leave, Open, bodyVars
<1>4. ASSUME NEW b \in Bodies, NEW c \in Chunks, WorldMoves(b, c) PROVE ReadyCounted'
      BY <1>4, SameReady DEF WorldMoves, bodyVars
<1>5. CASE resnapshot
  <2>1. view.prebake \in Bodies /\ body \in [Bodies -> Body]
        BY <1>5 DEF resnapshot, TypeInv, GroundTypeOK
  <2>2. \A b \in Bodies : body'[b].n_ready = body[b].n_ready
        BY <1>5, <2>1, TakenType DEF resnapshot, TypeInv
  <2> QED BY <1>5, <2>2, SameReady DEF resnapshot
<1>6. CASE forget_world BY <1>6, EmptyReady DEF forget_world, ReadyCounted, EmptyBody
<1> QED BY <1>1, <1>2, <1>3, <1>4, <1>5, <1>6 DEF AppStep

LEMMA ReadyStep == TypeInv /\ ReadyCounted /\ [Next]_vars => ReadyCounted'
<1> SUFFICES ASSUME TypeInv, ReadyCounted, [Next]_vars PROVE ReadyCounted' OBVIOUS
<1>1. CASE MainStep BY <1>1, ReadyMain
<1>2. CASE AppStep BY <1>2, ReadyApp
<1>3. CASE \E w \in Workers : Take(w) \/ Finish(w)
      BY <1>3, SameReady DEF Take, Finish, bodyVars
<1>4. CASE UNCHANGED vars BY <1>4, SameReady DEF vars
<1> QED BY <1>1, <1>2, <1>3, <1>4 DEF Next

(* n_ready, adjusted by hand at every landing, sweep, drop and forgotten   *)
(* world, is the number of chunks stored and not stale.                    *)
THEOREM ReadyIsCounted == Spec => []ReadyCounted
<1>1. Init => TypeInv BY InitType DEF TypeInv
<1>2. Init => ReadyCounted BY EmptyReady DEF Init, ReadyCounted, EmptyBody
<1> QED BY <1>1, <1>2, TypeStep, ReadyStep, PTL DEF Spec

-----------------------------------------------------------------------------
(* The pool's books balance: jobs counted, jobs waited for and chunks      *)
(* counted as ready, through every drop, forgotten world and landing.      *)
THEOREM PoolBooksBalance == Spec => []PoolBooks
BY InflightIsExact, NothingIsLost, ReadyIsCounted, PTL DEF PoolBooks

----------------------------------------------------------------------------
(* A body that is current shows its snapshot                               *)
(*                                                                         *)
(* A chunk is taken for clean against a sweep's table, and a body for      *)
(* current when the table's snapshot is the body's.  Snapshots are re-taken*)
(* in between, so the argument is that none comes back once it has been    *)
(* replaced: while the lens strips no road a body's snapshot only ever     *)
(* moves on, table and sweep follow behind it, and if the table is the     *)
(* snapshot it has been so since the sweep looked.                         *)

(* the lens strips no road *)
RoadsStay == Routed = {} \/ ~view.hide

Fresh(b) == [c \in Chunks |-> [world |-> world, move |-> ground[b][c], bare |-> FALSE]]

(* snapshot s was taken no later than t, of the same world, roads and all  *)
NoLater(s, t) ==
    \A c \in Chunks : /\ s[c].world = t[c].world /\ s[c].move <= t[c].move
                      /\ s[c].bare = FALSE /\ t[c].bare = FALSE

NotAhead(b) == NoLater(body[b].src, Fresh(b))
TableBehind(b) == body[b].swept # None => NoLater(body[b].swept, body[b].src)
CleanIsCurrent(b) ==
    body[b].swept = body[b].src =>
      \A c \in Chunks : slot[b][c].ready /\ ~slot[b][c].dirty => slot[b][c].hash = body[b].src[c]
SweepsBehind ==
    \A j \in Live : j.kind = "sweep" /\ body[j.body].sweep = j.seq =>
                       NoLater(j.snap, body[j.body].src)
Unswept == \A b \in Bodies \ present : body[b].swept = None

MovesOn == /\ Unswept /\ SweepsBehind
           /\ \A b \in present : NotAhead(b) /\ TableBehind(b) /\ CleanIsCurrent(b)

LEMMA FreshIsTaken ==
    ASSUME GroundTypeOK, NEW b \in Bodies, NEW bare \in BOOLEAN, Routed = {} \/ ~bare
    PROVE  prepare_source(b, bare) = Fresh(b) /\ Fresh(b) \in Snapshot
<1>1. prepare_source(b, bare) \in Snapshot BY TakenType
<1>2. \A c \in Chunks : (bare /\ c \in Routed) = FALSE OBVIOUS
<1>3. prepare_source(b, bare) = Fresh(b) BY <1>2 DEF prepare_source, Fresh
<1> QED BY <1>1, <1>3

LEMMA LaterStill ==
    ASSUME NEW s \in Snapshot, NEW t \in Snapshot, NEW u \in Snapshot, NoLater(s, t), NoLater(t, u)
    PROVE  NoLater(s, u)
<1> SUFFICES ASSUME NEW c \in Chunks
             PROVE  /\ s[c].world = u[c].world /\ s[c].move <= u[c].move
                    /\ s[c].bare = FALSE /\ u[c].bare = FALSE
    BY DEF NoLater
<1>1. s[c] \in Value /\ t[c] \in Value /\ u[c] \in Value BY DEF Snapshot
<1>2. s[c].move \in Nat /\ t[c].move \in Nat /\ u[c].move \in Nat BY <1>1 DEF Value
<1>3. /\ s[c].world = t[c].world /\ s[c].move <= t[c].move /\ s[c].bare = FALSE
      /\ t[c].world = u[c].world /\ t[c].move <= u[c].move /\ u[c].bare = FALSE
      BY DEF NoLater
<1> QED BY <1>2, <1>3

(* two snapshots neither of which is later are one *)
LEMMA NeitherLater ==
    ASSUME NEW s \in Snapshot, NEW t \in Snapshot, NoLater(s, t), NoLater(t, s)
    PROVE  s = t
<1>1. ASSUME NEW c \in Chunks PROVE s[c] = t[c]
  <2>1. s[c] \in Value /\ t[c] \in Value BY DEF Snapshot
  <2>2. s[c].move \in Nat /\ t[c].move \in Nat BY <2>1 DEF Value
  <2>3. /\ s[c].world = t[c].world /\ s[c].bare = FALSE /\ t[c].bare = FALSE
        /\ s[c].move <= t[c].move /\ t[c].move <= s[c].move
        BY DEF NoLater
  <2>4. s[c].move = t[c].move BY <2>2, <2>3
  <2> QED BY <2>1, <2>3, <2>4 DEF Value
<1> QED BY <1>1 DEF Snapshot

(* what most steps leave as it was *)
OldSweeps == \A j \in Live' : j.kind = "sweep" =>
                \E i \in Live : /\ i.kind = "sweep" /\ i.seq = j.seq /\ i.body = j.body
                                /\ i.snap = j.snap
OldTables == \A b \in Bodies : body'[b].swept = body[b].swept /\ body'[b].sweep = body[b].sweep
OldClean == \A b \in Bodies, c \in Chunks :
              slot'[b][c].ready /\ ~slot'[b][c].dirty =>
                slot[b][c].ready /\ ~slot[b][c].dirty /\ slot'[b][c].hash = slot[b][c].hash
SameOrFresh == \A b \in present' :
                 \/ b \in present /\ body'[b].src = body[b].src
                 \/ body'[b].src = Fresh(b)
WorldOnly == /\ world' = world /\ present \subseteq present'
             /\ \A b \in Bodies, c \in Chunks : ground[b][c] <= ground'[b][c]

LEMMA KeepCurrent ==
    ASSUME TypeInv, MovesOn, TypeInv', OldSweeps, OldTables, OldClean, SameOrFresh, WorldOnly
    PROVE  MovesOn'
<1>1. \A b \in Bodies : Fresh(b) \in Snapshot BY FreshIsTaken DEF TypeInv
<1>2. \A b \in Bodies : Fresh(b)' \in Snapshot
  <2> SUFFICES ASSUME NEW b \in Bodies PROVE Fresh(b)' \in Snapshot OBVIOUS
  <2>1. world' \in Nat /\ \A c \in Chunks : ground'[b][c] \in Nat BY DEF TypeInv, GroundTypeOK
  <2> QED BY <2>1 DEF Fresh, Snapshot, Value
<1>3. \A b \in Bodies : NoLater(Fresh(b), Fresh(b)')
      BY DEF WorldOnly, NoLater, Fresh
<1>4. \A b \in present : /\ b \in Bodies /\ body[b].src \in Snapshot
                         /\ body[b].swept \in Snapshot \cup {None}
      BY DEF TypeInv, Sourced, GroundTypeOK, Body
<1>5. present' \subseteq Bodies BY DEF TypeInv, GroundTypeOK
<1>6. \A b \in present' : body'[b].src \in Snapshot BY DEF TypeInv, Sourced
(* the snapshot moves on *)
<1>7. ASSUME NEW b \in present PROVE NoLater(body[b].src, body'[b].src)
  <2>1. NoLater(body[b].src, Fresh(b)) BY DEF MovesOn, NotAhead
  <2>2. b \in present' BY DEF WorldOnly
  <2>3. CASE body'[b].src = Fresh(b) BY <2>1, <2>3
  <2>4. CASE body'[b].src = body[b].src
        BY <2>1, <2>4 DEF NoLater, TypeInv, Sourced, Snapshot, Value
  <2> QED BY <2>2, <2>3, <2>4 DEF SameOrFresh
<1>8. ASSUME NEW b \in present' PROVE NotAhead(b)'
  <2>1. CASE body'[b].src = Fresh(b) BY <1>3, <1>5, <2>1 DEF NotAhead
  <2>2. CASE b \in present /\ body'[b].src = body[b].src
    <3>1. NoLater(body[b].src, Fresh(b)) BY <2>2 DEF MovesOn, NotAhead
    <3>2. NoLater(body[b].src, Fresh(b)') BY <1>1, <1>2, <1>3, <1>4, <2>2, <3>1, LaterStill
    <3> QED BY <2>2, <3>2 DEF NotAhead
  <2> QED BY <2>1, <2>2 DEF SameOrFresh
<1>9. ASSUME NEW b \in present' PROVE TableBehind(b)'
  <2>1. body'[b].swept = body[b].swept BY <1>5 DEF OldTables
  <2>2. CASE b \notin present BY <1>5, <2>1, <2>2 DEF MovesOn, Unswept, TableBehind
  <2>3. CASE b \in present
    <3> SUFFICES ASSUME body[b].swept # None PROVE NoLater(body[b].swept, body'[b].src)
        BY <2>1 DEF TableBehind
    <3>1. NoLater(body[b].swept, body[b].src) BY <2>3 DEF MovesOn, TableBehind
    <3> QED BY <1>4, <1>6, <1>7, <2>3, <3>1, LaterStill
  <2> QED BY <2>2, <2>3
<1>10. ASSUME NEW b \in present' PROVE CleanIsCurrent(b)'
  <2> SUFFICES ASSUME body'[b].swept = body'[b].src, NEW c \in Chunks,
                      slot'[b][c].ready, ~slot'[b][c].dirty
               PROVE  slot'[b][c].hash = body'[b].src[c]
      BY DEF CleanIsCurrent
  <2>1. body'[b].swept = body[b].swept BY <1>5 DEF OldTables
  <2>2. body[b].swept \in Snapshot /\ body[b].swept # None
        BY <1>6, <2>1, NoneAssumption
  <2>3. b \in present BY <1>5, <2>2 DEF MovesOn, Unswept
  <2>4. NoLater(body'[b].src, body[b].src)
        BY <2>1, <2>2, <2>3 DEF MovesOn, TableBehind
  <2>5. body'[b].src = body[b].src BY <1>4, <1>6, <1>7, <2>3, <2>4, NeitherLater
  <2>6. /\ slot[b][c].ready /\ ~slot[b][c].dirty /\ slot'[b][c].hash = slot[b][c].hash
        BY <1>5 DEF OldClean
  <2> QED BY <2>1, <2>3, <2>5, <2>6 DEF MovesOn, CleanIsCurrent
<1>11. SweepsBehind'
  <2> SUFFICES ASSUME NEW j \in Live', j.kind = "sweep", body'[j.body].sweep = j.seq
               PROVE  NoLater(j.snap, body'[j.body].src)
      BY DEF SweepsBehind
  <2>1. PICK i \in Live : /\ i.kind = "sweep" /\ i.seq = j.seq /\ i.body = j.body
                          /\ i.snap = j.snap
        BY DEF OldSweeps
  <2>2. i \in Job BY LiveJobs DEF TypeInv
  <2>3. i.body \in Bodies /\ i.seq # 0 /\ i.snap \in Snapshot BY <2>2 DEF Job
  <2>4. body[i.body].sweep = i.seq BY <2>1, <2>3 DEF OldTables
  <2>5. i.body \in present BY <2>3, <2>4 DEF TypeInv, Absent
  <2>6. NoLater(i.snap, body[i.body].src) BY <2>1, <2>4 DEF MovesOn, SweepsBehind
  <2>7. NoLater(i.snap, body'[i.body].src)
        BY <1>4, <1>6, <1>7, <2>3, <2>5, <2>6, LaterStill DEF WorldOnly
  <2> QED BY <2>1, <2>7
<1>12. Unswept' BY DEF MovesOn, Unswept, OldTables, WorldOnly
<1> QED BY <1>8, <1>9, <1>10, <1>11, <1>12 DEF MovesOn

LEMMA FewerSweeps == Live' \subseteq Live => OldSweeps
BY DEF OldSweeps

LEMMA SameGround == UNCHANGED <<present, ground, world>> /\ TypeInv => WorldOnly
<1> SUFFICES ASSUME UNCHANGED <<present, ground, world>>, TypeInv PROVE WorldOnly OBVIOUS
<1>1. \A b \in Bodies, c \in Chunks : ground[b][c] \in Nat BY DEF TypeInv, GroundTypeOK
<1> QED BY <1>1 DEF WorldOnly

LEMMA SameBodies ==
    UNCHANGED <<body, slot, present>> => OldTables /\ OldClean /\ SameOrFresh
BY DEF OldTables, OldClean, SameOrFresh

(* a worker's result is the job it took *)
LEMMA CurrentWorker ==
    ASSUME TypeInv, MovesOn, NEW w \in Workers, Take(w) \/ Finish(w) PROVE MovesOn'
<1>1. TypeInv' BY TakeType, FinishType
<1>2. UNCHANGED <<body, slot, present, ground, world>> BY DEF Take, Finish, bodyVars, envVars
<1>3. OldSweeps
  <2>1. CASE Take(w) BY <2>1, LiveTake, FewerSweeps DEF TypeInv
  <2>2. CASE Finish(w)
    <3>1. PICK p \in BOOLEAN :
             /\ running[w] \in Job /\ running[w] \in Live
             /\ Live' \subseteq Live \cup {[running[w] EXCEPT !.patched = p]}
          BY <2>2, LiveFinish DEF TypeInv
    <3> DEFINE r == [running[w] EXCEPT !.patched = p]
    <3>2. /\ r.kind = running[w].kind /\ r.seq = running[w].seq /\ r.body = running[w].body
          /\ r.snap = running[w].snap
          BY <3>1 DEF Job
    <3>3. Live' \subseteq Live \cup {r} BY <3>1
    <3> HIDE DEF r
    <3> QED BY <3>1, <3>2, <3>3 DEF OldSweeps
  <2> QED BY <2>1, <2>2
<1> QED BY <1>1, <1>2, <1>3, SameGround, SameBodies, KeepCurrent

(* the steps that touch neither a snapshot nor a slot *)
LEMMA CurrentPlain ==
    ASSUME TypeInv, MovesOn,
           \/ pump \/ LandOrphan \/ LandFar \/ HouseKept \/ Fed \/ Leave \/ Open
           \/ \E b \in Bodies, c \in Chunks : WorldMoves(b, c)
    PROVE  MovesOn'
<1>1. TypeInv' /\ Live' \subseteq Live
  <2>1. CASE LandOrphan \/ LandFar
    <3>1. done # << >> /\ Landed BY <2>1 DEF LandOrphan, LandFar, Landing
    <3>2. Live' \subseteq Live BY <3>1, LiveLanded DEF TypeInv
    <3> QED BY <2>1, <3>2, LandOrphanType, LandFarType
  <2>2. CASE ~(LandOrphan \/ LandFar) BY <2>2, PumpType, PlainType
  <2> QED BY <2>1, <2>2
<1>2. UNCHANGED <<body, slot, present, world>>
      BY DEF pump, LandOrphan, LandFar, Landed, HouseKept, Fed, Leave, Open, WorldMoves,
             bodyVars, envVars
<1>3. WorldOnly
  <2>1. CASE \E b \in Bodies, c \in Chunks : WorldMoves(b, c)
    <3>1. PICK b \in Bodies, c \in Chunks : WorldMoves(b, c) BY <2>1
    <3>2. ground' = [ground EXCEPT ![b] = [ground[b] EXCEPT ![c] = ground[b][c] + 1]]
          BY <3>1 DEF WorldMoves
    <3>3. \A x \in Bodies, y \in Chunks : ground[x][y] \in Nat /\ ground'[x][y] \in {ground[x][y], ground[x][y] + 1}
          BY <3>2 DEF TypeInv, GroundTypeOK
    <3> QED BY <1>2, <3>3 DEF WorldOnly
  <2>2. CASE ~\E b \in Bodies, c \in Chunks : WorldMoves(b, c)
    <3>1. ground' = ground
          BY <2>2 DEF pump, LandOrphan, LandFar, Landed, HouseKept, Fed, Leave, Open, envVars
    <3> QED BY <1>2, <3>1, SameGround
  <2> QED BY <2>1, <2>2
<1> QED BY <1>1, <1>2, <1>3, FewerSweeps, SameBodies, KeepCurrent

(* the steps that take snapshots *)
LEMMA CurrentTaken ==
    ASSUME TypeInv, MovesOn, RoadsStay, Drained \/ resnapshot PROVE MovesOn'
<1>1. TypeInv' /\ Live' \subseteq Live BY DrainedType, ResnapshotType
<1>2. UNCHANGED <<slot, present, ground, world>> BY DEF Drained, resnapshot, envVars
<1>3. view.hide \in BOOLEAN /\ body \in [Bodies -> Body] BY DEF TypeInv, GroundTypeOK, View
<1>4. \A b \in Bodies : /\ body'[b].swept = body[b].swept /\ body'[b].sweep = body[b].sweep
                        /\ body'[b].src \in {body[b].src, Fresh(b)}
  <2> SUFFICES ASSUME NEW b \in Bodies
               PROVE  /\ body'[b].swept = body[b].swept /\ body'[b].sweep = body[b].sweep
                      /\ body'[b].src \in {body[b].src, Fresh(b)}
      OBVIOUS
  <2>1. CASE Drained
    <3>1. body'[b] = Aged(b) \/ body'[b] = body[b] BY <2>1 DEF Drained
    <3>2. /\ Aged(b).src \in {body[b].src, prepare_source(b, view.hide)}
          /\ Aged(b).sweep = body[b].sweep /\ Aged(b).swept = body[b].swept
          BY AgedType DEF TypeInv
    <3>3. prepare_source(b, view.hide) = Fresh(b) BY <1>3, FreshIsTaken DEF TypeInv, RoadsStay
    <3> QED BY <3>1, <3>2, <3>3
  <2>2. CASE resnapshot
    <3>1. body' = [body EXCEPT ![view.prebake] = set_source(view.prebake, FALSE)]
          BY <2>2 DEF resnapshot
    <3>2. /\ set_source(b, FALSE).src = prepare_source(b, FALSE)
          /\ set_source(b, FALSE).sweep = body[b].sweep /\ set_source(b, FALSE).swept = body[b].swept
          BY TakenType DEF TypeInv
    <3>3. prepare_source(b, FALSE) = Fresh(b) BY FreshIsTaken DEF TypeInv
    <3>4. body'[b] = set_source(b, FALSE) \/ body'[b] = body[b] BY <1>3, <3>1
    <3> QED BY <3>2, <3>3, <3>4
  <2> QED BY <2>1, <2>2
<1>5. OldTables BY <1>4 DEF OldTables
<1>6. SameOrFresh BY <1>2, <1>4 DEF SameOrFresh, TypeInv, GroundTypeOK
<1>7. OldClean BY <1>2 DEF OldClean
<1> QED BY <1>1, <1>2, <1>5, <1>6, <1>7, FewerSweeps, SameGround, KeepCurrent

(* what tick() and prebake() share *)
LEMMA CurrentRoom ==
    ASSUME TypeInv, MovesOn, TypeInv', NEW V, NEW b \in Bodies, NEW hide \in BOOLEAN,
           Routed = {} \/ ~hide, drop_master(V),
           UNCHANGED <<running, m_results, done, m_seq_counter, page, world, ground>>,
           present' = present \cup {b},
           NEW retake, b \notin present => retake,
           body' = [x \in Bodies |->
                      IF x = b /\ retake THEN set_source(b, hide)
                      ELSE IF x \in V THEN [body[x] EXCEPT !.n_ready = 0] ELSE body[x]]
    PROVE  MovesOn'
<1>1. /\ Live' \subseteq Live
      /\ \A x \in Bodies, c \in Chunks :
           slot'[x][c] = IF x \in V THEN EmptySlot ELSE slot[x][c]
      BY DropType
<1>2. /\ set_source(b, hide).sweep = body[b].sweep /\ set_source(b, hide).swept = body[b].swept
      /\ set_source(b, hide).src = Fresh(b)
      BY TakenType, FreshIsTaken DEF TypeInv
<1>3. \A x \in Bodies : /\ body'[x].swept = body[x].swept /\ body'[x].sweep = body[x].sweep
                        /\ body'[x].src = IF x = b /\ retake THEN Fresh(b) ELSE body[x].src
  <2> SUFFICES ASSUME NEW x \in Bodies
               PROVE  /\ body'[x].swept = body[x].swept /\ body'[x].sweep = body[x].sweep
                      /\ body'[x].src = IF x = b /\ retake THEN Fresh(b) ELSE body[x].src
      OBVIOUS
  <2>1. body[x] \in Body BY DEF TypeInv, GroundTypeOK
  <2>2. /\ [body[x] EXCEPT !.n_ready = 0].sweep = body[x].sweep
        /\ [body[x] EXCEPT !.n_ready = 0].swept = body[x].swept
        /\ [body[x] EXCEPT !.n_ready = 0].src = body[x].src
        BY <2>1 DEF Body
  <2>3. body'[x] = IF x = b /\ retake THEN set_source(b, hide)
                   ELSE IF x \in V THEN [body[x] EXCEPT !.n_ready = 0] ELSE body[x]
        OBVIOUS
  <2> QED BY <2>2, <2>3, <1>2
<1>4. OldTables BY <1>3 DEF OldTables
<1>5. SameOrFresh BY <1>3 DEF SameOrFresh, TypeInv, GroundTypeOK
<1>6. OldClean BY <1>1 DEF OldClean, EmptySlot
<1>7. WorldOnly
  <2>1. \A x \in Bodies, c \in Chunks : ground[x][c] \in Nat BY DEF TypeInv, GroundTypeOK
  <2> QED BY <2>1 DEF WorldOnly
<1> QED BY <1>1, <1>4, <1>5, <1>6, <1>7, FewerSweeps, KeepCurrent

LEMMA CurrentTick ==
    ASSUME TypeInv, MovesOn, RoadsStay', NEW b \in Bodies, NEW hide \in BOOLEAN, NEW V,
           tick(b, hide, V)
    PROVE  MovesOn'
<1>1. TypeInv' BY TickType
<1>2. view'.hide = hide
  <2>1. view \in View BY DEF TypeInv, GroundTypeOK
  <2> QED BY <2>1 DEF tick, View
<1>3. /\ drop_master(V) /\ present' = present \cup {b}
      /\ UNCHANGED <<running, m_results, done, m_seq_counter, page, world, ground>>
      BY TickRoom
<1>4. PICK retake \in BOOLEAN :
         /\ b \notin present => retake
         /\ body' = [x \in Bodies |->
               IF x = b /\ retake THEN set_source(b, hide)
               ELSE IF x \in V THEN [body[x] EXCEPT !.n_ready = 0] ELSE body[x]]
      BY TickRoom
<1>5. Routed = {} \/ ~hide BY <1>2 DEF RoadsStay
<1> QED BY <1>1, <1>3, <1>4, <1>5, CurrentRoom

LEMMA CurrentPrebake ==
    ASSUME TypeInv, MovesOn, RoadsStay, NEW again \in BOOLEAN, NEW V, prebake(again, V)
    PROVE  MovesOn'
<1>1. TypeInv' BY PrebakeType
<1>2. /\ drop_master(V) /\ present' = present \cup {Home} /\ Home \in Bodies
      /\ view.hide \in BOOLEAN
      /\ UNCHANGED <<running, m_results, done, m_seq_counter, page, world, ground>>
      BY PrebakeRoom
<1>3. PICK retake \in BOOLEAN :
         /\ Home \notin present => retake
         /\ body' = [x \in Bodies |->
               IF x = Home /\ retake THEN set_source(Home, view.hide)
               ELSE IF x \in V THEN [body[x] EXCEPT !.n_ready = 0] ELSE body[x]]
      BY PrebakeRoom
<1> QED BY <1>1, <1>2, <1>3, CurrentRoom DEF RoadsStay

LEMMA CurrentForget == ASSUME TypeInv, MovesOn, forget_world PROVE MovesOn'
<1>1. /\ Live' \subseteq Live /\ present' = {} /\ body' = [b \in Bodies |-> EmptyBody]
      BY ForgetWorldType DEF forget_world
<1>2. Unswept' BY <1>1 DEF Unswept, EmptyBody
<1>3. SweepsBehind'
  <2> SUFFICES ASSUME NEW j \in Live', body'[j.body].sweep = j.seq PROVE FALSE
      BY DEF SweepsBehind
  <2>1. j \in Job BY <1>1, LiveJobs DEF TypeInv
  <2>2. j.body \in Bodies /\ j.seq # 0 BY <2>1 DEF Job
  <2> QED BY <1>1, <2>2 DEF EmptyBody
<1> QED BY <1>1, <1>2, <1>3 DEF MovesOn

(* a far page or a chunk is sent: no sweep, and no slot but for its job *)
LEMMA CurrentSent ==
    ASSUME TypeInv, MovesOn, NEW b \in Bodies,
           start_far(b) \/ \E c \in Chunks : make_master_job(b, c)
    PROVE  MovesOn'
<1>1. TypeInv' BY StartFarType, StartMasterType
<1>2. UNCHANGED <<body, present, ground, world>> BY DEF start_far, make_master_job, envVars
<1>3. OldSweeps
  <2>1. CASE start_far(b)
    <3> DEFINE js == {JobOf("far", k_prio_far, b, k, m_seq_counter + k, None) : k \in Pieces}
    <3>1. Live' = Live \cup js BY <2>1, StartFarJobs
    <3>2. \A j \in js : j.kind # "sweep" BY DEF JobOf
    <3> QED BY <3>1, <3>2 DEF OldSweeps
  <2>2. CASE \E c \in Chunks : make_master_job(b, c)
    <3>1. PICK c \in Chunks : make_master_job(b, c) BY <2>2
    <3> DEFINE j == JobOf("master", prio_of(b), b, c, m_seq_counter + 1, slot[b][c].old)
    <3>2. Live' = Live \cup {j} BY <3>1, StartMasterType
    <3>3. j.kind # "sweep" BY DEF JobOf
    <3> QED BY <3>2, <3>3 DEF OldSweeps
  <2> QED BY <2>1, <2>2
<1>4. OldClean
  <2>1. CASE start_far(b) BY <2>1 DEF start_far, OldClean
  <2>2. CASE \E c \in Chunks : make_master_job(b, c)
    <3>1. PICK c \in Chunks : slot' = [slot EXCEPT ![b][c].job = m_seq_counter + 1]
          BY <2>2 DEF make_master_job
    <3>2. slot \in [Bodies -> [Chunks -> Slot]] BY DEF TypeInv, GroundTypeOK
    <3> QED BY <3>1, <3>2 DEF OldClean, Slot
  <2> QED BY <2>1, <2>2
<1>5. OldTables /\ SameOrFresh BY <1>2 DEF OldTables, SameOrFresh
<1> QED BY <1>1, <1>2, <1>3, <1>4, <1>5, SameGround, KeepCurrent

(* a sweep is given the snapshot there is *)
LEMMA CurrentSwept ==
    ASSUME TypeInv, MovesOn, NEW b \in Bodies, make_sweep_job(b) PROVE MovesOn'
<1> DEFINE n == JobOf("sweep", k_prio_sweep, b, None, m_seq_counter + 1, None)
<1>1. /\ TypeInv' /\ b \in present /\ Live' = Live \cup {n} BY StartSweepType
<1>2. /\ body' = [body EXCEPT ![b].sweep = m_seq_counter + 1]
      /\ UNCHANGED <<slot, present, ground, world>>
      BY DEF make_sweep_job, envVars
<1>3. body \in [Bodies -> Body] /\ m_seq_counter \in Nat /\ present \subseteq Bodies
      BY DEF TypeInv, GroundTypeOK, PoolTypeOK
<1>4. \A x \in Bodies : /\ body'[x].src = body[x].src /\ body'[x].swept = body[x].swept
                        /\ body'[x].sweep = IF x = b THEN m_seq_counter + 1 ELSE body[x].sweep
      BY <1>2, <1>3 DEF Body
<1>5. n.body = b /\ n.snap = body[b].src /\ n.kind = "sweep" BY DEF JobOf
<1>6. SweepsBehind'
  <2> SUFFICES ASSUME NEW j \in Live', j.kind = "sweep", body'[j.body].sweep = j.seq
               PROVE  NoLater(j.snap, body'[j.body].src)
      BY DEF SweepsBehind
  <2>1. CASE j = n
    <3>1. NoLater(body[b].src, Fresh(b)) BY <1>1 DEF MovesOn, NotAhead
    <3>2. body[b].src \in Snapshot BY <1>1 DEF TypeInv, Sourced
    <3>3. NoLater(body[b].src, body[b].src) BY <3>1, <3>2 DEF NoLater, Snapshot, Value
    <3> HIDE DEF n
    <3> QED BY <1>4, <1>5, <2>1, <3>3
  <2>2. CASE j \in Live
    <3>1. j \in Job /\ j.seq <= m_seq_counter
          BY <2>2, LiveJobs DEF TypeInv, PoolTypeOK
    <3>2. j.body \in Bodies /\ j.seq \in Nat BY <3>1 DEF Job
    <3>3. j.body # b /\ body[j.body].sweep = j.seq BY <1>3, <1>4, <3>1, <3>2
    <3> QED BY <1>4, <2>2, <3>2, <3>3 DEF MovesOn, SweepsBehind
  <2> QED BY <1>1, <2>1, <2>2
<1>7. Unswept' BY <1>2, <1>4 DEF MovesOn, Unswept
<1>8. ASSUME NEW x \in present PROVE (NotAhead(x) /\ TableBehind(x) /\ CleanIsCurrent(x))'
  <2>1. NotAhead(x) /\ TableBehind(x) /\ CleanIsCurrent(x) BY DEF MovesOn
  <2>2. body'[x].src = body[x].src /\ body'[x].swept = body[x].swept /\ slot' = slot
        BY <1>2, <1>3, <1>4
  <2>3. Fresh(x)' = Fresh(x) BY <1>2 DEF Fresh
  <2> QED BY <2>1, <2>2, <2>3 DEF NotAhead, TableBehind, CleanIsCurrent
<1> QED BY <1>2, <1>6, <1>7, <1>8 DEF MovesOn

(* a sweep's table is laid over the slots: what is left clean is of its    *)
(* snapshot                                                                *)
LEMMA CurrentLandSweep == ASSUME TypeInv, MovesOn, LandSweep PROVE MovesOn'
<1>1. /\ main = "land" /\ done # << >> /\ Landed /\ Head(done).kind = "sweep"
      /\ Awaited(Head(done))
      BY DEF LandSweep, Landing
<1>2. /\ Live = Live' \cup {Head(done)} /\ Head(done) \in Job
      /\ UNCHANGED <<present, ground, world>>
      BY <1>1, LandedType
<1>3. PICK d \in Job : d = Head(done) BY <1>2
<1> DEFINE ss == [c \in Chunks |-> [slot[d.body][c] EXCEPT
                     !.dirty = slot[d.body][c].ready /\ slot[d.body][c].hash # d.snap[c]]]
           n == Cardinality(ReadyClean(ss))
<1>4. /\ slot' = [slot EXCEPT ![d.body] = ss]
      /\ body' = [body EXCEPT ![d.body] = [@ EXCEPT !.sweep = 0, !.swept = d.snap, !.n_ready = n]]
      BY <1>3 DEF LandSweep
<1>5. /\ d \in Live /\ d.body \in present /\ d.body \in Bodies /\ d.snap \in Snapshot
      BY <1>1, <1>2, <1>3, AwaitedFits
<1>6. /\ slot \in [Bodies -> [Chunks -> Slot]] /\ body \in [Bodies -> Body]
      /\ present \subseteq Bodies
      BY DEF TypeInv, GroundTypeOK
<1>7. body[d.body].sweep = d.seq BY <1>1, <1>3 DEF Awaited
<1>8. NoLater(d.snap, body[d.body].src) BY <1>1, <1>3, <1>5, <1>7 DEF MovesOn, SweepsBehind
<1>9. \A c \in Chunks : /\ ss[c].ready = slot[d.body][c].ready /\ ss[c].hash = slot[d.body][c].hash
                        /\ ss[c].ready /\ ~ss[c].dirty => ss[c].hash = d.snap[c]
  <2> SUFFICES ASSUME NEW c \in Chunks
               PROVE  /\ ss[c].ready = slot[d.body][c].ready /\ ss[c].hash = slot[d.body][c].hash
                      /\ ss[c].ready /\ ~ss[c].dirty => ss[c].hash = d.snap[c]
      OBVIOUS
  <2>1. slot[d.body][c] \in Slot BY <1>5, <1>6
  <2> QED BY <2>1 DEF Slot
<1> HIDE DEF ss, n
<1>10. slot'[d.body] = ss /\ \A x \in Bodies \ {d.body} : slot'[x] = slot[x] BY <1>4, <1>5, <1>6
<1>11. /\ body'[d.body].src = body[d.body].src /\ body'[d.body].swept = d.snap
       /\ body'[d.body].sweep = 0
       /\ \A x \in Bodies \ {d.body} : body'[x] = body[x]
  <2>1. body[d.body] \in Body BY <1>5, <1>6
  <2> QED BY <1>4, <1>5, <1>6, <2>1 DEF Body
<1>12. SweepsBehind'
  <2> SUFFICES ASSUME NEW j \in Live', j.kind = "sweep", body'[j.body].sweep = j.seq
               PROVE  NoLater(j.snap, body'[j.body].src)
      BY DEF SweepsBehind
  <2>1. j \in Live BY <1>2
  <2>2. j \in Job BY <2>1, LiveJobs DEF TypeInv
  <2>3. j.body \in Bodies /\ j.seq # 0 BY <2>2 DEF Job
  <2>4. j.body # d.body BY <1>11, <2>3
  <2> QED BY <1>11, <2>1, <2>3, <2>4 DEF MovesOn, SweepsBehind
<1>13. Unswept'
  <2> SUFFICES ASSUME NEW x \in Bodies \ present PROVE body'[x].swept = None
      BY <1>2 DEF Unswept
  <2> QED BY <1>5, <1>11 DEF MovesOn, Unswept
<1>14. ASSUME NEW x \in present PROVE (NotAhead(x) /\ TableBehind(x) /\ CleanIsCurrent(x))'
  <2>1. NotAhead(x) /\ TableBehind(x) /\ CleanIsCurrent(x) BY DEF MovesOn
  <2>2. Fresh(x)' = Fresh(x) BY <1>2 DEF Fresh
  <2>3. CASE x # d.body
        BY <1>6, <1>10, <1>11, <2>1, <2>2, <2>3 DEF NotAhead, TableBehind, CleanIsCurrent
  <2>4. CASE x = d.body
    <3>1. NotAhead(x)' BY <1>11, <2>1, <2>2, <2>4 DEF NotAhead
    <3>2. TableBehind(x)' BY <1>8, <1>11, <2>4 DEF TableBehind
    <3>3. CleanIsCurrent(x)' BY <1>9, <1>10, <1>11, <2>4 DEF CleanIsCurrent
    <3> QED BY <3>1, <3>2, <3>3
  <2> QED BY <2>3, <2>4
<1> QED BY <1>2, <1>12, <1>13, <1>14 DEF MovesOn

(* a chunk that lands is compared with the table when the table is of the  *)
(* snapshot there is; otherwise the next sweep looks                       *)
LEMMA CurrentLandMaster == ASSUME TypeInv, MovesOn, LandMaster PROVE MovesOn'
<1>1. /\ main = "land" /\ done # << >> /\ Landed /\ Head(done).kind = "master"
      /\ Awaited(Head(done))
      BY DEF LandMaster, Landing
<1>2. /\ Live = Live' \cup {Head(done)} /\ Head(done) \in Job
      /\ UNCHANGED <<present, ground, world>>
      BY <1>1, LandedType
<1>3. PICK d \in Job : d = Head(done) BY <1>2
<1> DEFINE s == slot[d.body][d.part]
           t == Stored(s, d)
<1>4. \/ slot' = [slot EXCEPT ![d.body][d.part].job = 0] /\ UNCHANGED body
      \/ /\ slot' = [slot EXCEPT ![d.body][d.part] = t]
         /\ body' = [body EXCEPT ![d.body].n_ready = @ + Counted(t) - Counted(s)]
      BY <1>3 DEF LandMaster
<1>5. /\ d \in Live /\ d.body \in present /\ d.body \in Bodies /\ d.part \in Chunks
      /\ d.snap \in Snapshot
      BY <1>1, <1>2, <1>3, AwaitedFits
<1>6. /\ slot \in [Bodies -> [Chunks -> Slot]] /\ body \in [Bodies -> Body]
      /\ present \subseteq Bodies
      BY DEF TypeInv, GroundTypeOK
<1>7. t.dirty = Stale(d.body, d) /\ t.hash = d.snap[d.part]
      BY <1>5, <1>6, StoredType
<1> HIDE DEF t
<1>8. \A x \in Bodies : /\ body'[x].src = body[x].src /\ body'[x].swept = body[x].swept
                        /\ body'[x].sweep = body[x].sweep
  <2>1. body[d.body] \in Body BY <1>5, <1>6
  <2> DEFINE m == body[d.body].n_ready + Counted(t) - Counted(s)
  <2>2. UNCHANGED body \/ body' = [body EXCEPT ![d.body] = [body[d.body] EXCEPT !.n_ready = m]]
        BY <1>4
  <2> HIDE DEF m
  <2> QED BY <1>5, <1>6, <2>1, <2>2 DEF Body
<1>9. SweepsBehind'
  <2> SUFFICES ASSUME NEW j \in Live', j.kind = "sweep", body'[j.body].sweep = j.seq
               PROVE  NoLater(j.snap, body'[j.body].src)
      BY DEF SweepsBehind
  <2>1. j \in Live BY <1>2
  <2>2. j \in Job BY <2>1, LiveJobs DEF TypeInv
  <2>3. j.body \in Bodies BY <2>2 DEF Job
  <2> QED BY <1>8, <2>1, <2>3 DEF MovesOn, SweepsBehind
<1>10. Unswept' BY <1>2, <1>8 DEF MovesOn, Unswept
<1>11. ASSUME NEW x \in present PROVE (NotAhead(x) /\ TableBehind(x) /\ CleanIsCurrent(x))'
  <2>1. NotAhead(x) /\ TableBehind(x) /\ CleanIsCurrent(x) BY DEF MovesOn
  <2>2. Fresh(x)' = Fresh(x) /\ x \in Bodies BY <1>2, <1>6 DEF Fresh
  <2>3. (NotAhead(x) /\ TableBehind(x))' BY <1>8, <2>1, <2>2 DEF NotAhead, TableBehind
  <2>4. ASSUME body'[x].swept = body'[x].src, NEW c \in Chunks,
               slot'[x][c].ready, ~slot'[x][c].dirty
        PROVE  slot'[x][c].hash = body'[x].src[c]
    <3>1. body[x].swept = body[x].src BY <1>8, <2>2, <2>4
    <3>2. CASE slot' = [slot EXCEPT ![d.body][d.part].job = 0]
      <4>1. /\ slot[x][c].ready /\ ~slot[x][c].dirty /\ slot'[x][c].hash = slot[x][c].hash
        <5>1. slot[d.body][d.part] \in Slot BY <1>5, <1>6
        <5>2. slot' = [slot EXCEPT ![d.body] =
                        [slot[d.body] EXCEPT ![d.part] = [slot[d.body][d.part] EXCEPT !.job = 0]]]
              BY <3>2
        <5>3. CASE x = d.body /\ c = d.part
          <6>1. slot'[x][c] = [slot[x][c] EXCEPT !.job = 0] BY <1>5, <1>6, <5>2, <5>3
          <6> QED BY <2>4, <5>1, <5>3, <6>1 DEF Slot
        <5>4. CASE ~(x = d.body /\ c = d.part)
          <6>1. slot'[x][c] = slot[x][c] BY <1>5, <1>6, <2>2, <5>2, <5>4
          <6> QED BY <2>4, <6>1
        <5> QED BY <5>3, <5>4
      <4> QED BY <1>8, <2>1, <2>2, <3>1, <4>1 DEF CleanIsCurrent
    <3>3. CASE slot' = [slot EXCEPT ![d.body][d.part] = t] /\ x = d.body /\ c = d.part
      <4>1. slot'[x][c] = t BY <1>5, <1>6, <3>3
      <4>2. ~Stale(d.body, d) /\ slot'[x][c].hash = d.snap[d.part] BY <1>7, <2>4, <4>1
      <4> QED BY <1>8, <2>2, <3>1, <3>3, <4>2 DEF Stale
    <3>4. CASE slot' = [slot EXCEPT ![d.body][d.part] = t] /\ ~(x = d.body /\ c = d.part)
      <4>1. slot'[x][c] = slot[x][c] BY <1>5, <1>6, <2>2, <3>4
      <4> QED BY <1>8, <2>1, <2>2, <2>4, <3>1, <4>1 DEF CleanIsCurrent
    <3> QED BY <1>4, <3>2, <3>3, <3>4
  <2> QED BY <2>3, <2>4 DEF CleanIsCurrent
<1> QED BY <1>2, <1>9, <1>10, <1>11 DEF MovesOn

LEMMA CurrentStep ==
    TypeInv /\ MovesOn /\ RoadsStay /\ RoadsStay' /\ [Next]_vars => MovesOn'
<1> SUFFICES ASSUME TypeInv, MovesOn, RoadsStay, RoadsStay', [Next]_vars PROVE MovesOn' OBVIOUS
<1>1. CASE MainStep
      BY <1>1, CurrentPlain, CurrentLandSweep, CurrentLandMaster, CurrentTaken, CurrentSent,
         CurrentSwept DEF MainStep
<1>2. CASE AppStep
      BY <1>2, CurrentTick, CurrentPlain, CurrentTaken, CurrentForget, CurrentPrebake DEF AppStep
<1>3. CASE \E w \in Workers : Take(w) \/ Finish(w) BY <1>3, CurrentWorker
<1>4. CASE UNCHANGED vars
  <2>1. Live' = Live /\ TypeInv' BY <1>4, LiveSame, TypeStep DEF vars
  <2>2. UNCHANGED <<body, slot, present, ground, world>> BY <1>4 DEF vars
  <2> QED BY <2>1, <2>2, FewerSweeps, SameGround, SameBodies, KeepCurrent
<1> QED BY <1>1, <1>2, <1>3, <1>4 DEF Next

(* A body that counts as current shows its snapshot on every chunk: with   *)
(* all its chunks clean and its table the snapshot's, no chunk baked from  *)
(* an older snapshot is among them, whatever the order in which chunks and *)
(* sweeps land and snapshots are re-taken (master_current,                 *)
(* ground_layer.cpp).  Only while the lens strips no road: what it strips  *)
(* it brings back, and the finding's run shows what comes of that.         *)
THEOREM CurrentWhileRoadsStay == Spec /\ []RoadsStay => []CurrentShowsSource
<1>1. Init => PixelInv /\ ReadyCounted /\ MovesOn
  <2> SUFFICES ASSUME Init PROVE PixelInv /\ ReadyCounted /\ MovesOn OBVIOUS
  <2>1. PixelInv BY PixelInit
  <2>2. ReadyCounted BY EmptyReady DEF Init, ReadyCounted, EmptyBody
  <2>3. MovesOn BY LiveInit DEF Init, MovesOn, Unswept, SweepsBehind, EmptyBody
  <2> QED BY <2>1, <2>2, <2>3
<1>2. PixelInv /\ ReadyCounted /\ MovesOn /\ RoadsStay /\ RoadsStay' /\ [Next]_vars
        => PixelInv' /\ ReadyCounted' /\ MovesOn'
      BY PixelStep, ReadyStep, CurrentStep DEF PixelInv
<1>3. PixelInv /\ ReadyCounted /\ MovesOn => CurrentShowsSource
  <2> SUFFICES ASSUME PixelInv, ReadyCounted, MovesOn, NEW b \in Bodies, master_current(b),
                      NEW c \in Chunks
               PROVE  slot[b][c].px = body[b].src[c]
      BY DEF CurrentShowsSource
  <2>1. /\ b \in present /\ body[b].swept = body[b].src
        /\ body[b].n_ready >= Cardinality(Chunks)
        BY DEF master_current
  <2>2. body[b].n_ready = Cardinality(ReadyClean(slot[b])) BY DEF ReadyCounted
  <2>3. ReadyClean(slot[b]) \subseteq Chunks BY DEF ReadyClean
  <2>4. /\ Cardinality(ReadyClean(slot[b])) \in Nat /\ Cardinality(Chunks) \in Nat
        /\ Cardinality(ReadyClean(slot[b])) <= Cardinality(Chunks)
        BY <2>3, ChunksAssumption, ReadyFinite, FS_Subset, FS_CardinalityType
  <2>5. Cardinality(ReadyClean(slot[b])) = Cardinality(Chunks) BY <2>1, <2>2, <2>4
  <2>6. ReadyClean(slot[b]) = Chunks BY <2>3, <2>5, ChunksAssumption, FS_Subset
  <2>7. slot[b][c].ready /\ ~slot[b][c].dirty BY <2>6 DEF ReadyClean
  <2>8. slot[b][c].hash = body[b].src[c] BY <2>1, <2>7 DEF MovesOn, CleanIsCurrent
  <2>9. SlotHolds(slot[b][c]) BY DEF PixelInv, Slots
  <2> QED BY <2>7, <2>8, <2>9 DEF SlotHolds
<1> QED BY <1>1, <1>2, <1>3, PTL DEF Spec

=============================================================================
