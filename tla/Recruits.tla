------------------------------ MODULE Recruits ------------------------------
(***************************************************************************)
(* Men: taken from population centres by the bases of a nation's state,    *)
(* pooled, raised into units and wings, lost, refilled and refunded        *)
(* (world/recruits.cpp, the quarter's step of world/economy_system.cpp,    *)
(* the hires of world/corp_command.cpp, what a cession does to a base in   *)
(* world/war.cpp).                                                         *)
(*                                                                         *)
(* The economy step is one call; its loops are taken one pass at a time,   *)
(* `phase' says which loop it is in and `todo' what is left of it.  A verb *)
(* comes between two steps ("open") or from an AI inside one ("agency").   *)
(*                                                                         *)
(* Abstracted: money, equipment and logistic points, to how many of the    *)
(* men planned arrive; days, to quarters; supply and readiness are left    *)
(* out.  Where a unit stands belongs to Field: here a muster finds its     *)
(* base's tile clear or taken.  A number in Hires or Wings is free again   *)
(* when its unit or wing is gone; the code's ids only order the sharing    *)
(* out of a short pool, and any sharing is allowed here.                   *)
(*                                                                         *)
(* A definition marked "mutant" is a plausible mistake in the one after    *)
(* it; the properties are checked to notice each.                          *)
(***************************************************************************)
EXTENDS Integers, FiniteSets, FiniteSetsExt

CONSTANTS
    Nations, Bases, Centres,  \* ids, in the order the code sorts them
    Provinces,
    kind,                     \* [Bases -> Kinds]
    base_province,            \* [Bases -> Provinces]
    centre_province,          \* [Centres -> Provinces]
    first_owner,              \* [Bases -> Nations]
    Sites,                    \* bases still building at the start
    first_population,         \* [Centres -> Nat], in thousands of heads
    per_base,                 \* [Theatres -> Nat]: recruits a base makes a quarter
    crew,                     \* men of a wing
    hire_batch_manpower,      \* men of a unit
    k_wing_hp_full,
    k_recruit_cap_quarters,
    k_recruit_pool_max,
    k_village,                \* k_population_for_scale[0]: a centre settled anew
    THOUSAND,                 \* heads in a thousand
    MUSTER_TICKS,             \* quarters a muster may take, by class
    WING_TICKS,               \* quarters a wing takes
    Hires, Wings,             \* bound: units, musters and wings at once
    MAX_POPULATION,           \* bound: thousands a centre grows to
    MAX_EVENTS,               \* bound: verbs, losses, shortfalls and growth of a run
    None

Theatres == {"land", "air", "sea"}
Kinds == {"military_base", "airbase", "port"}
theatre_of == [military_base |-> "land", airbase |-> "air", port |-> "sea"]
rank == [land |-> 0, air |-> 1, sea |-> 2]

ASSUME RecruitsAssumption ==
    /\ Nations \subseteq Nat /\ Bases \subseteq Nat /\ Centres \subseteq Nat
    /\ Hires \subseteq Nat /\ Wings \subseteq Nat
    /\ IsFiniteSet(Nations) /\ IsFiniteSet(Bases) /\ IsFiniteSet(Centres)
    /\ IsFiniteSet(Hires) /\ IsFiniteSet(Wings)
    /\ kind \in [Bases -> Kinds]
    /\ base_province \in [Bases -> Provinces]
    /\ centre_province \in [Centres -> Provinces]
    /\ first_owner \in [Bases -> Nations]
    /\ Sites \subseteq Bases
    /\ first_population \in [Centres -> Nat]
    /\ per_base \in [Theatres -> Nat]
    /\ crew \in Nat \ {0} /\ hire_batch_manpower \in Nat \ {0} /\ k_wing_hp_full \in Nat \ {0}
    /\ k_recruit_cap_quarters \in Nat /\ k_recruit_pool_max \in Nat
    /\ k_village \in Nat \ {0} /\ THOUSAND \in Nat \ {0}
    /\ MUSTER_TICKS \subseteq Nat \ {0} /\ WING_TICKS \in Nat
    /\ MAX_POPULATION \in Nat /\ MAX_EVENTS \in Nat
    /\ None \notin Nat

VARIABLES
    population,               \* a centre's thousands
    recruit_heads_taken,      \* heads taken off a centre that its thousands do not show yet
    razed,                    \* centres in ashes
    standing,                 \* buildings that exist
    owner,                    \* whose state_assets list a building
    sites,                    \* ticks_remaining > 0
    decommissioned,           \* idled by the owner
    state_idle,               \* idled by the quarter's funding
    pool,                     \* land_recruits, air_recruits, sea_recruits of each nation
    musters, units, wings,
    phase, todo,
    plan,                     \* the quarter's refills: planned men of each unit and wing
    events

people == <<population, recruit_heads_taken, razed>>
ground == <<standing, owner, sites, decommissioned>>
force == <<musters, units, wings>>
pass == <<phase, todo, plan>>
vars == <<people, ground, state_idle, pool, force, pass, events>>

Muster == [owner : Nations, base : Bases, days : Nat]
Unit == [owner : Nations, count : 1 .. hire_batch_manpower, base : Bases \cup {None}]
Wing == [owner : Nations, airbase : Bases, muster : Nat, hp : 0 .. k_wing_hp_full]

ASSUME NobodyAssumption == None \notin Muster \cup Unit \cup Wing

NoPlan == [unit |-> [h \in Hires |-> 0], wing |-> [w \in Wings |-> 0]]

Init ==
    /\ population = first_population
    /\ recruit_heads_taken = [c \in Centres |-> 0]
    /\ razed = {}
    /\ standing = Bases
    /\ owner = first_owner
    /\ sites = Sites
    /\ decommissioned = {} /\ state_idle = {}
    /\ pool = [n \in Nations |-> [t \in Theatres |-> 0]]
    /\ musters = [h \in Hires |-> None]
    /\ units = [h \in Hires |-> None]
    /\ wings = [w \in Wings |-> None]
    /\ phase = "open" /\ todo = {} /\ plan = NoPlan
    /\ events = 0

first(x, S) == x \in S /\ \A y \in S : x <= y
smaller(a, b) == IF a <= b THEN a ELSE b
larger(a, b) == IF a <= b THEN b ELSE a
total(f, S) == MapThenSumSet(LAMBDA x : f[x], S)

queued(h) == musters[h] # None
alive(h) == units[h] # None
flown(w) == wings[w] # None

(* An event outside the pass over men, within the bound. *)
event == events < MAX_EVENTS /\ events' = events + 1

-----------------------------------------------------------------------------
(* Verbs.  Money, goods and the roster are left to the caller. *)

verbs == phase \in {"open", "agency"}

running(b) == b \in standing /\ b \notin sites /\ b \notin decommissioned

(* mutant: the pool is not asked *)
hire_unit_check_men(n, b) == running(b) /\ kind[b] = "military_base" /\ owner[b] = n
hire_unit_check(n, b) ==
    /\ running(b) /\ kind[b] = "military_base" /\ owner[b] = n
    /\ pool[n]["land"] >= hire_batch_manpower

hire_unit(n, b, h, days) ==
    /\ verbs
    /\ hire_unit_check(n, b)
    /\ ~queued(h) /\ ~alive(h)
    /\ pool' = [pool EXCEPT ![n]["land"] = @ - hire_batch_manpower]
    /\ musters' = [musters EXCEPT ![h] = [owner |-> n, base |-> b, days |-> days]]
    /\ UNCHANGED <<people, ground, state_idle, units, wings, pass, events>>

hire_wing(n, b, w) ==
    /\ verbs
    /\ running(b) /\ kind[b] = "airbase" /\ owner[b] = n
    /\ pool[n]["air"] >= crew
    /\ ~flown(w)
    /\ pool' = [pool EXCEPT ![n]["air"] = @ - crew]
    /\ wings' = [wings EXCEPT ![w] = [owner |-> n, airbase |-> b, muster |-> WING_TICKS,
                                      hp |-> k_wing_hp_full]]
    /\ UNCHANGED <<people, ground, state_idle, musters, units, pass, events>>

HireNext ==
    \/ \E n \in Nations, b \in Bases, h \in Hires, d \in MUSTER_TICKS : hire_unit(n, b, h, d)
    \/ \E n \in Nations, b \in Bases, w \in Wings : hire_wing(n, b, w)

idle(b) ==
    /\ b \in standing \ decommissioned
    /\ decommissioned' = decommissioned \cup {b}
    /\ UNCHANGED <<people, standing, owner, sites, musters, units, wings>>

resume(b) ==
    /\ b \in standing \cap decommissioned
    /\ decommissioned' = decommissioned \ {b}
    /\ UNCHANGED <<people, standing, owner, sites, musters, units, wings>>

demolish(b) ==
    /\ b \in standing
    /\ standing' = standing \ {b}
    /\ UNCHANGED <<people, owner, sites, decommissioned, musters, units, wings>>

disband_unit(h) ==
    /\ alive(h)
    /\ units' = [units EXCEPT ![h] = None]
    /\ UNCHANGED <<people, ground, musters, wings>>

raze_centre(c) ==
    /\ c \notin razed
    /\ razed' = razed \cup {c}
    /\ population' = [population EXCEPT ![c] = 0]
    /\ UNCHANGED <<recruit_heads_taken, ground, musters, units, wings>>

(* A site completes on one of the quarter's days. *)
complete_site(b) ==
    /\ b \in sites \cap standing
    /\ sites' = sites \ {b}
    /\ UNCHANGED <<people, standing, owner, decommissioned, musters, units, wings>>

VerbNext ==
    /\ verbs /\ event
    /\ \/ \E b \in Bases : idle(b) \/ resume(b) \/ demolish(b) \/ complete_site(b)
       \/ \E h \in Hires : disband_unit(h)
       \/ \E c \in Centres : raze_centre(c)
    /\ UNCHANGED <<state_idle, pool, pass>>

(* A province passes with the buildings the loser has on it: musters the loser
   raises at such a base are dropped, its units no longer record it, and its wings
   rebase to another airbase it has left, if any. *)
(* mutant: only what is raised is let go, not what is being raised *)
cede_keeps_musters(from, to, p) ==
    /\ from # to
    /\ \E b \in standing : owner[b] = from /\ base_province[b] = p
    /\ owner' = [b \in Bases |-> IF b \in standing /\ owner[b] = from /\ base_province[b] = p
                                THEN to ELSE owner[b]]
    /\ units' = [h \in Hires |->
                   IF alive(h) /\ units[h].owner = from /\ units[h].base \in standing
                      /\ owner'[units[h].base] = to
                   THEN [units[h] EXCEPT !.base = None] ELSE units[h]]
    /\ wings' = [w \in Wings |->
                   IF flown(w) /\ wings[w].owner = from /\ wings[w].airbase \in standing
                      /\ owner'[wings[w].airbase] = to
                   THEN None ELSE wings[w]]
    /\ UNCHANGED <<people, standing, sites, decommissioned, musters>>
cede_provinces(from, to, p) ==
    LET passes == {b \in standing : owner[b] = from /\ base_province[b] = p}
        homes == {b \in standing \ passes : owner[b] = from /\ kind[b] = "airbase"}
        lost(b) == b \in standing /\ owner'[b] = to
    IN  /\ from # to /\ passes # {}
        /\ owner' = [b \in Bases |-> IF b \in passes THEN to ELSE owner[b]]
        /\ musters' = [h \in Hires |->
                         IF queued(h) /\ musters[h].owner = from /\ lost(musters[h].base)
                         THEN None ELSE musters[h]]
        /\ units' = [h \in Hires |->
                       IF alive(h) /\ units[h].owner = from /\ lost(units[h].base)
                       THEN [units[h] EXCEPT !.base = None] ELSE units[h]]
        /\ \E nearest \in [Wings -> homes \cup {None}] :
              /\ \A w \in Wings : nearest[w] = None <=> homes = {}
              /\ wings' = [w \in Wings |->
                             IF flown(w) /\ wings[w].owner = from /\ lost(wings[w].airbase)
                             THEN IF nearest[w] = None THEN None
                                  ELSE [wings[w] EXCEPT !.airbase = nearest[w]]
                             ELSE wings[w]]
        /\ UNCHANGED <<people, standing, sites, decommissioned>>

PeaceNext ==
    /\ verbs /\ event
    /\ \E from, to \in Nations, p \in Provinces : cede_provinces(from, to, p)
    /\ UNCHANGED <<state_idle, pool, pass>>

(* A unit with no men left, or whose base was torn down, is removed; every day and
   at the end of the quarter. *)
orphaned(h) == units[h].base # None /\ units[h].base \notin standing
after_losses(men) ==
    [h \in Hires |-> IF ~alive(h) \/ orphaned(h) \/ men[h] = 0 THEN None
                     ELSE [units[h] EXCEPT !.count = men[h]]]
strength == [h \in Hires |-> IF alive(h) THEN units[h].count ELSE 0]

run_military_day ==
    /\ phase = "open"
    /\ \/ /\ event
          /\ \E men \in [Hires -> 0 .. hire_batch_manpower] :
                /\ men # strength /\ \A h \in Hires : men[h] <= strength[h]
                /\ units' = after_losses(men)
       \/ /\ \E h \in Hires : alive(h) /\ orphaned(h)
          /\ units' = after_losses(strength)
          /\ UNCHANGED events
    /\ UNCHANGED <<people, ground, state_idle, pool, musters, wings, pass>>

-----------------------------------------------------------------------------
(* The quarter's recruitment: nations ascending, then land, air and sea, then the
   bases by id, each taking what room its pool has and its rate allows. *)

makes(b) == running(b) /\ b \notin state_idle
theatre(b) == theatre_of[kind[b]]
precedes(a, b) ==
    \/ owner[a] < owner[b]
    \/ owner[a] = owner[b] /\ rank[theatre(a)] < rank[theatre(b)]
    \/ owner[a] = owner[b] /\ theatre(a) = theatre(b) /\ a < b

(* A quarter begins with the funding of what stands: a treasury that cannot cover a
   building's cost leaves it idle until the next. *)
begin_tick ==
    /\ phase = "open"
    /\ \/ state_idle' = {} /\ UNCHANGED events
       \/ /\ event
          /\ \E idled \in SUBSET standing : idled # {} /\ state_idle' = idled
    /\ phase' = "recruit" /\ todo' = Bases
    /\ UNCHANGED <<people, ground, pool, force, plan>>

recruit_cap(n, t) ==
    smaller(k_recruit_cap_quarters
              * Cardinality({b \in Bases : makes(b) /\ owner[b] = n /\ theatre(b) = t})
              * per_base[t],
            k_recruit_pool_max)

base_want(b) ==
    smaller(per_base[theatre(b)],
            larger(0, recruit_cap(owner[b], theatre(b)) - pool[owner[b]][theatre(b)]))

centre_heads_available(c) ==
    IF c \in razed THEN 0 ELSE larger(0, population[c] * THOUSAND - recruit_heads_taken[c])
richer(d, c) ==
    \/ centre_heads_available(d) > centre_heads_available(c)
    \/ centre_heads_available(d) = centre_heads_available(c) /\ d < c

drawn(g) == total(g, Centres)

(* What base b draws from each centre when it wants `want': the centre with the most heads gives all it
   has before the next gives any, and the base goes short only of a dry province. *)
draws(b, want) ==
    LET giving == {c \in Centres : centre_province[c] = base_province[b]}
    IN  {g \in [Centres -> 0 .. want] :
           /\ \A c \in Centres : g[c] <= IF c \in giving THEN centre_heads_available(c) ELSE 0
           /\ \A c, d \in giving : richer(d, c) /\ g[c] > 0 => g[d] = centre_heads_available(d)
           /\ (\A c \in giving : g[c] = centre_heads_available(c)) \/ drawn(g) = want}

(* mutant: a thousand that is lost takes what was over with it *)
take_heads_whole(g) ==
    /\ population' = [c \in Centres |->
                        population[c] - (recruit_heads_taken[c] + g[c]) \div THOUSAND]
    /\ recruit_heads_taken' = [c \in Centres |->
                                 IF recruit_heads_taken[c] + g[c] >= THOUSAND THEN 0
                                 ELSE recruit_heads_taken[c] + g[c]]
take_heads(g) ==
    /\ population' = [c \in Centres |->
                        population[c] - (recruit_heads_taken[c] + g[c]) \div THOUSAND]
    /\ recruit_heads_taken' = [c \in Centres |-> (recruit_heads_taken[c] + g[c]) % THOUSAND]

recruit_at(b) ==
    \E want \in {base_want(b)} : \E g \in draws(b, want), made \in 0 .. want :
        /\ made = drawn(g)
        /\ take_heads(g)
        /\ pool' = [pool EXCEPT ![owner[b]][theatre(b)] = @ + made]

wanting == {b \in todo : makes(b) /\ base_want(b) > 0}
run_recruitment ==
    /\ phase = "recruit"
    /\ \/ /\ \E b \in wanting : /\ \A x \in wanting \ {b} : precedes(b, x)
                                /\ recruit_at(b)
                                /\ todo' = {x \in todo : precedes(b, x)}
          /\ UNCHANGED phase
       \/ /\ wanting = {}
          /\ phase' = "plan" /\ todo' = {}
          /\ UNCHANGED <<population, recruit_heads_taken, pool>>
    /\ UNCHANGED <<razed, ground, state_idle, force, plan, events>>

-----------------------------------------------------------------------------
(* The refills: planned from the pools, then granted whole in points, equipment
   and credits, as many of the planned as those reach. *)

within(planned, S, limit) == total(planned, S) <= limit
of(who, n) == {x \in DOMAIN who : who[x] # None /\ who[x].owner = n}

unit_lacks(h) == IF alive(h) THEN hire_batch_manpower - units[h].count ELSE 0
wing_lacks(w) ==
    IF flown(w) /\ wings[w].muster = 0 /\ wings[w].hp > 0 /\ wings[w].airbase \in standing
    THEN ((k_wing_hp_full - wings[w].hp) * crew + k_wing_hp_full - 1) \div k_wing_hp_full
    ELSE 0

(* mutant: a unit is planned up to its establishment, whatever it lacks *)
plan_recruit_refills_full ==
    {p \in [Hires -> 0 .. hire_batch_manpower] :
       \A n \in Nations : within(p, of(units, n), pool[n]["land"])}
plan_recruit_refills ==
    {p \in [Hires -> 0 .. hire_batch_manpower] :
       /\ \A h \in Hires : p[h] <= unit_lacks(h)
       /\ \A n \in Nations : within(p, of(units, n), pool[n]["land"])}
plan_wing_refills ==
    {p \in [Wings -> 0 .. crew] :
       /\ \A w \in Wings : p[w] <= wing_lacks(w)
       /\ \A n \in Nations :
             total(p, of(wings, n))
               = smaller(MapThenSumSet(wing_lacks, of(wings, n)), pool[n]["air"])}

plan_refills ==
    /\ phase = "plan"
    /\ \E u \in plan_recruit_refills, w \in plan_wing_refills :
          plan' = [unit |-> u, wing |-> w]
    /\ phase' = "units" /\ todo' = Hires
    /\ UNCHANGED <<people, ground, state_idle, pool, force, events>>

(* A unit's turn: no more than it lacks and its pool holds, whatever was planned. *)
unit_refill(h) ==
    \E n \in 0 .. plan.unit[h] :
        LET nation == units[h].owner
            men == smaller(smaller(n, unit_lacks(h)), pool[nation]["land"])
        IN  /\ units' = [units EXCEPT ![h].count = @ + men]
            /\ pool' = [pool EXCEPT ![nation]["land"] = @ - men]
apply_recruit_refills ==
    /\ phase = "units"
    /\ LET left == {h \in todo : alive(h) /\ plan.unit[h] > 0}
       IN  \/ /\ \E h \in left : first(h, left) /\ unit_refill(h) /\ todo' = left \ {h}
             /\ UNCHANGED phase
          \/ /\ left = {}
             /\ phase' = "wings" /\ todo' = Wings
             /\ UNCHANGED <<units, pool>>
    /\ UNCHANGED <<people, ground, state_idle, musters, wings, plan, events>>

(* A recruit restores a crew's share of a wing, and the last of them all of it. *)
restored(w, n) ==
    IF n >= wing_lacks(w) THEN k_wing_hp_full - wings[w].hp ELSE (n * k_wing_hp_full) \div crew
wing_refill(w) ==
    \E n \in 0 .. plan.wing[w] :
        LET nation == wings[w].owner
            men == smaller(n, pool[nation]["air"])
            hp == IF men = 0 THEN wings[w].hp
                  ELSE smaller(k_wing_hp_full, wings[w].hp + restored(w, men))
        IN  /\ wings' = [wings EXCEPT ![w].hp = hp]
            /\ pool' = [pool EXCEPT ![nation]["air"] = @ - men]
apply_wing_refills ==
    /\ phase = "wings"
    /\ LET left == {w \in todo : flown(w) /\ plan.wing[w] > 0}
       IN  \/ /\ \E w \in left : first(w, left) /\ wing_refill(w) /\ todo' = left \ {w}
             /\ UNCHANGED <<phase, plan>>
          \/ /\ left = {}
             /\ phase' = "growth" /\ todo' = Centres /\ plan' = NoPlan
             /\ UNCHANGED <<wings, pool>>
    /\ UNCHANGED <<people, ground, state_idle, musters, units, events>>

-----------------------------------------------------------------------------
(* Growth and decline, each centre in turn, then migration, then the agency pass. *)

step(c) == larger(1, population[c] \div 25)

grow(c) ==
    /\ c \notin razed /\ population[c] + step(c) <= MAX_POPULATION
    /\ population' = [population EXCEPT ![c] = @ + step(c)]
    /\ UNCHANGED razed
resettle(c) ==
    /\ c \in razed
    /\ razed' = razed \ {c}
    /\ population' = [population EXCEPT ![c] = k_village]
decline(c) ==
    /\ c \notin razed
    /\ population' = [population EXCEPT ![c] = larger(1, @ - step(c))]
    /\ UNCHANGED razed

growth_pass ==
    /\ phase = "growth"
    /\ \/ /\ event
          /\ \E c \in todo : /\ grow(c) \/ resettle(c) \/ decline(c)
                             /\ todo' = {d \in todo : d > c}
          /\ UNCHANGED phase
       \/ /\ phase' = "migration" /\ todo' = {}
          /\ UNCHANGED <<population, razed, events>>
    /\ UNCHANGED <<recruit_heads_taken, ground, state_idle, pool, force, plan>>

run_population_migration ==
    /\ phase = "migration"
    /\ phase' = "agency"
    /\ \/ /\ event
          /\ \E c, d \in Centres \ razed : \E em \in 1 .. population[c] - 1 :
                /\ c # d
                /\ population' = [population EXCEPT ![c] = @ - em, ![d] = @ + em]
       \/ UNCHANGED <<population, events>>
    /\ UNCHANGED <<recruit_heads_taken, razed, ground, state_idle, pool, force,
                   todo, plan>>

end_agency ==
    /\ phase = "agency"
    /\ phase' = "musters" /\ todo' = {h \in Hires : queued(h)}
    /\ UNCHANGED <<people, ground, state_idle, pool, force, plan, events>>

-----------------------------------------------------------------------------
(* The end of the quarter. *)

refund_muster_recruits(m) ==
    pool' = [pool EXCEPT ![m.owner]["land"] = smaller(@ + hire_batch_manpower, k_recruit_pool_max)]

raise(h) ==
    /\ musters' = [musters EXCEPT ![h] = None]
    /\ units' = [units EXCEPT ![h] = [owner |-> musters[h].owner, count |-> hire_batch_manpower,
                                      base |-> musters[h].base]]

hold(h, days) == musters' = [musters EXCEPT ![h].days = days] /\ UNCHANGED units

(* A muster's turn; at no days left it waits while another nation's stack is on the tile. *)
base_gone(h) == musters[h].base \notin standing \/ musters[h].base \in decommissioned
(* mutant: a muster that waited counts on from zero and is never done *)
muster_turn_misses(h) ==
    \/ /\ base_gone(h)
       /\ refund_muster_recruits(musters[h])
       /\ musters' = [musters EXCEPT ![h] = None] /\ UNCHANGED units
    \/ /\ ~base_gone(h) /\ UNCHANGED pool
       /\ IF musters[h].days = 1 THEN raise(h) \/ hold(h, 0) ELSE hold(h, larger(0, musters[h].days - 1))
muster_turn(h) ==
    \/ /\ base_gone(h)
       /\ refund_muster_recruits(musters[h])
       /\ musters' = [musters EXCEPT ![h] = None]
       /\ UNCHANGED units
    \/ /\ ~base_gone(h) /\ UNCHANGED pool
       /\ IF musters[h].days > 1 THEN hold(h, musters[h].days - 1) ELSE raise(h) \/ hold(h, 0)

advance_musters ==
    /\ phase = "musters"
    /\ \E h \in todo : first(h, todo) /\ muster_turn(h) /\ todo' = todo \ {h}
    /\ UNCHANGED <<people, ground, state_idle, wings, phase, plan, events>>

(* The air missions count the wings' musters down and may hit a wing; then the upkeep
   pass removes the units and wings whose base is gone. *)
flights(hit) ==
    [w \in Wings |->
       IF ~flown(w) \/ wings[w].airbase \notin standing \/ hit[w] = 0 THEN None
       ELSE [wings[w] EXCEPT !.muster = larger(0, @ - 1), !.hp = hit[w]]]
health == [w \in Wings |-> IF flown(w) THEN wings[w].hp ELSE 0]

close_tick ==
    /\ phase = "musters" /\ todo = {}
    /\ \/ wings' = flights(health) /\ UNCHANGED events
       \/ /\ event
          /\ \E w \in Wings : \E hp \in 0 .. health[w] - 1 :
                wings[w].muster = 0 /\ wings' = flights([health EXCEPT ![w] = hp])
    /\ units' = after_losses(strength)
    /\ phase' = "open"
    /\ UNCHANGED <<people, ground, state_idle, pool, musters, todo, plan>>

-----------------------------------------------------------------------------
TickNext ==
    begin_tick \/ run_recruitment \/ plan_refills \/ apply_recruit_refills \/ apply_wing_refills
    \/ growth_pass \/ run_population_migration \/ end_agency \/ advance_musters \/ close_tick

Next == HireNext \/ VerbNext \/ PeaceNext \/ run_military_day \/ TickNext

(* Quarters go on; and the stack on a base's tile is off it in some of the quarters a
   muster is ready in. *)
raised(h) == advance_musters /\ first(h, todo) /\ raise(h)

Spec == Init /\ [][Next]_vars
LiveSpec == Spec /\ WF_vars(TickNext) /\ \A h \in Hires : SF_vars(raised(h))
-----------------------------------------------------------------------------
(* Types, and the bounds the save reader holds a world to: carried heads under a
   thousand, pools within k_recruit_pool_max, no centre below nobody, no unit over
   its establishment. *)
PeopleOK ==
    /\ population \in [Centres -> Nat]
    /\ recruit_heads_taken \in [Centres -> 0 .. THOUSAND - 1]
    /\ razed \subseteq Centres
GroundOK ==
    /\ standing \subseteq Bases /\ sites \subseteq Bases
    /\ decommissioned \subseteq Bases /\ state_idle \subseteq Bases
    /\ owner \in [Bases -> Nations]
PoolOK == pool \in [Nations -> [Theatres -> 0 .. k_recruit_pool_max]]
ForceOK ==
    /\ musters \in [Hires -> Muster \cup {None}]
    /\ units \in [Hires -> Unit \cup {None}]
    /\ wings \in [Wings -> Wing \cup {None}]
PassOK ==
    /\ phase \in {"open", "recruit", "plan", "units", "wings", "growth", "migration", "agency",
                  "musters"}
    /\ todo \subseteq IF phase = "recruit" THEN Bases
                      ELSE IF phase \in {"units", "musters"} THEN Hires
                      ELSE IF phase = "wings" THEN Wings
                      ELSE IF phase = "growth" THEN Centres ELSE {}
    /\ plan \in [unit : [Hires -> 0 .. hire_batch_manpower], wing : [Wings -> 0 .. crew]]
TypeOK == PeopleOK /\ GroundOK /\ PoolOK /\ ForceOK /\ PassOK /\ events \in 0 .. MAX_EVENTS

heads == [c \in Centres |->
            IF c \in razed THEN 0 ELSE population[c] * THOUSAND - recruit_heads_taken[c]]
pooled == [n \in Nations |-> total(pool[n], Theatres)]
Men ==
    total(heads, Centres) + total(pooled, Nations)
    + hire_batch_manpower * Cardinality({h \in Hires : queued(h)})
    + total(strength, Hires)

(* Recruitment, a hire, a refill and a muster's turn move men between centres, pools,
   musters and units and make or lose none, whatever thousands the centres are counted
   in, but for a refund over the most a pool may hold. *)
men_moved ==
    \/ phase \in {"recruit", "units"}
    \/ phase = "musters" /\ todo # {}
    \/ \E h \in Hires : ~queued(h) /\ queued(h)'
MenAreMoved ==
    [][men_moved => \/ Men' = Men
                    \/ Men' < Men /\ \E n \in Nations : pool'[n]["land"] = k_recruit_pool_max]_vars

(* Nothing a nation raises, and no unit or wing it has, answers to a base that stands
   on another nation's ground, whatever was ceded meanwhile: its tearing down there
   takes nothing of the first nation's with it, and no unit is raised abroad. *)
RaisedAtHome ==
    /\ \A h \in Hires : queued(h) /\ musters[h].base \in standing => owner[musters[h].base] = musters[h].owner
    /\ \A h \in Hires : alive(h) /\ units[h].base \in standing => owner[units[h].base] = units[h].owner
    /\ \A w \in Wings : flown(w) /\ wings[w].airbase \in standing => owner[wings[w].airbase] = wings[w].owner

(* What was planned stays good until it is granted: the refills not yet made fit the
   pools as they now are, and no unit or wing lacks less than it was planned, so the
   second bounds taken where a refill lands ("nothing between the plan and here may
   have moved either") never bite. *)
PlanStands ==
    /\ phase \in {"units", "wings"} =>
          \A n \in Nations :
             within(plan.wing, of(wings, n) \cap (IF phase = "units" THEN Wings ELSE todo),
                    pool[n]["air"])
    /\ phase = "wings" => \A w \in todo : plan.wing[w] <= wing_lacks(w)
    /\ phase = "units" =>
          /\ \A h \in todo : plan.unit[h] <= unit_lacks(h)
          /\ \A n \in Nations : within(plan.unit, of(units, n) \cap todo, pool[n]["land"])

(* A hire paid for is not left queued for ever: it stands, or its base was lost to it. *)
MustersEnd == \A h \in Hires : queued(h) ~> ~queued(h)

(* What MILITARY.md says of a muster that is dropped: its men go back to the pool, a
   base lost included. *)
force_of(n) ==
    pool[n]["land"]
    + hire_batch_manpower * Cardinality({h \in Hires : queued(h) /\ musters[h].owner = n})
    + total(strength, of(units, n))
DroppedMustersRefund ==
    [][\A h \in Hires :
          queued(h) /\ ~queued(h)'
             => \A n \in Nations : n = musters[h].owner => force_of(n)' >= force_of(n)]_vars
=============================================================================
