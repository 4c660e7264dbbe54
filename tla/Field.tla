------------------------------- MODULE Field -------------------------------
(***************************************************************************)
(* Units on the ground: the orders they march by, the battles their        *)
(* marches open, and the daily military pass that fights and moves them    *)
(* (world/battle_system.cpp, run_military_day and run_unit_march in        *)
(* world/economy_system.cpp, the unit verbs of world/corp_command.cpp).    *)
(*                                                                         *)
(* run_military_day is one call, but a long one: its loops are taken one   *)
(* pass at a time, `phase' says which loop it is in and `todo' what that   *)
(* loop has still to visit.  A verb finds the world between two days,      *)
(* when the phase is "idle".                                               *)
(*                                                                         *)
(* A definition marked "mutant" is a plausible mistake in the one after    *)
(* it; the properties are checked to notice each.                          *)
(*                                                                         *)
(* Abstracted: men, readiness, morale and supply, to whether a unit can    *)
(* fight, is spent or is dead, changed by any amount a round could change  *)
(* them; the movement banked towards a hop, to whether today's covers it;  *)
(* terrain: every tile is one the unit may enter, at the same price.       *)
(***************************************************************************)
EXTENDS Integers, Sequences, FiniteSets

CONSTANTS
    Tiles, Nations, Units,    \* ids, in the order the code sorts them
    owner,                    \* [Units -> Nations]
    muster_base,              \* [Units -> Tiles]: the tile of the base it is raised on
    crossable,                \* <<t, n>>: n is one of the four sides a march crosses
    beside,                   \* <<t, n>>: n is one of the six neighbours of t
    province_of,              \* [Tiles -> Nat]
    tile_to_nation,           \* [Tiles -> Nations]
    province_owner,           \* [Range(province_of) -> Nations]
    Deployed,                 \* [some units -> Tiles]: where they stand at the start
    Mustering,                \* units ordered and not yet raised
    Quarrels,                 \* bound: <<a, b>> such that a may declare on b
    Unsupplied,               \* bound: units that may starve, or lose readiness out of contact
    k_withdraw_max_steps,     \* steps of a withdrawal's walk
    MAX_ROUTE,                \* bound: hops of a march
    MAX_ORDERS,               \* bound: units under orders at once
    MAX_VERBS,                \* bound: verbs and musters of a run
    LAST_DAY                  \* bound: days explored

Provinces == {province_of[t] : t \in Tiles}

ASSUME IdAssumption ==
    /\ Tiles \subseteq Nat /\ IsFiniteSet(Tiles)
    /\ Nations \subseteq Nat /\ IsFiniteSet(Nations)
    /\ Units \subseteq Nat /\ IsFiniteSet(Units)
    /\ Quarrels \subseteq Nations \X Nations
    /\ Unsupplied \subseteq Units /\ k_withdraw_max_steps \in Nat
    /\ MAX_ROUTE \in Nat /\ MAX_ORDERS \in Nat /\ MAX_VERBS \in Nat /\ LAST_DAY \in Nat

ASSUME GroundAssumption ==
    /\ beside \subseteq {p \in Tiles \X Tiles : p[1] # p[2]}
    /\ crossable \subseteq beside
    /\ \A p \in beside : <<p[2], p[1]>> \in beside
    /\ province_of \in [Tiles -> Nat]
    /\ tile_to_nation \in [Tiles -> Nations]
    /\ province_owner \in [Provinces -> Nations]

\* A world starts, or is loaded, with one nation to a tile.
ASSUME ForceAssumption ==
    /\ owner \in [Units -> Nations]
    /\ muster_base \in [Units -> Tiles]
    /\ DOMAIN Deployed \subseteq Units /\ Deployed \in [DOMAIN Deployed -> Tiles]
    /\ Mustering \subseteq Units \ DOMAIN Deployed
    /\ \A u, v \in DOMAIN Deployed : Deployed[u] = Deployed[v] => owner[u] = owner[v]

VARIABLES
    units,               \* world::units: id -> unit
    battles,             \* world::battles: battle_key -> battle
    corp_hostile_pairs,  \* <<a, b>>: a is hostile toward b
    province_holder,     \* [Provinces -> Nations]
    musters,             \* muster orders whose days have run
    attacks,             \* run_unit_march: the attacks registered today
    phase, todo,         \* the loop of the pass, and what it has still to visit
    leave, visited,      \* withdraw_units: the provinces to leave, the tiles this walk has left
    day,
    said                 \* steps between days so far

world == <<units, battles, corp_hostile_pairs, province_holder, musters>>
walk == <<leave, visited>>
vars == <<world, attacks, phase, todo, walk, day, said>>

-----------------------------------------------------------------------------
battle_key == [tile : Tiles, attacker : Nations, defender : Nations]
side == {"none", "attacker", "defender"}

\* "fit": men standing and readiness left; "spent": men standing, no readiness.
unit == [position : Tiles, state : {"fit", "spent", "dead"}, order : Seq(Tiles)]
battle == [attacker_units : SUBSET Units, defender_units : SUBSET Units,
           attacking_units : SUBSET Units, withdraw_requested : side]
tile_attack == [key : battle_key, unit : Units, order : Seq(Tiles)]

TypeOK ==
    /\ DOMAIN units \subseteq Units /\ units \in [DOMAIN units -> unit]
    /\ DOMAIN battles \subseteq battle_key /\ battles \in [DOMAIN battles -> battle]
    /\ corp_hostile_pairs \subseteq Nations \X Nations
    /\ province_holder \in [Provinces -> Nations]
    /\ musters \subseteq Units \ DOMAIN units
    /\ attacks \subseteq tile_attack
    /\ phase \in {"idle", "withdraw", "battles", "march", "open"}
    /\ todo \subseteq (IF phase = "battles" THEN DOMAIN battles ELSE DOMAIN units)
    /\ leave \subseteq Provinces /\ visited \subseteq Tiles
    /\ day \in Nat /\ said \in Nat

halted == << >>   \* no order

-----------------------------------------------------------------------------
(* Reads.  `us' is world::units as it stands in the middle of a step.      *)
standing(us) == {u \in DOMAIN us : us[u].state # "dead"}
on_tile(us, t) == {u \in standing(us) : us[u].position = t}

is_hostile(a, b) == <<a, b>> \in corp_hostile_pairs
corp_is_mobilised(n) == \E p \in corp_hostile_pairs : n \in {p[1], p[2]}

foreign_held_tiles(us, n) == {us[u].position : u \in {v \in standing(us) : owner[v] # n}}

listed(b) == b.attacker_units \cup b.defender_units
units_in_live_battles == UNION {listed(battles[k]) : k \in DOMAIN battles}

least(S) == CHOOSE x \in S : \A y \in S : x <= y

battle_order_less(j, k) ==
    \/ j.tile < k.tile
    \/ j.tile = k.tile /\ j.attacker < k.attacker
    \/ j.tile = k.tile /\ j.attacker = k.attacker /\ j.defender < k.defender
first_battle(S) == CHOOSE k \in S : \A j \in S \ {k} : battle_order_less(k, j)

\* Mobilised nations' units first, then ascending id.
march_visit_order(S) ==
    LET mobilised == {u \in S : corp_is_mobilised(owner[u])}
    IN  least(IF mobilised # {} THEN mobilised ELSE S)

\* The routes of a march: the tiles still to step on, the last its destination.
Routes == UNION {[1 .. n -> Tiles] : n \in 1 .. MAX_ROUTE}
connected(from, r) ==
    /\ <<from, r[1]>> \in crossable
    /\ \A i \in 1 .. Len(r) - 1 : <<r[i], r[i + 1]>> \in crossable
marches == {[from |-> m[1], dest |-> m[2][Len(m[2])], route |-> m[2]] :
              m \in {x \in Tiles \X Routes : connected(x[1], x[2])}}

\* march_path: the cheapest routes round `blocked', which the destination may be in.
clear_routes(from, dest, blocked) ==
    {m.route : m \in {x \in marches : /\ x.from = from /\ x.dest = dest
                                      /\ \A i \in 1 .. Len(x.route) - 1 : x.route[i] \notin blocked}}
march_path(from, dest, blocked) ==
    LET rs == clear_routes(from, dest, blocked)
    IN  {r \in rs : \A s \in rs : Len(r) <= Len(s)}

\* retreat_tile: a neighbour a march can step to, outside province p for choice,
\* then on the unit's own nation's ground.
retreats_anywhere(us, u, p, barred) == \* mutant: any of the six neighbours will do
    {n \in Tiles : <<us[u].position, n>> \in beside /\ n \notin barred}

rank(u, n, p) == (IF province_of[n] # p THEN 2 ELSE 0) + (IF tile_to_nation[n] = owner[u] THEN 1 ELSE 0)
best_retreats(us, u, p, barred) ==
    LET open == {n \in Tiles : <<us[u].position, n>> \in crossable /\ n \notin barred}
    IN  {n \in open : \A m \in open : rank(u, m, p) <= rank(u, n, p)}

\* Every battle's lists without the units `gone'.
strip_defenders(bs, gone) == \* mutant: who leaves is struck from the defenders' lists alone
    [k \in DOMAIN bs |-> [bs[k] EXCEPT !.defender_units = @ \ gone]]

strip_fighters(bs, gone) ==
    [k \in DOMAIN bs |-> [bs[k] EXCEPT !.attacker_units = @ \ gone, !.defender_units = @ \ gone]]
strip(bs, gone) ==
    LET kept == strip_fighters(bs, gone)
    IN  [k \in DOMAIN bs |-> [kept[k] EXCEPT !.attacking_units = @ \ gone]]

\* The units `gone' step to `to' and lose their orders.
moved(us, gone, to) ==
    [u \in DOMAIN us |-> IF u \in gone THEN [us[u] EXCEPT !.position = to[u], !.order = halted]
                                       ELSE us[u]]

-----------------------------------------------------------------------------
(* Between days: the verbs, and the muster that a quarter-day finishes.     *)
between_days ==
    /\ phase = "idle" /\ said < MAX_VERBS /\ said' = said + 1
    /\ UNCHANGED <<attacks, phase, todo, walk, day>>

march_checked(u, dest) ==
    /\ u \in DOMAIN units \ units_in_live_battles
    /\ dest # units[u].position
    /\ units[u].state = "spent" =>
          \A v \in on_tile(units, dest) : owner[v] = owner[u] \/ ~is_hostile(owner[u], owner[v])

march_unit(u, dest) ==
    /\ between_days /\ march_checked(u, dest)
    /\ \E r \in march_path(units[u].position, dest, foreign_held_tiles(units, owner[u])) :
          units' = [units EXCEPT ![u].order = r]
    /\ Cardinality({v \in DOMAIN units \ {u} : units[v].order # halted}) < MAX_ORDERS
    /\ UNCHANGED <<battles, corp_hostile_pairs, province_holder, musters>>

halt_unit(u) ==
    /\ between_days /\ u \in DOMAIN units /\ units[u].order # halted
    /\ units' = [units EXCEPT ![u].order = halted]
    /\ UNCHANGED <<battles, corp_hostile_pairs, province_holder, musters>>

\* In a battle or not: the battle's lists keep the id of the unit that is gone.
disband_unit(u) ==
    /\ between_days /\ u \in DOMAIN units
    /\ units' = [v \in DOMAIN units \ {u} |-> units[v]]
    /\ UNCHANGED <<battles, corp_hostile_pairs, province_holder, musters>>

\* A request that names no opponent takes the first of the nation's battles here.
request_withdraw(k, s) ==
    /\ between_days /\ k \in DOMAIN battles /\ s # "none"
    /\ battles' = [battles EXCEPT ![k].withdraw_requested = s]
    /\ UNCHANGED <<units, corp_hostile_pairs, province_holder, musters>>

\* The hostile rows alone: what else the stance verbs write is in War.
declare_hostile(a, b) ==
    /\ between_days /\ <<a, b>> \in Quarrels /\ ~is_hostile(a, b)
    /\ corp_hostile_pairs' = corp_hostile_pairs \cup {<<a, b>>}
    /\ UNCHANGED <<units, battles, province_holder, musters>>

return_to_neutral(a, b) ==
    /\ between_days /\ is_hostile(a, b)
    /\ corp_hostile_pairs' = corp_hostile_pairs \ {<<a, b>>}
    /\ UNCHANGED <<units, battles, province_holder, musters>>

\* A finished order waits while a foreign unit stands on its base.
advance_musters(u) ==
    /\ between_days /\ u \in musters
    /\ muster_base[u] \notin foreign_held_tiles(units, owner[u])
    /\ units' = [v \in DOMAIN units \cup {u} |->
                   IF v = u THEN [position |-> muster_base[u], state |-> "fit", order |-> halted]
                            ELSE units[v]]
    /\ musters' = musters \ {u}
    /\ UNCHANGED <<battles, corp_hostile_pairs, province_holder>>

-----------------------------------------------------------------------------
(* Peace.  A peace that cedes nothing: what a cession moves is in War.  Its *)
(* last act comes first here, the pair's battles and hostility going; the  *)
(* withdrawal reads neither.                                               *)
conclude_peace(a, b, goals) ==
    LET returned == {g \in goals : /\ province_owner[g] # province_holder[g]
                                   /\ {province_owner[g], province_holder[g]} = {a, b}}
    IN  /\ phase = "idle" /\ said < MAX_VERBS /\ said' = said + 1
        /\ a # b /\ {<<a, b>>, <<b, a>>} \cap corp_hostile_pairs # {}
        /\ province_holder' = [p \in Provinces |-> IF p \in returned THEN province_owner[p]
                                                                     ELSE province_holder[p]]
        /\ battles' = [k \in {j \in DOMAIN battles : {j.attacker, j.defender} # {a, b}} |-> battles[k]]
        /\ corp_hostile_pairs' = corp_hostile_pairs \ {<<a, b>>, <<b, a>>}
        /\ todo' = {u \in standing(units) :
                      LET t == units[u].position
                      IN  /\ province_of[t] \in returned
                          /\ owner[u] = province_holder[province_of[t]]
                          /\ tile_to_nation[t] = province_owner[province_of[t]]}
        /\ phase' = "withdraw" /\ leave' = returned
        /\ UNCHANGED <<units, musters, attacks, visited, day>>

\* withdraw_units, a step of the first unit's walk out of the province it stands in.
\* The walk ends outside the returned provinces, or where no step is left.  Which of
\* the best steps lies nearest home is not modelled.
withdraw_units(u) ==
    LET here == units[u].position
        barred == foreign_held_tiles(units, owner[u]) \cup visited
        steps == best_retreats(units, u, province_of[here], barred)
    IN  /\ phase = "withdraw" /\ u = least(todo)
        /\ IF province_of[here] \in leave /\ steps # {} /\ Cardinality(visited) < k_withdraw_max_steps
           THEN /\ \E n \in steps : units' = moved(units, {u}, [v \in {u} |-> n])
                /\ battles' = strip(battles, {u})
                /\ visited' = visited \cup {here}
                /\ UNCHANGED todo
           ELSE /\ todo' = todo \ {u} /\ visited' = {}
                /\ UNCHANGED <<units, battles>>
        /\ UNCHANGED <<corp_hostile_pairs, province_holder, musters, attacks, phase, leave, day, said>>

withdrawn ==
    /\ phase = "withdraw" /\ todo = {}
    /\ phase' = "idle" /\ leave' = {}
    /\ UNCHANGED <<world, attacks, todo, visited, day, said>>

-----------------------------------------------------------------------------
(* A day of the military pass.                                             *)
\* Something to do: a battle, an order, a unit still to recover or short of supplies.
military_active ==
    \/ DOMAIN battles # {}
    \/ \E u \in DOMAIN units : \/ units[u].order # halted \/ units[u].state # "fit"
                               \/ u \in Unsupplied

begin_day ==
    /\ phase = "idle" /\ day < LAST_DAY /\ military_active
    /\ phase' = "battles" /\ todo' = DOMAIN battles /\ day' = day + 1
    /\ UNCHANGED <<world, attacks, walk, said>>

\* A day's wear: nobody is better off.
worse(s) == CASE s = "fit" -> {"fit", "spent", "dead"}
              [] s = "spent" -> {"spent", "dead"}
              [] s = "dead" -> {"dead"}
worn(us, S, may_be) == \* what the units S may have come to, each in a state of may_be[u]
    {[u \in DOMAIN us |-> IF u \in S THEN [us[u] EXCEPT !.state = f[u]] ELSE us[u]] :
        f \in {g \in [S -> {"fit", "spent", "dead"}] : \A u \in S : g[u] \in may_be[u]}}

\* The rounds wear both sides; a withdrawal costs the side that leaves men alone.
rounds_fought(us, b) ==
    LET fought == listed(b) \cap DOMAIN us
        left == (IF b.withdraw_requested = "attacker" THEN b.attacker_units ELSE b.defender_units) \cap DOMAIN us
    IN  IF b.withdraw_requested = "none" THEN worn(us, fought, [u \in fought |-> worse(us[u].state)])
                                         ELSE worn(us, left, [u \in left |-> {us[u].state, "dead"}])
can_fight(us, S) == \E u \in S \cap DOMAIN us : us[u].state = "fit"

\* retreat_side: who leaves the fight, and where to; foreign-held tiles are read once.
leaving(us, S, all) == {u \in S \cap standing(us) : all \/ us[u].state = "spent"}
retreat_tile(us, u, n, p) ==
    LET best == best_retreats(us, u, p, foreign_held_tiles(us, n))
    IN  IF best = {} THEN us[u].position ELSE least(best)
retreat_side(us, gone, n, p) == moved(us, gone, [u \in gone |-> retreat_tile(us, u, n, p)])

advance_onto_anyone(us, k, b) == \* mutant: the advance does not look who is left there
    moved(us, b.attacking_units \cap b.attacker_units \cap standing(us),
          [u \in b.attacking_units |-> k.tile])

\* The stack that attacked takes the tile, if no foreign unit stands there.
advance(us, k, b) ==
    IF k.tile \in foreign_held_tiles(us, k.attacker) THEN us
    ELSE moved(us, b.attacking_units \cap b.attacker_units \cap standing(us),
               [u \in b.attacking_units |-> k.tile])

\* A broken side's opponent holds the field, the defender if both break; a side that
\* withdraws leaves it to the other.
battle_day(k) ==
    LET b == battles[k]
        left == b.withdraw_requested
        p == province_of[k.tile]
    IN  /\ phase = "battles" /\ todo # {} /\ k = first_battle(todo)
        /\ \E hit \in rounds_fought(units, b) :
             LET ended == \/ left # "none"
                          \/ ~can_fight(hit, b.attacker_units) \/ ~can_fight(hit, b.defender_units)
                 won == ended /\ (left = "defender" \/ (left = "none" /\ can_fight(hit, b.attacker_units)))
                 gone_a == leaving(hit, b.attacker_units, left = "attacker")
                 after_a == retreat_side(hit, gone_a, k.attacker, p)
                 gone_d == leaving(after_a, b.defender_units, left = "defender")
                 after == retreat_side(after_a, gone_d, k.defender, p)
                 kept == strip_fighters(battles, gone_a \cup gone_d)
                 winner == IF won THEN k.attacker ELSE k.defender
                 loser == IF won THEN k.defender ELSE k.attacker
                 loser_remains == \E u \in standing(after) :
                                     owner[u] = loser /\ province_of[after[u].position] = p
             IN  /\ units' = IF won THEN advance(after, k, kept[k]) ELSE after
                 /\ battles' = [j \in IF ended THEN DOMAIN kept \ {k} ELSE DOMAIN kept |-> kept[j]]
                 /\ province_holder' = IF ended /\ ~loser_remains
                                       THEN [province_holder EXCEPT ![p] = winner]
                                       ELSE province_holder
        /\ todo' = todo \ {k}
        /\ UNCHANGED <<corp_hostile_pairs, musters, attacks, phase, walk, day, said>>

dead_march_too(us, bs) == \* mutant: the march is drawn up before the dead are gone
    {u \in DOMAIN us : us[u].order # halted /\ \A k \in DOMAIN bs : u \notin listed(bs[k])}

\* Those who march today: under orders, and in no battle.
to_march(us, bs) ==
    {u \in standing(us) : us[u].order # halted /\ \A k \in DOMAIN bs : u \notin listed(bs[k])}

\* Supplies run out; then the dead leave the world and every list.
disband_orphaned_units ==
    LET hungry == Unsupplied \cap standing(units)
    IN  /\ phase = "battles" /\ todo = {}
        /\ \E fed \in worn(units, hungry, [u \in hungry |-> worse(units[u].state)]) :
             LET kept == strip(battles, DOMAIN fed \ standing(fed))
             IN  /\ units' = [u \in standing(fed) |-> fed[u]]
                 /\ battles' = kept
                 /\ todo' = to_march(fed, kept)
        /\ phase' = "march"
        /\ UNCHANGED <<corp_hostile_pairs, province_holder, musters, attacks, walk, day, said>>

-----------------------------------------------------------------------------
(* run_unit_march: a hop, or the end of a walk, of the unit whose turn it  *)
(* is.  A unit in a live battle holds.                                     *)
next_tile(u) == Head(units[u].order)
dest(u) == units[u].order[Len(units[u].order)]

\* One nation to a tile: should two ever stand there, a hostile one answers first.
holders(u, t) == {owner[v] : v \in on_tile(units, t)} \ {owner[u]}
foreign_holder(u, t) ==
    LET hostile == {n \in holders(u, t) : is_hostile(owner[u], n)}
    IN  least(IF hostile # {} THEN hostile ELSE holders(u, t))

marching(u) ==
    /\ phase = "march" /\ todo # {} /\ u = march_visit_order(todo)
    /\ UNCHANGED <<battles, corp_hostile_pairs, province_holder, musters, phase, walk, day, said>>
clear_ahead(u) == holders(u, next_tile(u)) = {}
met_hostile(u) == ~clear_ahead(u) /\ is_hostile(owner[u], foreign_holder(u, next_tile(u)))

ordered(u, r) == units' = [units EXCEPT ![u].order = r]

\* The march stops where it stands; its order rides with the attack.
march_attacks(u) ==
    /\ marching(u) /\ met_hostile(u)
    /\ attacks' = attacks \cup
          {[key |-> [tile |-> next_tile(u), attacker |-> owner[u],
                     defender |-> foreign_holder(u, next_tile(u))],
            unit |-> u, order |-> units[u].order]}
    /\ ordered(u, halted)
    /\ todo' = todo \ {u}

\* A nation it is not hostile to is in the way: round every foreign stack, or no further.
march_blocked(u) ==
    LET rs == march_path(units[u].position, dest(u), foreign_held_tiles(units, owner[u]))
        free == {r \in rs : holders(u, r[1]) = {}}
    IN  /\ marching(u) /\ ~clear_ahead(u) /\ ~met_hostile(u)
        /\ \/ \E r \in free : ordered(u, r) /\ UNCHANGED todo
           \/ /\ rs = {} \/ rs # free
              /\ ordered(u, halted) /\ todo' = todo \ {u}
        /\ UNCHANGED attacks

\* What is banked covers the hop; the order clears on arrival.
march_steps(u) ==
    /\ marching(u) /\ clear_ahead(u)
    /\ units' = [units EXCEPT ![u].position = next_tile(u), ![u].order = Tail(@)]
    /\ todo' = IF Len(units[u].order) = 1 THEN todo \ {u} ELSE todo
    /\ UNCHANGED attacks

march_banks(u) ==
    /\ marching(u) /\ clear_ahead(u)
    /\ todo' = todo \ {u}
    /\ UNCHANGED <<units, attacks>>

marched ==
    /\ phase = "march" /\ todo = {}
    /\ phase' = "open"
    /\ UNCHANGED <<world, attacks, todo, walk, day, said>>

-----------------------------------------------------------------------------
(* open_tile_battles, once every unit has moved, an identity at a time.    *)
beside_tile(u, t) == <<t, units[u].position>> \in beside
stack_of(k) == {a.unit : a \in {x \in attacks : x.key = k}}

\* The attacking stack, less what another battle has drawn in.
attacking_stack(k) == {u \in stack_of(k) : u \in standing(units) \ units_in_live_battles}

\* A side draws in its nation's stacks beside the tile that fight nowhere else; the
\* stack on the tile defends it whatever else it fights.
joining(k, n) == {u \in standing(units) : owner[u] = n /\ beside_tile(u, k.tile)} \ units_in_live_battles
new_battle(k) ==
    [attacker_units |-> attacking_stack(k) \cup joining(k, k.attacker),
     defender_units |-> {u \in on_tile(units, k.tile) : owner[u] = k.defender} \cup joining(k, k.defender),
     attacking_units |-> attacking_stack(k),
     withdraw_requested |-> "none"]

opens(k) ==
    /\ k.attacker # k.defender
    /\ \A j \in DOMAIN battles : j.tile = k.tile => {j.attacker, j.defender} # {k.attacker, k.defender}
    /\ attacking_stack(k) # {}
    /\ k.defender \in {owner[v] : v \in on_tile(units, k.tile)}
    /\ can_fight(units, new_battle(k).attacker_units)

order_back_on_refusal(opened, k) == \* mutant: an order is lost if its battle opens without it
    [u \in DOMAIN units |->
       IF ~opened /\ u \in stack_of(k)
       THEN [units[u] EXCEPT !.order = (CHOOSE a \in attacks : a.key = k /\ a.unit = u).order]
       ELSE units[u]]

\* An order is spent only by the battle it opens.
order_back(opened, k) ==
    [u \in DOMAIN units |->
       IF u \in stack_of(k) /\ ~(opened /\ u \in attacking_stack(k))
       THEN [units[u] EXCEPT !.order = (CHOOSE a \in attacks : a.key = k /\ a.unit = u).order]
       ELSE units[u]]

open_tile_battle(k) ==
    /\ phase = "open" /\ attacks # {} /\ k = first_battle({a.key : a \in attacks})
    /\ battles' = [j \in DOMAIN battles \cup (IF opens(k) THEN {k} ELSE {}) |->
                     IF j \in DOMAIN battles THEN battles[j] ELSE new_battle(k)]
    /\ units' = order_back(opens(k), k)
    /\ attacks' = {a \in attacks : a.key # k}
    /\ UNCHANGED <<corp_hostile_pairs, province_holder, musters, phase, todo, walk, day, said>>

\* The day ends: out of contact, readiness follows morale and supply up or down.
recover_out_of_contact ==
    LET apart == standing(units) \ units_in_live_battles
        may_turn == {u \in apart : units[u].state = "spent" \/ u \in Unsupplied}
    IN  /\ phase = "open" /\ attacks = {}
        /\ \E fit \in SUBSET may_turn :
              units' = [u \in DOMAIN units |->
                          IF u \in may_turn
                          THEN [units[u] EXCEPT !.state = IF u \in fit THEN "fit" ELSE "spent"]
                          ELSE units[u]]
        /\ phase' = "idle"
        /\ UNCHANGED <<battles, corp_hostile_pairs, province_holder, musters, attacks, todo, walk, day, said>>

-----------------------------------------------------------------------------
Init ==
    /\ units = [u \in DOMAIN Deployed |-> [position |-> Deployed[u], state |-> "fit", order |-> halted]]
    /\ battles = << >>
    /\ corp_hostile_pairs \in SUBSET Quarrels
    /\ province_holder = province_owner
    /\ musters = Mustering
    /\ attacks = {} /\ phase = "idle" /\ todo = {} /\ leave = {} /\ visited = {} /\ day = 0 /\ said = 0

VerbNext ==
    \/ \E u \in DOMAIN units : halt_unit(u) \/ disband_unit(u) \/ \E t \in Tiles : march_unit(u, t)
    \/ \E k \in DOMAIN battles, s \in side : request_withdraw(k, s)
    \/ \E a, b \in Nations : declare_hostile(a, b) \/ return_to_neutral(a, b)
    \/ \E a, b \in Nations, goals \in SUBSET Provinces : conclude_peace(a, b, goals)
    \/ \E u \in Units : advance_musters(u)

DayNext ==
    \/ withdrawn \/ disband_orphaned_units \/ marched \/ recover_out_of_contact
    \/ \E u \in todo : withdraw_units(u) \/ march_attacks(u) \/ march_blocked(u)
                        \/ march_steps(u) \/ march_banks(u)
    \/ \E k \in DOMAIN battles : battle_day(k)
    \/ \E a \in attacks : open_tile_battle(a.key)

Next == VerbNext \/ begin_day \/ DayNext

Spec == Init /\ [][Next]_vars

-----------------------------------------------------------------------------
(* Units of two nations never share a tile, whatever their stance: not by  *)
(* a march, a retreat, an advance, a withdrawal or a muster                *)
(* (MILITARY.md, "One nation per tile, always").                           *)
OneNationPerTile ==
    \A u, v \in standing(units) : units[u].position = units[v].position => owner[u] = owner[v]

(* Whoever fights a battle stands on its tile or beside it, whatever else  *)
(* it fought, won or lost in the meantime (MILITARY.md, Battles: "Units    *)
(* never abstract into a pool - they keep their tiles").                   *)
FightersAtHand ==
    \A k \in DOMAIN battles : \A u \in listed(battles[k]) \cap standing(units) :
        units[u].position = k.tile \/ beside_tile(u, k.tile)

(* An order leads on from where its unit stands, whoever has moved the     *)
(* unit since it was given, and so does the order an attack holds.         *)
OrderLeadsOn ==
    /\ \A u \in DOMAIN units : units[u].order # halted => connected(units[u].position, units[u].order)
    /\ \A a \in attacks : connected(units[a.unit].position, a.order)

(* No unit moves but by a step a march can take: retreats, advances and    *)
(* withdrawals are steps too (MILITARY.md, Retreat: "one tile away ... a   *)
(* neighbour a march can reach").                                          *)
StepByStep ==
    [][\A u \in DOMAIN units \cap DOMAIN units' :
          units'[u].position # units[u].position =>
              <<units[u].position, units'[u].position>> \in crossable]_vars

(* An attack that was registered ends in a battle its unit leads, or the   *)
(* unit has its order back (MILITARY.md, Marching: "The march's order is   *)
(* spent only by the battle it opens").                                    *)
OrderSpentByItsBattle ==
    [][\A a \in attacks \ attacks' :
          \/ units'[a.unit].order = a.order
          \/ \E k \in DOMAIN battles' : /\ k = a.key /\ a.unit \in battles'[k].attacking_units
                                        /\ a.unit \in battles'[k].attacker_units]_vars

(* A unit leads one attack at a time, and every other fight it is in is    *)
(* over the tile it stands on, so an advance leaves no fight behind that   *)
(* it is not beside.                                                       *)
OneAttackAtATime ==
    \A j, k \in DOMAIN battles : \A u \in listed(battles[j]) \cap standing(units) :
        (j # k /\ u \in battles[k].attacking_units \cap battles[k].attacker_units)
            => u \in battles[j].defender_units /\ j.tile = units[u].position

(* Fights and orders keep up with the units: whoever fights is at hand and *)
(* leads one attack alone, and an order leads on from where its unit is,   *)
(* through any joining, retreat, advance, withdrawal or disbanding.        *)
FightsInOrder == FightersAtHand /\ OneAttackAtATime /\ OrderLeadsOn

=============================================================================
