------------------------------- MODULE War -------------------------------
(***************************************************************************)
(* The diplomatic state of Project Io: stances between nations             *)
(* (world/stance.cpp), wars, peace offers, truces and the territory a      *)
(* peace moves (world/war.cpp), as the command seam applies them           *)
(* (world/corp_command.cpp), with the battles that move a province's       *)
(* military holder (world/battle_system.cpp).                              *)
(*                                                                         *)
(* A definition marked "mutant" is a plausible mistake in the one after    *)
(* it; the properties are checked to notice each.                          *)
(*                                                                         *)
(* A verb is an action: its guard is what the verb validates, in any       *)
(* order, since a refused verb mutates nothing and is a stuttering step.   *)
(* Abstracted: units (a battle's losses and outcome are chosen), the       *)
(* sentiment a declaration costs, exhaustion and morale, the log, and the  *)
(* buildings, track and wings that follow ceded ground.                    *)
(***************************************************************************)
EXTENDS Integers, FiniteSets
LOCAL INSTANCE FiniteSetsExt

CONSTANTS
    Nation,                      \* world::nations
    Province,                    \* the LAND provinces of the partition
    Tiles,                       \* [Province -> number of tiles]
    InitOwner,                   \* [Province -> Nation]: the ground at the start
    null_entity,                 \* no nation: the gainer of a white peace
    k_war_goals_max,             \* goals a party may name            (3)
    k_war_truce_ticks,           \* length of a truce                 (16)
    k_war_offer_cooldown_ticks,  \* a refused offer's cooldown        (4)
    LAST_TICK,                   \* bound: economy ticks explored
    MAX_LOST,                    \* bound: men lost per side and war
    MAX_WARS,                    \* bound: wars open at once
    MAX_BATTLES                  \* bound: battles fought at once

ASSUME NationAssumption ==
    /\ IsFiniteSet(Nation) /\ null_entity \notin Nation
    /\ IsFiniteSet(Province)
    /\ Tiles \in [Province -> Nat \ {0}]
    /\ InitOwner \in [Province -> Nation]

ASSUME TickAssumption ==
    /\ k_war_goals_max \in Nat \ {0}
    /\ k_war_truce_ticks \in Nat \ {0}
    /\ k_war_offer_cooldown_ticks \in Nat
    /\ LAST_TICK \in Nat /\ MAX_LOST \in Nat /\ MAX_WARS \in Nat /\ MAX_BATTLES \in Nat

VARIABLES
    corp_hostile_pairs,  \* directed <<from, to>>
    corp_friend_pairs,   \* canonical pairs, here two-element sets
    corp_friend_offers,  \* directed <<offerer, target>>
    wars,                \* (declarer, defender) -> war_record
    peace_offers,        \* (declarer, defender) -> the one pending peace_offer
    peace_refusals,      \* (offerer, receiver)  -> tick of the last refusal
    truces,              \* canonical pair -> tick the truce runs out
    war_history,         \* canonical pair -> tick its last war closed
    tile_owner,          \* province_owner: plurality of tile_to_nation
    province_holder,     \* the military holder
    battles,             \* live battles
    current_econ_tick

stanceVars == <<corp_hostile_pairs, corp_friend_pairs, corp_friend_offers>>
recordVars == <<wars, peace_offers, peace_refusals, truces, war_history>>
groundVars == <<tile_owner, province_holder, battles>>
vars == <<stanceVars, recordVars, groundVars, current_econ_tick>>

-----------------------------------------------------------------------------
Key  == {k \in Nation \X Nation : k[1] # k[2]}
Pair == {{k[1], k[2]} : k \in Key}

Lost == 0 .. MAX_LOST
Goals == {g \in SUBSET Province : g # {} /\ Cardinality(g) <= k_war_goals_max}

war_record == [declarer_goals : SUBSET Province, defender_goals : SUBSET Province,
               answered : BOOLEAN, declarer_men_lost : Lost, defender_men_lost : Lost]

white == [gainer |-> null_entity, provinces |-> {}]
peace_terms == {white} \cup [gainer : Nation, provinces : Goals]
peace_offer == [offerer : Nation, terms : peace_terms]

battle_record == [attacker : Nation, defender : Nation, province : Province]

PartialMap(f, S, T) == DOMAIN f \subseteq S /\ f \in [DOMAIN f -> T]

TypeOK ==
    /\ corp_hostile_pairs \subseteq Key
    /\ corp_friend_pairs \subseteq Pair
    /\ corp_friend_offers \subseteq Key
    /\ PartialMap(wars, Key, war_record)
    /\ PartialMap(peace_offers, Key, peace_offer)
    /\ PartialMap(peace_refusals, Key, Nat)
    /\ PartialMap(truces, Pair, Nat)
    /\ PartialMap(war_history, Pair, Nat)
    /\ tile_owner \in [Province -> Nation]
    /\ province_holder \in [Province -> Nation]
    /\ battles \subseteq battle_record
    /\ current_econ_tick \in Nat

(* Writing and erasing a row of a table.                                   *)
Put(f, k, v) == [x \in DOMAIN f \cup {k} |-> IF x = k THEN v ELSE f[x]]
Erase(f, ks) == [x \in DOMAIN f \ ks |-> f[x]]

-----------------------------------------------------------------------------
(* Reads.                                                                  *)
is_hostile(from, to) == <<from, to>> \in corp_hostile_pairs
are_friends(a, b)    == {a, b} \in corp_friend_pairs

war_key(a, b) == IF <<a, b>> \in DOMAIN wars THEN <<a, b>> ELSE <<b, a>>
at_war(a, b)  == war_key(a, b) \in DOMAIN wars

truce_between(a, b) ==
    {a, b} \in DOMAIN truces /\ current_econ_tick < truces[{a, b}]

peace_offer_cooling(offerer, other) ==
    /\ <<offerer, other>> \in DOMAIN peace_refusals
    /\ current_econ_tick - peace_refusals[<<offerer, other>>] < k_war_offer_cooldown_ticks

valid_goal_list(goals, owner) ==
    goals \in Goals /\ \A g \in goals : tile_owner[g] = owner

provinces_owned(n) == {p \in Province : tile_owner[p] = n}

goals_of(key, n) ==
    IF n = key[1] THEN wars[key].declarer_goals ELSE wars[key].defender_goals
loser_to(key, gainer) == IF gainer = key[1] THEN key[2] ELSE key[1]

(* Never the loser's last province.                                        *)
may_cede_last(loser, provinces) == \* mutant: off by one
    Cardinality(provinces) <= Cardinality(provinces_owned(loser))
leaves_ground(loser, provinces) ==
    Cardinality(provinces) < Cardinality(provinces_owned(loser))

(* The refusals of check_peace_terms.                                      *)
check_peace_terms(key, terms) ==
    \/ terms = white
    \/ LET loser == loser_to(key, terms.gainer) IN
       /\ terms # white
       /\ terms.gainer \in {key[1], key[2]}
       /\ terms.provinces \subseteq goals_of(key, terms.gainer)
       /\ \A p \in terms.provinces :
             province_holder[p] = terms.gainer /\ tile_owner[p] = loser
       /\ leaves_ground(loser, terms.provinces)

(* The declarer's score: 50 x occupation + 50 x battles, rounded half away *)
(* from zero.  Each term is the difference of two fractions, kept exact.   *)
tiles_of(goals) == MapThenSumSet(LAMBDA p : Tiles[p], goals)
held_by(goals, side) == {p \in goals : province_holder[p] = side}
AtLeastOne(n) == IF n > 0 THEN n ELSE 1
llround(n, d) ==
    LET half(m) == (2 * m + d) \div (2 * d) IN IF n < 0 THEN -half(-n) ELSE half(n)

war_score(key) ==
    LET w == wars[key]
        total1 == AtLeastOne(tiles_of(w.declarer_goals))
        total2 == AtLeastOne(tiles_of(w.defender_goals))
        held1 == tiles_of(held_by(w.declarer_goals, key[1]))
        held2 == tiles_of(held_by(w.defender_goals, key[2]))
        lost == AtLeastOne(w.declarer_men_lost + w.defender_men_lost)
        balance == w.defender_men_lost - w.declarer_men_lost
    IN  llround(50 * ((held1 * total2 - held2 * total1) * lost + balance * total1 * total2),
                total1 * total2 * lost)

-----------------------------------------------------------------------------
Init ==
    /\ corp_hostile_pairs = {} /\ corp_friend_pairs = {} /\ corp_friend_offers = {}
    /\ wars = << >> /\ peace_offers = << >> /\ peace_refusals = << >>
    /\ truces = << >> /\ war_history = << >>
    /\ tile_owner = InitOwner /\ province_holder = InitOwner
    /\ battles = {} /\ current_econ_tick = 0

(* Stances.                                                                *)

(* One directed row in; the friendship and any pending offer go with it.   *)
write_hostility(from, to) ==
    /\ corp_hostile_pairs' = corp_hostile_pairs \cup {<<from, to>>}
    /\ corp_friend_pairs' = corp_friend_pairs \ {{from, to}}
    /\ corp_friend_offers' = corp_friend_offers \ {<<from, to>>, <<to, from>>}

declare_hostile(from, to) ==
    /\ from # to
    /\ ~at_war(from, to) /\ ~truce_between(from, to)
    /\ ~is_hostile(from, to)
    /\ write_hostility(from, to)
    /\ UNCHANGED <<recordVars, groundVars, current_econ_tick>>

offer_friendship(offerer, target) ==
    /\ offerer # target
    /\ ~are_friends(offerer, target)
    /\ ~is_hostile(offerer, target)
    /\ <<offerer, target>> \notin corp_friend_offers
    /\ corp_friend_offers' = corp_friend_offers \cup {<<offerer, target>>}
    /\ UNCHANGED <<corp_hostile_pairs, corp_friend_pairs, recordVars, groundVars,
                   current_econ_tick>>

accept_friendship(offerer, target) ==
    /\ <<offerer, target>> \in corp_friend_offers
    /\ corp_friend_offers' = corp_friend_offers \ {<<offerer, target>>}
    /\ corp_friend_pairs' = corp_friend_pairs \cup {{offerer, target}}
    /\ UNCHANGED <<corp_hostile_pairs, recordVars, groundVars, current_econ_tick>>

return_to_neutral(corp, counterparty) ==
    LET offers == {<<corp, counterparty>>, <<counterparty, corp>>} IN
    /\ corp # counterparty
    /\ ~at_war(corp, counterparty)
    /\ \/ is_hostile(corp, counterparty)
       \/ are_friends(corp, counterparty)
       \/ offers \cap corp_friend_offers # {}
    /\ corp_hostile_pairs' = corp_hostile_pairs \ {<<corp, counterparty>>}
    /\ corp_friend_pairs' = corp_friend_pairs \ {{corp, counterparty}}
    /\ corp_friend_offers' = corp_friend_offers \ offers
    /\ UNCHANGED <<recordVars, groundVars, current_econ_tick>>

-----------------------------------------------------------------------------
(* War.                                                                    *)

declare_check_own_key(declarer, defender, goals) == \* mutant: one key looked up
    /\ declarer # defender
    /\ valid_goal_list(goals, defender)
    /\ <<declarer, defender>> \notin DOMAIN wars
    /\ ~truce_between(declarer, defender)

declare_check(declarer, defender, goals) ==
    /\ declarer # defender
    /\ valid_goal_list(goals, defender)
    /\ ~at_war(declarer, defender)
    /\ ~truce_between(declarer, defender)

declare_war(declarer, defender, goals) ==
    /\ declare_check(declarer, defender, goals)
    /\ Cardinality(DOMAIN wars) < MAX_WARS
    /\ write_hostility(declarer, defender)
    /\ wars' = Put(wars, <<declarer, defender>>,
                   [declarer_goals |-> goals, defender_goals |-> {}, answered |-> FALSE,
                    declarer_men_lost |-> 0, defender_men_lost |-> 0])
    /\ UNCHANGED <<peace_offers, peace_refusals, truces, war_history, groundVars,
                   current_econ_tick>>

answer_war(defender, declarer, goals) ==
    LET key == <<declarer, defender>> IN
    /\ declarer # defender
    /\ valid_goal_list(goals, declarer)
    /\ key \in DOMAIN wars /\ ~wars[key].answered
    /\ write_hostility(defender, declarer)
    /\ wars' = [wars EXCEPT ![key].defender_goals = goals, ![key].answered = TRUE]
    /\ UNCHANGED <<peace_offers, peace_refusals, truces, war_history, groundVars,
                   current_econ_tick>>

-----------------------------------------------------------------------------
(* Peace.                                                                  *)

offer_peace(offerer, other, terms) ==
    LET key == war_key(offerer, other) IN
    /\ at_war(offerer, other)
    /\ key \notin DOMAIN peace_offers
    /\ ~peace_offer_cooling(offerer, other)
    /\ check_peace_terms(key, terms)
    /\ peace_offers' = Put(peace_offers, key, [offerer |-> offerer, terms |-> terms])
    /\ UNCHANGED <<wars, peace_refusals, truces, war_history, stanceVars, groundVars,
                   current_econ_tick>>

refusal_tick_spent == current_econ_tick - k_war_offer_cooldown_ticks \* mutant: no wait
refusal_tick == current_econ_tick

refuse_peace(receiver, offerer) ==
    LET key == war_key(receiver, offerer) IN
    /\ at_war(receiver, offerer)
    /\ key \in DOMAIN peace_offers /\ peace_offers[key].offerer = offerer
    /\ peace_offers' = Erase(peace_offers, {key})
    /\ peace_refusals' = Put(peace_refusals, <<offerer, receiver>>, refusal_tick)
    /\ UNCHANGED <<wars, truces, war_history, stanceVars, groundVars, current_econ_tick>>

(* The ground moves: the ceded provinces' holder and owner are the gainer. *)
Cede(f, terms) == [p \in Province |-> IF p \in terms.provinces THEN terms.gainer ELSE f[p]]

occupied_by_declarer(key, owner, holder) == \* mutant: only the declarer's goals are looked at
    {g \in wars[key].declarer_goals :
        owner[g] # holder[g] /\ {owner[g], holder[g]} = {key[1], key[2]}}

(* A goal of either side that one party still holds against the other,     *)
(* once the ceded ground has moved.                                        *)
occupied_goals(key, owner, holder) ==
    {g \in wars[key].declarer_goals \cup wars[key].defender_goals :
        owner[g] # holder[g] /\ {owner[g], holder[g]} = {key[1], key[2]}}

between(b, key) == {b.attacker, b.defender} = {key[1], key[2]}

close_declared_battles(key) == \* mutant: only those the declarer opened
    {b \in battles : ~(b.attacker = key[1] /\ b.defender = key[2])}
close_battles(key) == {b \in battles : ~between(b, key)}

both_rows(key) == {<<key[1], key[2]>>, <<key[2], key[1]>>}

(* Closes the war under key: cession, return of the occupied goals, then   *)
(* every table's row of the pair.                                          *)
conclude_peace(key, terms) ==
    LET pair == {key[1], key[2]}
        owner == Cede(tile_owner, terms)
        holder == Cede(province_holder, terms)
        returned == occupied_goals(key, owner, holder)
    IN  /\ tile_owner' = owner
        /\ province_holder' = [p \in Province |-> IF p \in returned THEN owner[p] ELSE holder[p]]
        /\ battles' = close_battles(key)
        /\ corp_hostile_pairs' = corp_hostile_pairs \ both_rows(key)
        /\ war_history' = Put(war_history, pair, current_econ_tick)
        /\ peace_offers' = Erase(peace_offers, {key})
        /\ peace_refusals' = Erase(peace_refusals, both_rows(key))
        /\ wars' = Erase(wars, {key})
        /\ truces' = Put(truces, pair, current_econ_tick + k_war_truce_ticks)
        /\ UNCHANGED <<corp_friend_pairs, corp_friend_offers, current_econ_tick>>

accept_unchecked(receiver, offerer) == \* mutant: the terms are taken as offered
    LET key == war_key(receiver, offerer) IN
    /\ at_war(receiver, offerer)
    /\ key \in DOMAIN peace_offers /\ peace_offers[key].offerer = offerer
    /\ conclude_peace(key, peace_offers[key].terms)

(* The pending terms are checked again: ground may have moved since.       *)
accept_peace(receiver, offerer) ==
    LET key == war_key(receiver, offerer) IN
    /\ at_war(receiver, offerer)
    /\ key \in DOMAIN peace_offers /\ peace_offers[key].offerer = offerer
    /\ check_peace_terms(key, peace_offers[key].terms)
    /\ conclude_peace(key, peace_offers[key].terms)

won(key, imposer) ==
    IF imposer = key[1] THEN war_score(key) >= 100 ELSE war_score(key) <= -100

impose_peace(imposer, other, terms) ==
    LET key == war_key(imposer, other) IN
    /\ at_war(imposer, other)
    /\ check_peace_terms(key, terms)
    /\ won(key, imposer)
    /\ conclude_peace(key, terms)

-----------------------------------------------------------------------------
(* Battles, by the day.                                                    *)

(* A march onto a tile of a nation the marcher is hostile to.  A province  *)
(* stands for its one contested tile: a pair fights there at most once, in *)
(* either role.                                                            *)
open_tile_battle(attacker, defender, province) ==
    /\ attacker # defender
    /\ is_hostile(attacker, defender)
    /\ ~ \E b \in battles : b.province = province /\ between(b, <<attacker, defender>>)
    /\ Cardinality(battles) < MAX_BATTLES
    /\ battles' = battles \cup
           {[attacker |-> attacker, defender |-> defender, province |-> province]}
    /\ UNCHANGED <<tile_owner, province_holder, stanceVars, recordVars, current_econ_tick>>

(* A day's losses land on the war between the two nations, if there is one.*)
note_war_battles(b, attacker_lost, defender_lost) ==
    LET key == war_key(b.attacker, b.defender)
        attacker_declared == b.attacker = key[1]
        dec_lost == IF attacker_declared THEN attacker_lost ELSE defender_lost
        def_lost == IF attacker_declared THEN defender_lost ELSE attacker_lost
    IN  IF key \notin DOMAIN wars THEN wars' = wars
        ELSE /\ wars[key].declarer_men_lost + dec_lost <= MAX_LOST
             /\ wars[key].defender_men_lost + def_lost <= MAX_LOST
             /\ wars' = [wars EXCEPT ![key].declarer_men_lost = @ + dec_lost,
                                     ![key].defender_men_lost = @ + def_lost]

(* A day that leaves the battle in progress.                               *)
battle_day(b, attacker_lost, defender_lost) ==
    /\ b \in battles
    /\ note_war_battles(b, attacker_lost, defender_lost)
    /\ UNCHANGED <<stanceVars, groundVars, peace_offers, peace_refusals, truces, war_history,
                   current_econ_tick>>

(* The day that ends it: the province's holder moves to the winner, unless *)
(* the beaten side still has a unit somewhere in the province.             *)
battle_concludes(b, attacker_lost, defender_lost, field_held_by, loser_remains) ==
    /\ b \in battles
    /\ field_held_by \in {b.attacker, b.defender}
    /\ note_war_battles(b, attacker_lost, defender_lost)
    /\ battles' = battles \ {b}
    /\ province_holder' = IF loser_remains THEN province_holder
                          ELSE [province_holder EXCEPT ![b.province] = field_held_by]
    /\ UNCHANGED <<tile_owner, stanceVars, peace_offers, peace_refusals, truces, war_history,
                   current_econ_tick>>

truce_expires_early(pair, tick) == tick + 1 >= truces[pair] \* mutant: a tick short
truce_expired(pair, tick) == tick >= truces[pair]

(* An economy step: the tick moves and run_war_quarter drops the truces    *)
(* that have run out.                                                      *)
run_war_quarter ==
    /\ current_econ_tick < LAST_TICK
    /\ current_econ_tick' = current_econ_tick + 1
    /\ truces' = Erase(truces, {p \in DOMAIN truces : truce_expired(p, current_econ_tick')})
    /\ UNCHANGED <<stanceVars, groundVars, wars, peace_offers, peace_refusals, war_history>>

-----------------------------------------------------------------------------
HostilityNext == \E a, b \in Nation : declare_hostile(a, b) \/ return_to_neutral(a, b)
FriendshipNext == \E a, b \in Nation : offer_friendship(a, b) \/ accept_friendship(a, b)

WarNext == \E a, b \in Nation :
    \/ \E goals \in Goals : declare_war(a, b, goals) \/ answer_war(a, b, goals)
    \/ \E terms \in peace_terms : offer_peace(a, b, terms)
    \/ accept_peace(a, b)

PressNext == \E a, b \in Nation :
    \/ refuse_peace(a, b)
    \/ \E terms \in peace_terms : impose_peace(a, b, terms)

FieldNext ==
    \/ \E a, b \in Nation, p \in Province : open_tile_battle(a, b, p)
    \/ \E b \in battles, la, ld \in Lost : battle_day(b, la, ld)
    \/ \E b \in battles, la, ld \in Lost, w \in Nation, remains \in BOOLEAN :
          battle_concludes(b, la, ld, w, remains)

EnmityNext == HostilityNext \/ WarNext \/ PressNext \/ FieldNext \/ run_war_quarter
Next == FriendshipNext \/ EnmityNext

Spec == Init /\ [][Next]_vars

-----------------------------------------------------------------------------
(* One war per pair, in either direction: the record is found by looking   *)
(* up both keys, so a second record would shadow the first.                *)
OneWarPerPair == \A k \in DOMAIN wars : <<k[2], k[1]>> \notin DOMAIN wars

(* A war is never a war on paper: the declarer's hostility row stands for  *)
(* as long as the war does, and the defender's once it has answered.  No   *)
(* stance verb can take one away behind the record's back.                 *)
WarIsHostile == \A k \in DOMAIN wars :
    /\ is_hostile(k[1], k[2])
    /\ wars[k].answered => is_hostile(k[2], k[1])

(* While a truce runs, its pair is quiet: no war, no hostility either way  *)
(* and no battle still being fought.                                       *)
TruceIsQuiet == \A k \in Key : truce_between(k[1], k[2]) =>
    /\ k \notin DOMAIN wars
    /\ ~is_hostile(k[1], k[2])
    /\ \A b \in battles : ~between(b, k)

(* A pending offer and a refusal's cooldown belong to an open war and to   *)
(* its two parties: nothing outlives the war and haunts the next one.      *)
OffersOnOpenWars ==
    /\ \A k \in DOMAIN peace_offers :
          k \in DOMAIN wars /\ peace_offers[k].offerer \in {k[1], k[2]}
    /\ \A k \in DOMAIN peace_refusals : at_war(k[1], k[2])

(* The war tables agree: one record to a pair, hostile rows under every    *)
(* record, offers and refusals under none but an open one.  No verb looks  *)
(* at more than one of them, and each relies on the others.                *)
WarTables == OneWarPerPair /\ WarIsHostile /\ OffersOnOpenWars

(* A pending offer was not made inside its offerer's cooldown.             *)
PendingOfferIsFresh == \A o, r \in Nation : \A k \in {<<o, r>>, <<r, o>>} :
    k \in DOMAIN peace_offers /\ peace_offers[k].offerer = o => ~peace_offer_cooling(o, r)

(* A pair's last peace is still being waited out, or its truce is over.    *)
TruceRemembered == \A p \in DOMAIN war_history :
    \/ current_econ_tick >= war_history[p] + k_war_truce_ticks
    \/ p \in DOMAIN truces /\ truces[p] = war_history[p] + k_war_truce_ticks

(* The inductive invariant: the last two conjuncts are what the action     *)
(* properties below need, the rest what the reads of the tables assume.    *)
WarInv == /\ TypeOK /\ OneWarPerPair /\ WarIsHostile /\ TruceIsQuiet /\ OffersOnOpenWars
          /\ PendingOfferIsFresh /\ TruceRemembered

Closes(k) == k \in DOMAIN wars /\ k \notin DOMAIN wars'

(* Ground changes nation only when a war between its owner and its gainer  *)
(* closes, and only ground that was the gainer's goal and in its hands at  *)
(* that moment, whatever was true when the terms were offered.             *)
GroundMovesByPeace == [][\A p \in Province : tile_owner'[p] # tile_owner[p] =>
    \E k \in Key : /\ Closes(k)
                   /\ {k[1], k[2]} = {tile_owner[p], tile_owner'[p]}
                   /\ p \in goals_of(k, tile_owner'[p])
                   /\ province_holder[p] = tile_owner'[p]]_vars

(* No nation leaves the map by war: one that has ground keeps some through *)
(* any sequence of peaces, with any number of enemies.                     *)
NationKeepsGround == [][\A n \in Nation :
    provinces_owned(n) # {} => provinces_owned(n)' # {}]_vars

(* A war that closes leaves none of its own goals in one party's hands     *)
(* against the other, and takes no province out of a third nation's hands. *)
PeaceReturnsGoals == [][\A k \in Key : Closes(k) => \A p \in Province :
    /\ p \in wars[k].declarer_goals \cup wars[k].defender_goals =>
         ~(tile_owner'[p] # province_holder'[p]
           /\ {tile_owner'[p], province_holder'[p]} = {k[1], k[2]})
    /\ province_holder[p] \notin {k[1], k[2]} => province_holder'[p] = province_holder[p]]_vars

(* A pair that made peace does not go to war again, in either direction,   *)
(* before the truce has run its sixteen ticks.                             *)
TruceRunsItsCourse == [][\A k \in DOMAIN wars' \ DOMAIN wars :
    {k[1], k[2]} \in DOMAIN war_history =>
        current_econ_tick >= war_history[{k[1], k[2]}] + k_war_truce_ticks]_vars

(* The same side is refused at most once per cooldown: it cannot have      *)
(* offered again in between.                                               *)
RefusedOfferWaits == [][\A k \in DOMAIN peace_refusals \cap DOMAIN peace_refusals' :
    peace_refusals'[k] # peace_refusals[k] =>
        peace_refusals'[k] - peace_refusals[k] >= k_war_offer_cooldown_ticks]_vars

(* What runs its time runs all of it: a truce before the pair's next war, a*)
(* cooldown before the same side's next refusal.                           *)
TermsRunOut == TruceRunsItsCourse /\ RefusedOfferWaits

(* stance.hpp and RELATIONS.md: a nation is never left readable as both    *)
(* hostile and friendly toward one target.                                 *)
NeverHostileAndFriend == \A k \in Key : ~(is_hostile(k[1], k[2]) /\ are_friends(k[1], k[2]))

=============================================================================
