---------------------------- MODULE WarProofs ----------------------------
(***************************************************************************)
(* Proofs about War for every set of nations and provinces, every truce    *)
(* and cooldown length and every bound.                                    *)
(***************************************************************************)
EXTENDS War, FiniteSetTheorems, TLAPS

(* Writing and erasing rows keep a table a table.                          *)
LEMMA PutType == ASSUME NEW f, NEW S, NEW T, PartialMap(f, S, T), NEW k \in S, NEW v \in T
                 PROVE  PartialMap(Put(f, k, v), S, T)
BY DEF PartialMap, Put

LEMMA EraseType == ASSUME NEW f, NEW S, NEW T, PartialMap(f, S, T), NEW ks
                   PROVE  PartialMap(Erase(f, ks), S, T)
BY DEF PartialMap, Erase

LEMMA InitType == Init => TypeOK
<1> SUFFICES ASSUME Init PROVE TypeOK OBVIOUS
<1>1. \A S, T : PartialMap(<< >>, S, T) BY DEF PartialMap
<1> QED BY <1>1, NationAssumption DEF Init, TypeOK

LEMMA PairOfKey == \A a, b \in Nation : a # b => <<a, b>> \in Key /\ {a, b} \in Pair
<1> SUFFICES ASSUME NEW a \in Nation, NEW b \in Nation, a # b
             PROVE  <<a, b>> \in Key /\ {a, b} \in Pair
    OBVIOUS
<1>1. <<a, b>> \in Key BY DEF Key
<1>2. {a, b} = {<<a, b>>[1], <<a, b>>[2]} OBVIOUS
<1> QED BY <1>1, <1>2 DEF Pair

LEMMA HostilityType ==
    ASSUME TypeOK, NEW a \in Nation, NEW b \in Nation, a # b, write_hostility(a, b)
    PROVE  /\ corp_hostile_pairs' \subseteq Key
           /\ corp_friend_pairs' \subseteq Pair
           /\ corp_friend_offers' \subseteq Key
BY PairOfKey DEF TypeOK, write_hostility

LEMMA DeclareWarType ==
    ASSUME TypeOK, NEW a \in Nation, NEW b \in Nation, NEW g \in Goals, declare_war(a, b, g)
    PROVE  TypeOK'
<1>1. a # b /\ <<a, b>> \in Key BY PairOfKey DEF declare_war, declare_check
<1> DEFINE rec == [declarer_goals |-> g, defender_goals |-> {}, answered |-> FALSE,
                   declarer_men_lost |-> 0, defender_men_lost |-> 0]
<1>2. rec \in war_record BY TickAssumption DEF war_record, Lost, Goals
<1>3. PartialMap(wars', Key, war_record)
      BY <1>1, <1>2, PutType DEF TypeOK, declare_war
<1>4. write_hostility(a, b) BY DEF declare_war
<1> QED BY <1>1, <1>3, <1>4, HostilityType DEF TypeOK, declare_war, groundVars

LEMMA AnswerWarType ==
    ASSUME TypeOK, NEW d \in Nation, NEW c \in Nation, NEW g \in Goals, answer_war(d, c, g)
    PROVE  TypeOK'
<1>1. d # c /\ <<c, d>> \in DOMAIN wars BY DEF answer_war
<1>2. PartialMap(wars', Key, war_record)
  <2>1. wars[<<c, d>>] \in war_record BY <1>1 DEF TypeOK, PartialMap
  <2>2. [wars[<<c, d>>] EXCEPT !.defender_goals = g, !.answered = TRUE] \in war_record
        BY <2>1 DEF war_record, Goals
  <2> QED BY <2>2 DEF TypeOK, PartialMap, answer_war
<1>3. write_hostility(d, c) BY DEF answer_war
<1> QED BY <1>1, <1>2, <1>3, HostilityType DEF TypeOK, answer_war, groundVars

LEMMA LostType ==
    ASSUME TypeOK, NEW b \in battles, NEW la \in Lost, NEW ld \in Lost,
           note_war_battles(b, la, ld)
    PROVE  PartialMap(wars', Key, war_record)
<1> DEFINE key == war_key(b.attacker, b.defender)
           dec == IF b.attacker = key[1] THEN la ELSE ld
           def == IF b.attacker = key[1] THEN ld ELSE la
<1>1. CASE key \notin DOMAIN wars BY <1>1 DEF note_war_battles, TypeOK
<1>2. CASE key \in DOMAIN wars
  <2> DEFINE w == wars[key]
  <2>1. w \in war_record BY <1>2 DEF TypeOK, PartialMap
  <2>2. /\ w.declarer_men_lost + dec <= MAX_LOST /\ w.defender_men_lost + def <= MAX_LOST
        /\ wars' = [wars EXCEPT ![key].declarer_men_lost = @ + dec,
                                ![key].defender_men_lost = @ + def]
        BY <1>2 DEF note_war_battles
  <2>3. /\ w.declarer_men_lost + dec \in Lost /\ w.defender_men_lost + def \in Lost
        BY <2>1, <2>2, TickAssumption DEF war_record, Lost
  <2>4. [w EXCEPT !.declarer_men_lost = @ + dec, !.defender_men_lost = @ + def] \in war_record
        BY <2>1, <2>3 DEF war_record
  <2>5. wars' = [wars EXCEPT ![key] = [w EXCEPT !.declarer_men_lost = @ + dec,
                                               !.defender_men_lost = @ + def]]
        BY <1>2, <2>1, <2>2 DEF TypeOK, PartialMap, war_record
  <2> HIDE DEF w
  <2> QED BY <1>2, <2>4, <2>5 DEF TypeOK, PartialMap
<1> QED BY <1>1, <1>2

(* Terms that check_peace_terms or a pending offer vouches for.            *)
LEMMA ConcludeType ==
    ASSUME TypeOK, NEW k \in Key, NEW t \in peace_terms, conclude_peace(k, t)
    PROVE  TypeOK'
<1>1. PICK a \in Nation, b \in Nation : k = <<a, b>> /\ a # b BY DEF Key
<1>2. {k[1], k[2]} \in Pair BY <1>1, PairOfKey
<1>3. current_econ_tick + k_war_truce_ticks \in Nat BY TickAssumption DEF TypeOK
<1>4. PartialMap(wars', Key, war_record) BY EraseType DEF TypeOK, conclude_peace
<1>5. PartialMap(peace_offers', Key, peace_offer) BY EraseType DEF TypeOK, conclude_peace
<1>6. PartialMap(peace_refusals', Key, Nat) BY EraseType DEF TypeOK, conclude_peace
<1>7. PartialMap(truces', Pair, Nat) BY <1>2, <1>3, PutType DEF TypeOK, conclude_peace
<1>8. PartialMap(war_history', Pair, Nat) BY <1>2, PutType DEF TypeOK, conclude_peace
<1>9. /\ Cede(tile_owner, t) \in [Province -> Nation]
      /\ Cede(province_holder, t) \in [Province -> Nation]
  <2>1. CASE t = white BY <2>1 DEF TypeOK, Cede, white
  <2>2. CASE t # white
    <3>1. t.gainer \in Nation BY <2>2 DEF peace_terms
    <3> QED BY <3>1 DEF TypeOK, Cede
  <2> QED BY <2>1, <2>2
<1>10. /\ tile_owner' \in [Province -> Nation] /\ province_holder' \in [Province -> Nation]
       BY <1>9 DEF conclude_peace
<1>11. battles' \subseteq battle_record BY DEF conclude_peace, close_battles, TypeOK
<1> QED BY <1>4, <1>5, <1>6, <1>7, <1>8, <1>10, <1>11 DEF TypeOK, conclude_peace

LEMMA OfferType ==
    ASSUME TypeOK, NEW o \in Nation, NEW r \in Nation, NEW t \in peace_terms,
           offer_peace(o, r, t)
    PROVE  TypeOK'
<1>1. war_key(o, r) \in Key BY DEF offer_peace, at_war, TypeOK, PartialMap
<1>2. [offerer |-> o, terms |-> t] \in peace_offer BY DEF peace_offer
<1>3. PartialMap(peace_offers', Key, peace_offer)
      BY <1>1, <1>2, PutType DEF offer_peace, TypeOK
<1> QED BY <1>3 DEF offer_peace, TypeOK, stanceVars, groundVars

LEMMA RefuseType ==
    ASSUME TypeOK, NEW r \in Nation, NEW o \in Nation, refuse_peace(r, o)
    PROVE  TypeOK'
<1>1. r # o
  <2>1. war_key(r, o) \in Key BY DEF refuse_peace, at_war, TypeOK, PartialMap
  <2> QED BY <2>1 DEF war_key, Key
<1>2. <<o, r>> \in Key BY <1>1, PairOfKey
<1>3. PartialMap(peace_offers', Key, peace_offer) BY EraseType DEF refuse_peace, TypeOK
<1>4. PartialMap(peace_refusals', Key, Nat)
      BY <1>2, PutType DEF refuse_peace, refusal_tick, TypeOK
<1> QED BY <1>3, <1>4 DEF refuse_peace, TypeOK, stanceVars, groundVars

LEMMA AcceptType ==
    ASSUME TypeOK, NEW r \in Nation, NEW o \in Nation, accept_peace(r, o)
    PROVE  TypeOK'
<1> DEFINE key == war_key(r, o)
<1>1. key \in Key /\ peace_offers[key].terms \in peace_terms
      BY DEF accept_peace, TypeOK, PartialMap, peace_offer
<1>2. conclude_peace(key, peace_offers[key].terms) BY DEF accept_peace
<1> QED BY <1>1, <1>2, ConcludeType

LEMMA ImposeType ==
    ASSUME TypeOK, NEW i \in Nation, NEW o \in Nation, NEW t \in peace_terms,
           impose_peace(i, o, t)
    PROVE  TypeOK'
<1>1. war_key(i, o) \in Key BY DEF impose_peace, at_war, TypeOK, PartialMap
<1>2. conclude_peace(war_key(i, o), t) BY DEF impose_peace
<1> QED BY <1>1, <1>2, ConcludeType

LEMMA QuarterType == TypeOK /\ run_war_quarter => TypeOK'
<1> SUFFICES ASSUME TypeOK, run_war_quarter PROVE TypeOK' OBVIOUS
<1>1. PartialMap(truces', Pair, Nat) BY EraseType DEF run_war_quarter, TypeOK
<1> QED BY <1>1 DEF run_war_quarter, TypeOK, stanceVars, groundVars

(* Every step keeps the type invariant.                                    *)
LEMMA StepType == TypeOK /\ [Next]_vars => TypeOK'
<1> SUFFICES ASSUME TypeOK, [Next]_vars PROVE TypeOK' OBVIOUS
<1>1. CASE HostilityNext
  <2>1. PICK a \in Nation, b \in Nation : declare_hostile(a, b) \/ return_to_neutral(a, b)
        BY <1>1 DEF HostilityNext
  <2>2. CASE declare_hostile(a, b)
        BY <2>2, HostilityType DEF declare_hostile, TypeOK, recordVars, groundVars
  <2>3. CASE return_to_neutral(a, b)
        BY <2>3 DEF return_to_neutral, TypeOK, recordVars, groundVars
  <2> QED BY <2>1, <2>2, <2>3
<1>2. CASE FriendshipNext
  <2>1. PICK a \in Nation, b \in Nation : offer_friendship(a, b) \/ accept_friendship(a, b)
        BY <1>2 DEF FriendshipNext
  <2>2. CASE offer_friendship(a, b)
        BY <2>2, PairOfKey DEF offer_friendship, TypeOK, recordVars, groundVars
  <2>3. CASE accept_friendship(a, b)
    <3>1. a # b BY <2>3 DEF accept_friendship, TypeOK, Key
    <3> QED BY <2>3, <3>1, PairOfKey DEF accept_friendship, TypeOK, recordVars, groundVars
  <2> QED BY <2>1, <2>2, <2>3
<1>3. CASE WarNext BY <1>3, DeclareWarType, AnswerWarType, OfferType, AcceptType DEF WarNext
<1>4. CASE PressNext BY <1>4, RefuseType, ImposeType DEF PressNext
<1>5. CASE FieldNext
  <2>1. CASE \E a, b \in Nation, p \in Province : open_tile_battle(a, b, p)
        BY <2>1 DEF open_tile_battle, TypeOK, battle_record, stanceVars, recordVars
  <2>2. CASE \E b \in battles, la, ld \in Lost : battle_day(b, la, ld)
    <3>1. PICK b \in battles, la \in Lost, ld \in Lost : battle_day(b, la, ld) BY <2>2
    <3>2. PartialMap(wars', Key, war_record) BY <3>1, LostType DEF battle_day
    <3> QED BY <3>1, <3>2 DEF battle_day, TypeOK, stanceVars, groundVars
  <2>3. CASE \E b \in battles, la, ld \in Lost, w \in Nation, remains \in BOOLEAN :
                 battle_concludes(b, la, ld, w, remains)
    <3>1. PICK b \in battles, la \in Lost, ld \in Lost, w \in Nation, remains \in BOOLEAN :
                 battle_concludes(b, la, ld, w, remains)
          BY <2>3
    <3>2. PartialMap(wars', Key, war_record) BY <3>1, LostType DEF battle_concludes
    <3>3. province_holder' \in [Province -> Nation] BY <3>1 DEF battle_concludes, TypeOK
    <3> QED BY <3>1, <3>2, <3>3 DEF battle_concludes, TypeOK, stanceVars
  <2> QED BY <1>5, <2>1, <2>2, <2>3 DEF FieldNext
<1>6. CASE run_war_quarter BY <1>6, QuarterType
<1>7. CASE UNCHANGED vars
      BY <1>7 DEF vars, stanceVars, recordVars, groundVars, TypeOK
<1> QED BY <1>1, <1>2, <1>3, <1>4, <1>5, <1>6, <1>7 DEF Next, EnmityNext

(* Every reachable state is typed, whatever the nations and the map.       *)
THEOREM TypeCorrect == Spec => []TypeOK
BY InitType, StepType, PTL DEF Spec

-----------------------------------------------------------------------------
Safe == OneWarPerPair /\ WarIsHostile /\ TruceIsQuiet /\ OffersOnOpenWars
        /\ PendingOfferIsFresh /\ TruceRemembered

LEMMA InitSafe == Init => Safe
BY DEF Init, Safe, OneWarPerPair, WarIsHostile, TruceIsQuiet, truce_between, OffersOnOpenWars,
       PendingOfferIsFresh, TruceRemembered

(* Whatever leaves the war tables alone, the hostility of the pairs at war *)
(* standing and the pairs under truce quiet, is safe.                      *)
LEMMA QuietStep ==
    ASSUME TypeOK, Safe, UNCHANGED <<recordVars, current_econ_tick>>,
           \A k \in Key : k \in DOMAIN wars /\ is_hostile(k[1], k[2]) => is_hostile(k[1], k[2])',
           \A k \in Key : <<k[2], k[1]>> \in DOMAIN wars /\ is_hostile(k[1], k[2])
                              => is_hostile(k[1], k[2])',
           \A k \in Key : truce_between(k[1], k[2]) /\ is_hostile(k[1], k[2])'
                              => is_hostile(k[1], k[2]),
           \A b \in battles' : b \in battles \/ is_hostile(b.attacker, b.defender)
    PROVE  Safe'
<1>1. OneWarPerPair' BY DEF Safe, OneWarPerPair, recordVars
<1>2. WarIsHostile'
  <2> SUFFICES ASSUME NEW k \in DOMAIN wars
               PROVE  /\ is_hostile(k[1], k[2])'
                      /\ wars[k].answered => is_hostile(k[2], k[1])'
      BY DEF WarIsHostile, recordVars
  <2>1. PICK a \in Nation, b \in Nation : k = <<a, b>> /\ a # b
        BY DEF TypeOK, PartialMap, Key
  <2>2. k \in Key /\ <<b, a>> \in Key BY <2>1, PairOfKey
  <2> QED BY <2>1, <2>2 DEF Safe, WarIsHostile
<1>3. TruceIsQuiet'
  <2> SUFFICES ASSUME NEW k \in Key, truce_between(k[1], k[2])'
               PROVE  /\ k \notin DOMAIN wars' /\ ~is_hostile(k[1], k[2])'
                      /\ \A b \in battles' : ~between(b, k)
      BY DEF TruceIsQuiet, between
  <2>1. PICK x \in Nation, y \in Nation : k = <<x, y>> /\ x # y BY DEF Key
  <2>2. k \in Key /\ <<y, x>> \in Key BY <2>1, PairOfKey
  <2>3. truce_between(x, y) /\ truce_between(y, x)
        BY <2>1 DEF truce_between, recordVars
  <2>4. ~is_hostile(x, y) /\ ~is_hostile(y, x) /\ k \notin DOMAIN wars
        BY <2>1, <2>2, <2>3 DEF Safe, TruceIsQuiet
  <2>5. ASSUME NEW b \in battles', between(b, k) PROVE FALSE
    <3>1. CASE b \in battles BY <2>1, <2>2, <2>3, <2>5, <3>1 DEF Safe, TruceIsQuiet
    <3>2. CASE is_hostile(b.attacker, b.defender)
      <4>1. \/ b.attacker = x /\ b.defender = y
            \/ b.attacker = y /\ b.defender = x
            \/ b.attacker = b.defender
            BY <2>1, <2>5 DEF between
      <4>2. b.attacker # b.defender BY <3>2 DEF is_hostile, TypeOK, Key
      <4> QED BY <2>4, <3>2, <4>1, <4>2
    <3> QED BY <2>5, <3>1, <3>2
  <2> QED BY <2>1, <2>2, <2>3, <2>4, <2>5 DEF recordVars
<1>4. OffersOnOpenWars' BY DEF Safe, OffersOnOpenWars, at_war, war_key, recordVars
<1>5. PendingOfferIsFresh'
      BY DEF Safe, PendingOfferIsFresh, peace_offer_cooling, recordVars
<1>6. TruceRemembered' BY DEF Safe, TruceRemembered, recordVars
<1> QED BY <1>1, <1>2, <1>3, <1>4, <1>5, <1>6 DEF Safe

LEMMA StanceSafe ==
    ASSUME TypeOK, Safe, HostilityNext \/ FriendshipNext
    PROVE  Safe'
<1>1. ASSUME NEW a \in Nation, NEW b \in Nation, declare_hostile(a, b) PROVE Safe'
  <2>1. UNCHANGED <<recordVars, current_econ_tick>> /\ battles' = battles
        BY <1>1 DEF declare_hostile, groundVars
  <2>2. corp_hostile_pairs' = corp_hostile_pairs \cup {<<a, b>>}
        BY <1>1 DEF declare_hostile, write_hostility
  <2>3. ~truce_between(a, b) BY <1>1 DEF declare_hostile
  <2>4. \A k \in Key : truce_between(k[1], k[2]) /\ is_hostile(k[1], k[2])'
                           => is_hostile(k[1], k[2])
        BY <2>2, <2>3 DEF is_hostile
  <2> QED BY <2>1, <2>2, <2>4, QuietStep DEF is_hostile
<1>2. ASSUME NEW a \in Nation, NEW b \in Nation, return_to_neutral(a, b) PROVE Safe'
  <2>1. UNCHANGED <<recordVars, current_econ_tick>> /\ battles' = battles
        BY <1>2 DEF return_to_neutral, groundVars
  <2>2. corp_hostile_pairs' = corp_hostile_pairs \ {<<a, b>>}
        BY <1>2 DEF return_to_neutral
  <2>3. <<a, b>> \notin DOMAIN wars /\ <<b, a>> \notin DOMAIN wars
        BY <1>2 DEF return_to_neutral, at_war, war_key
  <2>4. \A k \in Key : k \in DOMAIN wars /\ is_hostile(k[1], k[2]) => is_hostile(k[1], k[2])'
        BY <2>2, <2>3 DEF is_hostile, Key
  <2>5. \A k \in Key : <<k[2], k[1]>> \in DOMAIN wars /\ is_hostile(k[1], k[2])
                           => is_hostile(k[1], k[2])'
        BY <2>2, <2>3 DEF is_hostile, Key
  <2> QED BY <2>1, <2>2, <2>4, <2>5, QuietStep DEF is_hostile
<1>3. ASSUME NEW a \in Nation, NEW b \in Nation,
             offer_friendship(a, b) \/ accept_friendship(a, b)
      PROVE  Safe'
  <2>1. /\ UNCHANGED <<recordVars, current_econ_tick>> /\ battles' = battles
        /\ corp_hostile_pairs' = corp_hostile_pairs
        BY <1>3 DEF offer_friendship, accept_friendship, groundVars
  <2> QED BY <2>1, QuietStep DEF is_hostile
<1> QED BY <1>1, <1>2, <1>3 DEF HostilityNext, FriendshipNext

LEMMA DeclareWarSafe ==
    ASSUME TypeOK, Safe, NEW a \in Nation, NEW b \in Nation, NEW g \in Goals,
           declare_war(a, b, g)
    PROVE  Safe'
<1>1. /\ a # b /\ <<a, b>> \in Key /\ {a, b} \in Pair
      /\ <<a, b>> \notin DOMAIN wars /\ <<b, a>> \notin DOMAIN wars
      /\ ~truce_between(a, b)
      BY PairOfKey DEF declare_war, declare_check, at_war, war_key
<1>2. /\ DOMAIN wars' = DOMAIN wars \cup {<<a, b>>}
      /\ \A k \in DOMAIN wars : wars'[k] = wars[k]
      /\ ~wars'[<<a, b>>].answered
      BY <1>1 DEF declare_war, Put
<1>3. corp_hostile_pairs' = corp_hostile_pairs \cup {<<a, b>>}
      BY DEF declare_war, write_hostility
<1>4. /\ UNCHANGED <<peace_offers, peace_refusals, truces, war_history, battles,
                     current_econ_tick>>
      BY DEF declare_war, groundVars
<1>5. OneWarPerPair'
  <2> SUFFICES ASSUME NEW k \in DOMAIN wars' PROVE <<k[2], k[1]>> \notin DOMAIN wars'
      BY DEF OneWarPerPair
  <2>1. CASE k = <<a, b>> BY <2>1, <1>1, <1>2
  <2>2. CASE k # <<a, b>>
    <3>1. k \in DOMAIN wars BY <2>2, <1>2
    <3>2. PICK x \in Nation, y \in Nation : k = <<x, y>> BY <3>1 DEF TypeOK, PartialMap, Key
    <3>3. <<y, x>> \notin DOMAIN wars BY <3>1, <3>2 DEF Safe, OneWarPerPair
    <3>4. <<y, x>> # <<a, b>> BY <1>1, <3>1, <3>2
    <3> QED BY <3>2, <3>3, <3>4, <1>2
  <2> QED BY <2>1, <2>2
<1>6. WarIsHostile'
  <2> SUFFICES ASSUME NEW k \in DOMAIN wars'
               PROVE  /\ is_hostile(k[1], k[2])'
                      /\ wars'[k].answered => is_hostile(k[2], k[1])'
      BY DEF WarIsHostile, is_hostile
  <2>1. CASE k = <<a, b>> BY <2>1, <1>2, <1>3 DEF is_hostile
  <2>2. CASE k # <<a, b>> BY <2>2, <1>2, <1>3 DEF Safe, WarIsHostile, is_hostile
  <2> QED BY <2>1, <2>2
<1>7. TruceIsQuiet'
  <2> SUFFICES ASSUME NEW k \in Key, truce_between(k[1], k[2])
               PROVE  /\ k \notin DOMAIN wars' /\ ~is_hostile(k[1], k[2])'
                      /\ \A e \in battles : ~between(e, k)
      BY <1>4 DEF TruceIsQuiet, between, truce_between
  <2>1. k # <<a, b>> BY <1>1
  <2> QED BY <2>1, <1>2, <1>3 DEF Safe, TruceIsQuiet, is_hostile, Key
<1>8. OffersOnOpenWars'
  <2>1. \A k \in DOMAIN peace_offers :
           k \in DOMAIN wars' /\ peace_offers[k].offerer \in {k[1], k[2]}
        BY <1>2 DEF Safe, OffersOnOpenWars
  <2>2. \A k \in DOMAIN peace_refusals : at_war(k[1], k[2])'
        BY <1>2 DEF Safe, OffersOnOpenWars, at_war, war_key
  <2> QED BY <1>4, <2>1, <2>2 DEF OffersOnOpenWars
<1>9. PendingOfferIsFresh'
      BY <1>4 DEF Safe, PendingOfferIsFresh, peace_offer_cooling
<1>10. TruceRemembered' BY <1>4 DEF Safe, TruceRemembered
<1> QED BY <1>5, <1>6, <1>7, <1>8, <1>9, <1>10 DEF Safe

LEMMA AnswerWarSafe ==
    ASSUME TypeOK, Safe, NEW d \in Nation, NEW c \in Nation, NEW g \in Goals,
           answer_war(d, c, g)
    PROVE  Safe'
<1>1. d # c /\ <<c, d>> \in Key /\ <<d, c>> \in Key /\ <<c, d>> \in DOMAIN wars
      BY PairOfKey DEF answer_war
<1>2. /\ DOMAIN wars' = DOMAIN wars
      /\ \A k \in DOMAIN wars \ {<<c, d>>} : wars'[k] = wars[k]
      BY <1>1 DEF answer_war, TypeOK, PartialMap
<1>3. corp_hostile_pairs' = corp_hostile_pairs \cup {<<d, c>>}
      BY DEF answer_war, write_hostility
<1>4. /\ UNCHANGED <<peace_offers, peace_refusals, truces, war_history, battles,
                     current_econ_tick>>
      BY DEF answer_war, groundVars
<1>5. OneWarPerPair' BY <1>2 DEF Safe, OneWarPerPair
<1>6. WarIsHostile'
  <2> SUFFICES ASSUME NEW k \in DOMAIN wars'
               PROVE  /\ is_hostile(k[1], k[2])'
                      /\ wars'[k].answered => is_hostile(k[2], k[1])'
      BY DEF WarIsHostile, is_hostile
  <2>1. CASE k = <<c, d>> BY <2>1, <1>1, <1>3 DEF Safe, WarIsHostile, is_hostile
  <2>2. CASE k # <<c, d>> BY <2>2, <1>2, <1>3 DEF Safe, WarIsHostile, is_hostile
  <2> QED BY <2>1, <2>2
<1>7. TruceIsQuiet'
  <2> SUFFICES ASSUME NEW k \in Key, truce_between(k[1], k[2])
               PROVE  /\ k \notin DOMAIN wars' /\ ~is_hostile(k[1], k[2])'
                      /\ \A e \in battles : ~between(e, k)
      BY <1>4 DEF TruceIsQuiet, between, truce_between
  <2>1. ~truce_between(c, d) /\ ~truce_between(d, c)
    <3>1. ~truce_between(c, d) BY <1>1 DEF Safe, TruceIsQuiet
    <3>2. {c, d} = {d, c} OBVIOUS
    <3> QED BY <3>1, <3>2 DEF truce_between
  <2>2. k # <<d, c>> BY <2>1
  <2> QED BY <2>2, <1>2, <1>3 DEF Safe, TruceIsQuiet, is_hostile, Key
<1>8. OffersOnOpenWars' BY <1>2, <1>4 DEF Safe, OffersOnOpenWars, at_war, war_key
<1>9. PendingOfferIsFresh'
      BY <1>4 DEF Safe, PendingOfferIsFresh, peace_offer_cooling
<1>10. TruceRemembered' BY <1>4 DEF Safe, TruceRemembered
<1> QED BY <1>5, <1>6, <1>7, <1>8, <1>9, <1>10 DEF Safe

(* A party's war key names it and its enemy.                               *)
LEMMA KeyOfWar ==
    ASSUME TypeOK, NEW a \in Nation, NEW b \in Nation, at_war(a, b)
    PROVE  LET k == war_key(a, b) IN
           /\ a # b /\ k \in Key /\ k \in DOMAIN wars
           /\ k = <<a, b>> \/ k = <<b, a>>
           /\ loser_to(k, a) = b /\ loser_to(k, b) = a
<1>1. war_key(a, b) \in DOMAIN wars /\ war_key(a, b) \in Key BY DEF at_war, TypeOK, PartialMap
<1>2. war_key(a, b) = <<a, b>> \/ war_key(a, b) = <<b, a>> BY DEF war_key
<1>3. a # b BY <1>1, <1>2 DEF Key
<1> QED BY <1>1, <1>2, <1>3 DEF loser_to

LEMMA OfferSafe ==
    ASSUME TypeOK, Safe, NEW o \in Nation, NEW r \in Nation, NEW t \in peace_terms,
           offer_peace(o, r, t)
    PROVE  Safe'
<1> DEFINE key == war_key(o, r)
<1>1. /\ o # r /\ key \in Key /\ key \in DOMAIN wars
      /\ key = <<o, r>> \/ key = <<r, o>>
      /\ loser_to(key, o) = r
      BY KeyOfWar DEF offer_peace
<1>2. /\ DOMAIN peace_offers' = DOMAIN peace_offers \cup {key}
      /\ \A k \in DOMAIN peace_offers : peace_offers'[k] = peace_offers[k]
      /\ peace_offers'[key].offerer = o
      BY DEF offer_peace, Put
<1>3. UNCHANGED <<wars, peace_refusals, truces, war_history, stanceVars, groundVars,
                  current_econ_tick>>
      BY DEF offer_peace
<1>4. OneWarPerPair' BY <1>3 DEF Safe, OneWarPerPair
<1>5. WarIsHostile' BY <1>3 DEF Safe, WarIsHostile, is_hostile, stanceVars
<1>6. TruceIsQuiet'
      BY <1>3 DEF Safe, TruceIsQuiet, truce_between, is_hostile, between, stanceVars, groundVars
<1>7. OffersOnOpenWars'
  <2>1. \A k \in DOMAIN peace_offers' :
           k \in DOMAIN wars /\ peace_offers'[k].offerer \in {k[1], k[2]}
        BY <1>1, <1>2 DEF Safe, OffersOnOpenWars
  <2> QED BY <2>1, <1>3 DEF Safe, OffersOnOpenWars, at_war, war_key
<1>8. PendingOfferIsFresh'
  <2>1. ~peace_offer_cooling(o, r) BY DEF offer_peace
  <2> SUFFICES ASSUME NEW x \in Nation, NEW y \in Nation, NEW k \in {<<x, y>>, <<y, x>>},
                      k \in DOMAIN peace_offers', peace_offers'[k].offerer = x
               PROVE  ~peace_offer_cooling(x, y)
      BY <1>3 DEF PendingOfferIsFresh, peace_offer_cooling
  <2>2. CASE k = key
    <3>1. x = o /\ y = r BY <2>2, <1>1, <1>2
    <3> QED BY <2>1, <3>1
  <2>3. CASE k # key BY <2>3, <1>2 DEF Safe, PendingOfferIsFresh
  <2> QED BY <2>2, <2>3
<1>9. TruceRemembered' BY <1>3 DEF Safe, TruceRemembered
<1> QED BY <1>4, <1>5, <1>6, <1>7, <1>8, <1>9 DEF Safe

LEMMA RefuseSafe ==
    ASSUME TypeOK, Safe, NEW r \in Nation, NEW o \in Nation, refuse_peace(r, o)
    PROVE  Safe'
<1> DEFINE key == war_key(r, o)
<1>1. /\ o # r /\ key \in Key /\ key \in DOMAIN wars
      /\ key = <<o, r>> \/ key = <<r, o>>
      BY KeyOfWar DEF refuse_peace
<1>2. /\ DOMAIN peace_offers' = DOMAIN peace_offers \ {key}
      /\ \A k \in DOMAIN peace_offers' : peace_offers'[k] = peace_offers[k]
      BY DEF refuse_peace, Erase
<1>3. /\ DOMAIN peace_refusals' = DOMAIN peace_refusals \cup {<<o, r>>}
      /\ \A k \in DOMAIN peace_refusals \ {<<o, r>>} : peace_refusals'[k] = peace_refusals[k]
      BY DEF refuse_peace, Put
<1>4. UNCHANGED <<wars, truces, war_history, stanceVars, groundVars, current_econ_tick>>
      BY DEF refuse_peace
<1>5. OneWarPerPair' BY <1>4 DEF Safe, OneWarPerPair
<1>6. WarIsHostile' BY <1>4 DEF Safe, WarIsHostile, is_hostile, stanceVars
<1>7. TruceIsQuiet'
      BY <1>4 DEF Safe, TruceIsQuiet, truce_between, is_hostile, between, stanceVars, groundVars
<1>8. OffersOnOpenWars'
  <2>1. at_war(o, r) BY <1>1 DEF at_war, war_key
  <2> QED BY <2>1, <1>2, <1>3, <1>4 DEF Safe, OffersOnOpenWars, at_war, war_key
<1>9. PendingOfferIsFresh'
  <2> SUFFICES ASSUME NEW x \in Nation, NEW y \in Nation, NEW k \in {<<x, y>>, <<y, x>>},
                      k \in DOMAIN peace_offers', peace_offers'[k].offerer = x
               PROVE  ~peace_offer_cooling(x, y)'
      BY DEF PendingOfferIsFresh, peace_offer_cooling
  <2>1. k \in DOMAIN peace_offers /\ k # key /\ peace_offers[k].offerer = x BY <1>2
  <2>2. k \in DOMAIN wars /\ k \in Key BY <2>1 DEF Safe, OffersOnOpenWars, TypeOK, PartialMap
  <2>3. <<x, y>> # <<o, r>>
    <3>1. SUFFICES ASSUME x = o, y = r PROVE FALSE OBVIOUS
    <3>2. ~(<<o, r>> \in DOMAIN wars /\ <<r, o>> \in DOMAIN wars)
      <4>1. <<o, r>>[1] = o /\ <<o, r>>[2] = r OBVIOUS
      <4> QED BY <4>1 DEF Safe, OneWarPerPair
    <3> QED BY <3>1, <3>2, <2>1, <2>2, <1>1
  <2>4. ~peace_offer_cooling(x, y) BY <2>1 DEF Safe, PendingOfferIsFresh
  <2> QED BY <2>3, <2>4, <1>3, <1>4 DEF peace_offer_cooling
<1>10. TruceRemembered' BY <1>4 DEF Safe, TruceRemembered
<1> QED BY <1>5, <1>6, <1>7, <1>8, <1>9, <1>10 DEF Safe

(* Closing a war takes every row of the pair with it.                      *)
LEMMA ConcludeSafe ==
    ASSUME TypeOK, Safe, NEW k \in Key, k \in DOMAIN wars, NEW t, conclude_peace(k, t)
    PROVE  Safe'
<1>1. PICK a \in Nation, b \in Nation : k = <<a, b>> /\ a # b BY DEF Key
<1>2. <<b, a>> \notin DOMAIN wars BY <1>1 DEF Safe, OneWarPerPair
<1>3. /\ DOMAIN wars' = DOMAIN wars \ {k}
      /\ \A x \in DOMAIN wars' : wars'[x] = wars[x]
      BY DEF conclude_peace, Erase
<1>4. /\ DOMAIN peace_offers' = DOMAIN peace_offers \ {k}
      /\ \A x \in DOMAIN peace_offers' : peace_offers'[x] = peace_offers[x]
      BY DEF conclude_peace, Erase
<1>5. /\ DOMAIN peace_refusals' = DOMAIN peace_refusals \ {<<a, b>>, <<b, a>>}
      /\ \A x \in DOMAIN peace_refusals' : peace_refusals'[x] = peace_refusals[x]
      BY <1>1 DEF conclude_peace, both_rows, Erase
<1>6. /\ DOMAIN truces' = DOMAIN truces \cup {{a, b}}
      /\ \A x \in DOMAIN truces \ {{a, b}} : truces'[x] = truces[x]
      /\ truces'[{a, b}] = current_econ_tick + k_war_truce_ticks
      BY <1>1 DEF conclude_peace, Put
<1>7. /\ DOMAIN war_history' = DOMAIN war_history \cup {{a, b}}
      /\ \A x \in DOMAIN war_history \ {{a, b}} : war_history'[x] = war_history[x]
      /\ war_history'[{a, b}] = current_econ_tick
      BY <1>1 DEF conclude_peace, Put
<1>8. corp_hostile_pairs' = corp_hostile_pairs \ {<<a, b>>, <<b, a>>}
      BY <1>1 DEF conclude_peace, both_rows
<1>9. battles' = {e \in battles : {e.attacker, e.defender} # {a, b}}
      BY <1>1 DEF conclude_peace, close_battles, between
<1>10. current_econ_tick' = current_econ_tick BY DEF conclude_peace
<1>11. OneWarPerPair' BY <1>3 DEF Safe, OneWarPerPair
<1>12. WarIsHostile'
  <2> SUFFICES ASSUME NEW x \in DOMAIN wars'
               PROVE  /\ is_hostile(x[1], x[2])'
                      /\ wars'[x].answered => is_hostile(x[2], x[1])'
      BY DEF WarIsHostile, is_hostile
  <2>1. x \in DOMAIN wars /\ x # k BY <1>3
  <2>2. PICK m \in Nation, n \in Nation : x = <<m, n>> BY <2>1 DEF TypeOK, PartialMap, Key
  <2>3. x # <<b, a>> BY <2>1, <1>2
  <2> QED BY <2>1, <2>2, <2>3, <1>1, <1>3, <1>8 DEF Safe, WarIsHostile, is_hostile
<1>13. TruceIsQuiet'
  <2> SUFFICES ASSUME NEW x \in Key, truce_between(x[1], x[2])'
               PROVE  /\ x \notin DOMAIN wars' /\ ~is_hostile(x[1], x[2])'
                      /\ \A e \in battles' : ~between(e, x)
      BY DEF TruceIsQuiet, between, is_hostile
  <2>1. PICK m \in Nation, n \in Nation : x = <<m, n>> /\ m # n BY DEF Key
  <2>2. CASE {m, n} = {a, b}
    <3>1. x = <<a, b>> \/ x = <<b, a>> BY <2>1, <2>2
    <3> QED BY <3>1, <2>1, <2>2, <1>1, <1>2, <1>3, <1>8, <1>9 DEF between, is_hostile
  <2>3. CASE {m, n} # {a, b}
    <3>1. truce_between(m, n) BY <2>1, <2>3, <1>6, <1>10 DEF truce_between
    <3>2. /\ x \notin DOMAIN wars /\ ~is_hostile(m, n) /\ \A e \in battles : ~between(e, x)
          BY <3>1, <2>1 DEF Safe, TruceIsQuiet
    <3> QED BY <3>2, <2>1, <1>3, <1>8, <1>9 DEF is_hostile
  <2> QED BY <2>2, <2>3
<1>14. OffersOnOpenWars'
  <2>1. \A x \in DOMAIN peace_offers' :
           x \in DOMAIN wars' /\ peace_offers'[x].offerer \in {x[1], x[2]}
        BY <1>3, <1>4 DEF Safe, OffersOnOpenWars
  <2>2. \A x \in DOMAIN peace_refusals' : at_war(x[1], x[2])'
    <3> SUFFICES ASSUME NEW x \in DOMAIN peace_refusals' PROVE at_war(x[1], x[2])' OBVIOUS
    <3>1. x \in DOMAIN peace_refusals /\ x # <<a, b>> /\ x # <<b, a>> BY <1>5
    <3>2. PICK m \in Nation, n \in Nation : x = <<m, n>> BY <3>1 DEF TypeOK, PartialMap, Key
    <3>3. at_war(m, n) BY <3>1, <3>2 DEF Safe, OffersOnOpenWars
    <3>4. <<m, n>> \in DOMAIN wars \/ <<n, m>> \in DOMAIN wars BY <3>3 DEF at_war, war_key
    <3>5. <<m, n>> # k /\ <<n, m>> # k BY <3>1, <3>2, <1>1
    <3>6. <<m, n>> \in DOMAIN wars' \/ <<n, m>> \in DOMAIN wars' BY <3>4, <3>5, <1>3
    <3> QED BY <3>2, <3>6 DEF at_war, war_key
  <2> QED BY <2>1, <2>2 DEF OffersOnOpenWars
<1>15. PendingOfferIsFresh'
       BY <1>4, <1>5, <1>10 DEF Safe, PendingOfferIsFresh, peace_offer_cooling
<1>16. TruceRemembered' BY <1>6, <1>7, <1>10 DEF Safe, TruceRemembered
<1> QED BY <1>11, <1>12, <1>13, <1>14, <1>15, <1>16 DEF Safe

LEMMA FieldSafe == ASSUME TypeOK, Safe, FieldNext PROVE Safe'
<1>1. ASSUME NEW a \in Nation, NEW b \in Nation, NEW p \in Province, open_tile_battle(a, b, p)
      PROVE  Safe'
  <2>1. UNCHANGED <<recordVars, current_econ_tick, corp_hostile_pairs>>
        BY <1>1 DEF open_tile_battle, stanceVars
  <2>2. \A e \in battles' : e \in battles \/ is_hostile(e.attacker, e.defender)
        BY <1>1 DEF open_tile_battle
  <2> QED BY <2>1, <2>2, QuietStep DEF is_hostile
<1>2. ASSUME NEW e \in battles, NEW la \in Lost, NEW ld \in Lost, note_war_battles(e, la, ld),
             UNCHANGED <<peace_offers, peace_refusals, truces, war_history, stanceVars,
                         current_econ_tick>>,
             battles' \subseteq battles
      PROVE  Safe'
  <2>1. /\ DOMAIN wars' = DOMAIN wars
        /\ \A k \in DOMAIN wars : wars'[k].answered = wars[k].answered
    <3> DEFINE key == war_key(e.attacker, e.defender)
    <3>1. CASE key \notin DOMAIN wars BY <1>2, <3>1 DEF note_war_battles
    <3>2. CASE key \in DOMAIN wars
      <4>1. wars[key] \in war_record BY <3>2 DEF TypeOK, PartialMap
      <4> QED BY <1>2, <3>2, <4>1 DEF note_war_battles, war_record, TypeOK, PartialMap
    <3> QED BY <3>1, <3>2
  <2>2. OneWarPerPair' BY <2>1 DEF Safe, OneWarPerPair
  <2>3. WarIsHostile' BY <1>2, <2>1 DEF Safe, WarIsHostile, is_hostile, stanceVars
  <2>4. TruceIsQuiet'
        BY <1>2, <2>1 DEF Safe, TruceIsQuiet, truce_between, is_hostile, between, stanceVars
  <2>5. OffersOnOpenWars' BY <1>2, <2>1 DEF Safe, OffersOnOpenWars, at_war, war_key
  <2>6. PendingOfferIsFresh' BY <1>2 DEF Safe, PendingOfferIsFresh, peace_offer_cooling
  <2>7. TruceRemembered' BY <1>2 DEF Safe, TruceRemembered
  <2> QED BY <2>2, <2>3, <2>4, <2>5, <2>6, <2>7 DEF Safe
<1>3. ASSUME NEW e \in battles, NEW la \in Lost, NEW ld \in Lost, battle_day(e, la, ld)
      PROVE  Safe'
      BY <1>2, <1>3 DEF battle_day, groundVars
<1>4. ASSUME NEW e \in battles, NEW la \in Lost, NEW ld \in Lost, NEW w \in Nation,
             NEW remains \in BOOLEAN, battle_concludes(e, la, ld, w, remains)
      PROVE  Safe'
      BY <1>2, <1>4 DEF battle_concludes
<1> QED BY <1>1, <1>3, <1>4 DEF FieldNext

LEMMA QuarterSafe == ASSUME TypeOK, Safe, run_war_quarter PROVE Safe'
<1>1. /\ DOMAIN truces' = {p \in DOMAIN truces : current_econ_tick + 1 < truces[p]}
      /\ \A p \in DOMAIN truces' : truces'[p] = truces[p]
      /\ current_econ_tick' = current_econ_tick + 1
  <2>1. \A p \in DOMAIN truces : truces[p] \in Nat BY DEF TypeOK, PartialMap
  <2>2. current_econ_tick \in Nat BY DEF TypeOK
  <2>3. \A p \in DOMAIN truces :
           truce_expired(p, current_econ_tick + 1) <=> ~(current_econ_tick + 1 < truces[p])
        BY <2>1, <2>2 DEF truce_expired
  <2> QED BY <2>1, <2>2, <2>3 DEF run_war_quarter, Erase
<1>2. UNCHANGED <<stanceVars, groundVars, wars, peace_offers, peace_refusals, war_history>>
      BY DEF run_war_quarter
<1>3. OneWarPerPair' BY <1>2 DEF Safe, OneWarPerPair
<1>4. WarIsHostile' BY <1>2 DEF Safe, WarIsHostile, is_hostile, stanceVars
<1>5. TruceIsQuiet'
  <2>1. current_econ_tick \in Nat /\ \A p \in DOMAIN truces : truces[p] \in Nat
        BY DEF TypeOK, PartialMap
  <2>2. \A a, b : truce_between(a, b)' => truce_between(a, b)
        BY <1>1, <2>1 DEF truce_between
  <2> QED BY <2>2, <1>2 DEF Safe, TruceIsQuiet, is_hostile, between, stanceVars, groundVars
<1>6. OffersOnOpenWars' BY <1>2 DEF Safe, OffersOnOpenWars, at_war, war_key
<1>7. PendingOfferIsFresh'
  <2>1. current_econ_tick \in Nat /\ \A p \in DOMAIN peace_refusals : peace_refusals[p] \in Nat
        BY DEF TypeOK, PartialMap
  <2>2. \A o, r : peace_offer_cooling(o, r)' => peace_offer_cooling(o, r)
        BY <1>1, <1>2, <2>1, TickAssumption DEF peace_offer_cooling
  <2> QED BY <2>2, <1>2 DEF Safe, PendingOfferIsFresh
<1>8. TruceRemembered'
  <2> SUFFICES ASSUME NEW p \in DOMAIN war_history
               PROVE  \/ current_econ_tick' >= war_history[p] + k_war_truce_ticks
                      \/ p \in DOMAIN truces' /\ truces'[p] = war_history[p] + k_war_truce_ticks
      BY <1>2 DEF TruceRemembered
  <2>1. war_history[p] \in Nat /\ current_econ_tick \in Nat BY DEF TypeOK, PartialMap
  <2> QED BY <2>1, <1>1, TickAssumption DEF Safe, TruceRemembered
<1> QED BY <1>3, <1>4, <1>5, <1>6, <1>7, <1>8 DEF Safe

LEMMA StepSafe == TypeOK /\ Safe /\ [Next]_vars => Safe'
<1> SUFFICES ASSUME TypeOK, Safe, [Next]_vars PROVE Safe' OBVIOUS
<1>1. CASE HostilityNext \/ FriendshipNext BY <1>1, StanceSafe
<1>2. CASE WarNext
  <2>1. PICK a \in Nation, b \in Nation :
           \/ \E g \in Goals : declare_war(a, b, g) \/ answer_war(a, b, g)
           \/ \E t \in peace_terms : offer_peace(a, b, t)
           \/ accept_peace(a, b)
        BY <1>2 DEF WarNext
  <2>2. CASE accept_peace(a, b)
    <3>1. war_key(a, b) \in Key /\ war_key(a, b) \in DOMAIN wars
          BY <2>2, KeyOfWar DEF accept_peace
    <3> QED BY <2>2, <3>1, ConcludeSafe DEF accept_peace
  <2> QED BY <2>1, <2>2, DeclareWarSafe, AnswerWarSafe, OfferSafe
<1>3. CASE PressNext
  <2>1. PICK a \in Nation, b \in Nation :
           refuse_peace(a, b) \/ \E t \in peace_terms : impose_peace(a, b, t)
        BY <1>3 DEF PressNext
  <2>2. ASSUME NEW t \in peace_terms, impose_peace(a, b, t) PROVE Safe'
    <3>1. war_key(a, b) \in Key /\ war_key(a, b) \in DOMAIN wars
          BY <2>2, KeyOfWar DEF impose_peace
    <3> QED BY <2>2, <3>1, ConcludeSafe DEF impose_peace
  <2> QED BY <2>1, <2>2, RefuseSafe
<1>4. CASE FieldNext BY <1>4, FieldSafe
<1>5. CASE run_war_quarter BY <1>5, QuarterSafe
<1>6. CASE UNCHANGED vars
      BY <1>6, QuietStep DEF vars, stanceVars, groundVars, is_hostile
<1> QED BY <1>1, <1>2, <1>3, <1>4, <1>5, <1>6 DEF Next, EnmityNext

(* The war tables agree with each other in every reachable state.          *)
THEOREM WarInvariant == Spec => []WarInv
<1>1. Init => WarInv BY InitType, InitSafe DEF Safe, WarInv
<1>2. WarInv /\ [Next]_vars => WarInv' BY StepType, StepSafe DEF Safe, WarInv
<1> QED BY <1>1, <1>2, PTL DEF Spec

-----------------------------------------------------------------------------
(* What a step never does, from the invariant of the state it leaves.      *)

WaitsOut == \A k \in DOMAIN wars' \ DOMAIN wars :
    {k[1], k[2]} \in DOMAIN war_history =>
        current_econ_tick >= war_history[{k[1], k[2]}] + k_war_truce_ticks

(* Only a declaration adds a war, and it finds no truce to break.          *)
LEMMA WarsGrow ==
    ASSUME [Next]_vars, NEW k \in DOMAIN wars' \ DOMAIN wars
    PROVE  \E a, b \in Nation : \E g \in Goals : k = <<a, b>> /\ declare_war(a, b, g)
<1>1. CASE wars' = wars BY <1>1
<1>2. CASE \E a, b \in Nation : \E g \in Goals : declare_war(a, b, g) \/ answer_war(a, b, g)
      BY <1>2 DEF declare_war, answer_war, Put
<1>3. ASSUME NEW key, NEW t, conclude_peace(key, t) PROVE FALSE
      BY <1>3 DEF conclude_peace, Erase
<1>4. ASSUME NEW b \in battles, NEW la \in Lost, NEW ld \in Lost, note_war_battles(b, la, ld)
      PROVE  FALSE
      BY <1>4 DEF note_war_battles
<1>5. CASE HostilityNext \/ FriendshipNext
      BY <1>1, <1>5 DEF HostilityNext, FriendshipNext, declare_hostile, return_to_neutral,
         offer_friendship, accept_friendship, recordVars
<1>6. CASE WarNext BY <1>1, <1>2, <1>3, <1>6 DEF WarNext, offer_peace, accept_peace
<1>7. CASE PressNext BY <1>1, <1>3, <1>7 DEF PressNext, refuse_peace, impose_peace
<1>8. CASE FieldNext
      BY <1>1, <1>4, <1>8 DEF FieldNext, open_tile_battle, battle_day, battle_concludes, recordVars
<1>9. CASE run_war_quarter BY <1>1, <1>9 DEF run_war_quarter
<1>10. CASE UNCHANGED vars BY <1>1, <1>10 DEF vars, recordVars
<1> QED BY <1>5, <1>6, <1>7, <1>8, <1>9, <1>10 DEF Next, EnmityNext

LEMMA WaitsOutStep == WarInv /\ [Next]_vars => WaitsOut
<1> SUFFICES ASSUME WarInv, [Next]_vars, NEW k \in DOMAIN wars' \ DOMAIN wars,
                    {k[1], k[2]} \in DOMAIN war_history
             PROVE  current_econ_tick >= war_history[{k[1], k[2]}] + k_war_truce_ticks
    BY DEF WaitsOut
<1>1. PICK a \in Nation, b \in Nation, g \in Goals : k = <<a, b>> /\ declare_war(a, b, g)
      BY WarsGrow
<1>2. ~truce_between(a, b) BY <1>1 DEF declare_war, declare_check
<1>3. war_history[{a, b}] \in Nat /\ current_econ_tick \in Nat
      BY <1>1 DEF WarInv, TypeOK, PartialMap
<1> QED BY <1>1, <1>2, <1>3, TickAssumption DEF WarInv, TruceRemembered, truce_between

(* No pair is at war again before its truce has run its course, for every  *)
(* length of truce.                                                        *)
THEOREM TruceOutlasted == Spec => TruceRunsItsCourse
<1>1. WarInv /\ [Next]_vars => [WaitsOut]_vars BY WaitsOutStep
<1> QED BY <1>1, WarInvariant, PTL DEF Spec, TruceRunsItsCourse, WaitsOut

-----------------------------------------------------------------------------
(* Ground moves by checked terms only.                                     *)

LEMMA GroundByTerms ==
    ASSUME WarInv, [Next]_vars, tile_owner' # tile_owner
    PROVE  \E key \in Key : \E t \in peace_terms :
              key \in DOMAIN wars /\ check_peace_terms(key, t) /\ conclude_peace(key, t)
<1>1. CASE HostilityNext \/ FriendshipNext
      BY <1>1 DEF HostilityNext, FriendshipNext, declare_hostile, return_to_neutral,
         offer_friendship, accept_friendship, groundVars
<1>2. CASE WarNext
  <2>1. PICK a \in Nation, b \in Nation : accept_peace(a, b)
        BY <1>2 DEF WarNext, declare_war, answer_war, offer_peace, groundVars
  <2>2. war_key(a, b) \in Key /\ war_key(a, b) \in DOMAIN wars
        BY <2>1, KeyOfWar DEF accept_peace, WarInv
  <2>3. peace_offers[war_key(a, b)].terms \in peace_terms
        BY <2>1 DEF accept_peace, WarInv, TypeOK, PartialMap, peace_offer
  <2> QED BY <2>1, <2>2, <2>3 DEF accept_peace
<1>3. CASE PressNext
  <2>1. PICK a \in Nation, b \in Nation, t \in peace_terms : impose_peace(a, b, t)
        BY <1>3 DEF PressNext, refuse_peace, groundVars
  <2>2. war_key(a, b) \in Key /\ war_key(a, b) \in DOMAIN wars
        BY <2>1, KeyOfWar DEF impose_peace, WarInv
  <2> QED BY <2>1, <2>2 DEF impose_peace
<1>4. CASE FieldNext
      BY <1>4 DEF FieldNext, open_tile_battle, battle_day, battle_concludes, groundVars
<1>5. CASE run_war_quarter \/ UNCHANGED vars BY <1>5 DEF run_war_quarter, vars, groundVars
<1> QED BY <1>1, <1>2, <1>3, <1>4, <1>5 DEF Next, EnmityNext

(* What checked terms give away: goals of the gainer, in its hands and in  *)
(* the loser's name, never all the loser has.                              *)
LEMMA CheckedTerms ==
    ASSUME TypeOK, NEW key \in Key, NEW t \in peace_terms, check_peace_terms(key, t),
           NEW p \in t.provinces
    PROVE  /\ t.gainer \in {key[1], key[2]} /\ loser_to(key, t.gainer) \in {key[1], key[2]}
           /\ loser_to(key, t.gainer) # t.gainer
           /\ {key[1], key[2]} = {loser_to(key, t.gainer), t.gainer}
           /\ p \in goals_of(key, t.gainer)
           /\ province_holder[p] = t.gainer /\ tile_owner[p] = loser_to(key, t.gainer)
           /\ leaves_ground(loser_to(key, t.gainer), t.provinces)
<1>1. t # white BY DEF white
<1>2. key[1] # key[2] BY DEF Key
<1> QED BY <1>1, <1>2 DEF check_peace_terms, loser_to

MovesByPeace == \A p \in Province : tile_owner'[p] # tile_owner[p] =>
    \E k \in Key : /\ Closes(k)
                   /\ {k[1], k[2]} = {tile_owner[p], tile_owner'[p]}
                   /\ p \in goals_of(k, tile_owner'[p])
                   /\ province_holder[p] = tile_owner'[p]

LEMMA MovesStep == WarInv /\ [Next]_vars => MovesByPeace
<1> SUFFICES ASSUME WarInv, [Next]_vars, NEW p \in Province, tile_owner'[p] # tile_owner[p]
             PROVE  \E k \in Key : /\ Closes(k)
                                   /\ {k[1], k[2]} = {tile_owner[p], tile_owner'[p]}
                                   /\ p \in goals_of(k, tile_owner'[p])
                                   /\ province_holder[p] = tile_owner'[p]
    BY DEF MovesByPeace
<1>1. PICK key \in Key, t \in peace_terms :
         key \in DOMAIN wars /\ check_peace_terms(key, t) /\ conclude_peace(key, t)
      BY GroundByTerms
<1>2. p \in t.provinces /\ tile_owner'[p] = t.gainer BY <1>1 DEF conclude_peace, Cede
<1>3. Closes(key) BY <1>1 DEF Closes, conclude_peace, Erase
<1> QED BY <1>1, <1>2, <1>3, CheckedTerms DEF WarInv

(* For any number of nations, wars and goals, ground changes nation only   *)
(* by a peace, from the owner that lost it to the goal's holder.           *)
THEOREM GroundMoves == Spec => GroundMovesByPeace
<1>1. WarInv /\ [Next]_vars => [MovesByPeace]_vars BY MovesStep
<1> QED BY <1>1, WarInvariant, PTL DEF Spec, GroundMovesByPeace, MovesByPeace

-----------------------------------------------------------------------------
KeepsGround == \A n \in Nation : provinces_owned(n) # {} => provinces_owned(n)' # {}

(* A cession leaves the loser a province, since it has more than it cedes. *)
LEMMA CessionLeaves ==
    ASSUME TypeOK, NEW key \in Key, NEW t \in peace_terms, check_peace_terms(key, t),
           NEW n \in Nation, provinces_owned(n) # {}
    PROVE  \E q \in provinces_owned(n) : q \notin t.provinces
<1> SUFFICES ASSUME provinces_owned(n) \subseteq t.provinces PROVE FALSE OBVIOUS
<1>1. PICK q : q \in provinces_owned(n) /\ q \in t.provinces OBVIOUS
<1>2. /\ tile_owner[q] = loser_to(key, t.gainer)
      /\ leaves_ground(loser_to(key, t.gainer), t.provinces)
      BY <1>1, CheckedTerms
<1>3. Cardinality(t.provinces) < Cardinality(provinces_owned(n))
      BY <1>1, <1>2 DEF leaves_ground, provinces_owned
<1>4. IsFiniteSet(t.provinces)
  <2>1. t.provinces \subseteq Province BY DEF peace_terms, white, Goals
  <2> QED BY <2>1, NationAssumption, FS_Subset
<1>5. /\ Cardinality(provinces_owned(n)) <= Cardinality(t.provinces)
      /\ Cardinality(provinces_owned(n)) \in Nat /\ Cardinality(t.provinces) \in Nat
      BY <1>4, FS_Subset, FS_CardinalityType
<1> QED BY <1>3, <1>5

LEMMA KeepsStep == WarInv /\ [Next]_vars => KeepsGround
<1> SUFFICES ASSUME WarInv, [Next]_vars, NEW n \in Nation, provinces_owned(n) # {}
             PROVE  provinces_owned(n)' # {}
    BY DEF KeepsGround
<1>1. CASE tile_owner' = tile_owner BY <1>1 DEF provinces_owned
<1>2. CASE tile_owner' # tile_owner
  <2>1. PICK key \in Key, t \in peace_terms :
           key \in DOMAIN wars /\ check_peace_terms(key, t) /\ conclude_peace(key, t)
        BY <1>2, GroundByTerms
  <2>2. PICK q \in provinces_owned(n) : q \notin t.provinces
        BY <2>1, CessionLeaves DEF WarInv
  <2>3. tile_owner'[q] = tile_owner[q]
        BY <2>1, <2>2 DEF conclude_peace, Cede, provinces_owned
  <2> QED BY <2>2, <2>3 DEF provinces_owned
<1> QED BY <1>1, <1>2

(* No nation is ever driven off the map by any sequence of wars.           *)
THEOREM NoNationVanishes == Spec => NationKeepsGround
<1>1. WarInv /\ [Next]_vars => [KeepsGround]_vars BY KeepsStep
<1> QED BY <1>1, WarInvariant, PTL DEF Spec, NationKeepsGround, KeepsGround

-----------------------------------------------------------------------------
ReturnsGoals == \A k \in Key : Closes(k) => \A p \in Province :
    /\ p \in wars[k].declarer_goals \cup wars[k].defender_goals =>
         ~(tile_owner'[p] # province_holder'[p]
           /\ {tile_owner'[p], province_holder'[p]} = {k[1], k[2]})
    /\ province_holder[p] \notin {k[1], k[2]} => province_holder'[p] = province_holder[p]

(* A war closes by a peace on terms checked in the same step.              *)
LEMMA ClosedByTerms ==
    ASSUME WarInv, [Next]_vars, NEW k \in Key, Closes(k)
    PROVE  \E t \in peace_terms : check_peace_terms(k, t) /\ conclude_peace(k, t)
<1>1. CASE wars' = wars BY <1>1 DEF Closes
<1>2. ASSUME NEW key, NEW t \in peace_terms, check_peace_terms(key, t), conclude_peace(key, t)
      PROVE  \E u \in peace_terms : check_peace_terms(k, u) /\ conclude_peace(k, u)
  <2>1. k = key BY <1>2 DEF Closes, conclude_peace, Erase
  <2> QED BY <1>2, <2>1
<1>3. CASE HostilityNext \/ FriendshipNext
      BY <1>1, <1>3 DEF HostilityNext, FriendshipNext, declare_hostile, return_to_neutral,
         offer_friendship, accept_friendship, recordVars
<1>4. CASE WarNext
  <2>1. PICK a \in Nation, b \in Nation :
           \/ \E g \in Goals : declare_war(a, b, g) \/ answer_war(a, b, g)
           \/ \E t \in peace_terms : offer_peace(a, b, t)
           \/ accept_peace(a, b)
        BY <1>4 DEF WarNext
  <2>2. CASE \E g \in Goals : declare_war(a, b, g) \/ answer_war(a, b, g)
        BY <2>2 DEF declare_war, answer_war, Put, Closes
  <2>3. CASE \E t \in peace_terms : offer_peace(a, b, t) BY <1>1, <2>3 DEF offer_peace
  <2>4. CASE accept_peace(a, b)
    <3>1. peace_offers[war_key(a, b)].terms \in peace_terms
          BY <2>4 DEF accept_peace, WarInv, TypeOK, PartialMap, peace_offer
    <3> QED BY <1>2, <2>4, <3>1 DEF accept_peace
  <2> QED BY <2>1, <2>2, <2>3, <2>4
<1>5. CASE PressNext BY <1>1, <1>2, <1>5 DEF PressNext, refuse_peace, impose_peace
<1>6. CASE FieldNext
  <2>1. ASSUME NEW b, NEW la, NEW ld, note_war_battles(b, la, ld) PROVE DOMAIN wars' = DOMAIN wars
        BY <2>1 DEF note_war_battles
  <2> QED BY <1>1, <1>6, <2>1
          DEF FieldNext, open_tile_battle, battle_day, battle_concludes, recordVars, Closes
<1>7. CASE run_war_quarter \/ UNCHANGED vars
      BY <1>1, <1>7 DEF run_war_quarter, vars, recordVars
<1> QED BY <1>3, <1>4, <1>5, <1>6, <1>7 DEF Next, EnmityNext

LEMMA ReturnsStep == WarInv /\ [Next]_vars => ReturnsGoals
<1> SUFFICES ASSUME WarInv, [Next]_vars, NEW k \in Key, Closes(k), NEW p \in Province
             PROVE  /\ p \in wars[k].declarer_goals \cup wars[k].defender_goals =>
                         ~(tile_owner'[p] # province_holder'[p]
                           /\ {tile_owner'[p], province_holder'[p]} = {k[1], k[2]})
                    /\ province_holder[p] \notin {k[1], k[2]} =>
                         province_holder'[p] = province_holder[p]
    BY DEF ReturnsGoals
<1>1. PICK t \in peace_terms : check_peace_terms(k, t) /\ conclude_peace(k, t)
      BY ClosedByTerms
<1> DEFINE owner == Cede(tile_owner, t)
           holder == Cede(province_holder, t)
           returned == occupied_goals(k, owner, holder)
<1>2. tile_owner'[p] = owner[p]
      BY <1>1 DEF conclude_peace
<1>3. province_holder'[p] = IF p \in returned THEN owner[p] ELSE holder[p]
      BY <1>1 DEF conclude_peace
<1>4. CASE p \in t.provinces
  <2>1. province_holder[p] \in {k[1], k[2]} BY <1>1, <1>4, CheckedTerms DEF WarInv
  <2>2. owner[p] = t.gainer /\ holder[p] = t.gainer BY <1>4 DEF Cede
  <2> QED BY <1>2, <1>3, <2>1, <2>2
<1>5. CASE p \notin t.provinces
  <2>1. owner[p] = tile_owner[p] /\ holder[p] = province_holder[p] BY <1>5 DEF Cede
  <2> QED BY <1>2, <1>3, <2>1 DEF occupied_goals
<1> QED BY <1>4, <1>5

(* However many wars overlap, a peace returns the goals of its own war and *)
(* leaves a third nation's hold alone.                                     *)
THEOREM GoalsReturn == Spec => PeaceReturnsGoals
<1>1. WarInv /\ [Next]_vars => [ReturnsGoals]_vars BY ReturnsStep
<1> QED BY <1>1, WarInvariant, PTL DEF Spec, PeaceReturnsGoals, ReturnsGoals

-----------------------------------------------------------------------------
WaitsBetween == \A k \in DOMAIN peace_refusals \cap DOMAIN peace_refusals' :
    peace_refusals'[k] # peace_refusals[k] =>
        peace_refusals'[k] - peace_refusals[k] >= k_war_offer_cooldown_ticks

(* Only a refusal rewrites a refusal's tick.                               *)
LEMMA RefusedAgain ==
    ASSUME WarInv, [Next]_vars, NEW k \in DOMAIN peace_refusals \cap DOMAIN peace_refusals',
           peace_refusals'[k] # peace_refusals[k]
    PROVE  \E a, b \in Nation : k = <<b, a>> /\ refuse_peace(a, b)
<1>1. CASE peace_refusals' = peace_refusals BY <1>1
<1>2. ASSUME NEW key, NEW t, conclude_peace(key, t) PROVE FALSE
      BY <1>2 DEF conclude_peace, Erase
<1>3. CASE HostilityNext \/ FriendshipNext
      BY <1>1, <1>3 DEF HostilityNext, FriendshipNext, declare_hostile, return_to_neutral,
         offer_friendship, accept_friendship, recordVars
<1>4. CASE WarNext
      BY <1>1, <1>2, <1>4 DEF WarNext, declare_war, answer_war, offer_peace, accept_peace
<1>5. CASE PressNext BY <1>2, <1>5 DEF PressNext, refuse_peace, impose_peace, Put
<1>6. CASE FieldNext
      BY <1>1, <1>6 DEF FieldNext, open_tile_battle, battle_day, battle_concludes, recordVars
<1>7. CASE run_war_quarter \/ UNCHANGED vars
      BY <1>1, <1>7 DEF run_war_quarter, vars, recordVars
<1> QED BY <1>3, <1>4, <1>5, <1>6, <1>7 DEF Next, EnmityNext

LEMMA WaitsBetweenStep == WarInv /\ [Next]_vars => WaitsBetween
<1> SUFFICES ASSUME WarInv, [Next]_vars,
                    NEW k \in DOMAIN peace_refusals \cap DOMAIN peace_refusals',
                    peace_refusals'[k] # peace_refusals[k]
             PROVE  peace_refusals'[k] - peace_refusals[k] >= k_war_offer_cooldown_ticks
    BY DEF WaitsBetween
<1>1. PICK a \in Nation, b \in Nation : k = <<b, a>> /\ refuse_peace(a, b) BY RefusedAgain
<1>2. /\ war_key(a, b) \in DOMAIN peace_offers
      /\ peace_offers[war_key(a, b)].offerer = b
      BY <1>1 DEF refuse_peace
<1>3. ~peace_offer_cooling(b, a)
      BY <1>2 DEF WarInv, PendingOfferIsFresh, war_key
<1>4. peace_refusals'[k] = current_econ_tick
      BY <1>1 DEF refuse_peace, Put, refusal_tick
<1>5. peace_refusals[k] \in Nat /\ current_econ_tick \in Nat
      BY DEF WarInv, TypeOK, PartialMap
<1> QED BY <1>1, <1>3, <1>4, <1>5, TickAssumption DEF peace_offer_cooling

(* For every length of cooldown, a side is refused at most once in it.     *)
THEOREM RefusalsWait == Spec => RefusedOfferWaits
<1>1. WarInv /\ [Next]_vars => [WaitsBetween]_vars BY WaitsBetweenStep
<1> QED BY <1>1, WarInvariant, PTL DEF Spec, RefusedOfferWaits, WaitsBetween

(* No truce is cut short and no cooldown passed over, however long each is.*)
THEOREM TermsWaited == Spec => TermsRunOut
BY TruceOutlasted, RefusalsWait DEF TermsRunOut

-----------------------------------------------------------------------------
(* The parts of the invariant, by name.                                    *)

(* One record to a pair, hostility under every war, and no offer or        *)
(* refusal without one.                                                    *)
THEOREM WarTablesAgree == Spec => []WarTables
<1>1. WarInv => WarTables BY DEF WarInv, WarTables
<1> QED BY <1>1, WarInvariant, PTL

(* A truce leaves no war, no hostility and no battle of its pair.          *)
THEOREM TrucesAreQuiet == Spec => []TruceIsQuiet
BY WarInvariant, PTL DEF WarInv

=============================================================================
