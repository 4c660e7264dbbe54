---------------------------- MODULE FieldProofs ----------------------------
(***************************************************************************)
(* Proofs about Field for every map, every set of nations and units and    *)
(* every bound: units of two nations never share a tile.                   *)
(*                                                                         *)
(* A battle's sides move as sides, on one reading of the tiles foreign to  *)
(* the side's nation, so the law about tiles rests on a law about lists:   *)
(* whoever a battle lists, or an attack names, is of the nation it fights  *)
(* for.                                                                    *)
(***************************************************************************)
EXTENDS Field, WellFoundedInduction, SequenceTheorems, TLAPS

UnitMap(us) == DOMAIN us \subseteq Units /\ us \in [DOMAIN us -> unit]
BattleMap(bs) == DOMAIN bs \subseteq battle_key /\ bs \in [DOMAIN bs -> battle]

OneNation(us) == \A u, v \in standing(us) : us[u].position = us[v].position => owner[u] = owner[v]

\* A battle lists, on either side, units of that side's nation.
SidesOwn(bs) ==
    \A k \in DOMAIN bs : /\ \A u \in bs[k].attacker_units : owner[u] = k.attacker
                         /\ \A u \in bs[k].defender_units : owner[u] = k.defender
AttackersOwn == \A a \in attacks : owner[a.unit] = a.key.attacker

\* The loops of the pass are done with before the day is; a unit still to march has a route.
Drained ==
    /\ phase \in {"idle", "open"} => todo = {}
    /\ phase = "march" => \A u \in todo : units[u].order # halted

Inv == TypeOK /\ OneNation(units) /\ SidesOwn(battles) /\ AttackersOwn /\ Drained

-----------------------------------------------------------------------------
(* What the helpers return.                                                *)
(* A set of ids that is not empty has a least one, and `least' is it.      *)
LEMMA LeastOf ==
    ASSUME NEW S, S \subseteq Nat, S # {}
    PROVE  least(S) \in S
<1> DEFINE below == {ss \in Nat \X Nat : ss[1] < ss[2]}
<1>1. IsWellFoundedOn(below, Nat) BY NatLessThanWellFounded DEF OpToRel
<1>2. PICK x \in S : \A y \in S : <<y, x>> \notin below
  <2> HIDE DEF below
  <2> QED BY <1>1, WFMin
<1>3. ASSUME NEW y \in S PROVE x <= y
  <2>1. x \in Nat /\ y \in Nat /\ <<y, x>> \in Nat \X Nat OBVIOUS
  <2>2. ~ <<y, x>>[1] < <<y, x>>[2] BY <1>2, <2>1
  <2> QED BY <2>1, <2>2
<1> QED BY <1>3 DEF least

(* Moving units keeps a table of units, who is in it and who stands.       *)
LEMMA MovedType ==
    ASSUME NEW us, UnitMap(us), NEW gone, NEW to, \A u \in gone \cap DOMAIN us : to[u] \in Tiles
    PROVE  /\ UnitMap(moved(us, gone, to))
           /\ DOMAIN moved(us, gone, to) = DOMAIN us
           /\ standing(moved(us, gone, to)) = standing(us)
<1> DEFINE ms == moved(us, gone, to)
<1>1. DOMAIN ms = DOMAIN us BY DEF moved
<1>2. ASSUME NEW u \in DOMAIN us
      PROVE  ms[u] \in unit /\ ms[u].state = us[u].state
  <2>1. us[u] \in unit BY DEF UnitMap
  <2>2. halted \in Seq(Tiles) BY DEF halted
  <2>3. ms[u] = IF u \in gone THEN [us[u] EXCEPT !.position = to[u], !.order = halted] ELSE us[u]
        BY DEF moved
  <2> QED BY <2>1, <2>2, <2>3 DEF unit
<1>3. UnitMap(ms)
  <2>1. ms = [u \in DOMAIN ms |-> ms[u]] BY DEF moved
  <2> QED BY <1>1, <1>2, <2>1 DEF UnitMap
<1>4. standing(ms) = standing(us) BY <1>1, <1>2 DEF standing
<1> QED BY <1>1, <1>3, <1>4

(* A move of one nation's units, each to a tile no foreign unit stands on  *)
(* or nowhere, leaves one nation to a tile.                                *)
LEMMA MovedOneNation ==
    ASSUME NEW us, UnitMap(us), OneNation(us), NEW n, NEW gone, NEW to,
           \A u \in gone \cap DOMAIN us :
              /\ owner[u] = n /\ to[u] \in Tiles
              /\ to[u] \notin foreign_held_tiles(us, n) \/ to[u] = us[u].position
    PROVE  OneNation(moved(us, gone, to))
<1> DEFINE ms == moved(us, gone, to)
<1>1. standing(ms) = standing(us) BY MovedType
<1>2. \A u \in standing(us) : u \in DOMAIN us /\ us[u] \in unit BY DEF standing, UnitMap
<1>3. \A u \in standing(us) : ms[u].position = IF u \in gone THEN to[u] ELSE us[u].position
  <2> TAKE u \in standing(us)
  <2>1. ms[u] = IF u \in gone THEN [us[u] EXCEPT !.position = to[u], !.order = halted] ELSE us[u]
        BY <1>2 DEF moved
  <2> QED BY <1>2, <2>1 DEF unit
<1>4. ASSUME NEW u \in standing(us), NEW v \in standing(us),
             ms[u].position = ms[v].position, owner[u] # owner[v]
      PROVE  FALSE
  <2> HIDE DEF ms
  <2>1. \A x, y \in standing(us) : x \in gone /\ y \notin gone /\ owner[x] # owner[y]
                                      => to[x] # us[y].position
    <3> SUFFICES ASSUME NEW x \in standing(us), NEW y \in standing(us), x \in gone, y \notin gone,
                        owner[x] # owner[y], to[x] = us[y].position
                 PROVE  FALSE
        OBVIOUS
    <3>1. x \in gone \cap DOMAIN us BY <1>2
    <3>2. owner[x] = n BY <3>1
    <3>3. us[y].position \in foreign_held_tiles(us, n) BY <3>2 DEF foreign_held_tiles
    <3>4. to[x] = us[x].position BY <3>1, <3>3
    <3> QED BY <3>4 DEF OneNation
  <2>2. CASE u \in gone /\ v \in gone BY <1>2, <1>4, <2>2
  <2>3. CASE u \in gone /\ v \notin gone BY <1>3, <1>4, <2>1, <2>3
  <2>4. CASE u \notin gone /\ v \in gone BY <1>3, <1>4, <2>1, <2>4
  <2>5. CASE u \notin gone /\ v \notin gone BY <1>3, <1>4, <2>5 DEF OneNation
  <2> QED BY <2>2, <2>3, <2>4, <2>5
<1> HIDE DEF ms
<1> QED BY <1>1, <1>4 DEF OneNation, ms

(* A retreat goes to a tile no foreign unit stands on, or nowhere.         *)
LEMMA RetreatSafe ==
    ASSUME NEW us, UnitMap(us), NEW u \in DOMAIN us, NEW n, NEW p
    PROVE  LET to == retreat_tile(us, u, n, p)
           IN  to \in Tiles /\ (to \notin foreign_held_tiles(us, n) \/ to = us[u].position)
<1> DEFINE best == best_retreats(us, u, p, foreign_held_tiles(us, n))
<1>1. best \subseteq Tiles \ foreign_held_tiles(us, n) BY DEF best_retreats
<1>2. us[u].position \in Tiles BY DEF UnitMap, unit
<1>3. best # {} => least(best) \in best BY <1>1, LeastOf, IdAssumption
<1> QED BY <1>1, <1>2, <1>3 DEF retreat_tile

(* A side that retreats keeps one nation to a tile.                        *)
LEMMA RetreatOneNation ==
    ASSUME NEW us, UnitMap(us), OneNation(us), NEW n, NEW p, NEW gone,
           gone \subseteq DOMAIN us, \A u \in gone : owner[u] = n
    PROVE  LET ms == retreat_side(us, gone, n, p)
           IN  UnitMap(ms) /\ OneNation(ms) /\ DOMAIN ms = DOMAIN us /\ standing(ms) = standing(us)
<1> DEFINE to == [u \in gone |-> retreat_tile(us, u, n, p)]
<1>1. \A u \in gone \cap DOMAIN us :
         /\ owner[u] = n /\ to[u] \in Tiles
         /\ to[u] \notin foreign_held_tiles(us, n) \/ to[u] = us[u].position
      BY RetreatSafe
<1> HIDE DEF to
<1>2. OneNation(moved(us, gone, to)) BY <1>1, MovedOneNation
<1>3. /\ UnitMap(moved(us, gone, to)) /\ DOMAIN moved(us, gone, to) = DOMAIN us
      /\ standing(moved(us, gone, to)) = standing(us)
      BY <1>1, MovedType
<1> QED BY <1>2, <1>3 DEF retreat_side, to

(* Wear moves nobody and raises nobody from the dead.                      *)
DeadStayDead(us, S, may_be) == \A u \in S : us[u].state = "dead" => may_be[u] = {"dead"}

LEMMA WornType ==
    ASSUME NEW us, UnitMap(us), NEW S, S \subseteq DOMAIN us, NEW may_be,
           DeadStayDead(us, S, may_be), NEW ws \in worn(us, S, may_be)
    PROVE  /\ UnitMap(ws) /\ DOMAIN ws = DOMAIN us /\ standing(ws) \subseteq standing(us)
           /\ \A u \in DOMAIN us : ws[u].position = us[u].position /\ ws[u].order = us[u].order
<1>1. PICK f \in {g \in [S -> {"fit", "spent", "dead"}] : \A u \in S : g[u] \in may_be[u]} :
          ws = [u \in DOMAIN us |-> IF u \in S THEN [us[u] EXCEPT !.state = f[u]] ELSE us[u]]
      BY DEF worn
<1>2. ASSUME NEW u \in DOMAIN us
      PROVE  /\ ws[u] \in unit /\ ws[u].position = us[u].position /\ ws[u].order = us[u].order
             /\ us[u].state = "dead" => ws[u].state = "dead"
  <2>1. us[u] \in unit BY DEF UnitMap
  <2>2. CASE u \in S
    <3>1. ws[u] = [us[u] EXCEPT !.state = f[u]] BY <1>1, <2>2
    <3>2. f[u] \in {"fit", "spent", "dead"} /\ f[u] \in may_be[u] BY <1>1, <2>2
    <3>3. us[u].state = "dead" => f[u] = "dead" BY <2>2, <3>2 DEF DeadStayDead
    <3> QED BY <2>1, <3>1, <3>2, <3>3 DEF unit
  <2>3. CASE u \notin S BY <1>1, <2>1, <2>3
  <2> QED BY <2>2, <2>3
<1>3. DOMAIN ws = DOMAIN us BY <1>1
<1>4. UnitMap(ws)
  <2>1. ws = [u \in DOMAIN ws |-> ws[u]] BY <1>1
  <2> QED BY <1>2, <1>3, <2>1 DEF UnitMap
<1>5. standing(ws) \subseteq standing(us) BY <1>2, <1>3 DEF standing
<1> QED BY <1>2, <1>3, <1>4, <1>5

(* Where nobody moves and nobody new stands, the law keeps.                *)
LEMMA FewerOneNation ==
    ASSUME NEW us, NEW vs, OneNation(us), standing(vs) \subseteq standing(us),
           \A u \in standing(vs) : vs[u].position = us[u].position
    PROVE  OneNation(vs)
BY DEF OneNation

(* Striking ids from the lists keeps the battles, and whose the rest are.  *)
LEMMA StripType ==
    ASSUME NEW bs, BattleMap(bs), SidesOwn(bs), NEW gone
    PROVE  /\ BattleMap(strip_fighters(bs, gone)) /\ SidesOwn(strip_fighters(bs, gone))
           /\ DOMAIN strip_fighters(bs, gone) = DOMAIN bs
           /\ BattleMap(strip(bs, gone)) /\ SidesOwn(strip(bs, gone))
           /\ DOMAIN strip(bs, gone) = DOMAIN bs
<1> DEFINE kept == strip_fighters(bs, gone)
           all == strip(bs, gone)
<1>1. DOMAIN kept = DOMAIN bs /\ kept = [k \in DOMAIN kept |-> kept[k]] BY DEF strip_fighters
<1>2. ASSUME NEW k \in DOMAIN bs
      PROVE  /\ kept[k] \in battle
             /\ kept[k].attacker_units \subseteq bs[k].attacker_units
             /\ kept[k].defender_units \subseteq bs[k].defender_units
  <2>1. bs[k] \in battle BY DEF BattleMap
  <2>2. kept[k] = [bs[k] EXCEPT !.attacker_units = @ \ gone, !.defender_units = @ \ gone]
        BY DEF strip_fighters
  <2> QED BY <2>1, <2>2 DEF battle
<1>3. DOMAIN all = DOMAIN bs /\ all = [k \in DOMAIN all |-> all[k]] BY <1>1 DEF strip
<1>4. ASSUME NEW k \in DOMAIN bs
      PROVE  /\ all[k] \in battle
             /\ all[k].attacker_units = kept[k].attacker_units
             /\ all[k].defender_units = kept[k].defender_units
  <2>1. all[k] = [kept[k] EXCEPT !.attacking_units = @ \ gone] BY <1>1 DEF strip
  <2> QED BY <1>2, <2>1 DEF battle
<1> HIDE DEF kept, all
<1>5. BattleMap(kept) /\ SidesOwn(kept) BY <1>1, <1>2 DEF BattleMap, SidesOwn
<1>6. BattleMap(all) /\ SidesOwn(all) BY <1>2, <1>3, <1>4 DEF BattleMap, SidesOwn
<1> QED BY <1>1, <1>3, <1>5, <1>6 DEF kept, all

(* A march's route is a sequence of tiles with at least one hop.           *)
LEMMA RouteType ==
    ASSUME NEW from, NEW to, NEW blocked, NEW r \in march_path(from, to, blocked)
    PROVE  r \in Seq(Tiles) /\ r # halted
<1>1. r \in clear_routes(from, to, blocked) BY DEF march_path
<1>2. PICK x \in marches : r = x.route BY <1>1 DEF clear_routes
<1>3. PICK m \in Tiles \X Routes : x = [from |-> m[1], dest |-> m[2][Len(m[2])], route |-> m[2]]
      BY <1>2 DEF marches
<1>4. r \in Routes BY <1>2, <1>3
<1>5. PICK n \in 1 .. MAX_ROUTE : r \in [1 .. n -> Tiles] BY <1>4 DEF Routes
<1>6. n \in Nat /\ n > 0 BY <1>5, IdAssumption
<1>7. r \in Seq(Tiles) /\ Len(r) = n BY <1>5, <1>6
<1> QED BY <1>6, <1>7 DEF halted

-----------------------------------------------------------------------------
(* The invariant, step by step: first between days.                        *)
LEMMA InitInv == Init => Inv
<1> SUFFICES ASSUME Init PROVE Inv OBVIOUS
<1>1. \A u \in DOMAIN units : units[u] = [position |-> Deployed[u], state |-> "fit", order |-> halted]
      BY DEF Init
<1>2. halted \in Seq(Tiles) BY DEF halted
<1>3. DOMAIN units = DOMAIN Deployed /\ DOMAIN units \subseteq Units BY ForceAssumption DEF Init
<1>4. UnitMap(units)
  <2>1. \A u \in DOMAIN units : units[u] \in unit BY <1>1, <1>2, <1>3, ForceAssumption DEF unit
  <2>2. units = [u \in DOMAIN units |-> units[u]] BY DEF Init
  <2> QED BY <1>3, <2>1, <2>2 DEF UnitMap
<1>5. OneNation(units)
  <2>1. \A u \in standing(units) : u \in DOMAIN Deployed /\ units[u].position = Deployed[u]
        BY <1>1, <1>3 DEF standing
  <2> QED BY <2>1, ForceAssumption DEF OneNation
<1>6. BattleMap(battles) /\ SidesOwn(battles) BY DEF Init, BattleMap, SidesOwn
<1>7. province_holder \in [Provinces -> Nations] BY GroundAssumption DEF Init
<1>8. musters \subseteq Units \ DOMAIN units BY <1>3, ForceAssumption DEF Init
<1>9. corp_hostile_pairs \subseteq Nations \X Nations BY IdAssumption DEF Init
<1>10. TypeOK BY <1>4, <1>6, <1>7, <1>8, <1>9 DEF Init, TypeOK, UnitMap, BattleMap
<1> QED BY <1>5, <1>6, <1>10 DEF Init, Inv, AttackersOwn, Drained

LEMMA MarchUnitInv == ASSUME Inv, NEW u \in DOMAIN units, NEW t \in Tiles, march_unit(u, t) PROVE Inv'
<1>1. PICK r \in march_path(units[u].position, t, foreign_held_tiles(units, owner[u])) :
          units' = [units EXCEPT ![u].order = r]
      BY DEF march_unit
<1>2. r \in Seq(Tiles) BY <1>1, RouteType
<1>3. UnitMap(units') /\ DOMAIN units' = DOMAIN units BY <1>1, <1>2 DEF Inv, TypeOK, UnitMap, unit
<1>4. \A v \in DOMAIN units : units'[v].position = units[v].position /\ units'[v].state = units[v].state
      BY <1>1 DEF Inv, TypeOK, unit
<1>5. OneNation(units') BY <1>3, <1>4 DEF Inv, OneNation, standing
<1>6. TypeOK' BY <1>3 DEF Inv, TypeOK, UnitMap, march_unit, between_days, walk
<1> QED BY <1>5, <1>6 DEF Inv, AttackersOwn, Drained, march_unit, between_days

LEMMA HaltUnitInv == ASSUME Inv, NEW u \in DOMAIN units, halt_unit(u) PROVE Inv'
<1>1. units' = [units EXCEPT ![u].order = halted] /\ halted \in Seq(Tiles) BY DEF halt_unit, halted
<1>2. UnitMap(units') /\ DOMAIN units' = DOMAIN units BY <1>1 DEF Inv, TypeOK, UnitMap, unit
<1>3. \A v \in DOMAIN units : units'[v].position = units[v].position /\ units'[v].state = units[v].state
      BY <1>1 DEF Inv, TypeOK, unit
<1>4. OneNation(units') BY <1>2, <1>3 DEF Inv, OneNation, standing
<1>5. TypeOK' BY <1>2 DEF Inv, TypeOK, UnitMap, halt_unit, between_days, walk
<1> QED BY <1>4, <1>5 DEF Inv, AttackersOwn, Drained, halt_unit, between_days

LEMMA DisbandUnitInv == ASSUME Inv, NEW u \in DOMAIN units, disband_unit(u) PROVE Inv'
<1>1. DOMAIN units' = DOMAIN units \ {u} /\ \A v \in DOMAIN units' : units'[v] = units[v]
      BY DEF disband_unit
<1>2. units' = [v \in DOMAIN units' |-> units'[v]] BY DEF disband_unit
<1>3. UnitMap(units') BY <1>1, <1>2 DEF Inv, TypeOK, UnitMap
<1>4. OneNation(units') BY <1>1 DEF Inv, OneNation, standing
<1>5. todo = {} BY DEF disband_unit, between_days, Inv, Drained
<1>6. TypeOK' BY <1>1, <1>3, <1>5 DEF Inv, TypeOK, UnitMap, disband_unit, between_days, walk
<1> QED BY <1>4, <1>5, <1>6 DEF Inv, AttackersOwn, Drained, disband_unit, between_days

LEMMA WithdrawRequestInv ==
    ASSUME Inv, NEW k \in DOMAIN battles, NEW s \in side, request_withdraw(k, s) PROVE Inv'
<1>1. battles' = [battles EXCEPT ![k].withdraw_requested = s] BY DEF request_withdraw
<1>2. BattleMap(battles') /\ DOMAIN battles' = DOMAIN battles
      BY <1>1 DEF Inv, TypeOK, BattleMap, battle
<1>3. \A j \in DOMAIN battles : /\ battles'[j].attacker_units = battles[j].attacker_units
                                /\ battles'[j].defender_units = battles[j].defender_units
      BY <1>1 DEF Inv, TypeOK, battle
<1>4. SidesOwn(battles') BY <1>2, <1>3 DEF Inv, SidesOwn
<1>5. TypeOK' BY <1>2 DEF Inv, TypeOK, BattleMap, request_withdraw, between_days, walk
<1> QED BY <1>4, <1>5 DEF Inv, AttackersOwn, Drained, request_withdraw, between_days

LEMMA HostilityInv ==
    ASSUME Inv, NEW a \in Nations, NEW b \in Nations, declare_hostile(a, b) \/ return_to_neutral(a, b)
    PROVE  Inv'
<1>1. corp_hostile_pairs' \subseteq Nations \X Nations
      BY DEF Inv, TypeOK, declare_hostile, return_to_neutral
<1>2. TypeOK' BY <1>1 DEF Inv, TypeOK, declare_hostile, return_to_neutral, between_days, walk
<1> QED BY <1>2 DEF Inv, AttackersOwn, Drained, declare_hostile, return_to_neutral, between_days

LEMMA MusterInv == ASSUME Inv, NEW u \in Units, advance_musters(u) PROVE Inv'
<1> DEFINE new == [position |-> muster_base[u], state |-> "fit", order |-> halted]
<1>1. /\ DOMAIN units' = DOMAIN units \cup {u} /\ u \notin DOMAIN units
      /\ units'[u] = new /\ \A v \in DOMAIN units : units'[v] = units[v]
      BY DEF Inv, TypeOK, advance_musters
<1>2. new \in unit BY ForceAssumption DEF unit, halted
<1>3. units' = [v \in DOMAIN units' |-> units'[v]] BY DEF advance_musters
<1>4. UnitMap(units') BY <1>1, <1>2, <1>3 DEF Inv, TypeOK, UnitMap
<1>5. OneNation(units')
  <2>1. \A v \in standing(units') \ {u} : v \in standing(units) /\ units'[v].position = units[v].position
        BY <1>1 DEF standing
  <2>2. \A v \in standing(units) : units[v].position = muster_base[u] => owner[v] = owner[u]
        BY DEF advance_musters, foreign_held_tiles
  <2>3. units'[u].position = muster_base[u] BY <1>1
  <2> QED BY <2>1, <2>2, <2>3 DEF Inv, OneNation
<1>6. TypeOK' BY <1>1, <1>4 DEF Inv, TypeOK, UnitMap, advance_musters, between_days, walk
<1> QED BY <1>5, <1>6 DEF Inv, AttackersOwn, Drained, advance_musters, between_days

(* Peace and the walk home.                                                *)
LEMMA PeaceInv ==
    ASSUME Inv, NEW a \in Nations, NEW b \in Nations, NEW goals \in SUBSET Provinces, conclude_peace(a, b, goals)
    PROVE  Inv'
<1>1. DOMAIN battles' \subseteq DOMAIN battles /\ \A k \in DOMAIN battles' : battles'[k] = battles[k]
      BY DEF conclude_peace
<1>2. battles' = [k \in DOMAIN battles' |-> battles'[k]] BY DEF conclude_peace
<1>3. BattleMap(battles') BY <1>1, <1>2 DEF Inv, TypeOK, BattleMap
<1>4. SidesOwn(battles') BY <1>1 DEF Inv, SidesOwn
<1>5. province_holder' \in [Provinces -> Nations] BY GroundAssumption DEF Inv, TypeOK, conclude_peace
<1>6. corp_hostile_pairs' \subseteq Nations \X Nations BY DEF Inv, TypeOK, conclude_peace
<1>7. todo' \subseteq DOMAIN units' BY DEF conclude_peace, standing
<1>8. leave' \subseteq Provinces /\ phase' = "withdraw" /\ said' \in Nat /\ day' = day
      BY DEF Inv, TypeOK, conclude_peace
<1>9. TypeOK' BY <1>3, <1>5, <1>6, <1>7, <1>8 DEF Inv, TypeOK, BattleMap, conclude_peace
<1> QED BY <1>4, <1>8, <1>9 DEF Inv, AttackersOwn, Drained, conclude_peace

LEMMA WithdrawInv == ASSUME Inv, NEW u \in todo, withdraw_units(u) PROVE Inv'
<1> DEFINE here == units[u].position
           barred == foreign_held_tiles(units, owner[u]) \cup visited
           steps == best_retreats(units, u, province_of[here], barred)
<1>1. u \in DOMAIN units /\ UnitMap(units) /\ BattleMap(battles) /\ here \in Tiles
      BY DEF Inv, TypeOK, UnitMap, BattleMap, withdraw_units, unit
<1>2. phase = "withdraw" /\ phase' = phase /\ attacks' = attacks BY DEF withdraw_units
<1>3. CASE UNCHANGED <<units, battles>>
  <2>1. todo' \subseteq todo /\ visited' \subseteq Tiles
        BY <1>1 DEF Inv, TypeOK, withdraw_units
  <2>2. TypeOK' BY <1>2, <1>3, <2>1 DEF Inv, TypeOK, withdraw_units
  <2> QED BY <1>2, <1>3, <2>2 DEF Inv, AttackersOwn, Drained
<1>4. ASSUME NEW n \in steps, units' = moved(units, {u}, [v \in {u} |-> n]), battles' = strip(battles, {u}),
             visited' = visited \cup {here}, todo' = todo
      PROVE  Inv'
  <2> DEFINE to == [v \in {u} |-> n]
  <2>1. n \in Tiles /\ n \notin foreign_held_tiles(units, owner[u]) BY DEF best_retreats
  <2>2. \A v \in {u} \cap DOMAIN units :
           /\ owner[v] = owner[u] /\ to[v] \in Tiles
           /\ to[v] \notin foreign_held_tiles(units, owner[u]) \/ to[v] = units[v].position
        BY <2>1
  <2> HIDE DEF to
  <2>3. OneNation(moved(units, {u}, to)) BY <1>1, <2>2, MovedOneNation DEF Inv
  <2>4. UnitMap(moved(units, {u}, to)) /\ DOMAIN moved(units, {u}, to) = DOMAIN units
        BY <1>1, <2>2, MovedType
  <2>5. UnitMap(units') /\ DOMAIN units' = DOMAIN units /\ OneNation(units') BY <1>4, <2>3, <2>4 DEF to
  <2>6. BattleMap(battles') /\ SidesOwn(battles') BY <1>1, <1>4, StripType DEF Inv
  <2>7. visited' \subseteq Tiles BY <1>1, <1>4 DEF Inv, TypeOK
  <2>8. TypeOK' BY <1>2, <1>4, <2>5, <2>6, <2>7 DEF Inv, TypeOK, UnitMap, BattleMap, withdraw_units
  <2> QED BY <1>2, <2>5, <2>6, <2>8 DEF Inv, AttackersOwn, Drained
<1>5. QED BY <1>3, <1>4 DEF withdraw_units

LEMMA WithdrawnInv == ASSUME Inv, withdrawn PROVE Inv'
<1>1. TypeOK' BY DEF Inv, TypeOK, withdrawn, world
<1> QED BY <1>1 DEF Inv, AttackersOwn, Drained, withdrawn, world

-----------------------------------------------------------------------------
(* The military pass.                                                      *)
LEMMA BeginDayInv == ASSUME Inv, begin_day PROVE Inv'
<1>1. TypeOK' BY DEF Inv, TypeOK, begin_day, world, walk
<1> QED BY <1>1 DEF Inv, AttackersOwn, Drained, begin_day, world

(* The rounds of a day, withdrawal or not.                                 *)
LEMMA RoundsType ==
    ASSUME Inv, NEW k \in DOMAIN battles, NEW hit \in rounds_fought(units, battles[k])
    PROVE  /\ UnitMap(hit) /\ OneNation(hit) /\ DOMAIN hit = DOMAIN units
           /\ standing(hit) \subseteq standing(units)
           /\ \A u \in DOMAIN units : /\ hit[u].position = units[u].position
                                      /\ hit[u].order = units[u].order
<1> DEFINE b == battles[k]
           fought == listed(b) \cap DOMAIN units
           left == (IF b.withdraw_requested = "attacker" THEN b.attacker_units ELSE b.defender_units) \cap DOMAIN units
           in_rounds == [u \in fought |-> worse(units[u].state)]
           on_leaving == [u \in left |-> {units[u].state, "dead"}]
<1>1. UnitMap(units) BY DEF Inv, TypeOK, UnitMap
<1>2. fought \subseteq DOMAIN units /\ DeadStayDead(units, fought, in_rounds) BY DEF worse, DeadStayDead
<1>3. left \subseteq DOMAIN units /\ DeadStayDead(units, left, on_leaving) BY DEF DeadStayDead
<1>4. hit \in worn(units, fought, in_rounds) \/ hit \in worn(units, left, on_leaving)
      BY DEF rounds_fought
<1> HIDE DEF fought, left, in_rounds, on_leaving
<1>5. /\ UnitMap(hit) /\ DOMAIN hit = DOMAIN units /\ standing(hit) \subseteq standing(units)
      /\ \A u \in DOMAIN units : /\ hit[u].position = units[u].position
                                 /\ hit[u].order = units[u].order
  <2>1. CASE hit \in worn(units, fought, in_rounds) BY <1>1, <1>2, <2>1, WornType
  <2>2. CASE hit \in worn(units, left, on_leaving) BY <1>1, <1>3, <2>2, WornType
  <2> QED BY <1>4, <2>1, <2>2
<1>6. \A u \in standing(hit) : hit[u].position = units[u].position BY <1>5 DEF standing
<1> QED BY <1>5, <1>6, FewerOneNation DEF Inv

(* The stack that takes the tile is one nation's, and takes it empty.      *)
LEMMA AdvanceType ==
    ASSUME NEW us, UnitMap(us), OneNation(us), NEW k \in battle_key, NEW b,
           \A u \in b.attacker_units : owner[u] = k.attacker
    PROVE  UnitMap(advance(us, k, b)) /\ OneNation(advance(us, k, b)) /\ DOMAIN advance(us, k, b) = DOMAIN us
<1> DEFINE gone == b.attacking_units \cap b.attacker_units \cap standing(us)
           to == [u \in b.attacking_units |-> k.tile]
<1>1. CASE k.tile \in foreign_held_tiles(us, k.attacker) BY <1>1 DEF advance
<1>2. CASE k.tile \notin foreign_held_tiles(us, k.attacker)
  <2>1. \A u \in gone \cap DOMAIN us :
           /\ owner[u] = k.attacker /\ to[u] \in Tiles
           /\ to[u] \notin foreign_held_tiles(us, k.attacker) \/ to[u] = us[u].position
        BY <1>2 DEF battle_key
  <2>2. advance(us, k, b) = moved(us, gone, to) BY <1>2 DEF advance
  <2> HIDE DEF gone, to
  <2>3. OneNation(moved(us, gone, to)) BY <2>1, MovedOneNation
  <2>4. UnitMap(moved(us, gone, to)) /\ DOMAIN moved(us, gone, to) = DOMAIN us BY <2>1, MovedType
  <2> QED BY <2>2, <2>3, <2>4
<1> QED BY <1>1, <1>2

LEMMA BattleDayInv == ASSUME Inv, NEW k \in DOMAIN battles, battle_day(k) PROVE Inv'
<1> DEFINE b == battles[k]
           left == b.withdraw_requested
           p == province_of[k.tile]
<1>1. /\ UnitMap(units) /\ BattleMap(battles) /\ SidesOwn(battles)
      /\ k \in battle_key /\ b \in battle /\ k.tile \in Tiles /\ k.attacker \in Nations /\ k.defender \in Nations
      BY DEF Inv, TypeOK, UnitMap, BattleMap, battle_key
<1>2. PICK hit \in rounds_fought(units, b) :
        LET ended == \/ left # "none"
                     \/ ~can_fight(hit, b.attacker_units) \/ ~can_fight(hit, b.defender_units)
            won == ended /\ (left = "defender" \/ (left = "none" /\ can_fight(hit, b.attacker_units)))
            gone_a == leaving(hit, b.attacker_units, left = "attacker")
            after_a == retreat_side(hit, gone_a, k.attacker, p)
            gone_d == leaving(after_a, b.defender_units, left = "defender")
            after == retreat_side(after_a, gone_d, k.defender, p)
            kept == strip_fighters(battles, gone_a \cup gone_d)
            winner == IF won THEN k.attacker ELSE k.defender
            loser == IF won THEN k.defender ELSE k.attacker
            loser_remains == \E u \in standing(after) :
                                owner[u] = loser /\ province_of[after[u].position] = p
        IN  /\ units' = IF won THEN advance(after, k, kept[k]) ELSE after
            /\ battles' = [j \in IF ended THEN DOMAIN kept \ {k} ELSE DOMAIN kept |-> kept[j]]
            /\ province_holder' = IF ended /\ ~loser_remains
                                  THEN [province_holder EXCEPT ![p] = winner]
                                  ELSE province_holder
      BY DEF battle_day
<1> DEFINE ended == \/ left # "none"
                    \/ ~can_fight(hit, b.attacker_units) \/ ~can_fight(hit, b.defender_units)
           won == ended /\ (left = "defender" \/ (left = "none" /\ can_fight(hit, b.attacker_units)))
           gone_a == leaving(hit, b.attacker_units, left = "attacker")
           after_a == retreat_side(hit, gone_a, k.attacker, p)
           gone_d == leaving(after_a, b.defender_units, left = "defender")
           after == retreat_side(after_a, gone_d, k.defender, p)
           kept == strip_fighters(battles, gone_a \cup gone_d)
<1>3. UnitMap(hit) /\ OneNation(hit) /\ DOMAIN hit = DOMAIN units BY RoundsType
<1>4. gone_a \subseteq DOMAIN hit /\ \A u \in gone_a : owner[u] = k.attacker
      BY <1>1 DEF leaving, standing, SidesOwn
<1>5. UnitMap(after_a) /\ OneNation(after_a) /\ DOMAIN after_a = DOMAIN units
  <2> HIDE DEF gone_a
  <2> QED BY <1>3, <1>4, RetreatOneNation
<1>6. gone_d \subseteq DOMAIN after_a /\ \A u \in gone_d : owner[u] = k.defender
  <2> HIDE DEF after_a
  <2> QED BY <1>1 DEF leaving, standing, SidesOwn
<1>7. UnitMap(after) /\ OneNation(after) /\ DOMAIN after = DOMAIN units
  <2> HIDE DEF after_a, gone_d
  <2> QED BY <1>5, <1>6, RetreatOneNation
<1>8. BattleMap(kept) /\ SidesOwn(kept) /\ DOMAIN kept = DOMAIN battles
  <2> HIDE DEF gone_a, gone_d
  <2> QED BY <1>1, StripType
<1>9. UnitMap(units') /\ OneNation(units') /\ DOMAIN units' = DOMAIN units
  <2>1. units' = IF won THEN advance(after, k, kept[k]) ELSE after BY <1>2
  <2> HIDE DEF won, after, kept
  <2>2. \A u \in kept[k].attacker_units : owner[u] = k.attacker BY <1>8 DEF SidesOwn
  <2>3. /\ UnitMap(advance(after, k, kept[k])) /\ OneNation(advance(after, k, kept[k]))
        /\ DOMAIN advance(after, k, kept[k]) = DOMAIN after
        BY <1>1, <1>7, <2>2, AdvanceType
  <2> QED BY <1>7, <2>1, <2>3
<1>10. /\ BattleMap(battles') /\ SidesOwn(battles')
       /\ DOMAIN battles \ {k} \subseteq DOMAIN battles'
  <2>1. battles' = [j \in IF ended THEN DOMAIN kept \ {k} ELSE DOMAIN kept |-> kept[j]] BY <1>2
  <2> HIDE DEF ended, kept
  <2>2. DOMAIN battles' \subseteq DOMAIN kept /\ \A j \in DOMAIN battles' : battles'[j] = kept[j] BY <2>1
  <2>3. BattleMap(battles') BY <1>8, <2>1, <2>2 DEF BattleMap
  <2>4. SidesOwn(battles') BY <1>8, <2>2 DEF SidesOwn
  <2> QED BY <1>8, <2>1, <2>3, <2>4
<1>11. province_holder' \in [Provinces -> Nations]
  <2>1. \/ province_holder' = province_holder
        \/ province_holder' = [province_holder EXCEPT ![p] = k.attacker]
        \/ province_holder' = [province_holder EXCEPT ![p] = k.defender]
        BY <1>2
  <2>2. province_holder \in [Provinces -> Nations] BY DEF Inv, TypeOK
  <2> QED BY <1>1, <2>1, <2>2
<1>12. phase = "battles" /\ phase' = phase /\ todo' = todo \ {k} /\ attacks' = attacks BY DEF battle_day
<1>13. TypeOK'
  <2> HIDE DEF b, left, p
  <2>1. todo' \subseteq DOMAIN battles' BY <1>10, <1>12 DEF Inv, TypeOK
  <2>2. musters' = musters /\ corp_hostile_pairs' = corp_hostile_pairs /\ UNCHANGED <<leave, visited, day, said>>
        BY DEF battle_day, walk
  <2> QED BY <1>9, <1>10, <1>11, <1>12, <2>1, <2>2 DEF Inv, TypeOK, UnitMap, BattleMap
<1> QED BY <1>9, <1>10, <1>12, <1>13 DEF Inv, AttackersOwn, Drained

LEMMA DisbandOrphansInv == ASSUME Inv, disband_orphaned_units PROVE Inv'
<1> DEFINE hungry == Unsupplied \cap standing(units)
           may_be == [u \in hungry |-> worse(units[u].state)]
<1>1. UnitMap(units) /\ BattleMap(battles) /\ SidesOwn(battles) /\ OneNation(units)
      BY DEF Inv, TypeOK, UnitMap, BattleMap
<1>2. PICK fed \in worn(units, hungry, may_be) :
          LET kept == strip(battles, DOMAIN fed \ standing(fed))
          IN  /\ units' = [u \in standing(fed) |-> fed[u]]
              /\ battles' = kept
              /\ todo' = to_march(fed, kept)
      BY DEF disband_orphaned_units
<1>3. /\ UnitMap(fed) /\ DOMAIN fed = DOMAIN units /\ standing(fed) \subseteq standing(units)
      /\ \A u \in DOMAIN units : fed[u].position = units[u].position
  <2>1. hungry \subseteq DOMAIN units /\ DeadStayDead(units, hungry, may_be)
        BY DEF standing, DeadStayDead
  <2> HIDE DEF hungry, may_be
  <2> QED BY <1>1, <2>1, WornType
<1>4. DOMAIN units' = standing(fed) /\ standing(fed) \subseteq DOMAIN fed
      /\ \A u \in standing(fed) : units'[u] = fed[u]
      BY <1>2 DEF standing
<1>5. units' = [u \in DOMAIN units' |-> units'[u]] BY <1>2
<1>6. UnitMap(units') BY <1>3, <1>4, <1>5 DEF UnitMap
<1>7. OneNation(units')
  <2>1. standing(units') \subseteq standing(units) BY <1>3, <1>4 DEF standing
  <2>2. \A u \in standing(units') : units'[u].position = units[u].position
        BY <1>3, <1>4 DEF standing
  <2> QED BY <1>1, <2>1, <2>2, FewerOneNation
<1>8. BattleMap(battles') /\ SidesOwn(battles') BY <1>1, <1>2, StripType
<1>9. phase' = "march" /\ attacks' = attacks BY DEF disband_orphaned_units
<1>10. todo' \subseteq DOMAIN units' /\ \A u \in todo' : units'[u].order # halted
       BY <1>2, <1>4 DEF to_march
<1>11. DOMAIN units' \subseteq DOMAIN units BY <1>3, <1>4
<1>12. TypeOK'
       BY <1>6, <1>8, <1>9, <1>10, <1>11 DEF Inv, TypeOK, UnitMap, BattleMap, disband_orphaned_units, walk
<1> QED BY <1>7, <1>8, <1>9, <1>10, <1>12 DEF Inv, AttackersOwn, Drained

(* What a unit whose turn it is has before it.                             *)
LEMMA AheadType ==
    ASSUME Inv, NEW u \in todo, marching(u)
    PROVE  /\ u \in DOMAIN units /\ units[u] \in unit /\ units[u].order # halted
           /\ next_tile(u) \in Tiles /\ Tail(units[u].order) \in Seq(Tiles)
           /\ ~clear_ahead(u) => foreign_holder(u, next_tile(u)) \in Nations
<1>1. u \in DOMAIN units /\ units[u] \in unit /\ units[u].order # halted
      BY DEF Inv, TypeOK, Drained, marching
<1>2. units[u].order \in Seq(Tiles) BY <1>1 DEF unit
<1>3. next_tile(u) \in Tiles /\ Tail(units[u].order) \in Seq(Tiles) BY <1>1, <1>2 DEF next_tile, halted
<1>4. holders(u, next_tile(u)) \subseteq Nations
      BY ForceAssumption DEF holders, on_tile, standing, Inv, TypeOK
<1>5. ~clear_ahead(u) => foreign_holder(u, next_tile(u)) \in Nations
  <2> DEFINE hs == holders(u, next_tile(u))
             hostile == {n \in hs : is_hostile(owner[u], n)}
             from == IF hostile # {} THEN hostile ELSE hs
  <2>1. from \subseteq Nations /\ from \subseteq Nat BY <1>4, IdAssumption
  <2>2. ~clear_ahead(u) => from # {} BY DEF clear_ahead
  <2>3. foreign_holder(u, next_tile(u)) = least(from) BY DEF foreign_holder
  <2> HIDE DEF from
  <2> QED BY <2>1, <2>2, <2>3, LeastOf
<1> QED BY <1>1, <1>3, <1>5

(* Giving a unit another order moves nobody.                               *)
LEMMA OrderedType ==
    ASSUME Inv, NEW u \in DOMAIN units, NEW r \in Seq(Tiles), ordered(u, r)
    PROVE  /\ UnitMap(units') /\ OneNation(units') /\ DOMAIN units' = DOMAIN units
           /\ units'[u].order = r /\ \A v \in DOMAIN units \ {u} : units'[v] = units[v]
<1>1. units' = [units EXCEPT ![u].order = r] BY DEF ordered
<1>2. UnitMap(units') /\ DOMAIN units' = DOMAIN units BY <1>1 DEF Inv, TypeOK, UnitMap, unit
<1>3. /\ units'[u].order = r /\ \A v \in DOMAIN units \ {u} : units'[v] = units[v]
      /\ \A v \in DOMAIN units : units'[v].position = units[v].position /\ units'[v].state = units[v].state
      BY <1>1 DEF Inv, TypeOK, unit
<1>4. OneNation(units') BY <1>2, <1>3 DEF Inv, OneNation, standing
<1> QED BY <1>2, <1>3, <1>4

LEMMA MarchAttacksInv == ASSUME Inv, NEW u \in todo, march_attacks(u) PROVE Inv'
<1> DEFINE new == [key |-> [tile |-> next_tile(u), attacker |-> owner[u],
                           defender |-> foreign_holder(u, next_tile(u))],
                  unit |-> u, order |-> units[u].order]
<1>1. marching(u) /\ ~clear_ahead(u) BY DEF march_attacks, met_hostile
<1>2. /\ u \in DOMAIN units /\ units[u] \in unit /\ next_tile(u) \in Tiles
      /\ foreign_holder(u, next_tile(u)) \in Nations
      BY <1>1, AheadType
<1>3. u \in Units /\ owner[u] \in Nations BY <1>2, ForceAssumption DEF Inv, TypeOK
<1>4. new \in tile_attack /\ owner[new.unit] = new.key.attacker
      BY <1>2, <1>3 DEF tile_attack, battle_key, unit
<1>5. attacks' = attacks \cup {new} /\ todo' = todo \ {u} BY DEF march_attacks
<1>6. halted \in Seq(Tiles) /\ ordered(u, halted) BY DEF halted, march_attacks
<1>7. /\ UnitMap(units') /\ OneNation(units') /\ DOMAIN units' = DOMAIN units
      /\ \A v \in DOMAIN units \ {u} : units'[v] = units[v]
      BY <1>2, <1>6, OrderedType
<1> HIDE DEF new
<1>8. attacks' \subseteq tile_attack /\ AttackersOwn' BY <1>4, <1>5 DEF Inv, TypeOK, AttackersOwn
<1>9. phase = "march" /\ todo' \subseteq DOMAIN units BY <1>1, <1>5 DEF marching, Inv, TypeOK
<1>10. UNCHANGED <<battles, corp_hostile_pairs, province_holder, musters, phase, leave, visited, day, said>>
       BY <1>1 DEF marching, walk
<1>11. TypeOK' BY <1>7, <1>8, <1>9, <1>10 DEF Inv, TypeOK, UnitMap
<1>12. Drained' BY <1>5, <1>7, <1>9, <1>10 DEF Inv, TypeOK, Drained
<1> QED BY <1>7, <1>8, <1>10, <1>11, <1>12 DEF Inv

LEMMA MarchBlockedInv == ASSUME Inv, NEW u \in todo, march_blocked(u) PROVE Inv'
<1>1. marching(u) /\ UNCHANGED attacks BY DEF march_blocked
<1>2. u \in DOMAIN units BY <1>1, AheadType
<1>3. PICK r \in Seq(Tiles) : ordered(u, r) /\ ((r # halted /\ todo' = todo) \/ todo' = todo \ {u})
  <2> DEFINE rs == march_path(units[u].position, dest(u), foreign_held_tiles(units, owner[u]))
  <2>1. CASE \E r \in rs : ordered(u, r) /\ todo' = todo
    <3>1. PICK r \in rs : ordered(u, r) /\ todo' = todo BY <2>1
    <3>2. r \in Seq(Tiles) /\ r # halted BY RouteType
    <3> QED BY <3>1, <3>2
  <2>2. CASE ordered(u, halted) /\ todo' = todo \ {u}
    <3>1. halted \in Seq(Tiles) BY DEF halted
    <3> QED BY <2>2, <3>1
  <2> QED BY <2>1, <2>2 DEF march_blocked
<1>4. /\ UnitMap(units') /\ OneNation(units') /\ DOMAIN units' = DOMAIN units
      /\ units'[u].order = r /\ \A v \in DOMAIN units \ {u} : units'[v] = units[v]
      BY <1>2, <1>3, OrderedType
<1>5. phase = "march" /\ todo' \subseteq DOMAIN units /\ todo \subseteq DOMAIN units
      BY <1>1, <1>3 DEF marching, Inv, TypeOK
<1>6. UNCHANGED <<battles, corp_hostile_pairs, province_holder, musters, phase, leave, visited, day, said>>
      BY <1>1 DEF marching, walk
<1>7. TypeOK' BY <1>1, <1>4, <1>5, <1>6 DEF Inv, TypeOK, UnitMap
<1>8. Drained' BY <1>3, <1>4, <1>5, <1>6 DEF Inv, Drained
<1> QED BY <1>1, <1>4, <1>6, <1>7, <1>8 DEF Inv, AttackersOwn

LEMMA MarchStepsInv == ASSUME Inv, NEW u \in todo, march_steps(u) PROVE Inv'
<1> DEFINE n == next_tile(u)
<1>1. marching(u) /\ clear_ahead(u) /\ UNCHANGED attacks BY DEF march_steps
<1>2. /\ u \in DOMAIN units /\ units[u] \in unit /\ units[u].order # halted
      /\ n \in Tiles /\ Tail(units[u].order) \in Seq(Tiles)
      BY <1>1, AheadType
<1>3. units' = [units EXCEPT ![u].position = n, ![u].order = Tail(@)] BY DEF march_steps
<1>4. /\ DOMAIN units' = DOMAIN units
      /\ units'[u] = [units[u] EXCEPT !.position = n, !.order = Tail(@)]
      /\ \A v \in DOMAIN units \ {u} : units'[v] = units[v]
      BY <1>2, <1>3 DEF Inv, TypeOK
<1>5. units'[u] \in unit /\ units'[u].position = n /\ units'[u].state = units[u].state
      /\ units'[u].order = Tail(units[u].order)
      BY <1>2, <1>4 DEF unit
<1>6. UnitMap(units')
  <2>1. units' = [v \in DOMAIN units' |-> units'[v]] BY <1>3 DEF Inv, TypeOK
  <2> QED BY <1>4, <1>5, <2>1 DEF Inv, TypeOK, UnitMap
<1>7. OneNation(units')
  <2>1. standing(units') = standing(units) BY <1>4, <1>5 DEF standing
  <2>2. \A v \in standing(units) : units[v].position = n => owner[v] = owner[u]
        BY <1>1 DEF clear_ahead, holders, on_tile
  <2>3. \A v \in standing(units) \ {u} : units'[v].position = units[v].position
        BY <1>4 DEF standing
  <2> QED BY <1>5, <2>1, <2>2, <2>3 DEF Inv, OneNation
<1>8. todo' \subseteq todo /\ (Len(units[u].order) = 1 => u \notin todo') BY DEF march_steps
<1>9. phase = "march" /\ todo \subseteq DOMAIN units BY <1>1 DEF marching, Inv, TypeOK
<1>10. UNCHANGED <<battles, corp_hostile_pairs, province_holder, musters, phase, leave, visited, day, said>>
       BY <1>1 DEF marching, walk
<1>11. TypeOK' BY <1>1, <1>4, <1>6, <1>8, <1>9, <1>10 DEF Inv, TypeOK, UnitMap
<1>12. u \in todo' => units'[u].order # halted
  <2>1. units[u].order \in Seq(Tiles) BY <1>2 DEF unit
  <2>2. ASSUME Len(units[u].order) # 1 PROVE Tail(units[u].order) # << >>
    <3>1. Len(units[u].order) \in Nat /\ Len(units[u].order) # 0 BY <1>2, <2>1, EmptySeq DEF halted
    <3>2. Len(Tail(units[u].order)) = Len(units[u].order) - 1 BY <1>2, <2>1, HeadTailProperties DEF halted
    <3>3. Len(<< >>) = 0 OBVIOUS
    <3> HIDE DEF halted
    <3>4. Len(Tail(units[u].order)) # Len(<< >>) BY <2>2, <3>1, <3>2, <3>3
    <3> QED BY <3>4
  <2> QED BY <1>5, <1>8, <2>2 DEF halted
<1>13. Drained' BY <1>4, <1>8, <1>9, <1>10, <1>12 DEF Inv, Drained
<1> QED BY <1>1, <1>7, <1>10, <1>11, <1>13 DEF Inv, AttackersOwn

LEMMA MarchRestInv == ASSUME Inv, (\E u \in todo : march_banks(u)) \/ marched PROVE Inv'
<1>1. TypeOK' BY DEF Inv, TypeOK, march_banks, marching, marched, world, walk
<1> QED BY <1>1 DEF Inv, AttackersOwn, Drained, march_banks, marching, marched, world

LEMMA OpenBattleInv == ASSUME Inv, NEW a0 \in attacks, open_tile_battle(a0.key) PROVE Inv'
<1> DEFINE k == a0.key
<1>1. /\ k \in battle_key /\ k.attacker \in Nations /\ k.defender \in Nations /\ k.tile \in Tiles
      /\ phase = "open"
      BY DEF Inv, TypeOK, tile_attack, battle_key, open_tile_battle
<1>2. standing(units) \subseteq DOMAIN units /\ DOMAIN units \subseteq Units
      BY DEF standing, Inv, TypeOK
<1>3. \A u \in stack_of(k) : owner[u] = k.attacker BY DEF stack_of, Inv, AttackersOwn
<1>4. /\ attacking_stack(k) \subseteq Units /\ \A u \in attacking_stack(k) : owner[u] = k.attacker
      BY <1>2, <1>3 DEF attacking_stack
<1>5. \A n \in Nations : joining(k, n) \subseteq Units /\ \A u \in joining(k, n) : owner[u] = n
      BY <1>2 DEF joining
<1>6. {u \in on_tile(units, k.tile) : owner[u] = k.defender} \subseteq Units BY <1>2 DEF on_tile
<1>7. new_battle(k) \in battle
  <2>1. attacking_stack(k) \cup joining(k, k.attacker) \subseteq Units BY <1>1, <1>4, <1>5
  <2>2. {u \in on_tile(units, k.tile) : owner[u] = k.defender} \cup joining(k, k.defender) \subseteq Units
        BY <1>1, <1>5, <1>6
  <2> QED BY <1>4, <2>1, <2>2 DEF new_battle, battle, side
<1>8. /\ \A u \in new_battle(k).attacker_units : owner[u] = k.attacker
      /\ \A u \in new_battle(k).defender_units : owner[u] = k.defender
      BY <1>1, <1>4, <1>5 DEF new_battle
<1>9. BattleMap(battles') /\ SidesOwn(battles')
  <2> DEFINE ks == IF opens(k) THEN {k} ELSE {}
  <2>1. battles' = [j \in DOMAIN battles \cup ks |->
                      IF j \in DOMAIN battles THEN battles[j] ELSE new_battle(k)]
        BY DEF open_tile_battle
  <2>2. ks \subseteq {k} OBVIOUS
  <2> HIDE DEF ks, k
  <2>3. \A j \in DOMAIN battles' : \/ j \in DOMAIN battles /\ battles'[j] = battles[j]
                                   \/ j = k /\ battles'[j] = new_battle(k)
        BY <2>1, <2>2
  <2>4. battles' = [j \in DOMAIN battles' |-> battles'[j]] BY <2>1
  <2>5. BattleMap(battles) BY DEF Inv, TypeOK, BattleMap
  <2>6. BattleMap(battles') BY <1>1, <1>7, <2>3, <2>4, <2>5 DEF BattleMap
  <2>7. SidesOwn(battles') BY <1>8, <2>3 DEF Inv, SidesOwn
  <2> QED BY <2>6, <2>7
<1>10. /\ UnitMap(units') /\ OneNation(units') /\ DOMAIN units' = DOMAIN units
  <2> DEFINE ord(u) == (CHOOSE a \in attacks : a.key = k /\ a.unit = u).order
             back(u) == u \in stack_of(k) /\ ~(opens(k) /\ u \in attacking_stack(k))
  <2>1. units' = [u \in DOMAIN units |-> IF back(u) THEN [units[u] EXCEPT !.order = ord(u)] ELSE units[u]]
        BY DEF open_tile_battle, order_back
  <2>2. \A u \in stack_of(k) : ord(u) \in Seq(Tiles)
    <3> TAKE u \in stack_of(k)
    <3>1. PICK x \in attacks : x.key = k /\ x.unit = u BY DEF stack_of
    <3>2. (CHOOSE a \in attacks : a.key = k /\ a.unit = u) \in attacks BY <3>1
    <3>3. attacks \subseteq tile_attack BY DEF Inv, TypeOK
    <3> QED BY <3>2, <3>3 DEF tile_attack
  <2>3. \A u \in DOMAIN units : back(u) => ord(u) \in Seq(Tiles) BY <2>2
  <2> HIDE DEF ord, back
  <2>4. units \in [DOMAIN units -> unit] BY DEF Inv, TypeOK
  <2>5. \A u \in DOMAIN units : /\ units'[u] \in unit /\ units'[u].position = units[u].position
                                /\ units'[u].state = units[u].state
        BY <2>1, <2>3, <2>4 DEF unit
  <2>6. UnitMap(units') /\ DOMAIN units' = DOMAIN units BY <1>2, <2>1, <2>5 DEF UnitMap
  <2>7. OneNation(units')
    <3>1. standing(units') = standing(units) BY <2>5, <2>6 DEF standing
    <3> QED BY <1>2, <2>5, <3>1 DEF Inv, OneNation
  <2> QED BY <2>6, <2>7
<1>11. attacks' \subseteq attacks
       /\ UNCHANGED <<corp_hostile_pairs, province_holder, musters, phase, todo, leave, visited, day, said>>
       BY DEF open_tile_battle, walk
<1> HIDE DEF k
<1>12. TypeOK' BY <1>1, <1>9, <1>10, <1>11 DEF Inv, TypeOK, UnitMap, BattleMap
<1>13. AttackersOwn' BY <1>11 DEF Inv, AttackersOwn
<1>14. Drained' BY <1>1, <1>11 DEF Inv, Drained
<1> QED BY <1>9, <1>10, <1>12, <1>13, <1>14 DEF Inv

LEMMA RecoverInv == ASSUME Inv, recover_out_of_contact PROVE Inv'
<1> DEFINE may_turn == {u \in standing(units) \ units_in_live_battles :
                          units[u].state = "spent" \/ u \in Unsupplied}
<1>1. PICK fit \in SUBSET may_turn :
         units' = [u \in DOMAIN units |->
                     IF u \in may_turn
                     THEN [units[u] EXCEPT !.state = IF u \in fit THEN "fit" ELSE "spent"]
                     ELSE units[u]]
      BY DEF recover_out_of_contact
<1>2. may_turn \subseteq standing(units) /\ standing(units) \subseteq DOMAIN units BY DEF standing
<1>3. units \in [DOMAIN units -> unit] /\ DOMAIN units \subseteq Units BY DEF Inv, TypeOK
<1> HIDE DEF may_turn
<1>4. DOMAIN units' = DOMAIN units BY <1>1
<1>5. \A u \in DOMAIN units : /\ units'[u] \in unit /\ units'[u].position = units[u].position
                              /\ u \in may_turn \/ units'[u].state = units[u].state
                              /\ u \in may_turn => units'[u].state # "dead"
      BY <1>1, <1>3 DEF unit
<1>6. UnitMap(units')
  <2>1. units' = [u \in DOMAIN units' |-> units'[u]] BY <1>1
  <2> QED BY <1>3, <1>4, <1>5, <2>1 DEF UnitMap
<1>7. OneNation(units')
  <2>1. standing(units') = standing(units) BY <1>2, <1>4, <1>5 DEF standing
  <2> QED BY <1>2, <1>5, <2>1 DEF Inv, OneNation
<1>8. phase = "open" /\ todo = {} /\ attacks = {} BY DEF recover_out_of_contact, Inv, Drained
<1>9. /\ phase' = "idle" /\ todo' = todo /\ attacks' = attacks
      /\ UNCHANGED <<battles, corp_hostile_pairs, province_holder, musters, leave, visited, day, said>>
      BY DEF recover_out_of_contact, walk
<1>10. TypeOK' BY <1>4, <1>6, <1>8, <1>9 DEF Inv, TypeOK, UnitMap
<1> QED BY <1>7, <1>8, <1>9, <1>10 DEF Inv, AttackersOwn, Drained

-----------------------------------------------------------------------------
LEMMA StutterInv == ASSUME Inv, UNCHANGED vars PROVE Inv'
BY DEF Inv, TypeOK, AttackersOwn, Drained, vars, world, walk

(* Every verb and every step of the military day keeps the invariant.      *)
LEMMA StepInv == ASSUME Inv, [Next]_vars PROVE Inv'
<1>1. CASE VerbNext
  <2>1. CASE \E u \in DOMAIN units : halt_unit(u) \/ disband_unit(u) \/ \E t \in Tiles : march_unit(u, t)
        BY <2>1, HaltUnitInv, DisbandUnitInv, MarchUnitInv
  <2>2. CASE \E k \in DOMAIN battles, s \in side : request_withdraw(k, s) BY <2>2, WithdrawRequestInv
  <2>3. CASE \E a, b \in Nations : declare_hostile(a, b) \/ return_to_neutral(a, b)
        BY <2>3, HostilityInv
  <2>4. CASE \E a, b \in Nations, goals \in SUBSET Provinces : conclude_peace(a, b, goals)
        BY <2>4, PeaceInv
  <2>5. CASE \E u \in Units : advance_musters(u) BY <2>5, MusterInv
  <2> QED BY <1>1, <2>1, <2>2, <2>3, <2>4, <2>5 DEF VerbNext
<1>2. CASE begin_day BY <1>2, BeginDayInv
<1>3. CASE DayNext
  <2>1. CASE withdrawn BY <2>1, WithdrawnInv
  <2>2. CASE disband_orphaned_units BY <2>2, DisbandOrphansInv
  <2>3. CASE marched BY <2>3, MarchRestInv
  <2>4. CASE recover_out_of_contact BY <2>4, RecoverInv
  <2>5. ASSUME NEW u \in todo,
               withdraw_units(u) \/ march_attacks(u) \/ march_blocked(u) \/ march_steps(u) \/ march_banks(u)
        PROVE  Inv'
        BY <2>5, WithdrawInv, MarchAttacksInv, MarchBlockedInv, MarchStepsInv, MarchRestInv
  <2>6. ASSUME NEW k \in DOMAIN battles, battle_day(k) PROVE Inv' BY <2>6, BattleDayInv
  <2>7. ASSUME NEW a \in attacks, open_tile_battle(a.key) PROVE Inv' BY <2>7, OpenBattleInv
  <2> QED BY <1>3, <2>1, <2>2, <2>3, <2>4, <2>5, <2>6, <2>7 DEF DayNext
<1>4. CASE UNCHANGED vars BY <1>4, StutterInv
<1> QED BY <1>1, <1>2, <1>3, <1>4 DEF Next

(* The tables are well formed, one nation is to a tile, and whoever a      *)
(* battle lists or an attack names is of the nation it fights for          *)
(* (run_military_day, every verb and muster between two days).             *)
THEOREM FieldInvariant == Spec => []Inv
<1>1. Inv /\ [Next]_vars => Inv' BY StepInv
<1> QED BY InitInv, <1>1, PTL DEF Spec

(* Every unit, battle, attack and loop of the pass is of its type: none    *)
(* names a unit or a nation that is not there to be read                   *)
(* (world::units, world::battles, run_unit_march's attacks).               *)
THEOREM FieldTypeCorrect == Spec => []TypeOK
<1>1. Inv => TypeOK BY DEF Inv
<1> QED BY FieldInvariant, <1>1, PTL

(* Units of two nations never share a tile, on any map, for any number of  *)
(* nations and units: not by a march, a retreat, an advance, a withdrawal  *)
(* or a muster.                                                            *)
THEOREM OneNationKept == Spec => []OneNationPerTile
<1>1. Inv => OneNationPerTile BY DEF Inv, OneNation, OneNationPerTile
<1> QED BY FieldInvariant, <1>1, PTL

-----------------------------------------------------------------------------
(* Fights in order                                                         *)

(* Whoever fights is on the battle's tile or beside it.                    *)
AtHand(us, bs) ==
    \A k \in DOMAIN bs : \A u \in listed(bs[k]) \cap standing(us) :
        us[u].position = k.tile \/ <<k.tile, us[u].position>> \in beside

leading(b) == b.attacking_units \cap b.attacker_units

(* A unit leads one attack, and what else it fights is where it stands.    *)
OneLead(us, bs) ==
    \A j, k \in DOMAIN bs : \A u \in listed(bs[j]) \cap standing(us) :
        j # k /\ u \in leading(bs[k]) => u \in bs[j].defender_units /\ j.tile = us[u].position

(* It can step onto the tile it attacks.                                   *)
LeadsAhead(us, bs) ==
    \A k \in DOMAIN bs : \A u \in leading(bs[k]) \cap standing(us) :
        <<us[u].position, k.tile>> \in crossable

Fights(us, bs) == AtHand(us, bs) /\ OneLead(us, bs) /\ LeadsAhead(us, bs)

(* A nation fights another, with units that have been raised.              *)
Opposed(bs) == \A k \in DOMAIN bs : k.attacker # k.defender
Raised(bs, ms) == \A k \in DOMAIN bs : listed(bs[k]) \cap ms = {}

OrdersLead(us) ==
    \A u \in DOMAIN us : us[u].order # halted => connected(us[u].position, us[u].order)

(* The attacks of a day: registered by a unit that marched from where it   *)
(* still stands, once, and that has its turn behind it.                    *)
AttacksLead ==
    \A a \in attacks : /\ connected(units[a.unit].position, a.order)
                       /\ a.key.tile = a.order[1] /\ a.unit \in DOMAIN units \ todo
Underway ==
    /\ phase \in {"idle", "withdraw", "battles"} => attacks = {}
    /\ \A a, b \in attacks : a.unit = b.unit => a = b
    /\ phase = "march" => todo \cap units_in_live_battles = {}

InOrder == /\ Fights(units, battles) /\ Opposed(battles) /\ Raised(battles, musters)
           /\ OrdersLead(units) /\ AttacksLead /\ Underway

(* Of the battles bs there are left cs, with nobody of `gone' listed.      *)
Thinned(bs, cs, gone) ==
    /\ DOMAIN cs \subseteq DOMAIN bs
    /\ \A k \in DOMAIN cs : /\ cs[k].attacker_units = bs[k].attacker_units \ gone
                            /\ cs[k].defender_units = bs[k].defender_units \ gone
                            /\ cs[k].attacking_units \subseteq bs[k].attacking_units

(* The others stand where they stood.                                      *)
Stayed(us, vs, gone) ==
    \A u \in standing(vs) \ gone : u \in standing(us) /\ vs[u].position = us[u].position

LEMMA ThinnedFights ==
    ASSUME NEW us, NEW bs, Fights(us, bs), NEW vs, NEW cs, NEW gone,
           Thinned(bs, cs, gone), Stayed(us, vs, gone)
    PROVE  Fights(vs, cs)
<1>1. \A k \in DOMAIN cs : \A u \in listed(cs[k]) \cap standing(vs) :
         /\ k \in DOMAIN bs /\ u \in listed(bs[k]) \cap standing(us)
         /\ vs[u].position = us[u].position /\ u \notin gone
      BY DEF listed, Thinned, Stayed
<1>2. \A k \in DOMAIN cs : leading(cs[k]) \subseteq leading(bs[k]) \cap listed(cs[k])
      BY DEF leading, listed, Thinned
<1>3. AtHand(vs, cs) BY <1>1 DEF Fights, AtHand
<1>4. OneLead(vs, cs)
  <2> SUFFICES ASSUME NEW j \in DOMAIN cs, NEW k \in DOMAIN cs, NEW u \in listed(cs[j]) \cap standing(vs),
                      j # k, u \in leading(cs[k])
               PROVE  u \in cs[j].defender_units /\ j.tile = vs[u].position
      BY DEF OneLead
  <2>1. u \in bs[j].defender_units /\ j.tile = us[u].position BY <1>1, <1>2 DEF Fights, OneLead
  <2> QED BY <1>1, <2>1 DEF Thinned, listed
<1>5. LeadsAhead(vs, cs)
  <2> SUFFICES ASSUME NEW k \in DOMAIN cs, NEW u \in leading(cs[k]) \cap standing(vs)
               PROVE  <<vs[u].position, k.tile>> \in crossable
      BY DEF LeadsAhead
  <2>1. u \in leading(bs[k]) \cap standing(us) /\ vs[u].position = us[u].position BY <1>1, <1>2
  <2> QED BY <2>1 DEF Fights, LeadsAhead, Thinned
<1> QED BY <1>3, <1>4, <1>5 DEF Fights

(* Some of the battles, over units none of whom moved or rose.             *)
LEMMA StillFights ==
    ASSUME NEW us, NEW bs, Fights(us, bs), NEW vs, standing(vs) \subseteq standing(us),
           \A u \in standing(vs) : vs[u].position = us[u].position,
           NEW cs, DOMAIN cs \subseteq DOMAIN bs,
           \A k \in DOMAIN cs : /\ cs[k].attacker_units = bs[k].attacker_units
                                /\ cs[k].defender_units = bs[k].defender_units
                                /\ cs[k].attacking_units \subseteq bs[k].attacking_units
    PROVE  Fights(vs, cs)
<1>1. PICK none : none = {} OBVIOUS
<1>2. Thinned(bs, cs, none) BY <1>1 DEF Thinned
<1>3. Stayed(us, vs, none) BY DEF Stayed
<1> QED BY <1>2, <1>3, ThinnedFights

LEMMA OrdersKept ==
    ASSUME NEW us, OrdersLead(us), NEW vs,
           \A u \in DOMAIN vs : \/ vs[u].order = halted
                                \/ /\ u \in DOMAIN us /\ vs[u].position = us[u].position
                                   /\ vs[u].order = us[u].order
    PROVE  OrdersLead(vs)
BY DEF OrdersLead

(* The step that takes an attacked tile leaves no fight the stack is not   *)
(* beside: the tile it left is the only one it was attacked on.            *)
LEMMA AdvanceFights ==
    ASSUME NEW us, UnitMap(us), NEW bs, BattleMap(bs), Fights(us, bs), SidesOwn(bs), Opposed(bs),
           NEW k \in DOMAIN bs, NEW cs, DOMAIN cs \subseteq DOMAIN bs \ {k},
           \A j \in DOMAIN cs : cs[j] = bs[j]
    PROVE  Fights(advance(us, k, bs[k]), cs)
<1> DEFINE gone == leading(bs[k]) \cap standing(us)
           vs == advance(us, k, bs[k])
<1>1. k \in battle_key /\ k.tile \in Tiles BY DEF BattleMap, battle_key
<1>2. CASE k.tile \in foreign_held_tiles(us, k.attacker)
  <2>1. vs = us BY <1>2 DEF advance
  <2> HIDE DEF vs
  <2>2. /\ standing(vs) \subseteq standing(us) /\ \A u \in standing(vs) : vs[u].position = us[u].position
        /\ DOMAIN cs \subseteq DOMAIN bs
        BY <2>1
  <2> QED BY <2>2, StillFights DEF vs
<1>3. CASE k.tile \notin foreign_held_tiles(us, k.attacker)
  <2> DEFINE to == [u \in bs[k].attacking_units |-> k.tile]
  <2>1. vs = moved(us, gone, to) BY <1>3 DEF advance, leading
  <2>2. \A u \in gone \cap DOMAIN us : to[u] \in Tiles BY <1>1 DEF leading
  <2>3. standing(vs) = standing(us)
    <3> HIDE DEF gone, to, vs
    <3> QED BY <2>1, <2>2, MovedType
  <2>4. \A u \in standing(us) : vs[u].position = IF u \in gone THEN k.tile ELSE us[u].position
    <3> TAKE u \in standing(us)
    <3>1. u \in DOMAIN us /\ us[u] \in unit BY DEF standing, UnitMap
    <3>2. u \in gone => to[u] = k.tile BY DEF leading
    <3> HIDE DEF gone, to, vs
    <3>3. vs[u] = IF u \in gone THEN [us[u] EXCEPT !.position = to[u], !.order = halted] ELSE us[u]
          BY <2>1, <3>1 DEF moved
    <3> QED BY <3>1, <3>2, <3>3 DEF unit
  <2> HIDE DEF vs
  <2>5. \A j \in DOMAIN cs : j \in DOMAIN bs /\ j # k /\ cs[j] = bs[j] OBVIOUS
  (* what else a unit of the stack fights *)
  <2>6. ASSUME NEW j \in DOMAIN cs, NEW u \in gone, u \in listed(bs[j])
        PROVE  u \in bs[j].defender_units /\ j.tile = us[u].position
        BY <2>5, <2>6 DEF Fights, OneLead
  <2>7. ASSUME NEW j \in DOMAIN cs, NEW u \in gone, u \in leading(bs[j]) PROVE FALSE
    <3>1. u \in listed(bs[j]) /\ u \in bs[j].attacker_units BY <2>7 DEF leading, listed
    <3>2. u \in bs[j].defender_units BY <2>6, <3>1
    <3>3. owner[u] = j.attacker /\ owner[u] = j.defender BY <2>5, <3>1, <3>2 DEF SidesOwn
    <3> QED BY <2>5, <3>3 DEF Opposed
  <2>8. AtHand(vs, cs)
    <3> SUFFICES ASSUME NEW j \in DOMAIN cs, NEW u \in listed(bs[j]) \cap standing(us)
                 PROVE  vs[u].position = j.tile \/ <<j.tile, vs[u].position>> \in beside
        BY <2>3, <2>5 DEF AtHand
    <3>1. CASE u \in gone
      <4>1. vs[u].position = k.tile /\ j.tile = us[u].position BY <2>4, <2>6, <3>1
      <4>2. us[u].position = k.tile \/ <<k.tile, us[u].position>> \in beside
            BY <3>1 DEF Fights, AtHand, leading, listed
      <4>3. ASSUME <<k.tile, us[u].position>> \in beside PROVE <<us[u].position, k.tile>> \in beside
        <5>1. <<k.tile, us[u].position>>[1] = k.tile /\ <<k.tile, us[u].position>>[2] = us[u].position
              OBVIOUS
        <5> QED BY <4>3, <5>1, GroundAssumption
      <4> QED BY <4>1, <4>2, <4>3
    <3>2. CASE u \notin gone BY <2>4, <2>5, <3>2 DEF Fights, AtHand
    <3> QED BY <3>1, <3>2
  <2>9. OneLead(vs, cs)
    <3> SUFFICES ASSUME NEW i \in DOMAIN cs, NEW j \in DOMAIN cs,
                        NEW u \in listed(bs[i]) \cap standing(us), i # j, u \in leading(bs[j])
                 PROVE  u \in bs[i].defender_units /\ i.tile = vs[u].position
        BY <2>3, <2>5 DEF OneLead
    <3>1. u \notin gone BY <2>7
    <3> QED BY <2>4, <2>5, <3>1 DEF Fights, OneLead
  <2>10. LeadsAhead(vs, cs)
    <3> SUFFICES ASSUME NEW j \in DOMAIN cs, NEW u \in leading(bs[j]) \cap standing(us)
                 PROVE  <<vs[u].position, j.tile>> \in crossable
        BY <2>3, <2>5 DEF LeadsAhead
    <3>1. u \notin gone BY <2>7
    <3> QED BY <2>4, <2>5, <3>1 DEF Fights, LeadsAhead
  <2> QED BY <2>8, <2>9, <2>10 DEF Fights, vs
<1> QED BY <1>2, <1>3

(* A march's route sets out from where the unit stands.                    *)
LEMMA RouteConnected ==
    ASSUME NEW from, NEW to, NEW blocked, NEW r \in march_path(from, to, blocked)
    PROVE  connected(from, r)
<1>1. r \in clear_routes(from, to, blocked) BY DEF march_path
<1>2. PICK x \in marches : x.from = from /\ r = x.route BY <1>1 DEF clear_routes
<1>3. PICK m \in {x1 \in Tiles \X Routes : connected(x1[1], x1[2])} :
         x = [from |-> m[1], dest |-> m[2][Len(m[2])], route |-> m[2]]
      BY <1>2 DEF marches
<1>4. m[1] = from /\ m[2] = r BY <1>2, <1>3
<1> QED BY <1>3, <1>4

(* What is left of an order leads on from the tile stepped onto.           *)
LEMMA TailConnected ==
    ASSUME NEW p, NEW r \in Seq(Tiles), connected(p, r), Tail(r) # << >>, r # << >>
    PROVE  connected(Head(r), Tail(r))
<1>1. /\ Len(r) \in Nat \ {0} /\ Tail(r) \in Seq(Tiles) /\ Len(Tail(r)) = Len(r) - 1
      /\ Head(r) = r[1] /\ \A i \in 1 .. Len(Tail(r)) : Tail(r)[i] = r[i + 1]
      BY EmptySeq, HeadTailProperties
<1>2. Len(Tail(r)) # 0 BY <1>1, EmptySeq
<1>3. \A i \in 1 .. Len(r) - 1 : <<r[i], r[i + 1]>> \in crossable BY DEF connected
<1>4. Tail(r)[1] = r[2] /\ <<r[1], r[2]>> \in crossable
  <2>1. 1 \in 1 .. Len(r) - 1 /\ 1 + 1 = 2 BY <1>1, <1>2
  <2> QED BY <1>1, <1>3, <2>1
<1>5. ASSUME NEW i \in 1 .. Len(Tail(r)) - 1
      PROVE  <<Tail(r)[i], Tail(r)[i + 1]>> \in crossable
  <2>1. /\ i \in 1 .. Len(Tail(r)) /\ i + 1 \in 1 .. Len(Tail(r))
        /\ i + 1 \in 1 .. Len(r) - 1
        BY <1>1
  <2>2. Tail(r)[i] = r[i + 1] /\ Tail(r)[i + 1] = r[(i + 1) + 1] BY <1>1, <2>1
  <2> QED BY <1>3, <2>1, <2>2
<1> QED BY <1>1, <1>4, <1>5 DEF connected

-----------------------------------------------------------------------------
(* A step that registers no attack and opens no battle keeps things in     *)
(* order if the fights, the lists and the orders it leaves are.            *)
LEMMA QuietOrder ==
    ASSUME attacks' = {}, Fights(units', battles'), Opposed(battles'), Raised(battles', musters'),
           OrdersLead(units'), phase' # "march" \/ (todo \cap units_in_live_battles)' = {}
    PROVE  InOrder'
BY DEF InOrder, AttacksLead, Underway

(* Battles that stay or go, as their keys and lists have it.               *)
LEMMA FewerBattles ==
    ASSUME Opposed(battles), Raised(battles, musters), NEW gone, Thinned(battles, battles', gone),
           musters' \subseteq musters
    PROVE  Opposed(battles') /\ Raised(battles', musters')
<1>1. \A k \in DOMAIN battles' : k \in DOMAIN battles /\ listed(battles'[k]) \subseteq listed(battles[k])
      BY DEF Thinned, listed
<1> QED BY <1>1 DEF Opposed, Raised

(* The verbs, the battles as they were but for a request, or fewer.        *)
LEMMA VerbOrder ==
    ASSUME InOrder, phase = "idle", attacks' = attacks, phase' # "march",
           \A u \in DOMAIN units' : \/ units'[u].order = halted
                                    \/ /\ u \in DOMAIN units
                                       /\ units'[u].position = units[u].position
                                       /\ units'[u].order = units[u].order
                                    \/ connected(units'[u].position, units'[u].order),
           NEW gone, Thinned(battles, battles', gone), Stayed(units, units', gone),
           musters' \subseteq musters
    PROVE  InOrder'
<1>1. attacks' = {} BY DEF InOrder, Underway
<1>2. Fights(units', battles') BY ThinnedFights DEF InOrder
<1>3. Opposed(battles') /\ Raised(battles', musters') BY FewerBattles DEF InOrder
<1>4. OrdersLead(units') BY DEF InOrder, OrdersLead
<1> QED BY <1>1, <1>2, <1>3, <1>4, QuietOrder

LEMMA MarchUnitOrder ==
    ASSUME Inv, InOrder, NEW u \in DOMAIN units, NEW t \in Tiles, march_unit(u, t) PROVE InOrder'
<1>1. PICK r \in march_path(units[u].position, t, foreign_held_tiles(units, owner[u])) :
          units' = [units EXCEPT ![u].order = r]
      BY DEF march_unit
<1>2. /\ phase = "idle" /\ phase' = phase /\ attacks' = attacks /\ battles' = battles /\ musters' = musters
      BY DEF march_unit, between_days
<1>3. connected(units[u].position, r) BY RouteConnected
<1>4. /\ DOMAIN units' = DOMAIN units
      /\ \A v \in DOMAIN units : /\ units'[v].position = units[v].position
                                 /\ units'[v].state = units[v].state
                                 /\ v # u => units'[v].order = units[v].order
      /\ units'[u].order = r
      BY <1>1 DEF Inv, TypeOK, unit
<1>5. PICK none : none = {} OBVIOUS
<1>6. Thinned(battles, battles', none) BY <1>2, <1>5 DEF Thinned
<1>7. Stayed(units, units', none) BY <1>4 DEF Stayed, standing
<1> QED BY <1>2, <1>3, <1>4, <1>6, <1>7, VerbOrder

LEMMA HaltUnitOrder == ASSUME Inv, InOrder, NEW u \in DOMAIN units, halt_unit(u) PROVE InOrder'
<1>1. units' = [units EXCEPT ![u].order = halted] BY DEF halt_unit
<1>2. /\ phase = "idle" /\ phase' = phase /\ attacks' = attacks /\ battles' = battles /\ musters' = musters
      BY DEF halt_unit, between_days
<1>3. /\ DOMAIN units' = DOMAIN units
      /\ \A v \in DOMAIN units : /\ units'[v].position = units[v].position
                                 /\ units'[v].state = units[v].state
                                 /\ v # u => units'[v].order = units[v].order
      /\ units'[u].order = halted
      BY <1>1 DEF Inv, TypeOK, unit
<1>4. PICK none : none = {} OBVIOUS
<1>5. Thinned(battles, battles', none) BY <1>2, <1>4 DEF Thinned
<1>6. Stayed(units, units', none) BY <1>3 DEF Stayed, standing
<1> QED BY <1>2, <1>3, <1>5, <1>6, VerbOrder

LEMMA DisbandUnitOrder ==
    ASSUME Inv, InOrder, NEW u \in DOMAIN units, disband_unit(u) PROVE InOrder'
<1>1. DOMAIN units' = DOMAIN units \ {u} /\ \A v \in DOMAIN units' : units'[v] = units[v]
      BY DEF disband_unit
<1>2. /\ phase = "idle" /\ phase' = phase /\ attacks' = attacks /\ battles' = battles /\ musters' = musters
      BY DEF disband_unit, between_days
<1>3. PICK none : none = {} OBVIOUS
<1>4. Thinned(battles, battles', none) BY <1>2, <1>3 DEF Thinned
<1>5. Stayed(units, units', none) BY <1>1 DEF Stayed, standing
<1> QED BY <1>1, <1>2, <1>4, <1>5, VerbOrder

LEMMA WithdrawRequestOrder ==
    ASSUME Inv, InOrder, NEW k \in DOMAIN battles, NEW s \in side, request_withdraw(k, s) PROVE InOrder'
<1>1. battles' = [battles EXCEPT ![k].withdraw_requested = s] BY DEF request_withdraw
<1>2. /\ phase = "idle" /\ phase' = phase /\ attacks' = attacks /\ units' = units /\ musters' = musters
      BY DEF request_withdraw, between_days
<1>3. PICK none : none = {} OBVIOUS
<1>4. Thinned(battles, battles', none) BY <1>1, <1>3 DEF Thinned, Inv, TypeOK, battle
<1>5. Stayed(units, units', none) BY <1>2 DEF Stayed
<1> QED BY <1>2, <1>4, <1>5, VerbOrder

LEMMA HostilityOrder ==
    ASSUME InOrder, NEW a, NEW b, declare_hostile(a, b) \/ return_to_neutral(a, b) PROVE InOrder'
BY DEF InOrder, AttacksLead, Underway, units_in_live_battles, declare_hostile, return_to_neutral,
       between_days

LEMMA MusterOrder == ASSUME Inv, InOrder, NEW u \in Units, advance_musters(u) PROVE InOrder'
<1>1. /\ DOMAIN units' = DOMAIN units \cup {u} /\ u \notin DOMAIN units
      /\ units'[u].order = halted /\ \A v \in DOMAIN units : units'[v] = units[v]
      BY DEF Inv, TypeOK, advance_musters
<1>2. /\ phase = "idle" /\ phase' = phase /\ attacks' = attacks /\ battles' = battles
      /\ musters' = musters \ {u} /\ u \in musters
      BY DEF advance_musters, between_days
<1>3. PICK gone : gone = {u} OBVIOUS
<1>4. Thinned(battles, battles', gone)
  <2>1. \A k \in DOMAIN battles : u \notin listed(battles[k]) BY <1>2 DEF InOrder, Raised
  <2> QED BY <1>2, <1>3, <2>1 DEF Thinned, listed
<1>5. Stayed(units, units', gone) BY <1>1, <1>3 DEF Stayed, standing
<1> QED BY <1>1, <1>2, <1>4, <1>5, VerbOrder

LEMMA PeaceOrder ==
    ASSUME InOrder, NEW a, NEW b, NEW goals, conclude_peace(a, b, goals) PROVE InOrder'
<1>1. DOMAIN battles' \subseteq DOMAIN battles /\ \A k \in DOMAIN battles' : battles'[k] = battles[k]
      BY DEF conclude_peace
<1>2. /\ phase = "idle" /\ phase' = "withdraw" /\ attacks' = attacks /\ units' = units
      /\ musters' = musters
      BY DEF conclude_peace
<1>3. PICK none : none = {} OBVIOUS
<1>4. Thinned(battles, battles', none) BY <1>1, <1>3 DEF Thinned
<1>5. Stayed(units, units', none) BY <1>2 DEF Stayed
<1> QED BY <1>2, <1>4, <1>5, VerbOrder

(* Steps that change neither units nor battles.                            *)
LEMMA PassOrder ==
    ASSUME InOrder, withdrawn \/ begin_day \/ marched \/ UNCHANGED vars
    PROVE  InOrder'
<1>1. UNCHANGED <<world, attacks>>
      BY DEF withdrawn, begin_day, marched, vars
<1>2. AttacksLead'
  <2>1. CASE todo' \subseteq todo \/ attacks = {} BY <1>1, <2>1 DEF world, InOrder, AttacksLead
  <2>2. todo' \subseteq todo \/ attacks = {}
        BY DEF withdrawn, begin_day, marched, vars, InOrder, Underway
  <2> QED BY <2>1, <2>2
<1>3. Underway'
  <2>1. \/ phase' = phase /\ todo' = todo
        \/ phase' # "march" /\ (phase' \in {"idle", "withdraw", "battles"} => attacks = {})
        BY DEF withdrawn, begin_day, marched, vars, InOrder, Underway
  <2> QED BY <1>1, <2>1 DEF world, InOrder, Underway, units_in_live_battles
<1> QED BY <1>1, <1>2, <1>3 DEF world, InOrder

(* Who is moved loses the order, and the rest is as it was.                *)
LEMMA MovedEach ==
    ASSUME NEW us, UnitMap(us), NEW gone, NEW to, NEW u \in DOMAIN us
    PROVE  /\ u \in gone => /\ moved(us, gone, to)[u].position = to[u]
                            /\ moved(us, gone, to)[u].order = halted
           /\ u \notin gone => moved(us, gone, to)[u] = us[u]
<1>1. us[u] \in unit BY DEF UnitMap
<1>2. moved(us, gone, to)[u]
        = IF u \in gone THEN [us[u] EXCEPT !.position = to[u], !.order = halted] ELSE us[u]
      BY DEF moved
<1> QED BY <1>1, <1>2 DEF unit

LEMMA StrippedEach ==
    ASSUME NEW bs, BattleMap(bs), NEW gone
    PROVE  Thinned(bs, strip_fighters(bs, gone), gone) /\ Thinned(bs, strip(bs, gone), gone)
<1>1. DOMAIN strip_fighters(bs, gone) = DOMAIN bs /\ DOMAIN strip(bs, gone) = DOMAIN bs
      BY DEF strip_fighters, strip
<1>2. ASSUME NEW k \in DOMAIN bs
      PROVE  /\ strip_fighters(bs, gone)[k].attacker_units = bs[k].attacker_units \ gone
             /\ strip_fighters(bs, gone)[k].defender_units = bs[k].defender_units \ gone
             /\ strip_fighters(bs, gone)[k].attacking_units = bs[k].attacking_units
             /\ strip(bs, gone)[k].attacker_units = bs[k].attacker_units \ gone
             /\ strip(bs, gone)[k].defender_units = bs[k].defender_units \ gone
             /\ strip(bs, gone)[k].attacking_units = bs[k].attacking_units \ gone
  <2> DEFINE kept == strip_fighters(bs, gone)
  <2>1. bs[k] \in battle BY DEF BattleMap
  <2>2. kept[k] = [bs[k] EXCEPT !.attacker_units = @ \ gone, !.defender_units = @ \ gone]
        BY DEF strip_fighters
  <2>3. strip(bs, gone)[k] = [kept[k] EXCEPT !.attacking_units = @ \ gone]
        BY <1>1 DEF strip
  <2> QED BY <2>1, <2>2, <2>3 DEF battle
<1> QED BY <1>1, <1>2 DEF Thinned

(* A step of the walk home: across a side, out of every fight.             *)
LEMMA WithdrawOrder == ASSUME Inv, InOrder, NEW u \in todo, withdraw_units(u) PROVE InOrder'
<1> DEFINE here == units[u].position
           barred == foreign_held_tiles(units, owner[u]) \cup visited
           steps == best_retreats(units, u, province_of[here], barred)
<1>1. u \in DOMAIN units /\ UnitMap(units) /\ BattleMap(battles)
      BY DEF Inv, TypeOK, UnitMap, BattleMap, withdraw_units
<1>2. phase = "withdraw" /\ phase' = phase /\ attacks' = attacks /\ musters' = musters /\ attacks' = {}
      BY DEF withdraw_units, InOrder, Underway
<1>3. CASE UNCHANGED <<units, battles>>
      BY <1>2, <1>3, QuietOrder DEF InOrder
<1>4. ASSUME NEW n \in steps, units' = moved(units, {u}, [v \in {u} |-> n]), battles' = strip(battles, {u})
      PROVE  InOrder'
  <2> DEFINE to == [v \in {u} |-> n]
  <2>1. PICK gone : gone = {u} OBVIOUS
  <2>2. \A v \in gone \cap DOMAIN units : to[v] \in Tiles BY <2>1 DEF best_retreats
  <2>3. units' = moved(units, gone, to) /\ battles' = strip(battles, gone) BY <1>4, <2>1
  <2> HIDE DEF to
  <2>4. DOMAIN units' = DOMAIN units /\ standing(units') = standing(units)
        BY <1>1, <2>2, <2>3, MovedType
  <2>5. Thinned(battles, battles', gone) BY <1>1, <2>3, StrippedEach
  <2>6. \A v \in DOMAIN units : units'[v].order = halted \/ units'[v] = units[v]
        BY <1>1, <2>3, MovedEach
  <2>7. Stayed(units, units', gone) BY <1>1, <2>3, <2>4, MovedEach DEF Stayed, standing
  <2>8. Fights(units', battles') BY <2>5, <2>7, ThinnedFights DEF InOrder
  <2>9. Opposed(battles') /\ Raised(battles', musters') BY <1>2, <2>5, FewerBattles DEF InOrder
  <2>10. OrdersLead(units') BY <2>4, <2>6, OrdersKept DEF InOrder
  <2> QED BY <1>2, <2>8, <2>9, <2>10, QuietOrder
<1>5. QED BY <1>3, <1>4 DEF withdraw_units

(* Who dies of hunger leaves every list.                                   *)
LEMMA DisbandOrphansOrder == ASSUME Inv, InOrder, disband_orphaned_units PROVE InOrder'
<1> DEFINE hungry == Unsupplied \cap standing(units)
           may_be == [u \in hungry |-> worse(units[u].state)]
<1>1. UnitMap(units) /\ BattleMap(battles) BY DEF Inv, TypeOK, UnitMap, BattleMap
<1>2. PICK fed \in worn(units, hungry, may_be) :
          LET kept == strip(battles, DOMAIN fed \ standing(fed))
          IN  /\ units' = [u \in standing(fed) |-> fed[u]]
              /\ battles' = kept
              /\ todo' = to_march(fed, kept)
      BY DEF disband_orphaned_units
<1>3. /\ DOMAIN fed = DOMAIN units /\ standing(fed) \subseteq standing(units)
      /\ \A u \in DOMAIN units : fed[u].position = units[u].position /\ fed[u].order = units[u].order
  <2>1. hungry \subseteq DOMAIN units /\ DeadStayDead(units, hungry, may_be)
        BY DEF standing, DeadStayDead
  <2> HIDE DEF hungry, may_be
  <2> QED BY <1>1, <2>1, WornType
<1>4. /\ DOMAIN units' = standing(fed) /\ standing(fed) \subseteq DOMAIN fed
      /\ \A u \in standing(fed) : units'[u] = fed[u]
      BY <1>2 DEF standing
<1>5. PICK gone : gone = DOMAIN fed \ standing(fed) OBVIOUS
<1>6. Thinned(battles, battles', gone) BY <1>1, <1>2, <1>5, StrippedEach
<1>7. Stayed(units, units', gone)
  <2>1. standing(units') \subseteq standing(fed) BY <1>4 DEF standing
  <2> QED BY <1>3, <1>4, <2>1 DEF Stayed
<1>8. attacks' = {} /\ phase' = "march" /\ musters' = musters
      BY DEF disband_orphaned_units, InOrder, Underway
<1>9. Fights(units', battles') BY <1>6, <1>7, ThinnedFights DEF InOrder
<1>10. Opposed(battles') /\ Raised(battles', musters') BY <1>6, <1>8, FewerBattles DEF InOrder
<1>11. OrdersLead(units') BY <1>3, <1>4, OrdersKept DEF InOrder
<1>12. (todo \cap units_in_live_battles)' = {}
  <2>1. \A u \in todo' : \A k \in DOMAIN battles' : u \notin listed(battles'[k])
        BY <1>2 DEF to_march
  <2> QED BY <2>1 DEF units_in_live_battles
<1> QED BY <1>8, <1>9, <1>10, <1>11, <1>12, QuietOrder

LEMMA RecoverOrder == ASSUME Inv, InOrder, recover_out_of_contact PROVE InOrder'
<1> DEFINE may_turn == {u \in standing(units) \ units_in_live_battles :
                          units[u].state = "spent" \/ u \in Unsupplied}
<1>1. PICK fit \in SUBSET may_turn :
         units' = [u \in DOMAIN units |->
                     IF u \in may_turn
                     THEN [units[u] EXCEPT !.state = IF u \in fit THEN "fit" ELSE "spent"]
                     ELSE units[u]]
      BY DEF recover_out_of_contact
<1>2. may_turn \subseteq standing(units) /\ \A u \in DOMAIN units : units[u] \in unit
  <2>1. may_turn \subseteq standing(units) OBVIOUS
  <2>2. units \in [DOMAIN units -> unit] BY DEF Inv, TypeOK
  <2> QED BY <2>1, <2>2
<1> HIDE DEF may_turn
<1>3. /\ DOMAIN units' = DOMAIN units
      /\ \A u \in DOMAIN units : /\ units'[u].position = units[u].position
                                 /\ units'[u].order = units[u].order
                                 /\ u \in may_turn \/ units'[u] = units[u]
      BY <1>1, <1>2 DEF unit
<1>4. /\ attacks' = {} /\ phase' = "idle" /\ UNCHANGED <<battles, musters>>
      BY DEF recover_out_of_contact
<1>5. standing(units') \subseteq standing(units)
      /\ \A u \in standing(units') : units'[u].position = units[u].position
      BY <1>2, <1>3 DEF standing
<1>6. Fights(units', battles') BY <1>4, <1>5, StillFights DEF InOrder
<1>7. OrdersLead(units') BY <1>3, OrdersKept DEF InOrder
<1> QED BY <1>4, <1>6, <1>7, QuietOrder DEF InOrder

-----------------------------------------------------------------------------
(* A day of a battle: a side's retreat, then the advance.                  *)

(* A tile a unit can step to, or the one it is on.                         *)
Hop(from, to) == to = from \/ <<from, to>> \in crossable

LEMMA RetreatEach ==
    ASSUME NEW us, UnitMap(us), NEW gone, gone \subseteq DOMAIN us, NEW n, NEW p, NEW u \in DOMAIN us
    PROVE  LET ms == retreat_side(us, gone, n, p)
           IN  /\ u \notin gone => ms[u] = us[u]
               /\ u \in gone => ms[u].order = halted /\ Hop(us[u].position, ms[u].position)
<1> DEFINE to == [v \in gone |-> retreat_tile(us, v, n, p)]
           best == best_retreats(us, u, p, foreign_held_tiles(us, n))
<1>1. retreat_side(us, gone, n, p) = moved(us, gone, to) BY DEF retreat_side
<1>2. u \in gone => to[u] = retreat_tile(us, u, n, p) OBVIOUS
<1>3. Hop(us[u].position, retreat_tile(us, u, n, p))
  <2>1. best \subseteq {t \in Tiles : <<us[u].position, t>> \in crossable} BY DEF best_retreats
  <2>2. best # {} => least(best) \in best BY <2>1, LeastOf, IdAssumption
  <2>3. retreat_tile(us, u, n, p) = IF best = {} THEN us[u].position ELSE least(best)
        BY DEF retreat_tile
  <2> HIDE DEF best
  <2> QED BY <2>1, <2>2, <2>3 DEF Hop
<1> HIDE DEF to
<1> QED BY <1>1, <1>2, <1>3, MovedEach

(* What a day of battle k does: some units, listed in it, leave every list *)
(* and halt where they can step to; the rest is where it was, but for the  *)
(* stack that may take the tile.                                           *)
LEMMA BattleMoves ==
    ASSUME Inv, InOrder, NEW k \in DOMAIN battles, battle_day(k)
    PROVE  \E mid, gone :
             /\ UnitMap(mid) /\ DOMAIN mid = DOMAIN units /\ standing(mid) \subseteq standing(units)
             /\ \A u \in DOMAIN units \ gone : /\ mid[u].position = units[u].position
                                               /\ mid[u].order = units[u].order
             /\ \A u \in gone \cap DOMAIN units :
                  mid[u].order = halted /\ Hop(units[u].position, mid[u].position)
             /\ \/ units' = mid
                \/ /\ units' = advance(mid, k, strip_fighters(battles, gone)[k])
                   /\ k \notin DOMAIN battles'
             /\ DOMAIN battles' \subseteq DOMAIN battles
             /\ \A j \in DOMAIN battles' : battles'[j] = strip_fighters(battles, gone)[j]
<1> DEFINE b == battles[k]
           left == b.withdraw_requested
           p == province_of[k.tile]
<1>1. /\ UnitMap(units) /\ BattleMap(battles) /\ SidesOwn(battles)
      BY DEF Inv, TypeOK, UnitMap, BattleMap
<1>2. PICK hit \in rounds_fought(units, b) :
        LET ended == \/ left # "none"
                     \/ ~can_fight(hit, b.attacker_units) \/ ~can_fight(hit, b.defender_units)
            won == ended /\ (left = "defender" \/ (left = "none" /\ can_fight(hit, b.attacker_units)))
            gone_a == leaving(hit, b.attacker_units, left = "attacker")
            after_a == retreat_side(hit, gone_a, k.attacker, p)
            gone_d == leaving(after_a, b.defender_units, left = "defender")
            after == retreat_side(after_a, gone_d, k.defender, p)
            kept == strip_fighters(battles, gone_a \cup gone_d)
        IN  /\ units' = IF won THEN advance(after, k, kept[k]) ELSE after
            /\ battles' = [j \in IF ended THEN DOMAIN kept \ {k} ELSE DOMAIN kept |-> kept[j]]
      BY DEF battle_day
<1> DEFINE ended == \/ left # "none"
                    \/ ~can_fight(hit, b.attacker_units) \/ ~can_fight(hit, b.defender_units)
           won == ended /\ (left = "defender" \/ (left = "none" /\ can_fight(hit, b.attacker_units)))
           gone_a == leaving(hit, b.attacker_units, left = "attacker")
           after_a == retreat_side(hit, gone_a, k.attacker, p)
           gone_d == leaving(after_a, b.defender_units, left = "defender")
           after == retreat_side(after_a, gone_d, k.defender, p)
           gone == gone_a \cup gone_d
           kept == strip_fighters(battles, gone)
<1>3. /\ UnitMap(hit) /\ OneNation(hit) /\ DOMAIN hit = DOMAIN units
      /\ standing(hit) \subseteq standing(units)
      /\ \A u \in DOMAIN units : hit[u].position = units[u].position /\ hit[u].order = units[u].order
      BY RoundsType
<1>4. gone_a \subseteq DOMAIN hit /\ gone_a \subseteq b.attacker_units /\ \A u \in gone_a : owner[u] = k.attacker
      BY <1>1 DEF leaving, standing, SidesOwn
<1>5. /\ UnitMap(after_a) /\ OneNation(after_a) /\ DOMAIN after_a = DOMAIN units
      /\ standing(after_a) = standing(hit)
  <2> HIDE DEF gone_a
  <2> QED BY <1>3, <1>4, RetreatOneNation
<1>6. gone_d \subseteq DOMAIN after_a /\ gone_d \subseteq b.defender_units /\ \A u \in gone_d : owner[u] = k.defender
  <2> HIDE DEF after_a
  <2> QED BY <1>1 DEF leaving, standing, SidesOwn
<1>7. UnitMap(after) /\ DOMAIN after = DOMAIN units /\ standing(after) = standing(after_a)
  <2> HIDE DEF after_a, gone_d
  <2> QED BY <1>5, <1>6, RetreatOneNation
<1>8. gone_a \cap gone_d = {}
  <2> HIDE DEF gone_a, gone_d
  <2> QED BY <1>4, <1>6 DEF InOrder, Opposed
<1>9. ASSUME NEW u \in DOMAIN units
      PROVE  /\ u \notin gone_a => after_a[u] = hit[u]
             /\ u \in gone_a => after_a[u].order = halted /\ Hop(hit[u].position, after_a[u].position)
  <2> HIDE DEF gone_a
  <2> QED BY <1>3, <1>4, RetreatEach
<1>10. ASSUME NEW u \in DOMAIN units
       PROVE  /\ u \notin gone_d => after[u] = after_a[u]
              /\ u \in gone_d => after[u].order = halted /\ Hop(after_a[u].position, after[u].position)
  <2> HIDE DEF after_a, gone_d
  <2> QED BY <1>5, <1>6, RetreatEach
<1>11. units' = (IF won THEN advance(after, k, kept[k]) ELSE after)
       /\ battles' = [j \in IF ended THEN DOMAIN kept \ {k} ELSE DOMAIN kept |-> kept[j]]
       BY <1>2
<1>12. DOMAIN kept = DOMAIN battles BY DEF strip_fighters
<1>13. won => ended OBVIOUS
<1> HIDE DEF won, ended, gone_a, gone_d, after_a, after
<1>14. /\ \A u \in DOMAIN units \ gone : /\ after[u].position = units[u].position
                                         /\ after[u].order = units[u].order
       /\ \A u \in gone \cap DOMAIN units :
            after[u].order = halted /\ Hop(units[u].position, after[u].position)
       BY <1>3, <1>8, <1>9, <1>10
<1> HIDE DEF kept
<1>15. /\ DOMAIN battles' \subseteq DOMAIN battles
       /\ \A j \in DOMAIN battles' : battles'[j] = kept[j]
       /\ units' = after \/ (units' = advance(after, k, kept[k]) /\ k \notin DOMAIN battles')
       BY <1>11, <1>12, <1>13
<1> HIDE DEF gone
<1>16. standing(after) \subseteq standing(units) BY <1>3, <1>5, <1>7
<1> QED BY <1>7, <1>14, <1>15, <1>16 DEF kept

(* After a day of battle, whatever it ends, the fights are in order.       *)
LEMMA BattleDayOrder == ASSUME Inv, InOrder, NEW k \in DOMAIN battles, battle_day(k) PROVE InOrder'
<1>1. PICK mid, gone :
        /\ UnitMap(mid) /\ DOMAIN mid = DOMAIN units /\ standing(mid) \subseteq standing(units)
        /\ \A u \in DOMAIN units \ gone : /\ mid[u].position = units[u].position
                                          /\ mid[u].order = units[u].order
        /\ \A u \in gone \cap DOMAIN units :
             mid[u].order = halted /\ Hop(units[u].position, mid[u].position)
        /\ \/ units' = mid
           \/ /\ units' = advance(mid, k, strip_fighters(battles, gone)[k])
              /\ k \notin DOMAIN battles'
        /\ DOMAIN battles' \subseteq DOMAIN battles
        /\ \A j \in DOMAIN battles' : battles'[j] = strip_fighters(battles, gone)[j]
      BY BattleMoves
<1> DEFINE kept == strip_fighters(battles, gone)
<1>2. BattleMap(battles) /\ SidesOwn(battles) BY DEF Inv, TypeOK, BattleMap
<1>3. BattleMap(kept) /\ SidesOwn(kept) /\ DOMAIN kept = DOMAIN battles BY <1>2, StripType
<1>4. Thinned(battles, kept, gone) BY <1>2, StrippedEach
<1>5. Stayed(units, mid, gone) BY <1>1 DEF Stayed, standing
<1>6. Fights(mid, kept) BY <1>4, <1>5, ThinnedFights DEF InOrder
<1>7. Thinned(battles, battles', gone)
  <2>1. DOMAIN battles' \subseteq DOMAIN kept /\ \A j \in DOMAIN battles' : battles'[j] = kept[j]
        BY <1>1, <1>3
  <2> HIDE DEF kept
  <2> QED BY <1>3, <1>4, <2>1 DEF Thinned
<1>8. Opposed(kept) BY <1>3 DEF InOrder, Opposed
<1>9. OrdersLead(mid) BY <1>1, OrdersKept DEF InOrder
<1>10. attacks' = {} /\ phase' = "battles" /\ musters' = musters
       BY DEF battle_day, InOrder, Underway
<1>11. Opposed(battles') /\ Raised(battles', musters') BY <1>7, <1>10, FewerBattles DEF InOrder
<1> HIDE DEF kept
<1>12. CASE units' = mid
  <2>1. Fights(units', battles')
    <3>1. Thinned(battles, battles', gone) /\ Stayed(units, units', gone) BY <1>5, <1>7, <1>12
    <3> QED BY <3>1, ThinnedFights DEF InOrder
  <2> QED BY <1>9, <1>10, <1>11, <1>12, <2>1, QuietOrder
<1>13. CASE units' = advance(mid, k, kept[k]) /\ k \notin DOMAIN battles'
  <2>1. DOMAIN battles' \subseteq DOMAIN kept \ {k} /\ \A j \in DOMAIN battles' : battles'[j] = kept[j]
        BY <1>1, <1>3, <1>13 DEF kept
  <2>2. Fights(units', battles') BY <1>1, <1>3, <1>6, <1>8, <1>13, <2>1, AdvanceFights
  <2>3. OrdersLead(units')
    <3> DEFINE stack == kept[k].attacking_units \cap kept[k].attacker_units \cap standing(mid)
               to == [u \in kept[k].attacking_units |-> k.tile]
    <3>1. units' = mid \/ units' = moved(mid, stack, to) BY <1>13 DEF advance
    <3> HIDE DEF stack, to
    <3>2. CASE units' = moved(mid, stack, to)
      <4>1. DOMAIN units' = DOMAIN mid BY <3>2 DEF moved
      <4>2. \A u \in DOMAIN mid : units'[u].order = halted \/ units'[u] = mid[u]
            BY <1>1, <3>2, MovedEach
      <4> QED BY <1>9, <4>1, <4>2, OrdersKept
    <3> QED BY <1>9, <3>1, <3>2
  <2> QED BY <1>10, <1>11, <2>2, <2>3, QuietOrder
<1> QED BY <1>1, <1>12, <1>13 DEF kept

(* Whoever moved that day took one step a march can take.                  *)
LEMMA BattleDaySteps ==
    ASSUME Inv, InOrder, NEW k \in DOMAIN battles, battle_day(k), NEW u \in DOMAIN units
    PROVE  Hop(units[u].position, units'[u].position)
<1>1. PICK mid, gone :
        /\ UnitMap(mid) /\ DOMAIN mid = DOMAIN units /\ standing(mid) \subseteq standing(units)
        /\ \A v \in DOMAIN units \ gone : /\ mid[v].position = units[v].position
                                          /\ mid[v].order = units[v].order
        /\ \A v \in gone \cap DOMAIN units :
             mid[v].order = halted /\ Hop(units[v].position, mid[v].position)
        /\ \/ units' = mid
           \/ /\ units' = advance(mid, k, strip_fighters(battles, gone)[k])
              /\ k \notin DOMAIN battles'
      BY BattleMoves
<1> DEFINE kept == strip_fighters(battles, gone)
           stack == kept[k].attacking_units \cap kept[k].attacker_units \cap standing(mid)
           to == [v \in kept[k].attacking_units |-> k.tile]
<1>2. Thinned(battles, kept, gone)
  <2>1. BattleMap(battles) BY DEF Inv, TypeOK, BattleMap
  <2> QED BY <2>1, StrippedEach
<1>3. DOMAIN kept = DOMAIN battles BY DEF strip_fighters
<1> HIDE DEF kept
<1>4. Hop(units[u].position, mid[u].position)
  <2>1. CASE u \in gone BY <1>1, <2>1
  <2>2. CASE u \notin gone BY <1>1, <2>2 DEF Hop
  <2> QED BY <2>1, <2>2
<1>5. CASE units'[u] = mid[u] BY <1>4, <1>5
<1>6. CASE units' = moved(mid, stack, to) /\ u \in stack
  <2>1. units'[u].position = to[u] /\ to[u] = k.tile
    <3>1. to[u] = k.tile BY <1>6
    <3> HIDE DEF to, stack
    <3> QED BY <1>1, <1>6, <3>1, MovedEach
  <2>2. u \notin gone /\ u \in leading(battles[k]) \cap standing(units)
        BY <1>1, <1>2, <1>3, <1>6 DEF Thinned, leading
  <2>3. <<units[u].position, k.tile>> \in crossable BY <2>2 DEF InOrder, Fights, LeadsAhead
  <2> QED BY <2>1, <2>3 DEF Hop
<1>7. units'[u] = mid[u] \/ (units' = moved(mid, stack, to) /\ u \in stack)
  <2>1. units' = mid \/ units' = moved(mid, stack, to) BY <1>1 DEF advance, kept
  <2> HIDE DEF stack, to
  <2> QED BY <1>1, <2>1, MovedEach
<1> QED BY <1>5, <1>6, <1>7

-----------------------------------------------------------------------------
(* The march.                                                              *)

(* Where a unit under orders heads is a step from where it stands.         *)
LEMMA AheadIsNext ==
    ASSUME Inv, InOrder, NEW u \in todo, marching(u)
    PROVE  /\ u \in DOMAIN units /\ units[u].order \in Seq(Tiles) /\ units[u].order # halted
           /\ connected(units[u].position, units[u].order)
           /\ next_tile(u) = units[u].order[1]
           /\ <<units[u].position, next_tile(u)>> \in crossable
           /\ u \notin units_in_live_battles /\ \A a \in attacks : a.unit # u
<1>1. u \in DOMAIN units /\ units[u].order \in Seq(Tiles) /\ units[u].order # halted
      BY AheadType DEF unit
<1>2. connected(units[u].position, units[u].order) BY <1>1 DEF InOrder, OrdersLead
<1>3. next_tile(u) = units[u].order[1] BY <1>1 DEF next_tile
<1>4. u \notin units_in_live_battles /\ \A a \in attacks : a.unit # u
      BY DEF marching, InOrder, Underway, AttacksLead
<1> QED BY <1>1, <1>2, <1>3, <1>4 DEF connected

(* A turn of the march: the unit's own place and order, and its attack.    *)
LEMMA TurnOrder ==
    ASSUME Inv, InOrder, NEW u \in todo, marching(u), todo' \subseteq todo,
           DOMAIN units' = DOMAIN units, units'[u].state = units[u].state,
           \A v \in DOMAIN units \ {u} : units'[v] = units[v],
           units'[u].order # halted => connected(units'[u].position, units'[u].order),
           attacks \subseteq attacks',
           \A a \in attacks' \ attacks : /\ a.unit = u /\ u \notin todo'
                                         /\ connected(units'[u].position, a.order)
                                         /\ a.key.tile = a.order[1],
           \A a, b \in attacks' \ attacks : a = b
    PROVE  InOrder'
<1>1. /\ u \in DOMAIN units /\ u \notin units_in_live_battles /\ \A a \in attacks : a.unit # u
      /\ UNCHANGED <<battles, musters, phase>> /\ phase = "march"
      BY AheadIsNext DEF marching
<1>2. Fights(units', battles')
  <2>1. PICK gone : gone = {u} OBVIOUS
  <2>2. Thinned(battles, battles', gone)
    <3>1. \A k \in DOMAIN battles : u \notin listed(battles[k]) BY <1>1 DEF units_in_live_battles
    <3> QED BY <1>1, <2>1, <3>1 DEF Thinned, listed
  <2>3. Stayed(units, units', gone) BY <2>1 DEF Stayed, standing
  <2> QED BY <2>2, <2>3, ThinnedFights DEF InOrder
<1>3. Opposed(battles') /\ Raised(battles', musters') BY <1>1 DEF InOrder
<1>4. OrdersLead(units') BY DEF InOrder, OrdersLead
<1>5. AttacksLead' BY <1>1 DEF InOrder, AttacksLead
<1>6. Underway' BY <1>1 DEF InOrder, Underway, units_in_live_battles
<1> QED BY <1>2, <1>3, <1>4, <1>5, <1>6 DEF InOrder

LEMMA OrderedEach ==
    ASSUME Inv, NEW u \in DOMAIN units, NEW r, ordered(u, r)
    PROVE  /\ DOMAIN units' = DOMAIN units /\ units'[u].order = r
           /\ units'[u].position = units[u].position /\ units'[u].state = units[u].state
           /\ \A v \in DOMAIN units \ {u} : units'[v] = units[v]
<1>1. units \in [DOMAIN units -> unit] BY DEF Inv, TypeOK
<1> QED BY <1>1 DEF ordered, unit

LEMMA MarchAttacksOrder == ASSUME Inv, InOrder, NEW u \in todo, march_attacks(u) PROVE InOrder'
<1> DEFINE new == [key |-> [tile |-> next_tile(u), attacker |-> owner[u],
                           defender |-> foreign_holder(u, next_tile(u))],
                  unit |-> u, order |-> units[u].order]
<1>1. /\ marching(u) /\ ordered(u, halted) /\ attacks' = attacks \cup {new} /\ todo' = todo \ {u}
      BY DEF march_attacks
<1>2. /\ new.unit = u /\ new.order = units[u].order /\ new.key.tile = next_tile(u) OBVIOUS
<1>3. /\ u \in DOMAIN units /\ connected(units[u].position, units[u].order)
      /\ next_tile(u) = units[u].order[1]
      BY <1>1, AheadIsNext
<1>4. /\ DOMAIN units' = DOMAIN units /\ units'[u].order = halted
      /\ units'[u].position = units[u].position /\ units'[u].state = units[u].state
      /\ \A v \in DOMAIN units \ {u} : units'[v] = units[v]
      BY <1>1, <1>3, OrderedEach
<1> HIDE DEF new
<1> QED BY <1>1, <1>2, <1>3, <1>4, TurnOrder

LEMMA MarchBlockedOrder == ASSUME Inv, InOrder, NEW u \in todo, march_blocked(u) PROVE InOrder'
<1>1. marching(u) /\ attacks' = attacks BY DEF march_blocked
<1>2. u \in DOMAIN units BY <1>1, AheadIsNext
<1>3. PICK r : ordered(u, r) /\ (r # halted => connected(units[u].position, r)) /\ todo' \subseteq todo
  <2> DEFINE rs == march_path(units[u].position, dest(u), foreign_held_tiles(units, owner[u]))
  <2>1. CASE \E r \in rs : ordered(u, r) /\ todo' = todo
    <3>1. PICK r \in rs : ordered(u, r) /\ todo' = todo BY <2>1
    <3>2. connected(units[u].position, r) BY RouteConnected
    <3> QED BY <3>1, <3>2
  <2>2. CASE ordered(u, halted) /\ todo' = todo \ {u} BY <2>2
  <2> QED BY <2>1, <2>2 DEF march_blocked
<1>4. /\ DOMAIN units' = DOMAIN units /\ units'[u].order = r
      /\ units'[u].position = units[u].position /\ units'[u].state = units[u].state
      /\ \A v \in DOMAIN units \ {u} : units'[v] = units[v]
      BY <1>2, <1>3, OrderedEach
<1> QED BY <1>1, <1>3, <1>4, TurnOrder

LEMMA MarchStepsEach ==
    ASSUME Inv, InOrder, NEW u \in todo, march_steps(u)
    PROVE  /\ marching(u) /\ DOMAIN units' = DOMAIN units /\ units'[u].state = units[u].state
           /\ units'[u].position = next_tile(u) /\ units'[u].order = Tail(units[u].order)
           /\ \A v \in DOMAIN units \ {u} : units'[v] = units[v]
<1>1. marching(u) BY DEF march_steps
<1>2. u \in DOMAIN units BY <1>1, AheadIsNext
<1>3. units' = [units EXCEPT ![u].position = next_tile(u), ![u].order = Tail(@)] BY DEF march_steps
<1>4. units \in [DOMAIN units -> unit] BY DEF Inv, TypeOK
<1>5. units'[u] = [units[u] EXCEPT !.position = next_tile(u), !.order = Tail(@)]
      BY <1>2, <1>3, <1>4
<1>6. DOMAIN units' = DOMAIN units /\ \A v \in DOMAIN units \ {u} : units'[v] = units[v]
      BY <1>3, <1>4
<1> QED BY <1>1, <1>2, <1>4, <1>5, <1>6 DEF unit

LEMMA MarchStepsOrder == ASSUME Inv, InOrder, NEW u \in todo, march_steps(u) PROVE InOrder'
<1>1. marching(u) /\ attacks' = attacks /\ todo' \subseteq todo BY DEF march_steps
<1>2. /\ DOMAIN units' = DOMAIN units /\ units'[u].state = units[u].state
      /\ units'[u].position = next_tile(u) /\ units'[u].order = Tail(units[u].order)
      /\ \A v \in DOMAIN units \ {u} : units'[v] = units[v]
      BY MarchStepsEach
<1>3. /\ units[u].order \in Seq(Tiles) /\ units[u].order # halted
      /\ connected(units[u].position, units[u].order)
      BY <1>1, AheadIsNext
<1>4. units'[u].order # halted => connected(units'[u].position, units'[u].order)
      BY <1>2, <1>3, TailConnected DEF halted, next_tile
<1> QED BY <1>1, <1>2, <1>4, TurnOrder

LEMMA MarchBanksOrder == ASSUME Inv, InOrder, NEW u \in todo, march_banks(u) PROVE InOrder'
<1>1. marching(u) /\ attacks' = attacks /\ todo' \subseteq todo /\ units' = units
      BY DEF march_banks
<1>2. u \in DOMAIN units /\ connected(units[u].position, units[u].order) BY <1>1, AheadIsNext
<1> QED BY <1>1, <1>2, TurnOrder

-----------------------------------------------------------------------------
(* The battle an attack opens.                                             *)

(* Who fights the new battle: the attacking stack, a step away; those the  *)
(* sides draw in, beside it and in no other fight; and who stands on the   *)
(* tile.                                                                   *)
LEMMA NewBattle ==
    ASSUME Inv, InOrder, NEW k, opens(k)
    PROVE  LET b == new_battle(k)
           IN  /\ leading(b) = attacking_stack(k) /\ listed(b) \subseteq standing(units)
               /\ \A u \in attacking_stack(k) : <<units[u].position, k.tile>> \in crossable
               /\ \A u \in listed(b) : \/ units[u].position = k.tile
                                       \/ <<k.tile, units[u].position>> \in beside
               /\ \A u \in listed(b) \cap units_in_live_battles :
                    u \in b.defender_units /\ units[u].position = k.tile
               /\ k \notin DOMAIN battles /\ k.attacker # k.defender
<1> DEFINE b == new_battle(k)
           here == {u \in on_tile(units, k.tile) : owner[u] = k.defender}
<1>1. /\ b.attacker_units = attacking_stack(k) \cup joining(k, k.attacker)
      /\ b.defender_units = here \cup joining(k, k.defender)
      /\ b.attacking_units = attacking_stack(k)
      BY DEF new_battle
<1> HIDE DEF b
<1>2. ASSUME NEW u \in attacking_stack(k)
      PROVE  /\ u \in standing(units) \ units_in_live_battles
             /\ <<units[u].position, k.tile>> \in crossable
             /\ <<k.tile, units[u].position>> \in beside
  <2>1. PICK a \in attacks : a.key = k /\ a.unit = u BY DEF attacking_stack, stack_of
  <2>2. connected(units[u].position, a.order) /\ k.tile = a.order[1]
        BY <2>1 DEF InOrder, AttacksLead
  <2>3. <<units[u].position, k.tile>> \in crossable BY <2>2 DEF connected
  <2>4. <<k.tile, units[u].position>> \in beside
    <3> DEFINE q == <<units[u].position, k.tile>>
    <3>1. q \in beside /\ q[1] = units[u].position /\ q[2] = k.tile BY <2>3, GroundAssumption
    <3> HIDE DEF q
    <3> QED BY <3>1, GroundAssumption
  <2> QED BY <2>3, <2>4 DEF attacking_stack
<1>3. ASSUME NEW n, NEW u \in joining(k, n)
      PROVE  u \in standing(units) \ units_in_live_battles /\ <<k.tile, units[u].position>> \in beside
      BY DEF joining, beside_tile
<1>4. \A u \in here : u \in standing(units) /\ units[u].position = k.tile BY DEF on_tile
<1>5. k.attacker # k.defender /\ k \notin DOMAIN battles BY DEF opens
<1> HIDE DEF here
<1>6. leading(b) = attacking_stack(k) BY <1>1 DEF leading
<1>7. listed(b) = attacking_stack(k) \cup joining(k, k.attacker) \cup here \cup joining(k, k.defender)
      BY <1>1 DEF listed
<1>8. listed(b) \subseteq standing(units) BY <1>2, <1>3, <1>4, <1>7
<1>9. \A u \in listed(b) : units[u].position = k.tile \/ <<k.tile, units[u].position>> \in beside
      BY <1>2, <1>3, <1>4, <1>7
<1>10. \A u \in listed(b) \cap units_in_live_battles : u \in here BY <1>2, <1>3, <1>7
<1> QED BY <1>1, <1>2, <1>4, <1>5, <1>6, <1>8, <1>9, <1>10 DEF b

(* It leaves the fights in order.                                          *)
LEMMA OpenedFights ==
    ASSUME Inv, InOrder, NEW k, opens(k),
           NEW cs, DOMAIN cs = DOMAIN battles \cup {k}, cs[k] = new_battle(k),
           \A j \in DOMAIN battles : cs[j] = battles[j]
    PROVE  Fights(units, cs) /\ Opposed(cs) /\ Raised(cs, musters)
<1> DEFINE b == new_battle(k)
<1>1. /\ leading(b) = attacking_stack(k) /\ listed(b) \subseteq standing(units)
      /\ \A u \in attacking_stack(k) : <<units[u].position, k.tile>> \in crossable
      /\ \A u \in listed(b) : units[u].position = k.tile \/ <<k.tile, units[u].position>> \in beside
      /\ \A u \in listed(b) \cap units_in_live_battles :
           u \in b.defender_units /\ units[u].position = k.tile
      /\ k \notin DOMAIN battles /\ k.attacker # k.defender
      BY NewBattle
<1>2. \A u \in attacking_stack(k) : u \notin units_in_live_battles BY DEF attacking_stack
<1>3. \A j \in DOMAIN battles : listed(battles[j]) \subseteq units_in_live_battles
      BY DEF units_in_live_battles
<1>4. \A j \in DOMAIN battles : leading(battles[j]) \subseteq listed(battles[j]) BY DEF leading, listed
<1>5. cs[k] = b OBVIOUS
<1> HIDE DEF b
<1>6. AtHand(units, cs) BY <1>1, <1>5 DEF InOrder, Fights, AtHand
<1>7. LeadsAhead(units, cs) BY <1>1, <1>5 DEF InOrder, Fights, LeadsAhead
<1>8. OneLead(units, cs)
  <2> SUFFICES ASSUME NEW i \in DOMAIN cs, NEW j \in DOMAIN cs,
                      NEW u \in listed(cs[i]) \cap standing(units), i # j, u \in leading(cs[j])
               PROVE  u \in cs[i].defender_units /\ i.tile = units[u].position
      BY DEF OneLead
  <2>1. CASE i = k
    <3>1. j \in DOMAIN battles /\ cs[j] = battles[j] BY <2>1
    <3>2. u \in units_in_live_battles BY <1>3, <1>4, <3>1
    <3> QED BY <1>1, <1>5, <2>1, <3>2
  <2>2. CASE j = k
    <3>1. i \in DOMAIN battles /\ cs[i] = battles[i] BY <2>2
    <3>2. u \in units_in_live_battles BY <1>3, <3>1
    <3> QED BY <1>1, <1>2, <1>5, <2>2, <3>2
  <2>3. CASE i # k /\ j # k
    <3>1. i \in DOMAIN battles /\ cs[i] = battles[i] /\ j \in DOMAIN battles /\ cs[j] = battles[j]
          BY <2>3
    <3> QED BY <3>1 DEF InOrder, Fights, OneLead
  <2> QED BY <2>1, <2>2, <2>3
<1>9. Opposed(cs) BY <1>1 DEF InOrder, Opposed
<1>10. Raised(cs, musters)
  <2>1. \A u \in standing(units) : u \notin musters BY DEF standing, Inv, TypeOK
  <2> QED BY <1>1, <1>5, <2>1 DEF InOrder, Raised
<1> QED BY <1>6, <1>7, <1>8, <1>9, <1>10 DEF Fights

(* An order goes back as it was registered.                                *)
LEMMA OrderBackEach ==
    ASSUME Inv, NEW a0 \in attacks, open_tile_battle(a0.key), NEW u \in DOMAIN units
    PROVE  /\ units'[u].position = units[u].position /\ units'[u].state = units[u].state
           /\ \/ /\ units'[u].order = units[u].order
                 /\ u \in stack_of(a0.key) => opens(a0.key) /\ u \in attacking_stack(a0.key)
              \/ \E a \in attacks : a.key = a0.key /\ a.unit = u /\ units'[u].order = a.order
<1> DEFINE k == a0.key
           a == CHOOSE x \in attacks : x.key = k /\ x.unit = u
           back == u \in stack_of(k) /\ ~(opens(k) /\ u \in attacking_stack(k))
<1>1. units'[u] = IF back THEN [units[u] EXCEPT !.order = a.order] ELSE units[u]
      BY DEF open_tile_battle, order_back
<1>2. units[u] \in unit BY DEF Inv, TypeOK
<1>3. back => a \in attacks /\ a.key = k /\ a.unit = u
  <2> SUFFICES ASSUME back PROVE \E x \in attacks : x.key = k /\ x.unit = u OBVIOUS
  <2> QED BY DEF stack_of
<1>4. ~back => (u \in stack_of(k) => opens(k) /\ u \in attacking_stack(k)) OBVIOUS
<1> HIDE DEF a, back
<1> QED BY <1>1, <1>2, <1>3, <1>4 DEF unit

LEMMA OpenBattleOrder ==
    ASSUME Inv, InOrder, NEW a0 \in attacks, open_tile_battle(a0.key) PROVE InOrder'
<1> DEFINE k == a0.key
<1>1. /\ phase = "open" /\ attacks' = {a \in attacks : a.key # k}
      /\ UNCHANGED <<musters, phase, todo>>
      BY DEF open_tile_battle
<1>2. /\ DOMAIN units' = DOMAIN units
      /\ \A u \in DOMAIN units : units'[u].position = units[u].position /\ units'[u].state = units[u].state
  <2>1. DOMAIN units' = DOMAIN units BY DEF open_tile_battle, order_back
  <2> QED BY <2>1, OrderBackEach
<1>3. standing(units') = standing(units) BY <1>2 DEF standing
<1>4. Fights(units, battles') /\ Opposed(battles') /\ Raised(battles', musters)
  <2>1. CASE opens(k)
    <3>1. k \notin DOMAIN battles BY <2>1, NewBattle
    <3>2. /\ DOMAIN battles' = DOMAIN battles \cup {k} /\ battles'[k] = new_battle(k)
          /\ \A j \in DOMAIN battles : battles'[j] = battles[j]
          BY <2>1, <3>1 DEF open_tile_battle
    <3> HIDE DEF k
    <3> QED BY <2>1, <3>2, OpenedFights
  <2>2. CASE ~opens(k)
    <3>1. DOMAIN battles' = DOMAIN battles /\ \A j \in DOMAIN battles : battles'[j] = battles[j]
          BY <2>2 DEF open_tile_battle
    <3>2. /\ \A j \in DOMAIN battles' : /\ battles'[j].attacker_units = battles[j].attacker_units
                                        /\ battles'[j].defender_units = battles[j].defender_units
                                        /\ battles'[j].attacking_units \subseteq battles[j].attacking_units
          /\ standing(units) \subseteq standing(units)
          /\ \A u \in standing(units) : units[u].position = units[u].position
          BY <3>1
    <3>3. Fights(units, battles')
      <4> HIDE DEF k
      <4> QED BY <3>1, <3>2, StillFights DEF InOrder
    <3> QED BY <3>1, <3>3 DEF InOrder, Opposed, Raised
  <2> QED BY <2>1, <2>2
<1>5. Fights(units', battles')
  <2>1. \A u \in standing(units') : units'[u].position = units[u].position
        BY <1>2 DEF standing
  <2>2. /\ DOMAIN battles' \subseteq DOMAIN battles' /\ standing(units') \subseteq standing(units)
        /\ \A j \in DOMAIN battles' : /\ battles'[j].attacker_units = battles'[j].attacker_units
                                      /\ battles'[j].defender_units = battles'[j].defender_units
                                      /\ battles'[j].attacking_units \subseteq battles'[j].attacking_units
        BY <1>3
  <2> QED BY <1>4, <2>1, <2>2, StillFights
<1>6. OrdersLead(units')
  <2> SUFFICES ASSUME NEW u \in DOMAIN units, units'[u].order # halted
               PROVE  connected(units'[u].position, units'[u].order)
      BY <1>2 DEF OrdersLead
  <2>1. CASE units'[u].order = units[u].order BY <1>2, <2>1 DEF InOrder, OrdersLead
  <2>2. CASE \E a \in attacks : a.key = k /\ a.unit = u /\ units'[u].order = a.order
        BY <1>2, <2>2 DEF InOrder, AttacksLead
  <2> QED BY <2>1, <2>2, OrderBackEach
<1>7. AttacksLead' BY <1>1, <1>2 DEF InOrder, AttacksLead
<1>8. Underway' BY <1>1 DEF InOrder, Underway
<1> QED BY <1>1, <1>4, <1>5, <1>6, <1>7, <1>8 DEF InOrder

-----------------------------------------------------------------------------
LEMMA InitOrder == Init => InOrder
<1> SUFFICES ASSUME Init PROVE InOrder OBVIOUS
<1>1. DOMAIN battles = {} BY DEF Init
<1>2. Fights(units, battles) /\ Opposed(battles) /\ Raised(battles, musters)
      BY <1>1 DEF Fights, AtHand, OneLead, LeadsAhead, Opposed, Raised
<1>3. OrdersLead(units) BY DEF Init, OrdersLead
<1>4. AttacksLead /\ Underway BY DEF Init, AttacksLead, Underway
<1> QED BY <1>2, <1>3, <1>4 DEF InOrder

(* Every verb and every step of the military day keeps fights in order.    *)
LEMMA StepOrder == ASSUME Inv, InOrder, [Next]_vars PROVE InOrder'
<1>1. CASE VerbNext
  <2>1. CASE \E u \in DOMAIN units : halt_unit(u) \/ disband_unit(u) \/ \E t \in Tiles : march_unit(u, t)
        BY <2>1, HaltUnitOrder, DisbandUnitOrder, MarchUnitOrder
  <2>2. CASE \E k \in DOMAIN battles, s \in side : request_withdraw(k, s) BY <2>2, WithdrawRequestOrder
  <2>3. CASE \E a, b \in Nations : declare_hostile(a, b) \/ return_to_neutral(a, b)
        BY <2>3, HostilityOrder
  <2>4. CASE \E a, b \in Nations, goals \in SUBSET Provinces : conclude_peace(a, b, goals)
        BY <2>4, PeaceOrder
  <2>5. CASE \E u \in Units : advance_musters(u) BY <2>5, MusterOrder
  <2> QED BY <1>1, <2>1, <2>2, <2>3, <2>4, <2>5 DEF VerbNext
<1>2. CASE begin_day BY <1>2, PassOrder
<1>3. CASE DayNext
  <2>1. CASE withdrawn BY <2>1, PassOrder
  <2>2. CASE disband_orphaned_units BY <2>2, DisbandOrphansOrder
  <2>3. CASE marched BY <2>3, PassOrder
  <2>4. CASE recover_out_of_contact BY <2>4, RecoverOrder
  <2>5. ASSUME NEW u \in todo,
               withdraw_units(u) \/ march_attacks(u) \/ march_blocked(u) \/ march_steps(u) \/ march_banks(u)
        PROVE  InOrder'
        BY <2>5, WithdrawOrder, MarchAttacksOrder, MarchBlockedOrder, MarchStepsOrder, MarchBanksOrder
  <2>6. ASSUME NEW k \in DOMAIN battles, battle_day(k) PROVE InOrder' BY <2>6, BattleDayOrder
  <2>7. ASSUME NEW a \in attacks, open_tile_battle(a.key) PROVE InOrder' BY <2>7, OpenBattleOrder
  <2> QED BY <1>3, <2>1, <2>2, <2>3, <2>4, <2>5, <2>6, <2>7 DEF DayNext
<1>4. CASE UNCHANGED vars BY <1>4, PassOrder
<1> QED BY <1>1, <1>2, <1>3, <1>4 DEF Next

THEOREM FieldInOrder == Spec => [](Inv /\ InOrder)
<1>1. Init => Inv /\ InOrder BY InitInv, InitOrder
<1>2. Inv /\ InOrder /\ [Next]_vars => (Inv /\ InOrder)' BY StepInv, StepOrder
<1> QED BY <1>1, <1>2, PTL DEF Spec

(* Whoever fights is at hand and leads one attack alone, and an order, the *)
(* one an attack holds too, leads on from where its unit is: through any   *)
(* joining, retreat, advance, withdrawal, disbanding and loss, on any map. *)
THEOREM FightsStayInOrder == Spec => []FightsInOrder
<1>1. ASSUME Inv, InOrder PROVE FightsInOrder
  <2>1. FightersAtHand BY <1>1 DEF InOrder, Fights, AtHand, FightersAtHand, beside_tile
  <2>2. OneAttackAtATime BY <1>1 DEF InOrder, Fights, OneLead, leading, OneAttackAtATime
  <2>3. OrderLeadsOn BY <1>1 DEF InOrder, OrdersLead, AttacksLead, OrderLeadsOn
  <2> QED BY <2>1, <2>2, <2>3 DEF FightsInOrder
<1> QED BY FieldInOrder, <1>1, PTL

-----------------------------------------------------------------------------
(* Where a step moves a unit: across one side, or not at all.              *)
Hops == \A u \in DOMAIN units \cap DOMAIN units' : Hop(units[u].position, units'[u].position)

LEMMA VerbHops == ASSUME Inv, VerbNext PROVE Hops
<1>1. units \in [DOMAIN units -> unit] BY DEF Inv, TypeOK
<1>2. ASSUME NEW u \in DOMAIN units, halt_unit(u) \/ disband_unit(u) \/ \E t \in Tiles : march_unit(u, t)
      PROVE  Hops
  <2>1. CASE disband_unit(u) BY <2>1 DEF disband_unit, Hops, Hop
  <2>2. CASE halt_unit(u) BY <1>1, <2>2 DEF halt_unit, Hops, Hop, unit
  <2>3. CASE \E t \in Tiles : march_unit(u, t) BY <1>1, <2>3 DEF march_unit, Hops, Hop, unit
  <2> QED BY <1>2, <2>1, <2>2, <2>3
<1>3. ASSUME NEW u \in Units, advance_musters(u) PROVE Hops
  <2>1. u \notin DOMAIN units BY <1>3 DEF advance_musters, Inv, TypeOK
  <2> QED BY <1>3, <2>1 DEF advance_musters, Hops, Hop
<1>4. CASE units' = units BY <1>4 DEF Hops, Hop
<1>5. \/ units' = units \/ \E u \in Units : advance_musters(u)
      \/ \E u \in DOMAIN units : halt_unit(u) \/ disband_unit(u) \/ \E t \in Tiles : march_unit(u, t)
      BY DEF VerbNext, request_withdraw, declare_hostile, return_to_neutral, conclude_peace
<1> QED BY <1>2, <1>3, <1>4, <1>5

LEMMA WithdrawHops == ASSUME Inv, NEW u \in todo, withdraw_units(u) PROVE Hops
<1> DEFINE here == units[u].position
           barred == foreign_held_tiles(units, owner[u]) \cup visited
           steps == best_retreats(units, u, province_of[here], barred)
<1>1. UnitMap(units) BY DEF Inv, TypeOK, UnitMap
<1>2. CASE units' = units BY <1>2 DEF Hops, Hop
<1>3. ASSUME NEW n \in steps, units' = moved(units, {u}, [v \in {u} |-> n]) PROVE Hops
  <2> DEFINE to == [v \in {u} |-> n]
  <2>1. to[u] = n /\ <<units[u].position, n>> \in crossable BY DEF best_retreats
  <2>2. PICK gone : gone = {u} OBVIOUS
  <2>3. units' = moved(units, gone, to) BY <1>3, <2>2
  <2> HIDE DEF to
  <2>4. \A v \in DOMAIN units : (v = u /\ units'[v].position = to[u]) \/ units'[v] = units[v]
        BY <1>1, <2>2, <2>3, MovedEach
  <2> QED BY <2>1, <2>4 DEF Hops, Hop
<1> QED BY <1>2, <1>3 DEF withdraw_units

LEMMA StepHops == ASSUME Inv, InOrder, [Next]_vars PROVE Hops
<1>1. CASE units' = units BY <1>1 DEF Hops, Hop
<1>2. CASE VerbNext BY <1>2, VerbHops
<1>3. CASE DayNext
  <2>1. CASE disband_orphaned_units
    <3> DEFINE hungry == Unsupplied \cap standing(units)
               may_be == [u \in hungry |-> worse(units[u].state)]
    <3>1. PICK fed \in worn(units, hungry, may_be) : units' = [u \in standing(fed) |-> fed[u]]
          BY <2>1 DEF disband_orphaned_units
    <3>2. UnitMap(units) /\ hungry \subseteq DOMAIN units /\ DeadStayDead(units, hungry, may_be)
          BY DEF Inv, TypeOK, UnitMap, standing, DeadStayDead
    <3> HIDE DEF hungry, may_be
    <3>3. \A u \in DOMAIN units : fed[u].position = units[u].position BY <3>2, WornType
    <3> QED BY <3>1, <3>3 DEF Hops, Hop
  <2>2. CASE recover_out_of_contact
    <3>1. units \in [DOMAIN units -> unit] BY DEF Inv, TypeOK
    <3> QED BY <2>2, <3>1 DEF recover_out_of_contact, Hops, Hop, unit
  <2>3. ASSUME NEW u \in todo, march_attacks(u) \/ march_blocked(u) PROVE Hops
    <3>1. u \in DOMAIN units /\ \E r : ordered(u, r)
          BY <2>3, AheadIsNext DEF march_attacks, march_blocked
    <3>2. PICK r : ordered(u, r) BY <3>1
    <3> QED BY <3>1, <3>2, OrderedEach DEF Hops, Hop
  <2>4. ASSUME NEW u \in todo, march_steps(u) PROVE Hops
    <3>1. /\ marching(u) /\ DOMAIN units' = DOMAIN units /\ units'[u].position = next_tile(u)
          /\ \A v \in DOMAIN units \ {u} : units'[v] = units[v]
          BY <2>4, MarchStepsEach
    <3>2. <<units[u].position, next_tile(u)>> \in crossable BY <3>1, AheadIsNext
    <3> QED BY <3>1, <3>2 DEF Hops, Hop
  <2>5. ASSUME NEW k \in DOMAIN battles, battle_day(k) PROVE Hops BY <2>5, BattleDaySteps DEF Hops
  <2>6. ASSUME NEW a \in attacks, open_tile_battle(a.key) PROVE Hops
        BY <2>6, OrderBackEach DEF Hops, Hop
  <2>7. ASSUME NEW u \in todo, withdraw_units(u) PROVE Hops BY <2>7, WithdrawHops
  <2>8. CASE \/ withdrawn \/ marched \/ \E u \in todo : march_banks(u)
        BY <1>1, <2>8 DEF withdrawn, marched, march_banks, world
  <2> QED BY <1>3, <2>1, <2>2, <2>3, <2>4, <2>5, <2>6, <2>7, <2>8 DEF DayNext
<1>4. CASE begin_day \/ UNCHANGED vars BY <1>1, <1>4 DEF begin_day, vars, world
<1> QED BY <1>2, <1>3, <1>4 DEF Next

(* No unit moves but by a step a march can take, over every map: marches,  *)
(* retreats, advances and withdrawals alike (retreat_side, run_battles,    *)
(* withdraw_units, run_unit_march).                                        *)
THEOREM UnitsMoveStepByStep == Spec => StepByStep
<1>1. Inv /\ InOrder /\ [Next]_vars
        => [\A u \in DOMAIN units \cap DOMAIN units' :
              units'[u].position # units[u].position =>
                  <<units[u].position, units'[u].position>> \in crossable]_vars
      BY StepHops DEF Hops, Hop
<1> QED BY FieldInOrder, <1>1, PTL DEF Spec, StepByStep

(* An attack that is no longer registered opened a battle its unit leads,  *)
(* or its unit has its march's order back (open_tile_battles).             *)
THEOREM OrdersAreSpentByBattles == Spec => OrderSpentByItsBattle
<1> DEFINE spent == \A a \in attacks \ attacks' :
              \/ units'[a.unit].order = a.order
              \/ \E k \in DOMAIN battles' : /\ k = a.key /\ a.unit \in battles'[k].attacking_units
                                            /\ a.unit \in battles'[k].attacker_units
<1>1. ASSUME Inv, InOrder, NEW a0 \in attacks, open_tile_battle(a0.key) PROVE spent
  <2> SUFFICES ASSUME NEW a \in attacks, a \notin attacks'
               PROVE  \/ units'[a.unit].order = a.order
                      \/ \E k \in DOMAIN battles' : /\ k = a.key /\ a.unit \in battles'[k].attacking_units
                                                    /\ a.unit \in battles'[k].attacker_units
      OBVIOUS
  <2>1. a.key = a0.key BY <1>1 DEF open_tile_battle
  <2>2. a.unit \in stack_of(a0.key) BY <2>1 DEF stack_of
  <2>3. a.unit \in DOMAIN units BY <1>1 DEF InOrder, AttacksLead
  <2>4. CASE \E x \in attacks : x.key = a0.key /\ x.unit = a.unit /\ units'[a.unit].order = x.order
        BY <1>1, <2>4 DEF InOrder, Underway
  <2>5. CASE opens(a0.key) /\ a.unit \in attacking_stack(a0.key)
    <3> DEFINE k == a0.key
    <3>1. k \notin DOMAIN battles BY <1>1, <2>5, NewBattle
    <3>2. k \in DOMAIN battles' /\ battles'[k] = new_battle(k)
          BY <1>1, <2>5, <3>1 DEF open_tile_battle
    <3> QED BY <2>1, <2>5, <3>2 DEF new_battle
  <2> QED BY <1>1, <2>2, <2>3, <2>4, <2>5, OrderBackEach
<1>2. ASSUME Inv, InOrder, Next PROVE spent
  <2>1. CASE attacks \subseteq attacks' BY <2>1
  <2>2. CASE VerbNext
    <3>1. attacks' = attacks
          BY <2>2 DEF VerbNext, between_days, march_unit, halt_unit, disband_unit, request_withdraw,
                      declare_hostile, return_to_neutral, conclude_peace, advance_musters
    <3> QED BY <2>1, <3>1
  <2>3. CASE begin_day BY <2>1, <2>3 DEF begin_day
  <2>4. CASE DayNext
    <3>1. CASE withdrawn \/ disband_orphaned_units \/ marched \/ recover_out_of_contact
          BY <2>1, <3>1 DEF withdrawn, disband_orphaned_units, marched, recover_out_of_contact
    <3>2. ASSUME NEW u \in todo,
                 withdraw_units(u) \/ march_attacks(u) \/ march_blocked(u) \/ march_steps(u) \/ march_banks(u)
          PROVE  attacks \subseteq attacks'
          BY <3>2 DEF withdraw_units, march_attacks, march_blocked, march_steps, march_banks
    <3>3. ASSUME NEW k \in DOMAIN battles, battle_day(k) PROVE attacks' = attacks
          BY <3>3 DEF battle_day
    <3>4. ASSUME NEW a \in attacks, open_tile_battle(a.key) PROVE spent BY <1>1, <1>2, <3>4
    <3> HIDE DEF spent
    <3>5. CASE \E u \in todo : withdraw_units(u) \/ march_attacks(u) \/ march_blocked(u)
                               \/ march_steps(u) \/ march_banks(u)
          BY <2>1, <3>2, <3>5
    <3>6. CASE \E k \in DOMAIN battles : battle_day(k) BY <2>1, <3>3, <3>6
    <3> QED BY <2>4, <3>1, <3>4, <3>5, <3>6 DEF DayNext
  <2> HIDE DEF spent
  <2> QED BY <1>2, <2>2, <2>3, <2>4 DEF Next
<1>3. Inv /\ InOrder /\ [Next]_vars => [spent]_vars
  <2> HIDE DEF spent
  <2> QED BY <1>2
<1> QED BY FieldInOrder, <1>3, PTL DEF Spec, OrderSpentByItsBattle

=============================================================================
