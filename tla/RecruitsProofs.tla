--------------------------- MODULE RecruitsProofs ---------------------------
(***************************************************************************)
(* For any nations, bases, centres and rates: the population, the pools,   *)
(* the musters, the units and the wings keep their types and the bounds    *)
(* the save reader holds a world to, and nothing is ever raised at, or     *)
(* answers to, a base on another nation's ground.                          *)
(***************************************************************************)
EXTENDS Recruits, FiniteSetTheorems, WellFoundedInduction, TLAPS

-----------------------------------------------------------------------------
(* The least of some numbers. *)
LEMMA LeastNat ==
    ASSUME NEW S, S \subseteq Nat, S # {}
    PROVE  \E x \in S : \A y \in S : x <= y
<1> DEFINE below == {ss \in Nat \X Nat : ss[1] < ss[2]}
<1>1. IsWellFoundedOn(below, Nat) BY NatLessThanWellFounded DEF OpToRel
<1>2. PICK x \in S : \A y \in S : <<y, x>> \notin below
  <2> HIDE DEF below
  <2> QED BY <1>1, WFMin
<1>3. ASSUME NEW y \in S PROVE x <= y
  <2>1. x \in Nat /\ y \in Nat /\ <<y, x>> \in Nat \X Nat OBVIOUS
  <2>2. ~ <<y, x>>[1] < <<y, x>>[2] BY <1>2, <2>1
  <2> QED BY <2>1, <2>2
<1> QED BY <1>3

(* What holds of the empty set, and of a set whenever it holds of it less any one element,
   holds of every finite set. *)
LEMMA OneMore ==
    ASSUME NEW S, IsFiniteSet(S), NEW T, {} \in T,
           \A U \in SUBSET S : U # {} /\ (\A x \in U : U \ {x} \in T) => U \in T
    PROVE  SUBSET S \subseteq T
<1> DEFINE Counts == {Cardinality(U) : U \in (SUBSET S) \ T}
<1>1. \A U \in SUBSET S : IsFiniteSet(U) /\ Cardinality(U) \in Nat
      BY FS_Subset, FS_CardinalityType
<1>2. SUFFICES ASSUME (SUBSET S) \ T # {} PROVE FALSE OBVIOUS
<1>3. PICK U \in (SUBSET S) \ T : \A V \in (SUBSET S) \ T : Cardinality(U) <= Cardinality(V)
  <2>1. Counts \subseteq Nat /\ Counts # {} BY <1>1, <1>2
  <2>2. PICK n \in Counts : \A m \in Counts : n <= m
    <3> HIDE DEF Counts
    <3> QED BY <2>1, LeastNat
  <2> QED BY <2>2
<1>4. \A x \in U : U \ {x} \in T
  <2>1. \A x \in U : Cardinality(U \ {x}) = Cardinality(U) - 1 /\ U \ {x} \in SUBSET S
        BY <1>1, FS_RemoveElement
  <2> QED BY <1>1, <1>3, <2>1
<1> QED BY <1>3, <1>4

-----------------------------------------------------------------------------
(* Sums over a finite set.  MapThenSumSet adds one chosen element at a time. *)
one(s) == CHOOSE x \in s : TRUE
Adds(g, f, D) ==
    g = [s \in D |-> IF s = {} THEN 0 ELSE f[one(s)] + g[s \ {one(s)}]]
adding(f, S) == CHOOSE g : Adds(g, f, SUBSET S)

LEMMA Unfold == ASSUME NEW f, NEW S PROVE total(f, S) = adding(f, S)[S]
BY DEF total, MapThenSumSet, MapThenFoldSet, adding, Adds, one

LEMMA AddingDefined ==
    ASSUME NEW S, IsFiniteSet(S), NEW f, \A x \in S : f[x] \in Int
    PROVE  Adds(adding(f, S), f, SUBSET S) /\ adding(f, S) \in [SUBSET S -> Int]
<1> DEFINE D(m) == {s \in SUBSET S : Cardinality(s) <= m}
           sums(m) == {g \in [D(m) -> Int] : Adds(g, f, D(m))}
           T == {m \in Nat : sums(m) # {}}
<1>1. \A s \in SUBSET S : /\ Cardinality(s) \in Nat
                          /\ Cardinality(s) = 0 <=> s = {}
                          /\ Cardinality(s) <= Cardinality(S)
      BY FS_Subset, FS_CardinalityType, FS_EmptySet
<1>2. \A s \in SUBSET S : s # {} => /\ one(s) \in S /\ s \ {one(s)} \in SUBSET S
                                    /\ Cardinality(s \ {one(s)}) = Cardinality(s) - 1
      BY FS_Subset, FS_RemoveElement DEF one
<1>3. 0 \in T
  <2> DEFINE g == [s \in D(0) |-> 0]
  <2>1. \A s \in D(0) : s = {} BY <1>1
  <2>2. g \in sums(0) BY <2>1 DEF Adds
  <2> QED BY <2>2
<1>4. ASSUME NEW m \in T PROVE m + 1 \in T
  <2>1. PICK g \in [D(m) -> Int] : Adds(g, f, D(m)) OBVIOUS
  <2> DEFINE h == [s \in D(m + 1) |-> IF s = {} THEN 0 ELSE f[one(s)] + g[s \ {one(s)}]]
  <2>2. \A s \in D(m + 1) : s # {} => s \ {one(s)} \in D(m) BY <1>1, <1>2
  <2>3. h \in [D(m + 1) -> Int] BY <1>2, <2>1, <2>2
  <2>4. \A s \in D(m) : s \in D(m + 1) /\ h[s] = g[s]
    <3>1. m \in Nat OBVIOUS
    <3>2. \A s \in D(m) : s \in D(m + 1) BY <1>1, <3>1
    <3>3. \A s \in D(m) : g[s] = IF s = {} THEN 0 ELSE f[one(s)] + g[s \ {one(s)}]
          BY <2>1 DEF Adds
    <3> QED BY <3>2, <3>3
  <2>5. \A s \in D(m + 1) : s # {} => h[s \ {one(s)}] = g[s \ {one(s)}] BY <2>2, <2>4
  <2>6. Adds(h, f, D(m + 1)) BY <2>5 DEF Adds
  <2>7. h \in sums(m + 1) /\ m + 1 \in Nat BY <2>3, <2>6
  <2> HIDE DEF sums
  <2> QED BY <2>7
<1>5. \A m \in Nat : m \in T
  <2>1. SUFFICES ASSUME Nat \ T # {} PROVE FALSE OBVIOUS
  <2>2. PICK n \in Nat \ T : \A m \in Nat \ T : n <= m BY <2>1, LeastNat
  <2>3. n # 0 BY <1>3
  <2>4. n - 1 \in Nat /\ n - 1 \notin Nat \ T
    <3> HIDE DEF T
    <3> QED BY <2>2, <2>3
  <2>5. (n - 1) + 1 \in T
    <3> HIDE DEF T
    <3> QED BY <1>4, <2>4
  <2> HIDE DEF T
  <2> QED BY <2>2, <2>5
<1>6. PICK g \in [D(Cardinality(S)) -> Int] : Adds(g, f, D(Cardinality(S)))
  <2>1. Cardinality(S) \in T BY <1>1, <1>5
  <2> QED BY <2>1
<1>7. D(Cardinality(S)) = SUBSET S BY <1>1
<1>8. Adds(g, f, SUBSET S) BY <1>6, <1>7
<1>9. Adds(adding(f, S), f, SUBSET S) BY <1>8 DEF adding
<1>10. ASSUME NEW a, NEW b, Adds(a, f, SUBSET S), Adds(b, f, SUBSET S) PROVE a = b
  <2> DEFINE Same == {s \in SUBSET S : a[s] = b[s]}
  <2>1. {} \in Same BY <1>10 DEF Adds
  <2>2. \A s \in SUBSET S : s # {} /\ s \ {one(s)} \in Same => s \in Same
        BY <1>10 DEF Adds
  <2>3. SUBSET S \subseteq Same
    <3>1. \A s \in SUBSET S : s # {} /\ (\A x \in s : s \ {x} \in Same) => s \in Same
          BY <2>2 DEF one
    <3> HIDE DEF Same
    <3> QED BY <2>1, <3>1, OneMore
  <2>4. DOMAIN a = SUBSET S /\ DOMAIN b = SUBSET S BY <1>10 DEF Adds
  <2> QED BY <1>10, <2>3, <2>4 DEF Adds
<1>11. adding(f, S) = g BY <1>8, <1>9, <1>10
<1> QED BY <1>6, <1>7, <1>9, <1>11

LEMMA Total ==
    ASSUME NEW S, IsFiniteSet(S), NEW f, \A x \in S : f[x] \in Int
    PROVE  /\ total(f, S) \in Int
           /\ total(f, {}) = 0
           /\ S # {} => one(S) \in S /\ total(f, S) = f[one(S)] + total(f, S \ {one(S)})
<1>1. ASSUME NEW U \in SUBSET S
      PROVE  Adds(adding(f, U), f, SUBSET U) /\ adding(f, U) \in [SUBSET U -> Int]
      BY FS_Subset, AddingDefined
<1>2. ASSUME NEW U \in SUBSET S PROVE adding(f, S)[U] = adding(f, U)[U]
  <2> DEFINE Same == {s \in SUBSET U : adding(f, S)[s] = adding(f, U)[s]}
  <2>1. /\ \A s \in SUBSET S : adding(f, S)[s] = IF s = {} THEN 0
                                   ELSE f[one(s)] + adding(f, S)[s \ {one(s)}]
        /\ \A s \in SUBSET U : adding(f, U)[s] = IF s = {} THEN 0
                                   ELSE f[one(s)] + adding(f, U)[s \ {one(s)}]
    <3> DEFINE a == adding(f, S) b == adding(f, U)
    <3>1. Adds(a, f, SUBSET S) /\ Adds(b, f, SUBSET U) BY <1>1
    <3> HIDE DEF a, b
    <3>2. /\ \A s \in SUBSET S : a[s] = IF s = {} THEN 0 ELSE f[one(s)] + a[s \ {one(s)}]
          /\ \A s \in SUBSET U : b[s] = IF s = {} THEN 0 ELSE f[one(s)] + b[s \ {one(s)}]
          BY <3>1 DEF Adds
    <3> QED BY <3>2 DEF a, b
  <2>2. {} \in Same BY <2>1
  <2>3. ASSUME NEW s \in SUBSET U, s # {}, \A x \in s : s \ {x} \in Same PROVE s \in Same
    <3> DEFINE x == one(s)
    <3>1. x \in s BY <2>3 DEF one
    <3>2. /\ adding(f, S)[s] = f[x] + adding(f, S)[s \ {x}]
          /\ adding(f, U)[s] = f[x] + adding(f, U)[s \ {x}]
          BY <2>1, <2>3
    <3> HIDE DEF x
    <3> QED BY <2>3, <3>1, <3>2
  <2>4. SUBSET U \subseteq Same
    <3>1. IsFiniteSet(U) BY FS_Subset
    <3> HIDE DEF Same
    <3> QED BY <2>2, <2>3, <3>1, OneMore
  <2> QED BY <2>4
<1>3. \A U \in SUBSET S : total(f, U) = adding(f, S)[U] BY <1>2, Unfold
<1> DEFINE a == adding(f, S)
<1>4. Adds(a, f, SUBSET S) /\ a \in [SUBSET S -> Int] BY <1>1
<1> HIDE DEF a
<1>5. \A s \in SUBSET S : a[s] = IF s = {} THEN 0 ELSE f[one(s)] + a[s \ {one(s)}]
      BY <1>4 DEF Adds
<1>6. S # {} => one(S) \in S BY DEF one
<1> QED BY <1>3, <1>4, <1>5, <1>6 DEF a

LEMMA TotalNone == ASSUME NEW f PROVE total(f, {}) = 0
<1>1. IsFiniteSet({}) /\ \A x \in {} : f[x] \in Int BY FS_EmptySet
<1> QED BY <1>1, Total

(* Whichever element is set apart, the sum is it and the sum of the others. *)
LEMMA TotalApart ==
    ASSUME NEW S, IsFiniteSet(S), NEW f, \A x \in S : f[x] \in Int, NEW x \in S
    PROVE  total(f, S) = f[x] + total(f, S \ {x})
<1> DEFINE T == {U \in SUBSET S : \A y \in U : total(f, U) = f[y] + total(f, U \ {y})}
<1>1. {} \in T OBVIOUS
<1>2. ASSUME NEW U \in SUBSET S, U # {}, \A y \in U : U \ {y} \in T PROVE U \in T
  <2> SUFFICES ASSUME NEW y \in U PROVE total(f, U) = f[y] + total(f, U \ {y}) OBVIOUS
  <2>1. \A V \in SUBSET S : IsFiniteSet(V) /\ total(f, V) \in Int
        BY FS_Subset, Total
  <2> DEFINE z == one(U)
  <2>2. z \in U /\ total(f, U) = f[z] + total(f, U \ {z}) BY <1>2, <2>1, Total
  <2> HIDE DEF z
  <2>3. CASE y # z
    <3>1. y \in U \ {z} /\ z \in U \ {y} BY <2>2, <2>3
    <3>2. total(f, U \ {z}) = f[y] + total(f, (U \ {z}) \ {y}) BY <1>2, <2>2, <3>1
    <3>3. total(f, U \ {y}) = f[z] + total(f, (U \ {y}) \ {z}) BY <1>2, <3>1
    <3>4. (U \ {z}) \ {y} = (U \ {y}) \ {z} OBVIOUS
    <3> DEFINE rest == total(f, (U \ {z}) \ {y})
    <3>5. rest \in Int /\ f[y] \in Int /\ f[z] \in Int BY <2>1, <2>2
    <3>6. /\ total(f, U) = f[z] + (f[y] + rest)
          /\ total(f, U \ {y}) = f[z] + rest
          BY <2>2, <3>2, <3>3, <3>4
    <3> HIDE DEF rest
    <3>7. f[z] + (f[y] + rest) = f[y] + (f[z] + rest) BY <3>5
    <3> QED BY <3>6, <3>7
  <2> QED BY <2>2, <2>3
<1>3. S \in T
  <2> HIDE DEF T
  <2> QED BY <1>1, <1>2, OneMore
<1> QED BY <1>3

(* Sums of the same numbers are the same. *)
LEMMA TotalSame ==
    ASSUME NEW S, IsFiniteSet(S), NEW f, NEW g, \A x \in S : f[x] \in Int /\ g[x] = f[x]
    PROVE  total(g, S) = total(f, S)
<1> DEFINE T == {U \in SUBSET S : total(g, U) = total(f, U)}
<1>1. {} \in T BY TotalNone
<1>2. ASSUME NEW U \in SUBSET S, U # {}, \A y \in U : U \ {y} \in T PROVE U \in T
  <2>1. IsFiniteSet(U) BY FS_Subset
  <2>2. PICK y \in U : TRUE BY <1>2
  <2>3. total(f, U) = f[y] + total(f, U \ {y}) /\ total(g, U) = g[y] + total(g, U \ {y})
        BY <2>1, TotalApart
  <2> QED BY <1>2, <2>3
<1>3. S \in T
  <2> HIDE DEF T
  <2> QED BY <1>1, <1>2, OneMore
<1> QED BY <1>3

(* A number changed in a sum changes the sum by as much. *)
LEMMA TotalChange ==
    ASSUME NEW S, IsFiniteSet(S), NEW f, NEW g, NEW x \in S,
           \A y \in S : f[y] \in Int /\ g[y] \in Int, \A y \in S \ {x} : g[y] = f[y]
    PROVE  total(g, S) = total(f, S) + (g[x] - f[x])
<1>1. IsFiniteSet(S \ {x}) BY FS_RemoveElement
<1>2. total(g, S \ {x}) = total(f, S \ {x}) BY <1>1, TotalSame
<1>3. total(f, S \ {x}) \in Int BY <1>1, Total
<1>4. total(f, S) = f[x] + total(f, S \ {x}) /\ total(g, S) = g[x] + total(g, S \ {x})
      BY TotalApart
<1> QED BY <1>2, <1>3, <1>4

(* A sum of sums. *)
LEMMA TotalBoth ==
    ASSUME NEW S, IsFiniteSet(S), NEW f, NEW g, NEW h,
           \A x \in S : f[x] \in Int /\ g[x] \in Int /\ h[x] = f[x] + g[x]
    PROVE  total(h, S) = total(f, S) + total(g, S)
<1> DEFINE T == {U \in SUBSET S : total(h, U) = total(f, U) + total(g, U)}
<1>1. {} \in T BY TotalNone
<1>2. ASSUME NEW U \in SUBSET S, U # {}, \A y \in U : U \ {y} \in T PROVE U \in T
  <2>1. IsFiniteSet(U) BY FS_Subset
  <2>2. PICK y \in U : TRUE BY <1>2
  <2>3. /\ total(f, U) = f[y] + total(f, U \ {y})
        /\ total(g, U) = g[y] + total(g, U \ {y})
        /\ total(h, U) = h[y] + total(h, U \ {y})
        BY <2>1, TotalApart
  <2>4. IsFiniteSet(U \ {y}) BY <2>1, FS_RemoveElement
  <2>5. total(f, U \ {y}) \in Int /\ total(g, U \ {y}) \in Int BY <2>4, Total
  <2> QED BY <1>2, <2>3, <2>5
<1>3. S \in T
  <2> HIDE DEF T
  <2> QED BY <1>1, <1>2, OneMore
<1> QED BY <1>3

(* Part of a sum of numbers not below zero is no more than the whole. *)
LEMMA TotalPart ==
    ASSUME NEW S, IsFiniteSet(S), NEW f, \A x \in S : f[x] \in Nat, NEW U \in SUBSET S
    PROVE  total(f, U) <= total(f, S) /\ total(f, U) \in Nat
<1> DEFINE T == {V \in SUBSET S : total(f, V \cap U) <= total(f, V) /\ total(f, V \cap U) \in Nat}
<1>1. {} \in T
  <2>1. {} \cap U = {} /\ total(f, {}) = 0 BY TotalNone
  <2> QED BY <2>1
<1>2. ASSUME NEW V \in SUBSET S, V # {}, \A y \in V : V \ {y} \in T PROVE V \in T
  <2>1. IsFiniteSet(V) /\ IsFiniteSet(V \cap U) BY FS_Subset
  <2>2. PICK y \in V : TRUE BY <1>2
  <2>3. total(f, V) = f[y] + total(f, V \ {y}) BY <2>1, TotalApart
  <2>4. IsFiniteSet(V \ {y}) /\ \A x \in V \ {y} : f[x] \in Int BY <2>1, FS_RemoveElement
  <2>8. total(f, V \ {y}) \in Int BY <2>4, Total
  <2>5. V \ {y} \in T BY <1>2
  <2>6. CASE y \in U
    <3>1. total(f, V \cap U) = f[y] + total(f, (V \cap U) \ {y})
          BY <2>1, <2>6, TotalApart
    <3>2. (V \cap U) \ {y} = (V \ {y}) \cap U OBVIOUS
    <3> DEFINE part == total(f, (V \ {y}) \cap U)
               rest == total(f, V \ {y})
    <3>3. part <= rest /\ part \in Nat /\ rest \in Int /\ f[y] \in Nat BY <2>5, <2>8
    <3>4. total(f, V \cap U) = f[y] + part /\ total(f, V) = f[y] + rest BY <2>3, <3>1, <3>2
    <3> HIDE DEF part, rest
    <3>5. f[y] + part <= f[y] + rest /\ f[y] + part \in Nat BY <3>3
    <3> QED BY <3>4, <3>5
  <2>7. CASE y \notin U
    <3>1. V \cap U = (V \ {y}) \cap U BY <2>7
    <3> QED BY <2>3, <2>8, <2>5, <3>1
  <2> QED BY <2>6, <2>7
<1>3. S \in T
  <2> HIDE DEF T
  <2> QED BY <1>1, <1>2, OneMore
<1>4. S \cap U = U OBVIOUS
<1> QED BY <1>3, <1>4

-----------------------------------------------------------------------------
(* What a carry of a heads takes off p thousands of them. *)
LEMMA Division ==
    ASSUME NEW p \in Nat, NEW a \in Nat, NEW T \in Nat \ {0}, a <= p * T
    PROVE  a \div T \in 0 .. p /\ a % T \in 0 .. T - 1
<1>1. a \div T \in Int /\ a % T \in 0 .. T - 1 OBVIOUS
<1>2. a = T * (a \div T) + (a % T) OBVIOUS
<1>3. a \div T >= 0 BY <1>1, <1>2
<1>4. a \div T <= p BY <1>1, <1>2
<1> QED BY <1>1, <1>3, <1>4

(* What a centre keeps after a carry: its heads less those taken, in thousands or not. *)
LEMMA Carry ==
    ASSUME NEW p \in Nat, NEW a \in Nat, NEW T \in Nat \ {0}
    PROVE  /\ a \div T \in Int /\ a % T \in Int
           /\ (p - (a \div T)) * T - (a % T) = p * T - a
<1> DEFINE q == a \div T
           r == a % T
<1>1. q \in Int /\ r \in Int OBVIOUS
<1>2. a - T * (a \div T) = a % T OBVIOUS
<1>3. a - T * q = r BY <1>2
<1> HIDE DEF q, r
<1>4. (p - q) * T = p * T - T * q BY <1>1
<1> DEFINE x == p * T y == T * q z == (p - q) * T
<1>5. x \in Int /\ y \in Int /\ z \in Int BY <1>1
<1>6. z = x - y /\ a - y = r BY <1>3, <1>4
<1> HIDE DEF x, y, z
<1>7. z - r = x - a BY <1>1, <1>5, <1>6
<1> QED BY <1>1, <1>7 DEF q, r, x, y, z

LEMMA TypeInit == Init => TypeOK
<1> SUFFICES ASSUME Init PROVE TypeOK OBVIOUS
<1> USE RecruitsAssumption DEF Init
<1>1. PeopleOK BY DEF PeopleOK
<1>2. GroundOK BY DEF GroundOK
<1>3. PoolOK BY DEF PoolOK
<1>4. ForceOK BY DEF ForceOK
<1>5. PassOK BY DEF PassOK, NoPlan
<1> QED BY <1>1, <1>2, <1>3, <1>4, <1>5 DEF TypeOK

-----------------------------------------------------------------------------
(* What a step leaves alone keeps its type. *)
LEMMA Kept ==
    ASSUME TypeOK
    PROVE  /\ UNCHANGED people => PeopleOK'
           /\ UNCHANGED <<ground, state_idle>> => GroundOK'
           /\ UNCHANGED pool => PoolOK'
           /\ UNCHANGED force => ForceOK'
           /\ UNCHANGED pass => PassOK'
           /\ UNCHANGED events => (events \in 0 .. MAX_EVENTS)'
           /\ event => (events \in 0 .. MAX_EVENTS)'
<1>1. UNCHANGED people => PeopleOK' BY DEF TypeOK, PeopleOK, people
<1>2. UNCHANGED <<ground, state_idle>> => GroundOK' BY DEF TypeOK, GroundOK, ground
<1>3. UNCHANGED pool => PoolOK' BY DEF TypeOK, PoolOK
<1>4. UNCHANGED force => ForceOK' BY DEF TypeOK, ForceOK, force
<1>5. UNCHANGED pass => PassOK' BY DEF TypeOK, PassOK, pass
<1>6. UNCHANGED events => (events \in 0 .. MAX_EVENTS)' BY DEF TypeOK
<1>7. event => (events \in 0 .. MAX_EVENTS)' BY RecruitsAssumption DEF TypeOK, event
<1> QED BY <1>1, <1>2, <1>3, <1>4, <1>5, <1>6, <1>7

LEMMA HireType == ASSUME TypeOK, HireNext PROVE TypeOK'
<1>1. ASSUME NEW n \in Nations, NEW b \in Bases, NEW h \in Hires, NEW d \in MUSTER_TICKS,
             hire_unit(n, b, h, d)
      PROVE  TypeOK'
  <2>1. PoolOK'
    <3>1. pool[n]["land"] \in 0 .. k_recruit_pool_max /\ pool[n]["land"] >= hire_batch_manpower
          BY <1>1 DEF hire_unit, hire_unit_check, TypeOK, PoolOK, Theatres
    <3>2. pool[n]["land"] - hire_batch_manpower \in 0 .. k_recruit_pool_max
          BY <3>1, RecruitsAssumption
    <3> QED BY <1>1, <3>2 DEF hire_unit, TypeOK, PoolOK, Theatres
  <2>2. ForceOK' BY <1>1, RecruitsAssumption DEF hire_unit, TypeOK, ForceOK, Muster
  <2> QED BY <1>1, <2>1, <2>2, Kept DEF hire_unit, TypeOK
<1>2. ASSUME NEW n \in Nations, NEW b \in Bases, NEW w \in Wings, hire_wing(n, b, w)
      PROVE  TypeOK'
  <2>1. PoolOK'
    <3>1. pool[n]["air"] \in 0 .. k_recruit_pool_max /\ pool[n]["air"] >= crew
          BY <1>2 DEF hire_wing, TypeOK, PoolOK, Theatres
    <3>2. pool[n]["air"] - crew \in 0 .. k_recruit_pool_max BY <3>1, RecruitsAssumption
    <3> QED BY <1>2, <3>2 DEF hire_wing, TypeOK, PoolOK, Theatres
  <2>2. ForceOK' BY <1>2, RecruitsAssumption DEF hire_wing, TypeOK, ForceOK, Wing
  <2> QED BY <1>2, <2>1, <2>2, Kept DEF hire_wing, TypeOK
<1> QED BY <1>1, <1>2 DEF HireNext

LEMMA VerbType == ASSUME TypeOK, VerbNext PROVE TypeOK'
<1>1. UNCHANGED <<state_idle, pool, pass>> /\ event BY DEF VerbNext
<1>2. SUFFICES PeopleOK' /\ GroundOK' /\ ForceOK' BY <1>1, Kept DEF TypeOK
<1>3. CASE \E b \in Bases : idle(b) \/ resume(b) \/ demolish(b) \/ complete_site(b)
  <2>1. PeopleOK' BY <1>3, Kept DEF idle, resume, demolish, complete_site
  <2>2. ForceOK' BY <1>3, Kept DEF idle, resume, demolish, complete_site, force
  <2>3. GroundOK'
        BY <1>1, <1>3 DEF idle, resume, demolish, complete_site, TypeOK, GroundOK
  <2> QED BY <2>1, <2>2, <2>3
<1>4. CASE \E h \in Hires : disband_unit(h)
  <2>1. PeopleOK' /\ GroundOK' BY <1>1, <1>4, Kept DEF disband_unit
  <2>2. ForceOK' BY <1>4 DEF disband_unit, TypeOK, ForceOK
  <2> QED BY <2>1, <2>2
<1>5. CASE \E c \in Centres : raze_centre(c)
  <2>1. GroundOK' /\ ForceOK' BY <1>1, <1>5, Kept DEF raze_centre, force
  <2>2. PeopleOK' BY <1>5 DEF raze_centre, TypeOK, PeopleOK
  <2> QED BY <2>1, <2>2
<1> QED BY <1>3, <1>4, <1>5 DEF VerbNext

LEMMA PeaceType == ASSUME TypeOK, PeaceNext PROVE TypeOK'
<1> PICK from \in Nations : \E to \in Nations, p \in Provinces : cede_provinces(from, to, p)
    BY DEF PeaceNext
<1> PICK to \in Nations : \E p \in Provinces : cede_provinces(from, to, p) OBVIOUS
<1> PICK p \in Provinces : cede_provinces(from, to, p) OBVIOUS
<1>1. UNCHANGED <<people, state_idle, pool, pass>> /\ event BY DEF PeaceNext, cede_provinces
<1>2. GroundOK' BY <1>1 DEF cede_provinces, TypeOK, GroundOK
<1>3. ForceOK'
  <2>1. musters' \in [Hires -> Muster \cup {None}] BY DEF cede_provinces, TypeOK, ForceOK
  <2>2. units' \in [Hires -> Unit \cup {None}]
        BY DEF cede_provinces, TypeOK, ForceOK, alive, Unit
  <2>3. wings' \in [Wings -> Wing \cup {None}]
        BY DEF cede_provinces, TypeOK, ForceOK, GroundOK, flown, Wing
  <2> QED BY <2>1, <2>2, <2>3 DEF ForceOK
<1> QED BY <1>1, <1>2, <1>3, Kept DEF TypeOK

(* Losses leave units of fewer men, or none. *)
LEMMA LossesType ==
    ASSUME TypeOK, NEW men, \A h \in Hires : men[h] \in 0 .. hire_batch_manpower
    PROVE  after_losses(men) \in [Hires -> Unit \cup {None}]
<1> SUFFICES ASSUME NEW h \in Hires, alive(h), men[h] # 0
             PROVE  [units[h] EXCEPT !.count = men[h]] \in Unit
    BY DEF after_losses
<1>1. units[h] \in Unit BY DEF TypeOK, ForceOK, alive
<1>2. men[h] \in 1 .. hire_batch_manpower BY RecruitsAssumption
<1> QED BY <1>1, <1>2 DEF Unit

LEMMA StrengthType ==
    ASSUME TypeOK PROVE \A h \in Hires : strength[h] \in 0 .. hire_batch_manpower
BY RecruitsAssumption DEF TypeOK, ForceOK, strength, alive, Unit

LEMMA MilitaryType == ASSUME TypeOK, run_military_day PROVE TypeOK'
<1>1. /\ UNCHANGED <<people, ground, state_idle, pool, musters, wings, pass>>
      /\ event \/ UNCHANGED events
      BY DEF run_military_day
<1>2. units' \in [Hires -> Unit \cup {None}]
      BY LossesType, StrengthType DEF run_military_day
<1>3. ForceOK' BY <1>1, <1>2 DEF TypeOK, ForceOK
<1> QED BY <1>1, <1>3, Kept DEF TypeOK

-----------------------------------------------------------------------------
LEMMA BeginType == ASSUME TypeOK, begin_tick PROVE TypeOK'
<1>1. UNCHANGED <<people, pool, force>> BY DEF begin_tick
<1>2. GroundOK' BY DEF begin_tick, ground, TypeOK, GroundOK
<1>3. PassOK' BY DEF begin_tick, TypeOK, PassOK
<1>4. UNCHANGED events \/ event BY DEF begin_tick
<1> QED BY <1>1, <1>2, <1>3, <1>4, Kept DEF TypeOK

(* A base wants no more than its pool has room for. *)
LEMMA WantFits ==
    ASSUME TypeOK, NEW b \in Bases
    PROVE  /\ theatre(b) \in Theatres
           /\ pool[owner[b]][theatre(b)] \in 0 .. k_recruit_pool_max
           /\ base_want(b) \in Int
           /\ base_want(b) <= larger(0, k_recruit_pool_max - pool[owner[b]][theatre(b)])
<1> DEFINE have == pool[owner[b]][theatre(b)]
           cap == recruit_cap(owner[b], theatre(b))
           made == k_recruit_cap_quarters
                     * Cardinality({x \in Bases : makes(x) /\ owner[x] = owner[b] /\ theatre(x) = theatre(b)})
                     * per_base[theatre(b)]
<1>1. theatre(b) \in Theatres BY RecruitsAssumption DEF theatre, theatre_of, Theatres, Kinds
<1>2. have \in 0 .. k_recruit_pool_max BY <1>1 DEF TypeOK, PoolOK, GroundOK
<1>3. per_base[theatre(b)] \in Nat BY <1>1, RecruitsAssumption
<1>4. made \in Nat
  <2> DEFINE S == {x \in Bases : makes(x) /\ owner[x] = owner[b] /\ theatre(x) = theatre(b)}
  <2>1. IsFiniteSet(S) BY FS_Subset, RecruitsAssumption
  <2>2. Cardinality(S) \in Nat BY <2>1, FS_CardinalityType
  <2> HIDE DEF S
  <2>3. k_recruit_cap_quarters \in Nat BY RecruitsAssumption
  <2>4. k_recruit_cap_quarters * Cardinality(S) \in Nat BY <2>2, <2>3
  <2>5. k_recruit_cap_quarters * Cardinality(S) * per_base[theatre(b)] \in Nat BY <2>4, <1>3
  <2> QED BY <2>5 DEF S
<1>5. cap \in Int /\ cap <= k_recruit_pool_max
  <2> HIDE DEF made
  <2>1. cap = smaller(made, k_recruit_pool_max) BY DEF recruit_cap, made
  <2> HIDE DEF cap
  <2> QED BY <1>4, <2>1, RecruitsAssumption DEF smaller
<1> HIDE DEF cap, have
<1>6. base_want(b) = smaller(per_base[theatre(b)], larger(0, cap - have))
      BY DEF base_want, cap, have
<1>7. base_want(b) \in Int /\ base_want(b) <= larger(0, k_recruit_pool_max - have)
      BY <1>2, <1>3, <1>5, <1>6, RecruitsAssumption DEF smaller, larger
<1> QED BY <1>1, <1>2, <1>7 DEF have

(* Nobody is taken whom a centre has not got. *)
LEMMA HeadsType ==
    ASSUME TypeOK, NEW g, take_heads(g), NEW want,
           g \in [Centres -> 0 .. want], want \in Int,
           \A c \in Centres : g[c] <= centre_heads_available(c) \/ g[c] = 0
    PROVE  /\ population' \in [Centres -> Nat]
           /\ recruit_heads_taken' \in [Centres -> 0 .. THOUSAND - 1]
<1> SUFFICES ASSUME NEW c \in Centres
             PROVE  /\ population[c] - (recruit_heads_taken[c] + g[c]) \div THOUSAND \in Nat
                    /\ (recruit_heads_taken[c] + g[c]) % THOUSAND \in 0 .. THOUSAND - 1
    BY DEF take_heads
<1> DEFINE p == population[c]
           t == recruit_heads_taken[c]
<1>1. p \in Nat /\ t \in 0 .. THOUSAND - 1 /\ g[c] \in Nat /\ THOUSAND \in Nat \ {0}
      BY RecruitsAssumption DEF TypeOK, PeopleOK
<1> HIDE DEF p, t
<1>2. CASE g[c] = 0
  <2>1. t + g[c] \in 0 .. THOUSAND - 1 BY <1>1, <1>2
  <2>2. (t + g[c]) \div THOUSAND = 0 /\ (t + g[c]) % THOUSAND \in 0 .. THOUSAND - 1
        BY <1>1, <2>1
  <2> QED BY <1>1, <2>2 DEF p, t
<1>3. CASE g[c] # 0
  <2>1. g[c] <= larger(0, p * THOUSAND - t)
        BY <1>1, <1>3 DEF centre_heads_available, p, t, larger
  <2>2. p * THOUSAND \in Int BY <1>1
  <2>3. t + g[c] <= p * THOUSAND BY <1>1, <1>3, <2>1, <2>2 DEF larger
  <2>4. \A a \in Nat, q \in Nat, T \in Nat \ {0} :
           a <= q * T => a \div T \in 0 .. q /\ a % T \in 0 .. T - 1
        BY Division
  <2>5. t + g[c] \in Nat BY <1>1
  <2>6. (t + g[c]) \div THOUSAND \in 0 .. p /\ (t + g[c]) % THOUSAND \in 0 .. THOUSAND - 1
        BY <1>1, <2>3, <2>4, <2>5
  <2> QED BY <1>1, <2>6 DEF p, t
<1> QED BY <1>2, <1>3

LEMMA RecruitType == ASSUME TypeOK, run_recruitment PROVE TypeOK'
<1>1. UNCHANGED <<razed, ground, state_idle, force, plan, events>> /\ phase = "recruit"
      BY DEF run_recruitment
<1>2. todo \subseteq Bases BY <1>1 DEF TypeOK, PassOK
<1>3. ASSUME NEW b \in wanting, recruit_at(b), todo' = {x \in todo : precedes(b, x)},
             UNCHANGED phase
      PROVE  TypeOK'
  <2>1. b \in Bases BY <1>2 DEF wanting
  <2>2. PICK g \in draws(b, base_want(b)) : \E made \in 0 .. base_want(b) :
              take_heads(g) /\ pool' = [pool EXCEPT ![owner[b]][theatre(b)] = @ + made]
        BY <1>3 DEF recruit_at
  <2>3. PICK made \in 0 .. base_want(b) :
              take_heads(g) /\ pool' = [pool EXCEPT ![owner[b]][theatre(b)] = @ + made]
        BY <2>2
  <2>4. PeopleOK'
    <3>1. g \in [Centres -> 0 .. base_want(b)] /\ \A c \in Centres : g[c] \in Int /\ g[c] >= 0
          BY <2>2 DEF draws
    <3>2. \A c \in Centres : g[c] <= centre_heads_available(c) \/ g[c] = 0
          BY <2>2, <3>1 DEF draws
    <3>3. /\ population' \in [Centres -> Nat]
          /\ recruit_heads_taken' \in [Centres -> 0 .. THOUSAND - 1]
          BY <2>1, <2>3, <3>1, <3>2, WantFits, HeadsType
    <3> QED BY <1>1, <3>3 DEF TypeOK, PeopleOK
  <2>5. PoolOK'
    <3>1. pool[owner[b]][theatre(b)] + made \in 0 .. k_recruit_pool_max
          BY <2>1, WantFits, RecruitsAssumption DEF larger
    <3>2. owner[b] \in Nations /\ theatre(b) \in Theatres
          BY <2>1, WantFits DEF TypeOK, GroundOK
    <3> QED BY <2>3, <3>1, <3>2 DEF TypeOK, PoolOK
  <2>6. PassOK' BY <1>1, <1>2, <1>3 DEF TypeOK, PassOK
  <2> QED BY <1>1, <2>4, <2>5, <2>6, Kept DEF TypeOK
<1>4. ASSUME phase' = "plan", todo' = {}, UNCHANGED <<population, recruit_heads_taken, pool>>
      PROVE  TypeOK'
  <2>1. PeopleOK' BY <1>1, <1>4 DEF TypeOK, PeopleOK
  <2>2. PassOK' BY <1>1, <1>4 DEF TypeOK, PassOK
  <2> QED BY <1>1, <1>4, <2>1, <2>2, Kept DEF TypeOK
<1> QED BY <1>3, <1>4 DEF run_recruitment

-----------------------------------------------------------------------------
LEMMA PlanType == ASSUME TypeOK, plan_refills PROVE TypeOK'
<1>1. UNCHANGED <<people, ground, state_idle, pool, force, events>> BY DEF plan_refills
<1>2. PassOK' BY DEF plan_refills, plan_recruit_refills, plan_wing_refills, TypeOK, PassOK
<1> QED BY <1>1, <1>2, Kept DEF TypeOK

(* A unit's refill fills it no more than its establishment, and overdraws no pool. *)
LEMMA UnitRefillType ==
    ASSUME TypeOK, NEW h \in Hires, alive(h), unit_refill(h)
    PROVE  /\ units' \in [Hires -> Unit \cup {None}]
           /\ PoolOK'
<1> DEFINE nation == units[h].owner
           men(n) == smaller(smaller(n, unit_lacks(h)), pool[nation]["land"])
<1>1. units[h] \in Unit BY DEF TypeOK, ForceOK, alive
<1>2. /\ nation \in Nations /\ units[h].count \in 1 .. hire_batch_manpower
      /\ pool[nation]["land"] \in 0 .. k_recruit_pool_max
      BY <1>1 DEF TypeOK, PoolOK, Unit, Theatres
<1>3. PICK n \in 0 .. plan.unit[h] : /\ units' = [units EXCEPT ![h].count = @ + men(n)]
                                     /\ pool' = [pool EXCEPT ![nation]["land"] = @ - men(n)]
      BY DEF unit_refill
<1>4. n \in Int /\ n >= 0 BY <1>3
<1>5. /\ men(n) \in Int /\ men(n) >= 0 /\ men(n) <= hire_batch_manpower - units[h].count
      /\ men(n) <= pool[nation]["land"]
      BY <1>2, <1>4, RecruitsAssumption DEF smaller, unit_lacks
<1> HIDE DEF men, nation
<1>6. /\ units[h].count + men(n) \in 1 .. hire_batch_manpower
      /\ pool[nation]["land"] - men(n) \in 0 .. k_recruit_pool_max
      BY <1>2, <1>5, RecruitsAssumption
<1>7. [units[h] EXCEPT !.count = @ + men(n)] \in Unit BY <1>1, <1>6 DEF Unit
<1>8. units' \in [Hires -> Unit \cup {None}] BY <1>3, <1>7 DEF TypeOK, ForceOK
<1>9. PoolOK' BY <1>2, <1>3, <1>6 DEF TypeOK, PoolOK, Theatres
<1> QED BY <1>8, <1>9

LEMMA RefillType == ASSUME TypeOK, apply_recruit_refills PROVE TypeOK'
<1>1. UNCHANGED <<people, ground, state_idle, musters, wings, plan, events>> /\ phase = "units"
      BY DEF apply_recruit_refills
<1>2. todo \subseteq Hires BY <1>1 DEF TypeOK, PassOK
<1> DEFINE left == {h \in todo : alive(h) /\ plan.unit[h] > 0}
<1>3. ASSUME NEW h \in left, unit_refill(h), todo' = left \ {h}, UNCHANGED phase
      PROVE  TypeOK'
  <2>1. h \in Hires /\ alive(h) BY <1>2
  <2>2. PoolOK' /\ units' \in [Hires -> Unit \cup {None}] BY <1>3, <2>1, UnitRefillType
  <2>3. ForceOK' BY <1>1, <2>2 DEF TypeOK, ForceOK
  <2>4. PassOK' BY <1>1, <1>2, <1>3 DEF TypeOK, PassOK
  <2> QED BY <1>1, <2>2, <2>3, <2>4, Kept DEF TypeOK
<1>4. ASSUME phase' = "wings", todo' = Wings, UNCHANGED <<units, pool>>
      PROVE  TypeOK'
  <2>1. ForceOK' /\ PoolOK' BY <1>1, <1>4, Kept DEF force
  <2>2. PassOK' BY <1>1, <1>4 DEF TypeOK, PassOK
  <2> QED BY <1>1, <2>1, <2>2, Kept DEF TypeOK
<1> QED BY <1>3, <1>4 DEF apply_recruit_refills

(* Nor is a wing made more than whole. *)
LEMMA WingRefillType ==
    ASSUME TypeOK, NEW w \in Wings, flown(w), wing_refill(w)
    PROVE  /\ wings' \in [Wings -> Wing \cup {None}]
           /\ PoolOK'
<1> DEFINE nation == wings[w].owner
           have == pool[nation]["air"]
           men(n) == smaller(n, have)
           hp(n) == IF men(n) = 0 THEN wings[w].hp
                    ELSE smaller(k_wing_hp_full, wings[w].hp + restored(w, men(n)))
<1>1. wings[w] \in Wing BY DEF TypeOK, ForceOK, flown
<1>2. /\ nation \in Nations /\ wings[w].hp \in 0 .. k_wing_hp_full
      /\ have \in 0 .. k_recruit_pool_max
      BY <1>1 DEF TypeOK, PoolOK, Wing, Theatres
<1>3. PICK n \in 0 .. plan.wing[w] : /\ wings' = [wings EXCEPT ![w].hp = hp(n)]
                                     /\ pool' = [pool EXCEPT ![nation]["air"] = @ - men(n)]
      BY DEF wing_refill
<1>4. n \in Int /\ n >= 0 BY <1>3
<1>5. men(n) \in Nat /\ have - men(n) \in 0 .. k_recruit_pool_max
      BY <1>2, <1>4, RecruitsAssumption DEF smaller
<1> HIDE DEF men
<1>6. restored(w, men(n)) \in Nat
  <2>1. crew \in Nat \ {0} /\ k_wing_hp_full \in Nat BY RecruitsAssumption
  <2>2. men(n) * k_wing_hp_full \in Nat BY <1>5, <2>1
  <2>3. men(n) * k_wing_hp_full <= (men(n) * k_wing_hp_full) * crew BY <2>1, <2>2
  <2>4. (men(n) * k_wing_hp_full) \div crew \in 0 .. (men(n) * k_wing_hp_full)
        BY <2>1, <2>2, <2>3, Division
  <2>5. k_wing_hp_full - wings[w].hp \in Nat BY <1>2, <2>1
  <2> QED BY <2>2, <2>4, <2>5 DEF restored
<1>7. hp(n) \in 0 .. k_wing_hp_full BY <1>2, <1>6, RecruitsAssumption DEF smaller
<1> HIDE DEF hp, have, nation
<1>8. [wings[w] EXCEPT !.hp = hp(n)] \in Wing BY <1>1, <1>7 DEF Wing
<1>9. wings' \in [Wings -> Wing \cup {None}] BY <1>3, <1>8 DEF TypeOK, ForceOK
<1>10. PoolOK' BY <1>2, <1>3, <1>5 DEF TypeOK, PoolOK, Theatres, have
<1> QED BY <1>9, <1>10

LEMMA WingsType == ASSUME TypeOK, apply_wing_refills PROVE TypeOK'
<1>1. UNCHANGED <<people, ground, state_idle, musters, units, events>> /\ phase = "wings"
      BY DEF apply_wing_refills
<1>2. todo \subseteq Wings BY <1>1 DEF TypeOK, PassOK
<1> DEFINE left == {w \in todo : flown(w) /\ plan.wing[w] > 0}
<1>3. ASSUME NEW w \in left, wing_refill(w), todo' = left \ {w}, UNCHANGED <<phase, plan>>
      PROVE  TypeOK'
  <2>1. w \in Wings /\ flown(w) BY <1>2
  <2>2. PoolOK' /\ wings' \in [Wings -> Wing \cup {None}] BY <1>3, <2>1, WingRefillType
  <2>3. ForceOK' BY <1>1, <2>2 DEF TypeOK, ForceOK
  <2>4. PassOK' BY <1>1, <1>2, <1>3 DEF TypeOK, PassOK
  <2> QED BY <1>1, <2>2, <2>3, <2>4, Kept DEF TypeOK
<1>4. ASSUME phase' = "growth", todo' = Centres, plan' = NoPlan, UNCHANGED <<wings, pool>>
      PROVE  TypeOK'
  <2>1. ForceOK' /\ PoolOK' BY <1>1, <1>4, Kept DEF force
  <2>2. PassOK' BY <1>4, RecruitsAssumption DEF PassOK, NoPlan
  <2> QED BY <1>1, <2>1, <2>2, Kept DEF TypeOK
<1> QED BY <1>3, <1>4 DEF apply_wing_refills
-----------------------------------------------------------------------------
LEMMA GrowthType == ASSUME TypeOK, growth_pass PROVE TypeOK'
<1>1. /\ UNCHANGED <<recruit_heads_taken, ground, state_idle, pool, force, plan>>
      /\ phase = "growth" /\ (event \/ UNCHANGED events)
      BY DEF growth_pass
<1>2. todo \subseteq Centres BY <1>1 DEF TypeOK, PassOK
<1>3. ASSUME NEW c \in todo, grow(c) \/ resettle(c) \/ decline(c) PROVE PeopleOK'
  <2>1. c \in Centres BY <1>2
  <2>2. population[c] \in Nat /\ population[c] \div 25 \in Nat
        BY <2>1, RecruitsAssumption DEF TypeOK, PeopleOK
  <2>3. step(c) \in Nat BY <2>2 DEF step, larger
  <2>4. population[c] + step(c) \in Nat /\ larger(1, population[c] - step(c)) \in Nat
        BY <2>2, <2>3 DEF larger
  <2>5. CASE grow(c) BY <1>1, <2>1, <2>4, <2>5 DEF grow, TypeOK, PeopleOK
  <2>6. CASE resettle(c)
        BY <1>1, <2>1, <2>6, RecruitsAssumption DEF resettle, TypeOK, PeopleOK
  <2>7. CASE decline(c) BY <1>1, <2>1, <2>4, <2>7 DEF decline, TypeOK, PeopleOK
  <2> QED BY <1>3, <2>5, <2>6, <2>7
<1>4. CASE \E c \in todo : /\ grow(c) \/ resettle(c) \/ decline(c)
                           /\ todo' = {d \in todo : d > c} /\ UNCHANGED phase
  <2>1. PeopleOK' BY <1>3, <1>4
  <2>2. PassOK' BY <1>1, <1>2, <1>4 DEF TypeOK, PassOK
  <2> QED BY <1>1, <2>1, <2>2, Kept DEF TypeOK
<1>5. CASE phase' = "migration" /\ todo' = {} /\ UNCHANGED <<population, razed>>
  <2>1. PeopleOK' BY <1>1, <1>5, Kept DEF people
  <2>2. PassOK' BY <1>1, <1>5 DEF TypeOK, PassOK
  <2> QED BY <1>1, <2>1, <2>2, Kept DEF TypeOK
<1> QED BY <1>4, <1>5 DEF growth_pass

LEMMA MigrationType == ASSUME TypeOK, run_population_migration PROVE TypeOK'
<1>1. /\ UNCHANGED <<recruit_heads_taken, razed, ground, state_idle, pool, force>>
      /\ UNCHANGED <<todo, plan>> /\ phase = "migration" /\ phase' = "agency"
      /\ event \/ UNCHANGED events
      BY DEF run_population_migration
<1>2. population' \in [Centres -> Nat]
  <2>1. ASSUME NEW c \in Centres, NEW d \in Centres, NEW em \in 1 .. population[c] - 1, c # d,
               population' = [population EXCEPT ![c] = @ - em, ![d] = @ + em]
        PROVE  population' \in [Centres -> Nat]
    <3>1. population[c] \in Nat /\ population[d] \in Nat BY DEF TypeOK, PeopleOK
    <3>2. population[c] - em \in Nat /\ population[d] + em \in Nat BY <3>1
    <3> QED BY <2>1, <3>2 DEF TypeOK, PeopleOK
  <2> QED BY <2>1 DEF run_population_migration, TypeOK, PeopleOK
<1>3. PeopleOK' BY <1>1, <1>2 DEF TypeOK, PeopleOK
<1>4. PassOK' BY <1>1 DEF TypeOK, PassOK
<1> QED BY <1>1, <1>3, <1>4, Kept DEF TypeOK

LEMMA AgencyType == ASSUME TypeOK, end_agency PROVE TypeOK'
<1>1. UNCHANGED <<people, ground, state_idle, pool, force, plan, events>> BY DEF end_agency
<1>2. PassOK' BY DEF end_agency, TypeOK, PassOK
<1> QED BY <1>1, <1>2, Kept DEF TypeOK

-----------------------------------------------------------------------------
(* The musters whose turn is to come are still queued. *)
Awaiting == phase = "musters" => \A h \in todo : queued(h)

LEMMA MustersType == ASSUME TypeOK, Awaiting, advance_musters PROVE TypeOK'
<1>1. UNCHANGED <<people, ground, state_idle, wings, phase, plan, events>> /\ phase = "musters"
      BY DEF advance_musters
<1>2. PICK h \in todo : muster_turn(h) /\ todo' = todo \ {h} BY DEF advance_musters
<1>3. h \in Hires /\ queued(h) BY <1>1 DEF TypeOK, PassOK, Awaiting
<1>4. musters[h] \in Muster BY <1>3 DEF TypeOK, ForceOK, queued
<1>5. PoolOK'
  <2>1. CASE UNCHANGED pool BY <2>1, Kept
  <2>2. CASE refund_muster_recruits(musters[h])
    <3>1. musters[h].owner \in Nations BY <1>4 DEF Muster
    <3>2. pool[musters[h].owner]["land"] \in 0 .. k_recruit_pool_max
          BY <3>1 DEF TypeOK, PoolOK, Theatres
    <3>3. smaller(pool[musters[h].owner]["land"] + hire_batch_manpower, k_recruit_pool_max)
            \in 0 .. k_recruit_pool_max
          BY <3>2, RecruitsAssumption DEF smaller
    <3> QED BY <2>2, <3>1, <3>3 DEF refund_muster_recruits, TypeOK, PoolOK, Theatres
  <2> QED BY <1>2, <2>1, <2>2 DEF muster_turn
<1>6. /\ musters' \in [Hires -> Muster \cup {None}]
      /\ units' \in [Hires -> Unit \cup {None}]
  <2>1. CASE musters' = [musters EXCEPT ![h] = None] /\ UNCHANGED units
        BY <2>1 DEF TypeOK, ForceOK
  <2>2. CASE raise(h)
    <3>1. [owner |-> musters[h].owner, count |-> hire_batch_manpower, base |-> musters[h].base]
            \in Unit
          BY <1>4, RecruitsAssumption DEF Muster, Unit
    <3> QED BY <2>2, <3>1 DEF raise, TypeOK, ForceOK
  <2>3. ASSUME NEW days \in Nat, hold(h, days)
        PROVE  /\ musters' \in [Hires -> Muster \cup {None}]
               /\ units' \in [Hires -> Unit \cup {None}]
    <3>1. [musters[h] EXCEPT !.days = days] \in Muster BY <1>4 DEF Muster
    <3> QED BY <2>3, <3>1 DEF hold, TypeOK, ForceOK
  <2>4. musters[h].days > 1 => musters[h].days - 1 \in Nat BY <1>4 DEF Muster
  <2> QED BY <1>2, <2>1, <2>2, <2>3, <2>4 DEF muster_turn
<1>7. ForceOK' BY <1>1, <1>6 DEF TypeOK, ForceOK
<1>8. PassOK' BY <1>1, <1>2 DEF TypeOK, PassOK
<1> QED BY <1>1, <1>5, <1>7, <1>8, Kept DEF TypeOK

(* A day of missions leaves the wings that still have men. *)
LEMMA FlightsType ==
    ASSUME TypeOK, NEW hit, \A w \in Wings : flown(w) => hit[w] \in 0 .. k_wing_hp_full
    PROVE  flights(hit) \in [Wings -> Wing \cup {None}]
<1> SUFFICES ASSUME NEW w \in Wings, flown(w)
             PROVE  [wings[w] EXCEPT !.muster = larger(0, @ - 1), !.hp = hit[w]] \in Wing
    BY DEF flights
<1>1. wings[w] \in Wing BY DEF TypeOK, ForceOK, flown
<1>2. larger(0, wings[w].muster - 1) \in Nat BY <1>1 DEF Wing, larger
<1> QED BY <1>1, <1>2 DEF Wing

LEMMA CloseType == ASSUME TypeOK, close_tick PROVE TypeOK'
<1>1. /\ UNCHANGED <<people, ground, state_idle, pool, musters, todo, plan>>
      /\ phase = "musters" /\ phase' = "open" /\ todo = {} /\ (event \/ UNCHANGED events)
      BY DEF close_tick
<1>2. \A w \in Wings : flown(w) => health[w] \in 0 .. k_wing_hp_full
      BY DEF TypeOK, ForceOK, health, flown, Wing
<1>3. wings' \in [Wings -> Wing \cup {None}]
  <2>1. CASE wings' = flights(health) BY <1>2, <2>1, FlightsType
  <2>2. ASSUME NEW w \in Wings, NEW hp \in 0 .. health[w] - 1,
               wings' = flights([health EXCEPT ![w] = hp])
        PROVE  wings' \in [Wings -> Wing \cup {None}]
    <3>1. flown(w)
      <4>1. CASE ~flown(w)
        <5>1. health[w] = 0 BY <4>1 DEF health
        <5> QED BY <5>1, <2>2
      <4> QED BY <4>1
    <3>2. health[w] \in 0 .. k_wing_hp_full BY <1>2, <3>1
    <3>3. hp \in 0 .. k_wing_hp_full BY <3>2, <2>2, RecruitsAssumption
    <3>4. \A x \in Wings : flown(x) => [health EXCEPT ![w] = hp][x] \in 0 .. k_wing_hp_full
          BY <1>2, <3>3 DEF health
    <3> QED BY <2>2, <3>4, FlightsType
  <2> QED BY <2>1, <2>2 DEF close_tick
<1>4. units' \in [Hires -> Unit \cup {None}]
      BY LossesType, StrengthType DEF close_tick
<1>5. ForceOK' BY <1>1, <1>3, <1>4 DEF TypeOK, ForceOK
<1>6. PassOK' BY <1>1 DEF TypeOK, PassOK
<1> QED BY <1>1, <1>5, <1>6, Kept DEF TypeOK

-----------------------------------------------------------------------------
(* Nothing but a muster's own turn ends it while the turns are taken. *)
LEMMA AwaitingStep == ASSUME TypeOK, Awaiting, [Next]_vars PROVE Awaiting'
<1> SUFFICES ASSUME phase' = "musters", NEW h \in todo' PROVE queued(h)' BY DEF Awaiting
<1>1. CASE UNCHANGED vars BY <1>1 DEF vars, pass, force, Awaiting, queued
<1>2. CASE HireNext BY <1>2 DEF HireNext, hire_unit, hire_wing, verbs, pass
<1>3. CASE VerbNext BY <1>3 DEF VerbNext, verbs, pass
<1>4. CASE PeaceNext BY <1>4 DEF PeaceNext, verbs, pass
<1>5. CASE run_military_day BY <1>5 DEF run_military_day, pass
<1>6. CASE TickNext
  <2>1. CASE end_agency BY <2>1 DEF end_agency, queued, force
  <2>2. CASE advance_musters
    <3>1. PICK g \in todo : muster_turn(g) /\ todo' = todo \ {g} BY <2>2 DEF advance_musters
    <3>2. phase = "musters" /\ h \in todo /\ h # g BY <2>2, <3>1 DEF advance_musters
    <3>3. musters'[h] = musters[h]
          BY <3>1, <3>2 DEF muster_turn, raise, hold, TypeOK, ForceOK, PassOK
    <3> QED BY <3>2, <3>3 DEF Awaiting, queued
  <2>3. CASE ~end_agency /\ ~advance_musters
        BY <1>6, <2>3 DEF TickNext, begin_tick, run_recruitment, plan_refills,
              apply_recruit_refills, apply_wing_refills, growth_pass, run_population_migration,
              close_tick
  <2> QED BY <2>1, <2>2, <2>3
<1> QED BY <1>1, <1>2, <1>3, <1>4, <1>5, <1>6 DEF Next

LEMMA TypeStep == ASSUME TypeOK, Awaiting, [Next]_vars PROVE TypeOK'
<1>1. CASE UNCHANGED vars BY <1>1, Kept DEF vars, TypeOK
<1>2. CASE HireNext BY <1>2, HireType
<1>3. CASE VerbNext BY <1>3, VerbType
<1>4. CASE PeaceNext BY <1>4, PeaceType
<1>5. CASE run_military_day BY <1>5, MilitaryType
<1>6. CASE TickNext
      BY <1>6, BeginType, RecruitType, PlanType, RefillType, WingsType, GrowthType,
         MigrationType, AgencyType, MustersType, CloseType DEF TickNext
<1> QED BY <1>1, <1>2, <1>3, <1>4, <1>5, <1>6 DEF Next

(* Every table keeps its type, and with it the bounds the save reader refuses a world
   over: carried heads under a thousand, pools within their most, nobody negative. *)
THEOREM RecruitsTypeCorrect == Spec => []TypeOK
<1>1. Init => TypeOK /\ Awaiting
  <2>1. Init => Awaiting BY DEF Init, Awaiting
  <2> QED BY <2>1, TypeInit
<1>2. TypeOK /\ Awaiting /\ [Next]_vars => (TypeOK /\ Awaiting)' BY TypeStep, AwaitingStep
<1> QED BY <1>1, <1>2, PTL DEF Spec
-----------------------------------------------------------------------------
(* Where no base passes and none is put up, what still answers to the base it did
   before is at home still. *)
LEMMA StaysHome ==
    ASSUME RaisedAtHome, UNCHANGED owner, standing' \subseteq standing,
           \A h \in Hires : queued(h)' => /\ queued(h)
                                          /\ musters'[h].owner = musters[h].owner
                                          /\ musters'[h].base = musters[h].base,
           \A h \in Hires : alive(h)' => /\ alive(h)
                                         /\ units'[h].owner = units[h].owner
                                         /\ units'[h].base = units[h].base,
           \A w \in Wings : flown(w)' => /\ flown(w)
                                         /\ wings'[w].owner = wings[w].owner
                                         /\ wings'[w].airbase = wings[w].airbase
    PROVE  RaisedAtHome'
<1>1. ASSUME NEW h \in Hires, queued(h)', (musters[h].base \in standing)'
      PROVE  (owner[musters[h].base] = musters[h].owner)'
      BY <1>1 DEF RaisedAtHome
<1>2. ASSUME NEW h \in Hires, alive(h)', (units[h].base \in standing)'
      PROVE  (owner[units[h].base] = units[h].owner)'
      BY <1>2 DEF RaisedAtHome
<1>3. ASSUME NEW w \in Wings, flown(w)', (wings[w].airbase \in standing)'
      PROVE  (owner[wings[w].airbase] = wings[w].owner)'
      BY <1>3 DEF RaisedAtHome
<1> QED BY <1>1, <1>2, <1>3 DEF RaisedAtHome

(* Losses take units away or leave them where they answered. *)
LEMMA LossesHome ==
    ASSUME TypeOK, NEW men, units' = after_losses(men), NEW h \in Hires, alive(h)'
    PROVE  alive(h) /\ units'[h].owner = units[h].owner /\ units'[h].base = units[h].base
<1>1. alive(h) /\ units'[h] = [units[h] EXCEPT !.count = men[h]] BY DEF after_losses, alive
<1>2. units[h] \in Unit BY <1>1 DEF TypeOK, ForceOK, alive
<1> QED BY <1>1, <1>2 DEF Unit

LEMMA HireHome == ASSUME TypeOK, RaisedAtHome, HireNext PROVE RaisedAtHome'
<1>1. UNCHANGED ground BY DEF HireNext, hire_unit, hire_wing
<1>2. ASSUME NEW n \in Nations, NEW b \in Bases, NEW h \in Hires, NEW d \in MUSTER_TICKS,
             hire_unit(n, b, h, d)
      PROVE  RaisedAtHome'
  <2>1. UNCHANGED <<units, wings>> BY <1>2 DEF hire_unit
  <2>2. ASSUME NEW x \in Hires, queued(x)', musters'[x].base \in standing
        PROVE  owner[musters'[x].base] = musters'[x].owner
    <3>1. CASE x = h
          BY <1>2, <3>1 DEF hire_unit, hire_unit_check, TypeOK, ForceOK
    <3>2. CASE x # h
          BY <1>2, <2>2, <3>2 DEF hire_unit, TypeOK, ForceOK, queued, RaisedAtHome
    <3> QED BY <3>1, <3>2
  <2> QED BY <1>1, <2>1, <2>2 DEF RaisedAtHome, ground, alive, flown
<1>3. ASSUME NEW n \in Nations, NEW b \in Bases, NEW w \in Wings, hire_wing(n, b, w)
      PROVE  RaisedAtHome'
  <2>1. UNCHANGED <<units, musters>> BY <1>3 DEF hire_wing
  <2>2. ASSUME NEW x \in Wings, flown(x)', wings'[x].airbase \in standing
        PROVE  owner[wings'[x].airbase] = wings'[x].owner
    <3>1. CASE x = w BY <1>3, <3>1 DEF hire_wing, TypeOK, ForceOK
    <3>2. CASE x # w
          BY <1>3, <2>2, <3>2 DEF hire_wing, TypeOK, ForceOK, flown, RaisedAtHome
    <3> QED BY <3>1, <3>2
  <2> QED BY <1>1, <2>1, <2>2 DEF RaisedAtHome, ground, alive, queued
<1> QED BY <1>2, <1>3 DEF HireNext

LEMMA VerbHome == ASSUME TypeOK, RaisedAtHome, VerbNext PROVE RaisedAtHome'
<1>1. UNCHANGED <<owner, musters, wings>> /\ standing' \subseteq standing
      BY DEF VerbNext, idle, resume, demolish, complete_site, disband_unit, raze_centre, ground
<1>2. ASSUME NEW h \in Hires, alive(h)'
      PROVE  alive(h) /\ units'[h].owner = units[h].owner /\ units'[h].base = units[h].base
  <2>1. CASE UNCHANGED units BY <1>2, <2>1 DEF alive
  <2>2. CASE \E g \in Hires : disband_unit(g)
        BY <1>2, <2>2 DEF disband_unit, alive, TypeOK, ForceOK
  <2> QED BY <2>1, <2>2 DEF VerbNext, idle, resume, demolish, complete_site, raze_centre
<1> QED BY <1>1, <1>2, StaysHome DEF queued, flown

(* A cession lets go of all that answers to a base that passes. *)
LEMMA PeaceHome == ASSUME TypeOK, RaisedAtHome, PeaceNext PROVE RaisedAtHome'
<1> PICK from \in Nations : \E to \in Nations, p \in Provinces : cede_provinces(from, to, p)
    BY DEF PeaceNext
<1> PICK to \in Nations : \E p \in Provinces : cede_provinces(from, to, p) OBVIOUS
<1> PICK p \in Provinces : cede_provinces(from, to, p) OBVIOUS
<1> DEFINE passes == {b \in standing : owner[b] = from /\ base_province[b] = p}
           homes == {b \in standing \ passes : owner[b] = from /\ kind[b] = "airbase"}
           lost(b) == b \in standing /\ owner'[b] = to
<1>1. UNCHANGED standing /\ from # to BY DEF cede_provinces
<1>2. \A b \in standing : owner'[b] = IF b \in passes THEN to ELSE owner[b]
      BY DEF cede_provinces, TypeOK, GroundOK
<1>3. \A b \in standing : owner[b] # from => owner'[b] = owner[b] BY <1>2
<1>4. \A b \in standing : owner[b] = from /\ ~lost(b) => owner'[b] = from BY <1>2
<1>5. ASSUME NEW h \in Hires, queued(h)', musters'[h].base \in standing
      PROVE  owner'[musters'[h].base] = musters'[h].owner
  <2>1. musters'[h] = IF queued(h) /\ musters[h].owner = from /\ lost(musters[h].base)
                      THEN None ELSE musters[h]
        BY DEF cede_provinces
  <2>2. musters'[h] = musters[h] /\ queued(h) BY <1>5, <2>1 DEF queued
  <2>3. owner[musters[h].base] = musters[h].owner BY <1>5, <2>2 DEF RaisedAtHome
  <2> QED BY <1>3, <1>4, <1>5, <2>1, <2>2, <2>3 DEF queued
<1>6. ASSUME NEW h \in Hires, alive(h)', units'[h].base \in standing
      PROVE  owner'[units'[h].base] = units'[h].owner
  <2>1. units'[h] = IF alive(h) /\ units[h].owner = from /\ lost(units[h].base)
                    THEN [units[h] EXCEPT !.base = None] ELSE units[h]
        BY DEF cede_provinces
  <2>2. CASE alive(h) /\ units[h].owner = from /\ lost(units[h].base)
    <3>1. units[h] \in Unit BY <2>2 DEF TypeOK, ForceOK, alive
    <3>2. units'[h].base = None BY <2>1, <2>2, <3>1 DEF Unit
    <3>3. None \notin standing BY RecruitsAssumption DEF TypeOK, GroundOK
    <3> QED BY <1>6, <3>2, <3>3
  <2>3. CASE ~(alive(h) /\ units[h].owner = from /\ lost(units[h].base))
    <3>1. units'[h] = units[h] /\ alive(h) BY <1>6, <2>1, <2>3 DEF alive
    <3>2. owner[units[h].base] = units[h].owner BY <1>6, <3>1 DEF RaisedAtHome
    <3> QED BY <1>3, <1>4, <1>6, <2>3, <3>1, <3>2
  <2> QED BY <2>2, <2>3
<1>7. ASSUME NEW w \in Wings, flown(w)', wings'[w].airbase \in standing
      PROVE  owner'[wings'[w].airbase] = wings'[w].owner
  <2>1. PICK nearest \in [Wings -> homes \cup {None}] :
              wings' = [x \in Wings |->
                          IF flown(x) /\ wings[x].owner = from /\ lost(wings[x].airbase)
                          THEN IF nearest[x] = None THEN None
                               ELSE [wings[x] EXCEPT !.airbase = nearest[x]]
                          ELSE wings[x]]
        BY DEF cede_provinces
  <2>2. CASE flown(w) /\ wings[w].owner = from /\ lost(wings[w].airbase)
    <3>1. wings[w] \in Wing BY <2>2 DEF TypeOK, ForceOK, flown
    <3>2. nearest[w] \in homes /\ wings'[w] = [wings[w] EXCEPT !.airbase = nearest[w]]
          BY <1>7, <2>1, <2>2 DEF flown
    <3>3. wings'[w].airbase = nearest[w] /\ wings'[w].owner = from BY <2>2, <3>1, <3>2 DEF Wing
    <3> QED BY <1>2, <3>2, <3>3
  <2>3. CASE ~(flown(w) /\ wings[w].owner = from /\ lost(wings[w].airbase))
    <3>1. wings'[w] = wings[w] /\ flown(w) BY <1>7, <2>1, <2>3 DEF flown
    <3>2. owner[wings[w].airbase] = wings[w].owner BY <1>7, <3>1 DEF RaisedAtHome
    <3> QED BY <1>3, <1>4, <1>7, <2>3, <3>1, <3>2
  <2> QED BY <2>2, <2>3
<1> QED BY <1>1, <1>5, <1>6, <1>7 DEF RaisedAtHome

(* A unit that is raised answers to the base its muster did. *)
LEMMA MustersHome == ASSUME TypeOK, Awaiting, RaisedAtHome, advance_musters PROVE RaisedAtHome'
<1>1. UNCHANGED <<ground, wings>> /\ phase = "musters" BY DEF advance_musters
<1>2. PICK h \in todo : muster_turn(h) BY DEF advance_musters
<1>3. h \in Hires /\ queued(h) BY <1>1 DEF TypeOK, PassOK, Awaiting
<1>4. musters[h] \in Muster BY <1>3 DEF TypeOK, ForceOK, queued
<1>5. ASSUME NEW x \in Hires, queued(x)'
      PROVE  /\ queued(x) /\ musters'[x].owner = musters[x].owner
             /\ musters'[x].base = musters[x].base
  <2>1. CASE x # h
        BY <1>2, <1>5, <2>1 DEF muster_turn, raise, hold, queued, TypeOK, ForceOK
  <2>2. ASSUME NEW days, hold(h, days)
        PROVE  /\ musters'[h].owner = musters[h].owner
               /\ musters'[h].base = musters[h].base
        BY <1>3, <1>4, <2>2 DEF hold, Muster, TypeOK, ForceOK
  <2>3. CASE x = h
        BY <1>2, <1>3, <1>5, <2>2, <2>3 DEF muster_turn, raise, queued, TypeOK, ForceOK
  <2> QED BY <2>1, <2>3
<1>6. ASSUME NEW x \in Hires, alive(x)', units'[x].base \in standing
      PROVE  owner[units'[x].base] = units'[x].owner
  <2>1. CASE units'[x] = units[x] BY <1>6, <2>1 DEF RaisedAtHome, alive
  <2>2. CASE x = h /\ raise(h)
    <3>1. units'[h].owner = musters[h].owner /\ units'[h].base = musters[h].base
          BY <1>3, <2>2 DEF raise, TypeOK, ForceOK
    <3> QED BY <1>3, <1>6, <2>2, <3>1 DEF RaisedAtHome
  <2> QED BY <1>2, <1>3, <2>1, <2>2 DEF muster_turn, raise, hold, TypeOK, ForceOK
<1>7. UNCHANGED <<standing, owner>> BY <1>1 DEF ground
<1> QED BY <1>1, <1>5, <1>6, <1>7 DEF RaisedAtHome, flown

(* The rest of a quarter moves no unit and no wing to another base. *)
LEMMA TickHome == ASSUME TypeOK, Awaiting, RaisedAtHome, TickNext PROVE RaisedAtHome'
<1>1. CASE advance_musters BY <1>1, MustersHome
<1>2. CASE apply_recruit_refills
  <2>1. UNCHANGED <<ground, musters, wings>> BY <1>2 DEF apply_recruit_refills
  <2>2. ASSUME NEW x \in Hires, alive(x)'
        PROVE  alive(x) /\ units'[x].owner = units[x].owner /\ units'[x].base = units[x].base
    <3>1. CASE UNCHANGED units BY <2>2, <3>1 DEF alive
    <3>2. ASSUME NEW h \in todo, alive(h), NEW count, units' = [units EXCEPT ![h].count = count]
          PROVE  alive(x) /\ units'[x].owner = units[x].owner /\ units'[x].base = units[x].base
      <4>1. h \in Hires BY <1>2 DEF apply_recruit_refills, TypeOK, PassOK
      <4>2. units[h] \in Unit BY <3>2, <4>1 DEF TypeOK, ForceOK, alive
      <4> QED BY <2>2, <3>2, <4>1, <4>2 DEF alive, Unit, TypeOK, ForceOK
    <3> QED BY <1>2, <3>1, <3>2 DEF apply_recruit_refills, unit_refill
  <2> QED BY <2>1, <2>2, StaysHome DEF ground, queued, flown
<1>3. CASE apply_wing_refills
  <2>1. UNCHANGED <<ground, musters, units>> BY <1>3 DEF apply_wing_refills
  <2>2. ASSUME NEW x \in Wings, flown(x)'
        PROVE  flown(x) /\ wings'[x].owner = wings[x].owner /\ wings'[x].airbase = wings[x].airbase
    <3>1. CASE UNCHANGED wings BY <2>2, <3>1 DEF flown
    <3>2. ASSUME NEW w \in todo, flown(w), NEW hp, wings' = [wings EXCEPT ![w].hp = hp]
          PROVE  /\ flown(x) /\ wings'[x].owner = wings[x].owner
                 /\ wings'[x].airbase = wings[x].airbase
      <4>1. w \in Wings BY <1>3 DEF apply_wing_refills, TypeOK, PassOK
      <4>2. wings[w] \in Wing BY <3>2, <4>1 DEF TypeOK, ForceOK, flown
      <4> QED BY <2>2, <3>2, <4>1, <4>2 DEF flown, Wing, TypeOK, ForceOK
    <3> QED BY <1>3, <3>1, <3>2 DEF apply_wing_refills, wing_refill
  <2> QED BY <2>1, <2>2, StaysHome DEF ground, queued, alive
<1>4. CASE close_tick
  <2>1. UNCHANGED <<ground, musters>> BY <1>4 DEF close_tick
  <2>2. units' = after_losses(strength) BY <1>4 DEF close_tick
  <2>3. PICK hit : wings' = flights(hit) BY <1>4 DEF close_tick
  <2>4. ASSUME NEW w \in Wings, flown(w)'
        PROVE  flown(w) /\ wings'[w].owner = wings[w].owner /\ wings'[w].airbase = wings[w].airbase
    <3>1. /\ flown(w)
          /\ wings'[w] = [wings[w] EXCEPT !.muster = larger(0, @ - 1), !.hp = hit[w]]
          BY <2>3, <2>4 DEF flights, flown
    <3>2. wings[w] \in Wing BY <3>1 DEF TypeOK, ForceOK, flown
    <3> QED BY <3>1, <3>2 DEF Wing
  <2> QED BY <2>1, <2>2, <2>4, LossesHome, StaysHome DEF ground, queued
<1>5. CASE UNCHANGED <<ground, force>>
      BY <1>5 DEF RaisedAtHome, ground, force, queued, alive, flown
<1>6. CASE begin_tick \/ run_recruitment \/ plan_refills \/ growth_pass
           \/ run_population_migration \/ end_agency
      BY <1>5, <1>6 DEF begin_tick, run_recruitment, plan_refills, growth_pass,
         run_population_migration, end_agency
<1> QED BY <1>1, <1>2, <1>3, <1>4, <1>6 DEF TickNext

LEMMA HomeStep == ASSUME TypeOK, Awaiting, RaisedAtHome, [Next]_vars PROVE RaisedAtHome'
<1>1. CASE UNCHANGED vars
      BY <1>1 DEF vars, RaisedAtHome, ground, force, queued, alive, flown
<1>2. CASE HireNext BY <1>2, HireHome
<1>3. CASE VerbNext BY <1>3, VerbHome
<1>4. CASE PeaceNext BY <1>4, PeaceHome
<1>5. CASE run_military_day
  <2>1. UNCHANGED <<ground, musters, wings>> BY <1>5 DEF run_military_day
  <2>2. PICK men : units' = after_losses(men) BY <1>5 DEF run_military_day
  <2> QED BY <2>1, <2>2, LossesHome, StaysHome DEF ground, queued, flown
<1>6. CASE TickNext BY <1>6, TickHome
<1> QED BY <1>1, <1>2, <1>3, <1>4, <1>5, <1>6 DEF Next

(* Whatever is ceded, razed, torn down or lost meanwhile, nothing a nation raises or has
   answers to a base that stands on another's ground. *)
THEOREM RaisedAtHomeAlways == Spec => []RaisedAtHome
<1>1. Init => RaisedAtHome BY DEF Init, RaisedAtHome, queued, alive, flown
<1>2. Init => TypeOK /\ Awaiting
  <2>1. Init => Awaiting BY DEF Init, Awaiting
  <2> QED BY <2>1, TypeInit
<1>3. TypeOK /\ Awaiting /\ RaisedAtHome /\ [Next]_vars => (TypeOK /\ Awaiting /\ RaisedAtHome)'
      BY TypeStep, AwaitingStep, HomeStep
<1> QED BY <1>1, <1>2, <1>3, PTL DEF Spec

-----------------------------------------------------------------------------
(* The refills.  While the units are refilled, the wings' plans are good as well. *)
PlanFits ==
    /\ PlanStands
    /\ phase = "units" => \A w \in Wings : plan.wing[w] <= wing_lacks(w)

(* A refill granted, no greater than planned, leaves the rest of the plan within the pool. *)
LEMMA RestFits ==
    ASSUME NEW S, IsFiniteSet(S), NEW p, \A x \in S : p[x] \in Nat,
           NEW x \in S, NEW U \in SUBSET (S \ {x}),
           NEW had \in Int, total(p, S) <= had, NEW men \in Int, men <= p[x]
    PROVE  total(p, U) <= had - men
<1>1. IsFiniteSet(S \ {x}) BY FS_RemoveElement
<1>2. total(p, U) \in Nat /\ total(p, U) <= total(p, S \ {x}) BY <1>1, TotalPart
<1>3. \A y \in S : p[y] \in Int OBVIOUS
<1>4. total(p, S \ {x}) \in Int BY <1>1, <1>3, Total
<1>5. total(p, S) = p[x] + total(p, S \ {x}) BY <1>3, TotalApart
<1> QED BY <1>2, <1>3, <1>4, <1>5

LEMMA FewerFit ==
    ASSUME NEW S, IsFiniteSet(S), NEW p, \A x \in S : p[x] \in Nat, NEW U \in SUBSET S,
           NEW had \in Int, total(p, S) <= had
    PROVE  total(p, U) <= had
<1>1. total(p, U) \in Nat /\ total(p, U) <= total(p, S) BY TotalPart
<1>2. \A y \in S : p[y] \in Int OBVIOUS
<1>3. total(p, S) \in Int BY <1>2, Total
<1> QED BY <1>1, <1>3

LEMMA OfFinite ==
    ASSUME TypeOK
    PROVE  \A n \in Nations : /\ of(units, n) \subseteq Hires /\ IsFiniteSet(of(units, n))
                              /\ of(wings, n) \subseteq Wings /\ IsFiniteSet(of(wings, n))
<1>1. \A n \in Nations : of(units, n) \subseteq Hires /\ of(wings, n) \subseteq Wings
      BY DEF of, TypeOK, ForceOK
<1> QED BY <1>1, FS_Subset, RecruitsAssumption

LEMMA PlanMade == ASSUME TypeOK, plan_refills PROVE PlanFits'
<1>1. PICK u \in plan_recruit_refills, w \in plan_wing_refills : plan' = [unit |-> u, wing |-> w]
      BY DEF plan_refills
<1>2. /\ UNCHANGED <<standing, pool, units, wings>> /\ phase' = "units" /\ todo' = Hires
      /\ plan'.unit = u /\ plan'.wing = w
      BY <1>1 DEF plan_refills, ground, force
<1>3. \A n \in Nations : of(units, n) \cap Hires = of(units, n) /\ of(wings, n) \cap Wings = of(wings, n)
      BY OfFinite
<1>4. (\A h \in Hires : plan.unit[h] <= unit_lacks(h))'
      BY <1>2 DEF plan_recruit_refills, unit_lacks, alive
<1>5. (\A x \in Wings : plan.wing[x] <= wing_lacks(x))'
      BY <1>2 DEF plan_wing_refills, wing_lacks, flown
<1>6. \A n \in Nations : /\ total(u, of(units, n)) <= pool[n]["land"]
                         /\ total(w, of(wings, n)) <= pool[n]["air"]
  <2> TAKE n \in Nations
  <2>1. pool[n]["air"] \in Int BY DEF TypeOK, PoolOK, Theatres
  <2>2. total(w, of(wings, n))
          = smaller(MapThenSumSet(wing_lacks, of(wings, n)), pool[n]["air"])
        BY DEF plan_wing_refills
  <2>3. total(w, of(wings, n)) <= pool[n]["air"]
        BY <2>1, <2>2 DEF smaller
  <2> QED BY <2>3 DEF plan_recruit_refills, within
<1>7. \A n \in Nations : /\ within(plan'.unit, of(units, n) \cap Hires, pool[n]["land"])
                         /\ within(plan'.wing, of(wings, n) \cap Wings, pool[n]["air"])
      BY <1>2, <1>3, <1>6 DEF within
<1> QED BY <1>2, <1>4, <1>5, <1>7 DEF PlanFits, PlanStands, of, within

LEMMA UnitsFilled == ASSUME TypeOK, PlanFits, apply_recruit_refills PROVE PlanFits'
<1>1. UNCHANGED <<standing, wings, plan>> /\ phase = "units" BY DEF apply_recruit_refills, ground
<1>2. todo \subseteq Hires BY <1>1 DEF TypeOK, PassOK
<1>3. (\A w \in Wings : plan.wing[w] <= wing_lacks(w))'
      BY <1>1 DEF PlanFits, wing_lacks, flown
<1>4. \A n \in Nations : total(plan.wing, of(wings, n) \cap Wings) <= pool[n]["air"]
      BY <1>1 DEF PlanFits, PlanStands, within
<1>5. \A n \in Nations : total(plan.unit, of(units, n) \cap todo) <= pool[n]["land"]
      BY <1>1 DEF PlanFits, PlanStands, within
<1>6. \A h \in todo : plan.unit[h] <= unit_lacks(h) BY <1>1 DEF PlanFits, PlanStands
<1>7. \A h \in Hires : plan.unit[h] \in Nat BY DEF TypeOK, PassOK
<1> DEFINE left == {h \in todo : alive(h) /\ plan.unit[h] > 0}
<1>8. ASSUME NEW h \in left, unit_refill(h), todo' = left \ {h}, UNCHANGED phase
      PROVE  PlanFits'
  <2>1. h \in Hires /\ h \in todo /\ alive(h) /\ units[h] \in Unit
        BY <1>2 DEF TypeOK, ForceOK, alive
  <2> DEFINE nation == units[h].owner
             men(n) == smaller(smaller(n, unit_lacks(h)), pool[nation]["land"])
  <2>2. PICK n \in 0 .. plan.unit[h] : /\ units' = [units EXCEPT ![h].count = @ + men(n)]
                                       /\ pool' = [pool EXCEPT ![nation]["land"] = @ - men(n)]
        BY <1>8 DEF unit_refill
  <2>3. nation \in Nations /\ h \in of(units, nation) BY <2>1 DEF of, Unit, alive, TypeOK, ForceOK
  <2>4. /\ \A m \in Nations : pool[m]["land"] \in Int /\ pool[m]["air"] \in Int
        /\ unit_lacks(h) \in Int
        BY <2>1, RecruitsAssumption DEF TypeOK, PoolOK, Theatres, unit_lacks, Unit
  <2>5. men(n) \in Int /\ men(n) <= plan.unit[h]
        BY <1>7, <2>1, <2>2, <2>3, <2>4 DEF smaller
  <2> HIDE DEF men, nation
  <2>6. \A m \in Nations : pool'[m]["air"] = pool[m]["air"]
                           /\ pool'[m]["land"] = IF m = nation THEN pool[m]["land"] - men(n)
                                                 ELSE pool[m]["land"]
        BY <2>2, <2>3 DEF TypeOK, PoolOK, Theatres
  <2>7. \A x \in Hires \ {h} : units'[x] = units[x] BY <2>1, <2>2 DEF TypeOK, ForceOK
  <2>8. \A x \in todo' : x \in todo /\ x # h /\ x \in Hires BY <1>2, <1>8
  <2>9. (\A x \in todo : plan.unit[x] <= unit_lacks(x))'
        BY <1>1, <1>6, <2>7, <2>8 DEF unit_lacks, alive
  <2>10. ASSUME NEW m \in Nations
         PROVE  total(plan.unit, of(units', m) \cap todo') <= pool'[m]["land"]
    <3> DEFINE S == of(units, m) \cap todo
               U == of(units', m) \cap todo'
    <3>1. IsFiniteSet(S) /\ \A x \in S : plan.unit[x] \in Nat
          BY <1>2, <1>7, OfFinite, FS_Intersection
    <3>2. U \subseteq S \ {h}
      <4>1. DOMAIN units = Hires BY DEF TypeOK, ForceOK
      <4> QED BY <2>7, <2>8, <4>1 DEF of
    <3>3. total(plan.unit, S) <= pool[m]["land"] BY <1>5
    <3>4. pool[m]["land"] \in Int BY <2>4
    <3> HIDE DEF S, U
    <3>5. CASE m = nation
      <4>1. h \in S BY <2>1, <2>3, <3>5 DEF S
      <4>2. total(plan.unit, U) <= pool[m]["land"] - men(n)
            BY <2>5, <3>1, <3>2, <3>3, <3>4, <4>1, RestFits
      <4> QED BY <2>6, <3>5, <4>2 DEF U
    <3>6. CASE m # nation
      <4>1. total(plan.unit, U) <= pool[m]["land"] BY <3>1, <3>2, <3>3, <3>4, FewerFit
      <4> QED BY <2>6, <3>6, <4>1 DEF U
    <3> QED BY <3>5, <3>6
  <2>11. (\A m \in Nations : /\ within(plan.wing, of(wings, m) \cap Wings, pool[m]["air"])
                             /\ within(plan.unit, of(units, m) \cap todo, pool[m]["land"]))'
         BY <1>1, <1>4, <2>6, <2>10 DEF within, of
  <2> QED BY <1>1, <1>3, <1>8, <2>9, <2>11 DEF PlanFits, PlanStands
<1>9. ASSUME phase' = "wings", todo' = Wings, UNCHANGED <<units, pool>> PROVE PlanFits'
  <2>1. (\A n \in Nations : within(plan.wing, of(wings, n) \cap todo, pool[n]["air"]))'
        BY <1>1, <1>4, <1>9 DEF within, of
  <2> QED BY <1>3, <1>9, <2>1 DEF PlanFits, PlanStands
<1> QED BY <1>8, <1>9 DEF apply_recruit_refills

LEMMA WingsFilled == ASSUME TypeOK, PlanFits, apply_wing_refills PROVE PlanFits'
<1>1. UNCHANGED standing /\ phase = "wings" BY DEF apply_wing_refills, ground
<1>2. todo \subseteq Wings BY <1>1 DEF TypeOK, PassOK
<1>3. \A n \in Nations : total(plan.wing, of(wings, n) \cap todo) <= pool[n]["air"]
      BY <1>1 DEF PlanFits, PlanStands, within
<1>4. \A w \in todo : plan.wing[w] <= wing_lacks(w) BY <1>1 DEF PlanFits, PlanStands
<1>5. \A w \in Wings : plan.wing[w] \in Nat BY DEF TypeOK, PassOK
<1> DEFINE left == {w \in todo : flown(w) /\ plan.wing[w] > 0}
<1>6. ASSUME NEW w \in left, wing_refill(w), todo' = left \ {w}, UNCHANGED <<phase, plan>>
      PROVE  PlanFits'
  <2>1. w \in Wings /\ w \in todo /\ flown(w) /\ wings[w] \in Wing
        BY <1>2 DEF TypeOK, ForceOK, flown
  <2> DEFINE nation == wings[w].owner
             men(n) == smaller(n, pool[nation]["air"])
  <2>2. PICK n \in 0 .. plan.wing[w] : \E hp : /\ wings' = [wings EXCEPT ![w].hp = hp]
                                               /\ pool' = [pool EXCEPT ![nation]["air"] = @ - men(n)]
        BY <1>6 DEF wing_refill
  <2>3. nation \in Nations /\ w \in of(wings, nation) BY <2>1 DEF of, Wing, flown, TypeOK, ForceOK
  <2>4. \A m \in Nations : pool[m]["air"] \in Int BY DEF TypeOK, PoolOK, Theatres
  <2>5. men(n) \in Int /\ men(n) <= plan.wing[w]
        BY <1>5, <2>1, <2>2, <2>3, <2>4 DEF smaller
  <2> HIDE DEF men, nation
  <2>6. \A m \in Nations : pool'[m]["air"] = IF m = nation THEN pool[m]["air"] - men(n)
                                             ELSE pool[m]["air"]
        BY <2>2, <2>3 DEF TypeOK, PoolOK, Theatres
  <2>7. \A x \in Wings \ {w} : wings'[x] = wings[x] BY <2>1, <2>2 DEF TypeOK, ForceOK
  <2>8. \A x \in todo' : x \in todo /\ x # w /\ x \in Wings BY <1>2, <1>6
  <2>9. (\A x \in todo : plan.wing[x] <= wing_lacks(x))'
        BY <1>1, <1>4, <1>6, <2>7, <2>8 DEF wing_lacks, flown
  <2>10. ASSUME NEW m \in Nations
         PROVE  total(plan.wing, of(wings', m) \cap todo') <= pool'[m]["air"]
    <3> DEFINE S == of(wings, m) \cap todo
               U == of(wings', m) \cap todo'
    <3>1. IsFiniteSet(S) /\ \A x \in S : plan.wing[x] \in Nat
          BY <1>2, <1>5, OfFinite, FS_Intersection
    <3>2. U \subseteq S \ {w}
      <4>1. DOMAIN wings = Wings BY DEF TypeOK, ForceOK
      <4> QED BY <2>7, <2>8, <4>1 DEF of
    <3>3. total(plan.wing, S) <= pool[m]["air"] BY <1>3
    <3>4. pool[m]["air"] \in Int BY <2>4
    <3> HIDE DEF S, U
    <3>5. CASE m = nation
      <4>1. w \in S BY <2>1, <2>3, <3>5 DEF S
      <4>2. total(plan.wing, U) <= pool[m]["air"] - men(n)
            BY <2>5, <3>1, <3>2, <3>3, <3>4, <4>1, RestFits
      <4> QED BY <2>6, <3>5, <4>2 DEF U
    <3>6. CASE m # nation
      <4>1. total(plan.wing, U) <= pool[m]["air"] BY <3>1, <3>2, <3>3, <3>4, FewerFit
      <4> QED BY <2>6, <3>6, <4>1 DEF U
    <3> QED BY <3>5, <3>6
  <2>11. (\A m \in Nations : within(plan.wing, of(wings, m) \cap todo, pool[m]["air"]))'
         BY <1>6, <2>10 DEF within, of
  <2> QED BY <1>1, <1>6, <2>9, <2>11 DEF PlanFits, PlanStands
<1>7. CASE phase' = "growth" BY <1>7 DEF PlanFits, PlanStands
<1> QED BY <1>6, <1>7 DEF apply_wing_refills

LEMMA PlanStep == ASSUME TypeOK, PlanFits, [Next]_vars PROVE PlanFits'
<1>1. CASE UNCHANGED vars
  <2>1. UNCHANGED <<phase, plan, todo, pool, units, wings, standing>>
        BY <1>1 DEF vars, pass, force, ground
  <2> QED BY <2>1 DEF PlanFits, PlanStands, within, of, unit_lacks, wing_lacks, alive, flown
<1>2. CASE phase' \notin {"units", "wings"} BY <1>2 DEF PlanFits, PlanStands
<1>3. HireNext \/ VerbNext \/ PeaceNext \/ run_military_day => phase' \notin {"units", "wings"}
      BY DEF HireNext, hire_unit, hire_wing, VerbNext, PeaceNext, run_military_day, verbs, pass
<1>4. TickNext => \/ plan_refills \/ apply_recruit_refills \/ apply_wing_refills
                  \/ phase' \notin {"units", "wings"}
      BY DEF TickNext, begin_tick, run_recruitment, growth_pass, run_population_migration,
         end_agency, advance_musters, close_tick
<1> QED BY <1>1, <1>2, <1>3, <1>4, PlanMade, UnitsFilled, WingsFilled DEF Next

(* What the quarter plans for its units and wings stays good until it is granted, for
   any nations, pools and crews: no refill is cut short by another made before it. *)
THEOREM PlanStandsAlways == Spec => []PlanStands
<1>1. Init => TypeOK /\ Awaiting
  <2>1. Init => Awaiting BY DEF Init, Awaiting
  <2> QED BY <2>1, TypeInit
<1>2. Init => PlanFits BY DEF Init, PlanFits, PlanStands
<1>3. TypeOK /\ Awaiting /\ PlanFits /\ [Next]_vars => (TypeOK /\ Awaiting /\ PlanFits)'
      BY TypeStep, AwaitingStep, PlanStep
<1>4. PlanFits => PlanStands BY DEF PlanFits
<1> QED BY <1>1, <1>2, <1>3, <1>4, PTL DEF Spec

-----------------------------------------------------------------------------
(* Men.  A hire is a muster or a unit and never both. *)
Apart == \A h \in Hires : ~(queued(h) /\ alive(h))

LEMMA ApartStep == ASSUME TypeOK, Awaiting, Apart, [Next]_vars PROVE Apart'
<1> SUFFICES ASSUME NEW h \in Hires PROVE ~(queued(h) /\ alive(h))' BY DEF Apart
<1>1. ASSUME queued(h)' => queued(h), alive(h)' => alive(h) PROVE ~(queued(h) /\ alive(h))'
      BY <1>1 DEF Apart
<1>2. CASE UNCHANGED vars BY <1>1, <1>2 DEF vars, force, queued, alive
<1>3. CASE HireNext
  <2>1. ASSUME NEW n \in Nations, NEW b \in Bases, NEW x \in Hires, NEW d \in MUSTER_TICKS,
               hire_unit(n, b, x, d)
        PROVE  ~(queued(h) /\ alive(h))'
    <3>1. CASE x = h BY <2>1, <3>1 DEF hire_unit, alive
    <3>2. CASE x # h BY <1>1, <2>1, <3>2 DEF hire_unit, alive, queued, TypeOK, ForceOK
    <3> QED BY <3>1, <3>2
  <2>2. ASSUME UNCHANGED <<musters, units>> PROVE ~(queued(h) /\ alive(h))'
        BY <1>1, <2>2 DEF queued, alive
  <2> QED BY <1>3, <2>1, <2>2 DEF HireNext, hire_wing
<1>4. CASE VerbNext
  <2>1. UNCHANGED musters
        BY <1>4 DEF VerbNext, idle, resume, demolish, complete_site, disband_unit, raze_centre
  <2>2. alive(h)' => alive(h)
    <3>1. CASE UNCHANGED units BY <3>1 DEF alive
    <3>2. CASE \E g \in Hires : disband_unit(g)
          BY <3>2 DEF disband_unit, alive, TypeOK, ForceOK
    <3> QED BY <1>4, <3>1, <3>2 DEF VerbNext, idle, resume, demolish, complete_site, raze_centre
  <2> QED BY <1>1, <2>1, <2>2 DEF queued
<1>5. CASE PeaceNext
  <2>1. (queued(h)' => queued(h)) /\ (alive(h)' => alive(h))
        BY <1>5 DEF PeaceNext, cede_provinces, queued, alive
  <2> QED BY <1>1, <2>1
<1>6. ASSUME NEW men, units' = after_losses(men), UNCHANGED musters
      PROVE  ~(queued(h) /\ alive(h))'
      BY <1>1, <1>6 DEF after_losses, alive, queued
<1>7. CASE run_military_day BY <1>6, <1>7 DEF run_military_day
<1>8. CASE TickNext
  <2>1. CASE advance_musters
    <3>1. PICK x \in todo : muster_turn(x) BY <2>1 DEF advance_musters
    <3>2. x \in Hires /\ queued(x) BY <2>1 DEF advance_musters, TypeOK, PassOK, Awaiting
    <3>3. CASE x # h BY <1>1, <3>1, <3>3 DEF muster_turn, raise, hold, queued, alive, TypeOK, ForceOK
    <3>4. CASE x = h /\ UNCHANGED units BY <1>1, <3>2, <3>4 DEF alive
    <3>5. CASE x = h /\ raise(h) BY <3>2, <3>5 DEF raise, queued, TypeOK, ForceOK
    <3> QED BY <3>1, <3>3, <3>4, <3>5 DEF muster_turn, hold
  <2>2. CASE apply_recruit_refills
    <3>1. UNCHANGED musters BY <2>2 DEF apply_recruit_refills
    <3>2. alive(h)' => alive(h)
      <4>1. CASE UNCHANGED units BY <4>1 DEF alive
      <4>2. ASSUME NEW x \in todo, alive(x), unit_refill(x) PROVE alive(h)' => alive(h)
        <5>1. x \in Hires BY <2>2 DEF apply_recruit_refills, TypeOK, PassOK
        <5> QED BY <4>2, <5>1 DEF unit_refill, alive, TypeOK, ForceOK
      <4> QED BY <2>2, <4>1, <4>2 DEF apply_recruit_refills
    <3> QED BY <1>1, <3>1, <3>2 DEF queued
  <2>3. CASE close_tick BY <1>6, <2>3 DEF close_tick
  <2>4. CASE UNCHANGED <<musters, units>> BY <1>1, <2>4 DEF queued, alive
  <2> QED BY <1>8, <2>1, <2>2, <2>3, <2>4 DEF TickNext, begin_tick, run_recruitment, plan_refills,
          apply_wing_refills, growth_pass, run_population_migration, end_agency, force
<1> QED BY <1>2, <1>3, <1>4, <1>5, <1>7, <1>8 DEF Next

-----------------------------------------------------------------------------
QueuedHires == {h \in Hires : queued(h)}

LEMMA TheatresFinite == IsFiniteSet(Theatres)
<1>1. IsFiniteSet({}) BY FS_EmptySet
<1>2. IsFiniteSet({} \cup {"land"}) BY <1>1, FS_AddElement
<1>3. IsFiniteSet(({} \cup {"land"}) \cup {"air"}) BY <1>2, FS_AddElement
<1>4. IsFiniteSet((({} \cup {"land"}) \cup {"air"}) \cup {"sea"}) BY <1>3, FS_AddElement
<1>5. Theatres = (({} \cup {"land"}) \cup {"air"}) \cup {"sea"} BY DEF Theatres
<1> QED BY <1>4, <1>5

LEMMA MenTyped ==
    ASSUME TypeOK
    PROVE  /\ \A c \in Centres : heads[c] \in Int
           /\ \A n \in Nations : pooled[n] \in Int
           /\ \A h \in Hires : strength[h] \in Int
           /\ total(heads, Centres) \in Int /\ total(pooled, Nations) \in Int
           /\ total(strength, Hires) \in Int
           /\ IsFiniteSet(QueuedHires) /\ Cardinality(QueuedHires) \in Nat
           /\ hire_batch_manpower \in Nat \ {0}
<1>1. IsFiniteSet(Nations) /\ IsFiniteSet(Centres) /\ IsFiniteSet(Hires) /\ IsFiniteSet(Theatres)
      BY TheatresFinite, RecruitsAssumption
<1>2. \A c \in Centres : heads[c] \in Int
  <2> SUFFICES ASSUME NEW c \in Centres PROVE heads[c] \in Int OBVIOUS
  <2>1. population[c] \in Int /\ recruit_heads_taken[c] \in Int /\ THOUSAND \in Int
        BY RecruitsAssumption DEF TypeOK, PeopleOK
  <2> QED BY <2>1 DEF heads
<1>3. \A n \in Nations : pooled[n] \in Int
  <2> SUFFICES ASSUME NEW n \in Nations PROVE pooled[n] \in Int OBVIOUS
  <2>1. \A t \in Theatres : pool[n][t] \in Int BY DEF TypeOK, PoolOK
  <2>2. total(pool[n], Theatres) \in Int BY <1>1, <2>1, Total
  <2> QED BY <2>2 DEF pooled
<1>4. \A h \in Hires : strength[h] \in Int BY StrengthType
<1>5. QueuedHires \subseteq Hires BY DEF QueuedHires
<1>6. IsFiniteSet(QueuedHires) /\ Cardinality(QueuedHires) \in Nat
      BY <1>1, <1>5, FS_Subset, FS_CardinalityType
<1>7. total(heads, Centres) \in Int /\ total(pooled, Nations) \in Int /\ total(strength, Hires) \in Int
      BY <1>1, <1>2, <1>3, <1>4, Total
<1> QED BY <1>2, <1>3, <1>4, <1>6, <1>7, RecruitsAssumption

(* What a pool gains or loses, the pools of all do. *)
LEMMA PoolMoves ==
    ASSUME TypeOK, TypeOK', NEW n \in Nations, NEW t \in Theatres, NEW v \in Int,
           pool' = [pool EXCEPT ![n][t] = v]
    PROVE  total(pooled', Nations) = total(pooled, Nations) + (v - pool[n][t])
<1>1. \A m \in Nations : pool'[m] = IF m = n THEN [pool[n] EXCEPT ![t] = v] ELSE pool[m]
      BY DEF TypeOK, PoolOK
<1>2. \A s \in Theatres : pool'[n][s] = IF s = t THEN v ELSE pool[n][s]
      BY <1>1 DEF TypeOK, PoolOK
<1>3. \A s \in Theatres : pool[n][s] \in Int /\ pool'[n][s] \in Int BY DEF TypeOK, PoolOK
<1>4. total(pool'[n], Theatres) = total(pool[n], Theatres) + (pool'[n][t] - pool[n][t])
  <2> DEFINE f == pool[n] g == pool'[n]
  <2>1. /\ \A s \in Theatres : f[s] \in Int /\ g[s] \in Int
        /\ \A s \in Theatres \ {t} : g[s] = f[s]
        BY <1>2, <1>3
  <2> HIDE DEF f, g
  <2>2. total(g, Theatres) = total(f, Theatres) + (g[t] - f[t])
        BY <2>1, TheatresFinite, TotalChange
  <2> QED BY <2>2 DEF f, g
<1>5. \A m \in Nations : pooled[m] \in Int /\ pooled'[m] \in Int
  <2> SUFFICES ASSUME NEW m \in Nations PROVE pooled'[m] \in Int BY MenTyped
  <2>1. \A s \in Theatres : pool'[m][s] \in Int BY DEF TypeOK, PoolOK
  <2>2. total(pool'[m], Theatres) \in Int BY <2>1, TheatresFinite, Total
  <2> QED BY <2>2 DEF pooled
<1>6. \A m \in Nations \ {n} : pooled'[m] = pooled[m] BY <1>1 DEF pooled
<1>7. pooled'[n] - pooled[n] = v - pool[n][t]
  <2>1. pooled'[n] = total(pool'[n], Theatres) /\ pooled[n] = total(pool[n], Theatres)
        BY DEF pooled
  <2>2. pool'[n][t] = v BY <1>2
  <2> QED BY <1>3, <1>4, <1>5, <2>1, <2>2
<1>8. total(pooled', Nations) = total(pooled, Nations) + (pooled'[n] - pooled[n])
  <2>1. IsFiniteSet(Nations) BY RecruitsAssumption
  <2> QED BY <1>5, <1>6, <2>1, TotalChange
<1> QED BY <1>7, <1>8

(* What a unit gains, the units together do. *)
LEMMA StrengthMoves ==
    ASSUME TypeOK, TypeOK', NEW h \in Hires, \A x \in Hires \ {h} : units'[x] = units[x]
    PROVE  total(strength', Hires) = total(strength, Hires) + (strength'[h] - strength[h])
<1>1. \A x \in Hires : strength[x] \in Int /\ strength'[x] \in Int
  <2>1. \A x \in Hires : strength'[x] \in Int
        BY RecruitsAssumption DEF TypeOK, ForceOK, strength, alive, Unit
  <2> QED BY <2>1, MenTyped
<1>2. \A x \in Hires \ {h} : strength'[x] = strength[x] BY DEF strength, alive
<1>3. IsFiniteSet(Hires) BY RecruitsAssumption
<1> QED BY <1>1, <1>2, <1>3, TotalChange

(* Men taken off the centres are as many as the base draws. *)
LEMMA HeadsDrawn ==
    ASSUME TypeOK, UNCHANGED razed, NEW want \in Int, NEW b, NEW g \in draws(b, want), take_heads(g)
    PROVE  total(heads', Centres) + total(g, Centres) = total(heads, Centres)
<1>1. g \in [Centres -> 0 .. want] BY DEF draws
<1>2. IsFiniteSet(Centres) BY RecruitsAssumption
<1>3. ASSUME NEW c \in Centres
      PROVE  heads'[c] \in Int /\ g[c] \in Int /\ heads[c] = heads'[c] + g[c]
  <2> DEFINE p == population[c]
             t == recruit_heads_taken[c]
             whole == (t + g[c]) \div THOUSAND
             over == (t + g[c]) % THOUSAND
  <2>1. p \in Nat /\ t \in Nat /\ g[c] \in Nat /\ THOUSAND \in Nat \ {0}
        BY <1>1, RecruitsAssumption DEF TypeOK, PeopleOK
  <2>2. (p - whole) * THOUSAND - over = p * THOUSAND - (t + g[c])
    <3> DEFINE a == t + g[c]
    <3>1. p \in Nat /\ a \in Nat BY <2>1
    <3> HIDE DEF p, a
    <3>2. (p - (a \div THOUSAND)) * THOUSAND - (a % THOUSAND) = p * THOUSAND - a
          BY <2>1, <3>1, Carry
    <3> QED BY <3>2 DEF a
  <2>3. heads[c] = IF c \in razed THEN 0 ELSE p * THOUSAND - t BY DEF heads
  <2>4. heads'[c] = IF c \in razed THEN 0 ELSE (p - whole) * THOUSAND - over
        BY DEF heads, take_heads
  <2>5. g[c] <= IF centre_province[c] = base_province[b] THEN centre_heads_available(c) ELSE 0
        BY DEF draws
  <2>6. CASE c \in razed
    <3>1. g[c] = 0 BY <2>1, <2>5, <2>6 DEF centre_heads_available
    <3> QED BY <2>3, <2>4, <2>6, <3>1
  <2>7. CASE c \notin razed
    <3> DEFINE all == p * THOUSAND
    <3>1. all \in Int BY <2>1
    <3>2. heads'[c] = all - (t + g[c]) /\ heads[c] = all - t BY <2>2, <2>3, <2>4, <2>7
    <3> HIDE DEF whole, over, all, p, t
    <3> QED BY <2>1, <3>1, <3>2
  <2> QED BY <2>6, <2>7
<1>4. total(heads, Centres) = total(heads', Centres) + total(g, Centres)
  <2> DEFINE h == heads f == heads'
  <2>1. \A c \in Centres : f[c] \in Int /\ g[c] \in Int /\ h[c] = f[c] + g[c] BY <1>3
  <2> HIDE DEF h, f
  <2>2. total(h, Centres) = total(f, Centres) + total(g, Centres) BY <1>2, <2>1, TotalBoth
  <2> QED BY <2>2 DEF h, f
<1>5. total(heads', Centres) \in Int /\ total(g, Centres) \in Int
  <2> DEFINE f == heads'
  <2>1. \A c \in Centres : f[c] \in Int /\ g[c] \in Int BY <1>3
  <2> HIDE DEF f
  <2>2. total(f, Centres) \in Int /\ total(g, Centres) \in Int BY <1>2, <2>1, Total
  <2> QED BY <2>2 DEF f
<1> QED BY <1>4, <1>5

Moved == Men' = Men \/ (Men' < Men /\ \E n \in Nations : pool'[n]["land"] = k_recruit_pool_max)

LEMMA RecruitMoves == ASSUME TypeOK, TypeOK', run_recruitment PROVE Men' = Men
<1>1. UNCHANGED <<razed, musters, units>> /\ phase = "recruit" BY DEF run_recruitment, force
<1>2. /\ Cardinality(QueuedHires)' = Cardinality(QueuedHires)
      /\ total(strength', Hires) = total(strength, Hires)
      BY <1>1 DEF QueuedHires, queued, strength, alive
<1>3. todo \subseteq Bases BY <1>1 DEF TypeOK, PassOK
<1>4. ASSUME NEW b \in wanting, recruit_at(b) PROVE Men' = Men
  <2>1. b \in Bases BY <1>3 DEF wanting
  <2>2. PICK g \in draws(b, base_want(b)) : \E made \in 0 .. base_want(b) :
              /\ made = drawn(g) /\ take_heads(g)
              /\ pool' = [pool EXCEPT ![owner[b]][theatre(b)] = @ + made]
        BY <1>4 DEF recruit_at
  <2>3. PICK made \in 0 .. base_want(b) :
              /\ made = drawn(g) /\ take_heads(g)
              /\ pool' = [pool EXCEPT ![owner[b]][theatre(b)] = @ + made]
        BY <2>2
  <2>4. base_want(b) \in Int /\ theatre(b) \in Theatres /\ owner[b] \in Nations
        /\ pool[owner[b]][theatre(b)] \in Int
        BY <2>1, WantFits DEF TypeOK, GroundOK
  <2> DEFINE had == pool[owner[b]][theatre(b)]
  <2>5. made \in Int /\ had + made \in Int /\ pool' = [pool EXCEPT ![owner[b]][theatre(b)] = had + made]
        BY <2>3, <2>4
  <2>6. total(pooled', Nations) = total(pooled, Nations) + ((had + made) - had)
        BY <2>4, <2>5, PoolMoves
  <2>7. total(heads', Centres) + made = total(heads, Centres)
        BY <1>1, <2>3, <2>4, HeadsDrawn DEF drawn
  <2>8. total(heads', Centres) \in Int
    <3>1. \A c \in Centres : heads'[c] \in Int
      <4> SUFFICES ASSUME NEW c \in Centres PROVE heads'[c] \in Int OBVIOUS
      <4>1. population'[c] \in Int /\ recruit_heads_taken'[c] \in Int /\ THOUSAND \in Int
            BY RecruitsAssumption DEF TypeOK, PeopleOK
      <4> QED BY <4>1 DEF heads
    <3> DEFINE f == heads'
    <3>2. \A c \in Centres : f[c] \in Int BY <3>1
    <3>3. IsFiniteSet(Centres) BY RecruitsAssumption
    <3> HIDE DEF f
    <3>4. total(f, Centres) \in Int BY <3>2, <3>3, Total
    <3> QED BY <3>4 DEF f
  <2> HIDE DEF had
  <2>9. had \in Int BY <2>4 DEF had
  <2> QED BY <1>2, <2>5, <2>6, <2>7, <2>8, <2>9, MenTyped DEF Men, QueuedHires
<1>5. ASSUME UNCHANGED <<population, recruit_heads_taken, pool>> PROVE Men' = Men
  <2>1. UNCHANGED <<heads, pooled>> BY <1>1, <1>5 DEF heads, pooled
  <2> QED BY <1>2, <2>1 DEF Men, QueuedHires
<1> QED BY <1>4, <1>5 DEF run_recruitment

LEMMA RefillMoves == ASSUME TypeOK, TypeOK', apply_recruit_refills PROVE Men' = Men
<1>1. UNCHANGED <<people, musters>> /\ phase = "units" BY DEF apply_recruit_refills
<1>2. /\ Cardinality(QueuedHires)' = Cardinality(QueuedHires)
      /\ heads' = heads
      BY <1>1 DEF QueuedHires, queued, heads, people
<1>3. todo \subseteq Hires BY <1>1 DEF TypeOK, PassOK
<1>4. ASSUME NEW h \in todo, alive(h), unit_refill(h) PROVE Men' = Men
  <2>1. h \in Hires /\ units[h] \in Unit BY <1>3, <1>4 DEF TypeOK, ForceOK, alive
  <2> DEFINE nation == units[h].owner
             men(n) == smaller(smaller(n, unit_lacks(h)), pool[nation]["land"])
             had == pool[nation]["land"]
             count == units[h].count
  <2>2. PICK n \in 0 .. plan.unit[h] : /\ units' = [units EXCEPT ![h].count = @ + men(n)]
                                       /\ pool' = [pool EXCEPT ![nation]["land"] = @ - men(n)]
        BY <1>4 DEF unit_refill
  <2>3. nation \in Nations /\ had \in Nat /\ count \in 1 .. hire_batch_manpower
        BY <2>1 DEF Unit, TypeOK, PoolOK, Theatres
  <2>4. men(n) \in Nat /\ men(n) <= hire_batch_manpower - count
    <3>1. unit_lacks(h) = hire_batch_manpower - count BY <1>4 DEF unit_lacks
    <3>2. n \in Int /\ n >= 0 BY <2>2
    <3> HIDE DEF had, count
    <3> QED BY <2>3, <3>1, <3>2, RecruitsAssumption DEF smaller, had
  <2> DEFINE m == men(n)
  <2>5. pool' = [pool EXCEPT ![nation]["land"] = had - m] BY <2>2
  <2>6. units'[h] = [units[h] EXCEPT !.count = count + m] BY <2>1, <2>2 DEF TypeOK, ForceOK
  <2> HIDE DEF men
  <2>7. m \in Nat /\ m <= hire_batch_manpower - count BY <2>4
  <2> HIDE DEF m, nation, had
  <2>8. count + m \in 1 .. hire_batch_manpower BY <2>3, <2>7, RecruitsAssumption
  <2>9. units'[h] \in Unit /\ units'[h].count = count + m BY <2>1, <2>6, <2>8 DEF Unit
  <2>10. strength'[h] = count + m /\ strength[h] = count
         BY <1>4, <2>1, <2>9, NobodyAssumption DEF strength, alive
  <2>11. total(strength', Hires) = total(strength, Hires) + ((count + m) - count)
    <3>1. \A x \in Hires \ {h} : units'[x] = units[x] BY <2>1, <2>2 DEF TypeOK, ForceOK
    <3> QED BY <2>1, <2>10, <3>1, StrengthMoves
  <2>12. total(pooled', Nations) = total(pooled, Nations) + ((had - m) - had)
    <3>1. had - m \in Int /\ "land" \in Theatres BY <2>3, <2>7 DEF Theatres
    <3> QED BY <2>3, <2>5, <3>1, PoolMoves DEF had
  <2> HIDE DEF count
  <2> QED BY <1>2, <2>3, <2>7, <2>11, <2>12, MenTyped DEF Men, QueuedHires
<1>5. ASSUME UNCHANGED <<units, pool>> PROVE Men' = Men
  <2>1. UNCHANGED <<strength, pooled>> BY <1>5 DEF strength, alive, pooled
  <2> QED BY <1>2, <2>1 DEF Men, QueuedHires
<1> QED BY <1>4, <1>5 DEF apply_recruit_refills

(* A muster fewer, or one more. *)
LEMMA Dequeued ==
    ASSUME TypeOK, NEW h \in Hires, queued(h), musters' = [musters EXCEPT ![h] = None]
    PROVE  Cardinality(QueuedHires)' = Cardinality(QueuedHires) - 1
<1>1. QueuedHires' = QueuedHires \ {h} BY DEF QueuedHires, queued, TypeOK, ForceOK
<1>2. h \in QueuedHires BY DEF QueuedHires
<1> QED BY <1>1, <1>2, MenTyped, FS_RemoveElement

LEMMA Enqueued ==
    ASSUME TypeOK, NEW h \in Hires, ~queued(h), NEW m \in Muster,
           musters' = [musters EXCEPT ![h] = m]
    PROVE  Cardinality(QueuedHires)' = Cardinality(QueuedHires) + 1
<1>1. QueuedHires' = QueuedHires \cup {h}
      BY NobodyAssumption DEF QueuedHires, queued, TypeOK, ForceOK
<1>2. h \notin QueuedHires BY DEF QueuedHires
<1> QED BY <1>1, <1>2, MenTyped, FS_AddElement

LEMMA MustersMove == ASSUME TypeOK, TypeOK', Awaiting, Apart, advance_musters PROVE Moved
<1>1. UNCHANGED people /\ phase = "musters" BY DEF advance_musters
<1>2. heads' = heads BY <1>1 DEF heads, people
<1>3. PICK h \in todo : muster_turn(h) BY DEF advance_musters
<1>4. h \in Hires /\ queued(h) /\ musters[h] \in Muster
      BY <1>1 DEF TypeOK, PassOK, ForceOK, Awaiting, queued
<1>5. CASE refund_muster_recruits(musters[h]) /\ musters' = [musters EXCEPT ![h] = None]
           /\ UNCHANGED units
  <2> DEFINE nation == musters[h].owner
             had == pool[nation]["land"]
             now == smaller(had + hire_batch_manpower, k_recruit_pool_max)
  <2>1. nation \in Nations /\ had \in Nat BY <1>4 DEF Muster, TypeOK, PoolOK, Theatres
  <2>2. pool' = [pool EXCEPT ![nation]["land"] = now] BY <1>5 DEF refund_muster_recruits
  <2>3. now \in Int
    <3> HIDE DEF had
    <3> QED BY <2>1, RecruitsAssumption DEF smaller
  <2>4. total(pooled', Nations) = total(pooled, Nations) + (now - had)
    <3>1. "land" \in Theatres BY DEF Theatres
    <3> HIDE DEF nation, now
    <3> QED BY <2>1, <2>2, <2>3, <3>1, PoolMoves
  <2>5. Cardinality(QueuedHires)' = Cardinality(QueuedHires) - 1 BY <1>4, <1>5, Dequeued
  <2>6. strength' = strength BY <1>5 DEF strength, alive
  <2>7. pool'[nation]["land"] = now
    <3> HIDE DEF nation, now
    <3> QED BY <2>1, <2>2 DEF TypeOK, PoolOK, Theatres
  <2> DEFINE Q == Cardinality(QueuedHires) B == hire_batch_manpower
  <2>8. Q \in Nat /\ B \in Nat \ {0} /\ Q' = Q - 1 BY <2>5, MenTyped
  <2> HIDE DEF Q
  <2>9. B * Q' = B * Q - B BY <2>8
  <2>10. B * Q \in Int BY <2>8
  <2>11. /\ Men = total(heads, Centres) + total(pooled, Nations) + B * Q + total(strength, Hires)
         /\ Men' = total(heads, Centres) + total(pooled', Nations) + B * Q' + total(strength, Hires)
         BY <1>2, <2>6 DEF Men, Q, QueuedHires
  <2>12. Men' = Men + (now - had - B) /\ Men \in Int
    <3> DEFINE x == B * Q y == B * Q'
    <3>1. x \in Int /\ y = x - B BY <2>9, <2>10
    <3> HIDE DEF x, y, had, now, B
    <3>2. had \in Int /\ B \in Int BY <2>1, <2>8
    <3> QED BY <2>3, <2>4, <2>11, <3>1, <3>2, MenTyped DEF x, y
  <2>13. CASE now = had + B
    <3> HIDE DEF had, now, B
    <3>1. now - had - B = 0 BY <2>1, <2>3, <2>8, <2>13
    <3> QED BY <2>12, <3>1 DEF Moved
  <2>14. CASE now # had + B
    <3>1. now = k_recruit_pool_max /\ now < had + B
      <4> HIDE DEF had
      <4> QED BY <2>1, <2>8, <2>14, RecruitsAssumption DEF smaller
    <3>2. Men' < Men
      <4> HIDE DEF had, now, B
      <4> QED BY <2>1, <2>3, <2>8, <2>12, <3>1
    <3> QED BY <2>1, <2>7, <3>1, <3>2 DEF Moved
  <2> QED BY <2>13, <2>14
<1>6. CASE raise(h) /\ UNCHANGED pool
  <2>1. pooled' = pooled BY <1>6 DEF pooled
  <2>2. Cardinality(QueuedHires)' = Cardinality(QueuedHires) - 1 BY <1>4, <1>6, Dequeued DEF raise
  <2> DEFINE u == [owner |-> musters[h].owner, count |-> hire_batch_manpower, base |-> musters[h].base]
  <2>3. u \in Unit BY <1>4, RecruitsAssumption DEF Unit, Muster
  <2>4. units'[h] = u /\ \A x \in Hires \ {h} : units'[x] = units[x]
        BY <1>4, <1>6 DEF raise, TypeOK, ForceOK
  <2>5. strength'[h] = hire_batch_manpower /\ strength[h] = 0
        BY <1>4, <2>3, <2>4, NobodyAssumption DEF strength, alive, Apart
  <2>6. total(strength', Hires) = total(strength, Hires) + (hire_batch_manpower - 0)
        BY <1>4, <2>4, <2>5, StrengthMoves
  <2> DEFINE Q == Cardinality(QueuedHires) B == hire_batch_manpower
  <2>7. Q \in Nat /\ B \in Nat \ {0} /\ Q' = Q - 1 BY <2>2, MenTyped
  <2> HIDE DEF Q
  <2>8. B * Q' = B * Q - B /\ B * Q \in Int BY <2>7
  <2>9. /\ Men = total(heads, Centres) + total(pooled, Nations) + B * Q + total(strength, Hires)
        /\ Men' = total(heads, Centres) + total(pooled, Nations) + B * Q' + total(strength', Hires)
        BY <1>2, <2>1 DEF Men, Q, QueuedHires
  <2>10. Men' = Men
    <3> DEFINE x == B * Q y == B * Q'
    <3>1. x \in Int /\ y = x - B BY <2>8
    <3> HIDE DEF x, y
    <3> QED BY <2>6, <2>7, <2>9, <3>1, MenTyped DEF x, y
  <2> QED BY <2>10 DEF Moved
<1>7. ASSUME NEW days \in Nat, hold(h, days), UNCHANGED pool PROVE Moved
  <2>1. [musters[h] EXCEPT !.days = days] \in Muster BY <1>4 DEF Muster
  <2>2. QueuedHires' = QueuedHires
        BY <1>4, <1>7, <2>1, NobodyAssumption DEF QueuedHires, queued, hold, TypeOK, ForceOK
  <2>3. UNCHANGED <<pooled, strength>> BY <1>7 DEF hold, pooled, strength, alive
  <2> QED BY <1>2, <2>2, <2>3 DEF Men, QueuedHires, Moved
<1>8. musters[h].days > 1 => musters[h].days - 1 \in Nat BY <1>4 DEF Muster
<1> QED BY <1>3, <1>5, <1>6, <1>7, <1>8 DEF muster_turn

LEMMA HireMoves ==
    ASSUME TypeOK, TypeOK', NEW n \in Nations, NEW b \in Bases, NEW h \in Hires,
           NEW d \in MUSTER_TICKS, hire_unit(n, b, h, d)
    PROVE  Men' = Men
<1>1. heads' = heads /\ strength' = strength
      BY DEF hire_unit, people, heads, strength, alive
<1>2. [owner |-> n, base |-> b, days |-> d] \in Muster BY RecruitsAssumption DEF Muster
<1>3. Cardinality(QueuedHires)' = Cardinality(QueuedHires) + 1 BY <1>2, Enqueued DEF hire_unit
<1> DEFINE Q == Cardinality(QueuedHires) B == hire_batch_manpower had == pool[n]["land"]
<1>4. had \in Int /\ "land" \in Theatres /\ B \in Nat \ {0}
      BY RecruitsAssumption DEF TypeOK, PoolOK, Theatres
<1>5. pool' = [pool EXCEPT ![n]["land"] = had - B] BY DEF hire_unit
<1>6. total(pooled', Nations) = total(pooled, Nations) + ((had - B) - had)
  <2>1. had - B \in Int
    <3> HIDE DEF had
    <3> QED BY <1>4
  <2> QED BY <1>4, <1>5, <2>1, PoolMoves
<1>7. Q \in Nat /\ Q' = Q + 1 BY <1>3, MenTyped
<1> HIDE DEF Q, had
<1>8. B * Q' = B * Q + B /\ B * Q \in Int BY <1>4, <1>7
<1>9. /\ Men = total(heads, Centres) + total(pooled, Nations) + B * Q + total(strength, Hires)
      /\ Men' = total(heads, Centres) + total(pooled', Nations) + B * Q' + total(strength, Hires)
      BY <1>1 DEF Men, Q, QueuedHires
<1> DEFINE x == B * Q y == B * Q'
<1>10. x \in Int /\ y = x + B BY <1>8
<1> HIDE DEF x, y
<1> QED BY <1>4, <1>6, <1>9, <1>10, MenTyped DEF x, y

(* A man is queued for by a hire and by nothing else. *)
LEMMA HiredHere ==
    ASSUME TypeOK, Awaiting, Next, NEW h \in Hires, ~queued(h), queued(h)'
    PROVE  \E n \in Nations, b \in Bases, x \in Hires, d \in MUSTER_TICKS : hire_unit(n, b, x, d)
<1>1. CASE HireNext BY <1>1 DEF HireNext, hire_wing, queued
<1>2. CASE VerbNext
      BY <1>2 DEF VerbNext, idle, resume, demolish, complete_site, disband_unit, raze_centre, queued
<1>3. CASE PeaceNext BY <1>3 DEF PeaceNext, cede_provinces, queued
<1>4. CASE run_military_day BY <1>4 DEF run_military_day, queued
<1>5. CASE advance_musters
  <2>1. PICK x \in todo : muster_turn(x) BY <1>5 DEF advance_musters
  <2>2. x \in Hires /\ queued(x) BY <1>5 DEF advance_musters, TypeOK, PassOK, Awaiting
  <2>3. musters'[h] = musters[h]
        BY <2>1, <2>2 DEF muster_turn, raise, hold, TypeOK, ForceOK
  <2> QED BY <2>3 DEF queued
<1>6. CASE TickNext /\ ~advance_musters
      BY <1>6 DEF TickNext, begin_tick, run_recruitment, plan_refills, apply_recruit_refills,
         apply_wing_refills, growth_pass, run_population_migration, end_agency, close_tick,
         force, queued
<1> QED BY <1>1, <1>2, <1>3, <1>4, <1>5, <1>6 DEF Next

LEMMA MenStep ==
    ASSUME TypeOK, TypeOK', Awaiting, Apart, Next, men_moved PROVE Moved
<1>1. ASSUME NEW h \in Hires, ~queued(h), queued(h)' PROVE Moved
      BY <1>1, HiredHere, HireMoves DEF Moved
<1>2. CASE phase \in {"recruit", "units"} \/ (phase = "musters" /\ todo # {})
  <2>1. ~HireNext /\ ~VerbNext /\ ~PeaceNext /\ ~run_military_day
        BY <1>2 DEF HireNext, hire_unit, hire_wing, VerbNext, PeaceNext, run_military_day, verbs
  <2>2. run_recruitment \/ apply_recruit_refills \/ advance_musters
        BY <1>2, <2>1 DEF Next, TickNext, begin_tick, plan_refills, apply_wing_refills,
           growth_pass, run_population_migration, end_agency, close_tick
  <2> QED BY <2>2, RecruitMoves, RefillMoves, MustersMove DEF Moved
<1> QED BY <1>1, <1>2 DEF men_moved

(* Men are moved between centres, pools, musters and units and none is made or lost on
   the way, however many the centres, nations and bases, and whatever the thousand they
   are counted in: but for a refund over the most a pool may hold. *)
THEOREM MenAreMovedAlways == Spec => MenAreMoved
<1>1. Init => TypeOK /\ Awaiting /\ Apart
  <2>1. Init => Awaiting /\ Apart BY DEF Init, Awaiting, Apart, queued
  <2> QED BY <2>1, TypeInit
<1>2. TypeOK /\ Awaiting /\ Apart /\ [Next]_vars => (TypeOK /\ Awaiting /\ Apart)'
      BY TypeStep, AwaitingStep, ApartStep
<1>3. TypeOK /\ TypeOK' /\ Awaiting /\ Apart /\ [Next]_vars
        => [men_moved => \/ Men' = Men
                         \/ /\ Men' < Men
                            /\ \E n \in Nations : pool'[n]["land"] = k_recruit_pool_max]_vars
      BY MenStep DEF Moved
<1> QED BY <1>1, <1>2, <1>3, PTL DEF Spec, MenAreMoved

=============================================================================
