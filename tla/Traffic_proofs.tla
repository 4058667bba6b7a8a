--------------------------- MODULE Traffic_proofs ---------------------------
(***************************************************************************)
(* Proofs about Traffic, the rings of RingStore and the reader of          *)
(* EveReader.  In this order: division and sums; one ring, whose points    *)
(* are what was booked in the slots of its last lap; one reading of        *)
(* Suricata's log; the domain lists; the two stores and their saves; the   *)
(* kernel's counters; the resolutions of one device against each other;    *)
(* and the theorems.  The inductive invariant is TrafficInv, to which the  *)
(* last theorem adds Budget and CoarseInv.                                 *)
(***************************************************************************)
EXTENDS Traffic, FiniteSetTheorems, SequenceTheorems, WellFoundedInduction, TLAPS

-----------------------------------------------------------------------------
(* Division.  *)
LEMMA DivInt ==
  ASSUME NEW k \in Int, NEW p \in Nat \ {0}
  PROVE  k \div p \in Int
  OBVIOUS

LEMMA DivBounds ==
  ASSUME NEW k \in Int, NEW p \in Nat \ {0}
  PROVE  /\ k \div p \in Int /\ p * (k \div p) \in Int
         /\ p * (k \div p) <= k /\ k < p * (k \div p) + p
  BY DivInt

LEMMA ModOf ==
  ASSUME NEW p \in Nat \ {0}, NEW a \in Int, NEW r \in 0 .. p - 1
  PROVE  (p * a + r) % p = r
  OBVIOUS

LEMMA DivOf ==
  ASSUME NEW p \in Nat \ {0}, NEW a \in Int, NEW r \in 0 .. p - 1
  PROVE  (p * a + r) \div p = a
  OBVIOUS

LEMMA DivMod ==
  ASSUME NEW k \in Int, NEW p \in Nat \ {0}
  PROVE  k = p * (k \div p) + (k % p) /\ k % p \in 0 .. p - 1
<1> DEFINE q == k \div p
           r == k - p * q
<1>1. q \in Int /\ r \in 0 .. p - 1 /\ k = p * q + r
  BY DivBounds
<1> HIDE DEF q, r
<1>2. k % p = r
  BY <1>1, ModOf
<1>3. k = p * q + (k % p)
  BY <1>1, <1>2
<1>4. k % p \in 0 .. p - 1
  BY <1>1, <1>2
<1> QED
  BY <1>3, <1>4 DEF q

LEMMA DivMono ==
  ASSUME NEW j \in Int, NEW k \in Int, j <= k, NEW p \in Nat \ {0}
  PROVE  j \div p <= k \div p
  BY DivBounds

LEMMA DivNat ==
  ASSUME NEW k \in Nat, NEW p \in Nat \ {0}
  PROVE  k \div p \in Nat
  BY DivBounds

LEMMA ModUnique ==
  ASSUME NEW j \in Int, NEW k \in Int, NEW p \in Nat \ {0}, j % p = k % p, j <= k, k < j + p
  PROVE  j = k
<1>1. /\ j = p * (j \div p) + (j % p) /\ k = p * (k \div p) + (k % p)
      /\ j \div p \in Int /\ k \div p \in Int
  BY DivMod, DivInt
<1> DEFINE a == j \div p
           b == k \div p
<1>2. a \in Int /\ b \in Int /\ k - j = p * (b - a)
  BY <1>1
<1> HIDE DEF a, b
<1>3. b - a >= 1 => p * (b - a) >= p
  BY <1>2
<1>4. b - a <= -1 => p * (b - a) < 0
  BY <1>2
<1> QED
  BY <1>2, <1>3, <1>4

(* Every remainder occurs in p consecutive numbers.  *)
LEMMA ModOccurs ==
  ASSUME NEW k \in Int, NEW m \in Int, NEW p \in Nat \ {0}
  PROVE  \E j \in 1 .. p : (m + j) % p = k % p
<1> DEFINE r == (k - m - 1) % p
           q == (k - m - 1) \div p
<1>1. r \in 0 .. p - 1 /\ q \in Int /\ k - m - 1 = p * q + r
  BY DivMod, DivInt
<1> HIDE DEF r, q
<1>2. m + (r + 1) = k - p * q
  BY <1>1
<1> DEFINE a == k \div p
           c == k % p
<1>3. k = p * a + c /\ c \in 0 .. p - 1 /\ a \in Int
  BY DivMod, DivInt
<1> HIDE DEF a, c
<1>4. k - p * q = p * (a - q) + c /\ a - q \in Int
  BY <1>1, <1>3
<1>5. (p * (a - q) + c) % p = c
  BY <1>3, <1>4, ModOf
<1>6. (m + (r + 1)) % p = k % p
  BY <1>2, <1>4, <1>5 DEF c
<1>7. r + 1 \in 1 .. p
  BY <1>1
<1> QED
  BY <1>6, <1>7

-----------------------------------------------------------------------------
(* Induction: numbers, and the subsets of a finite set.                    *)
Less == {ss \in Nat \X Nat : ss[1] < ss[2]}

LEMMA LessIsWellFounded == IsWellFoundedOn(Less, Nat)
  BY NatLessThanWellFounded DEF OpToRel, Less

(* A set that holds 0 and, with a number, the next one holds them all.     *)
LEMMA InductiveSet ==
  ASSUME NEW S, 0 \in S, \A n \in Nat : n \in S => n + 1 \in S
  PROVE  Nat \subseteq S
<1> SUFFICES ASSUME Nat \ S # {} PROVE FALSE
  OBVIOUS
<1>1. PICK m \in Nat \ S : \A n \in Nat \ S : <<n, m>> \notin Less
  <2>1. Nat \ S \subseteq Nat
    OBVIOUS
  <2> QED
    BY <2>1, LessIsWellFounded, WFMin
<1>2. \A n \in Nat \ S : ~(n < m)
  BY <1>1 DEF Less
<1>3. m # 0 /\ m - 1 \in Nat /\ m - 1 < m
  BY <1>1
<1> QED
  BY <1>1, <1>2, <1>3

(* Subsets of a finite set, from the empty one by adding elements.         *)
LEMMA SubsetInduction ==
  ASSUME NEW D, IsFiniteSet(D), NEW G, {} \in G,
         \A s \in SUBSET D : s # {} /\ (\A x \in s : s \ {x} \in G) => s \in G
  PROVE  \A s \in SUBSET D : s \in G
<1> DEFINE S == {n \in Nat : \A s \in SUBSET D : Cardinality(s) = n => s \in G}
<1>0. \A s \in SUBSET D : IsFiniteSet(s) /\ Cardinality(s) \in Nat
  BY FS_Subset, FS_CardinalityType
<1>e. Cardinality({}) = 0 /\ \A s \in SUBSET D : Cardinality(s) = 0 => s = {}
  BY <1>0, FS_EmptySet, Zenon
<1>1. 0 \in S
  BY <1>0, <1>e
<1>2. ASSUME NEW n \in Nat, n \in S PROVE n + 1 \in S
  <2> SUFFICES ASSUME NEW s \in SUBSET D, Cardinality(s) = n + 1 PROVE s \in G
    OBVIOUS
  <2>1. s # {}
    BY <1>e
  <2>2. ASSUME NEW x \in s PROVE s \ {x} \in G
    <3>1. Cardinality(s \ {x}) = Cardinality(s) - 1 /\ s \ {x} \in SUBSET D
      BY <1>0, FS_RemoveElement
    <3> QED
      BY <1>2, <3>1
  <2> QED
    BY <2>1, <2>2
<1>3. Nat \subseteq S
  <2> HIDE DEF S
  <2> QED
    BY <1>1, <1>2, InductiveSet
<1> QED
  BY <1>0, <1>3

-----------------------------------------------------------------------------
(* Sums of finite functions: Total, as a table over the subsets.           *)
SumTable(f, it) ==
    it = [s \in SUBSET DOMAIN f |->
            IF s = {} THEN 0 ELSE f[CHOOSE x \in s : TRUE] + it[s \ {CHOOSE x \in s : TRUE}]]
SumOf(f) == CHOOSE it : SumTable(f, it)
Sum(f, S) == SumOf(f)[S]

Summable(f) == IsFiniteSet(DOMAIN f) /\ \A x \in DOMAIN f : f[x] \in Nat

(* The part of the table for sets of at most n elements.                   *)
SumTableUpTo(f, it, n) ==
    it = [s \in {t \in SUBSET DOMAIN f : Cardinality(t) <= n} |->
            IF s = {} THEN 0 ELSE f[CHOOSE x \in s : TRUE] + it[s \ {CHOOSE x \in s : TRUE}]]

LEMMA SumDefined ==
  ASSUME NEW f, IsFiniteSet(DOMAIN f)
  PROVE  SumTable(f, SumOf(f))
<1> DEFINE Small(n) == {t \in SUBSET DOMAIN f : Cardinality(t) <= n}
           S == {n \in Nat : \E it : SumTableUpTo(f, it, n)}
<1>0. \A s \in SUBSET DOMAIN f : IsFiniteSet(s) /\ Cardinality(s) \in Nat
                                 /\ Cardinality(s) <= Cardinality(DOMAIN f)
  BY FS_Subset, FS_CardinalityType
<1>e. Cardinality({}) = 0 /\ \A s \in SUBSET DOMAIN f : Cardinality(s) = 0 => s = {}
  BY <1>0, FS_EmptySet, Zenon
<1>1. 0 \in S
  <2>1. Small(0) = {{}}
    BY <1>0, <1>e
  <2>2. SumTableUpTo(f, [s \in Small(0) |-> 0], 0)
    BY <2>1 DEF SumTableUpTo
  <2> QED
    BY <2>2
<1>2. ASSUME NEW n \in Nat, n \in S PROVE n + 1 \in S
  <2>1. PICK it : SumTableUpTo(f, it, n)
    BY <1>2
  <2> DEFINE nx == [s \in Small(n + 1) |->
                      IF s = {} THEN 0 ELSE f[CHOOSE x \in s : TRUE] + it[s \ {CHOOSE x \in s : TRUE}]]
  <2>2. \A s \in Small(n) : s \in Small(n + 1) /\ nx[s] = it[s]
    <3> SUFFICES ASSUME NEW s \in Small(n) PROVE s \in Small(n + 1) /\ nx[s] = it[s]
      OBVIOUS
    <3>1. s \in Small(n + 1)
      BY <1>0
    <3>2. it[s] = IF s = {} THEN 0 ELSE f[CHOOSE x \in s : TRUE] + it[s \ {CHOOSE x \in s : TRUE}]
      BY <2>1, Zenon DEF SumTableUpTo
    <3> QED
      BY <3>1, <3>2
  <2>3. \A s \in Small(n + 1) : s # {} => s \ {CHOOSE x \in s : TRUE} \in Small(n)
    <3> SUFFICES ASSUME NEW s \in Small(n + 1), s # {}
                 PROVE  s \ {CHOOSE x \in s : TRUE} \in Small(n)
      OBVIOUS
    <3> DEFINE x == CHOOSE x \in s : TRUE
    <3>1. x \in s
      OBVIOUS
    <3> HIDE DEF x
    <3>2. Cardinality(s \ {x}) = Cardinality(s) - 1
      BY <1>0, <3>1, FS_RemoveElement
    <3>3. s \ {x} \in Small(n)
      BY <1>0, <3>2
    <3> QED
      BY <3>3 DEF x
  <2>4. SumTableUpTo(f, nx, n + 1)
    <3>1. \A s \in Small(n + 1) : s # {} =>
            nx[s \ {CHOOSE x \in s : TRUE}] = it[s \ {CHOOSE x \in s : TRUE}]
      BY <2>2, <2>3
    <3>2. nx = [s \in Small(n + 1) |->
                  IF s = {} THEN 0 ELSE f[CHOOSE x \in s : TRUE] + nx[s \ {CHOOSE x \in s : TRUE}]]
      <4> DEFINE ny == [s \in Small(n + 1) |->
                  IF s = {} THEN 0 ELSE f[CHOOSE x \in s : TRUE] + nx[s \ {CHOOSE x \in s : TRUE}]]
      <4>0. \A s \in Small(n + 1) :
              nx[s] = IF s = {} THEN 0 ELSE f[CHOOSE x \in s : TRUE] + it[s \ {CHOOSE x \in s : TRUE}]
        OBVIOUS
      <4>1. \A s \in Small(n + 1) : nx[s] = ny[s]
        <5> SUFFICES ASSUME NEW s \in Small(n + 1) PROVE nx[s] = ny[s]
          OBVIOUS
        <5> HIDE DEF nx
        <5>1. ny[s] = IF s = {} THEN 0 ELSE f[CHOOSE x \in s : TRUE] + nx[s \ {CHOOSE x \in s : TRUE}]
          OBVIOUS
        <5> HIDE DEF ny, Small
        <5> QED
          BY <3>1, <4>0, <5>1
      <4>2. nx = [s \in Small(n + 1) |-> nx[s]] /\ ny = [s \in Small(n + 1) |-> ny[s]]
        OBVIOUS
      <4> HIDE DEF nx, ny
      <4>3. nx = ny
        BY <4>1, <4>2
      <4> QED
        BY <4>3 DEF ny
    <3> QED
      BY <3>2 DEF SumTableUpTo
  <2> QED
    BY <2>4
<1>3. Nat \subseteq S
  <2> HIDE DEF S
  <2> QED
    BY <1>1, <1>2, InductiveSet
<1>4. PICK it : SumTableUpTo(f, it, Cardinality(DOMAIN f))
  BY <1>3, FS_CardinalityType
<1>5. Small(Cardinality(DOMAIN f)) = SUBSET DOMAIN f
  BY <1>0
<1>6. SumTable(f, it)
  BY <1>4, <1>5 DEF SumTableUpTo, SumTable
<1> QED
  BY <1>6 DEF SumOf

LEMMA SumStep ==
  ASSUME NEW f, IsFiniteSet(DOMAIN f), NEW s \in SUBSET DOMAIN f
  PROVE  Sum(f, s) = IF s = {} THEN 0
                     ELSE f[CHOOSE x \in s : TRUE] + Sum(f, s \ {CHOOSE x \in s : TRUE})
<1> DEFINE it == SumOf(f)
<1>1. SumTable(f, it)
  BY SumDefined
<1> HIDE DEF it
<1>2. it[s] = IF s = {} THEN 0 ELSE f[CHOOSE x \in s : TRUE] + it[s \ {CHOOSE x \in s : TRUE}]
  BY <1>1, Zenon DEF SumTable
<1> QED
  BY <1>2 DEF it, Sum

LEMMA SumEmpty ==
  ASSUME NEW f, IsFiniteSet(DOMAIN f)
  PROVE  Sum(f, {}) = 0
  BY SumStep

LEMMA SumNat ==
  ASSUME NEW f, Summable(f), NEW s \in SUBSET DOMAIN f
  PROVE  Sum(f, s) \in Nat
<1> DEFINE G == {t \in SUBSET DOMAIN f : Sum(f, t) \in Nat}
<1>1. {} \in G
  BY SumEmpty DEF Summable
<1>2. ASSUME NEW t \in SUBSET DOMAIN f, t # {}, \A x \in t : t \ {x} \in G
      PROVE  t \in G
  <2> DEFINE y == CHOOSE x \in t : TRUE
  <2>1. Sum(f, t) = f[y] + Sum(f, t \ {y})
    BY <1>2, SumStep DEF Summable
  <2>2. y \in t
    BY <1>2
  <2> HIDE DEF y
  <2>3. f[y] \in Nat /\ Sum(f, t \ {y}) \in Nat
    BY <1>2, <2>2 DEF Summable
  <2> QED
    BY <2>1, <2>3
<1> HIDE DEF G
<1>3. \A t \in SUBSET DOMAIN f : t \in G
  BY <1>1, <1>2, SubsetInduction DEF Summable
<1> QED
  BY <1>3 DEF G

LEMMA SumInsert ==
  ASSUME NEW f, Summable(f), NEW s \in SUBSET DOMAIN f, NEW x \in s
  PROVE  Sum(f, s) = f[x] + Sum(f, s \ {x})
<1> DEFINE G == {t \in SUBSET DOMAIN f : \A z \in t : Sum(f, t) = f[z] + Sum(f, t \ {z})}
<1>1. {} \in G
  OBVIOUS
<1>2. ASSUME NEW t \in SUBSET DOMAIN f, t # {}, \A z \in t : t \ {z} \in G
      PROVE  t \in G
  <2> SUFFICES ASSUME NEW z \in t PROVE Sum(f, t) = f[z] + Sum(f, t \ {z})
    OBVIOUS
  <2> DEFINE y == CHOOSE w \in t : TRUE
  <2>1. Sum(f, t) = f[y] + Sum(f, t \ {y})
    BY <1>2, SumStep DEF Summable
  <2>2. y \in t
    BY <1>2
  <2> HIDE DEF y
  <2>3. CASE z = y
    BY <2>1, <2>3
  <2>4. CASE z # y
    <3>1. Sum(f, t \ {y}) = f[z] + Sum(f, (t \ {y}) \ {z})
      BY <1>2, <2>2, <2>4
    <3>2. Sum(f, t \ {z}) = f[y] + Sum(f, (t \ {z}) \ {y})
      BY <1>2, <2>2, <2>4
    <3>3. (t \ {z}) \ {y} = (t \ {y}) \ {z}
      OBVIOUS
    <3> DEFINE rest == Sum(f, (t \ {y}) \ {z})
    <3>4. rest \in Nat /\ f[y] \in Nat /\ f[z] \in Nat
      BY <2>2, SumNat DEF Summable
    <3>5. Sum(f, t \ {y}) = f[z] + rest /\ Sum(f, t \ {z}) = f[y] + rest
      BY <3>1, <3>2, <3>3
    <3> HIDE DEF rest
    <3> QED
      BY <2>1, <3>4, <3>5
  <2> QED
    BY <2>3, <2>4
<1> HIDE DEF G
<1>3. \A t \in SUBSET DOMAIN f : t \in G
  BY <1>1, <1>2, SubsetInduction DEF Summable
<1> QED
  BY <1>3 DEF G

(* A sum looks at the function on the set only.                            *)
LEMMA SumSame ==
  ASSUME NEW f, NEW g, Summable(f), Summable(g),
         NEW s \in SUBSET DOMAIN f, s \subseteq DOMAIN g, \A x \in s : f[x] = g[x]
  PROVE  Sum(f, s) = Sum(g, s)
<1> DEFINE G == {t \in SUBSET s : Sum(f, t) = Sum(g, t)}
<1>0. IsFiniteSet(s)
  BY FS_Subset DEF Summable
<1>1. {} \in G
  BY SumEmpty DEF Summable
<1>2. ASSUME NEW t \in SUBSET s, t # {}, \A z \in t : t \ {z} \in G
      PROVE  t \in G
  <2>1. PICK y \in t : TRUE
    BY <1>2
  <2>2. Sum(f, t) = f[y] + Sum(f, t \ {y}) /\ Sum(g, t) = g[y] + Sum(g, t \ {y})
    BY SumInsert
  <2>3. Sum(f, t \ {y}) = Sum(g, t \ {y}) /\ f[y] = g[y]
    BY <1>2, <2>1
  <2> QED
    BY <2>2, <2>3
<1> HIDE DEF G
<1>3. \A t \in SUBSET s : t \in G
  BY <1>0, <1>1, <1>2, SubsetInduction
<1> QED
  BY <1>3 DEF G

LEMMA TotalOf ==
  ASSUME NEW f
  PROVE  Total(f) = Sum(f, DOMAIN f)
  BY DEF Total, FoldFunction, FoldFunctionOnSet, MapThenFoldSet, Sum, SumOf, SumTable

(* A part of a sum.                                                        *)
LEMMA SumPart ==
  ASSUME NEW f, Summable(f), NEW s \in SUBSET DOMAIN f, NEW t \in SUBSET s
  PROVE  Sum(f, t) <= Sum(f, s) /\ ((\A x \in s \ t : f[x] = 0) => Sum(f, t) = Sum(f, s))
<1> DEFINE Good(u) == /\ Sum(f, t) <= Sum(f, t \cup u)
                      /\ (\A x \in u \ t : f[x] = 0) => Sum(f, t) = Sum(f, t \cup u)
           G == {u \in SUBSET s : Good(u)}
<1>0. IsFiniteSet(s)
  BY FS_Subset DEF Summable
<1>n. \A u \in SUBSET s : Sum(f, u) \in Nat
  BY SumNat
<1>1. {} \in G
  <2>1. t \cup {} = t
    OBVIOUS
  <2> QED
    BY <2>1, <1>n
<1>2. ASSUME NEW u \in SUBSET s, u # {}, \A z \in u : u \ {z} \in G
      PROVE  u \in G
  <2>1. PICK y \in u : TRUE
    BY <1>2
  <2>2. Good(u \ {y})
    BY <1>2, <2>1
  <2>3. CASE y \in t
    <3>1. t \cup u = t \cup (u \ {y}) /\ u \ t = (u \ {y}) \ t
      BY <2>3
    <3> QED
      BY <2>2, <3>1
  <2>4. CASE y \notin t
    <3>1. (t \cup u) \ {y} = t \cup (u \ {y}) /\ y \in t \cup u /\ t \cup u \in SUBSET DOMAIN f
      BY <2>1, <2>4
    <3>2. Sum(f, t \cup u) = f[y] + Sum(f, t \cup (u \ {y})) /\ f[y] \in Nat
      BY <3>1, SumInsert DEF Summable
    <3>3. Sum(f, t \cup (u \ {y})) \in Nat /\ Sum(f, t) \in Nat
      BY <1>n
    <3>4. Sum(f, t) <= Sum(f, t \cup u)
      BY <2>2, <3>2, <3>3
    <3>5. ASSUME \A x \in u \ t : f[x] = 0 PROVE Sum(f, t) = Sum(f, t \cup u)
      BY <2>1, <2>2, <2>4, <3>2, <3>3, <3>5
    <3> QED
      BY <3>4, <3>5
  <2> QED
    BY <2>3, <2>4
<1> HIDE DEF G
<1>3. \A u \in SUBSET s : u \in G
  BY <1>0, <1>1, <1>2, SubsetInduction
<1>4. Good(s) /\ t \cup s = s
  BY <1>3 DEF G
<1> QED
  BY <1>4

(* Sums over two sets of the same size, by an injection that hits          *)
(* everything but zeros.                                                   *)
LEMMA SumMoved ==
  ASSUME NEW f, NEW g, Summable(f), Summable(g), NEW b \in [DOMAIN f -> DOMAIN g],
         \A x, y \in DOMAIN f : b[x] = b[y] => x = y,
         \A x \in DOMAIN f : f[x] = g[b[x]],
         \A y \in DOMAIN g : (\A x \in DOMAIN f : b[x] # y) => g[y] = 0
  PROVE  Sum(f, DOMAIN f) = Sum(g, DOMAIN g)
<1> DEFINE Im(s) == {b[x] : x \in s}
           G == {s \in SUBSET DOMAIN f : Sum(f, s) = Sum(g, Im(s))}
<1>1. {} \in G
  <2>1. Im({}) = {}
    OBVIOUS
  <2> QED
    BY <2>1, SumEmpty DEF Summable
<1>2. ASSUME NEW s \in SUBSET DOMAIN f, s # {}, \A z \in s : s \ {z} \in G
      PROVE  s \in G
  <2>1. PICK y \in s : TRUE
    BY <1>2
  <2>2. Im(s) \ {b[y]} = Im(s \ {y}) /\ b[y] \in Im(s) /\ Im(s) \in SUBSET DOMAIN g
    BY <2>1
  <2>3. Sum(f, s) = f[y] + Sum(f, s \ {y}) /\ Sum(f, s \ {y}) = Sum(g, Im(s \ {y}))
    BY <1>2, <2>1, SumInsert
  <2>4. Sum(g, Im(s)) = g[b[y]] + Sum(g, Im(s \ {y}))
    BY <2>2, SumInsert
  <2> QED
    BY <2>1, <2>3, <2>4
<1>3. \A s \in SUBSET DOMAIN f : s \in G
  <2> HIDE DEF G
  <2> QED
    BY <1>1, <1>2, SubsetInduction DEF Summable
<1>4. Sum(f, DOMAIN f) = Sum(g, Im(DOMAIN f)) /\ Im(DOMAIN f) \in SUBSET DOMAIN g
  BY <1>3
<1>5. \A y \in DOMAIN g \ Im(DOMAIN f) : g[y] = 0
  OBVIOUS
<1> HIDE DEF Im
<1>6. Sum(g, Im(DOMAIN f)) = Sum(g, DOMAIN g)
  BY <1>4, <1>5, SumPart
<1> QED
  BY <1>4, <1>6

-----------------------------------------------------------------------------
(* One series.                                                             *)
MadeOf(s, r) ==
    /\ s = [pts |-> s.pts, last |-> s.last, log |-> s.log]
    /\ s.pts \in [0 .. Points[r] - 1 -> Nat] /\ s.last \in Nat
    /\ \A k \in DOMAIN s.log : k \in 0 .. s.last /\ s.log[k] \in Nat

(* Each point of the ring is what was booked in the one slot of the last   *)
(* lap that it stands for.                                                 *)
Ring(s, r) ==
    /\ MadeOf(s, r)
    /\ \A k \in s.last - Points[r] + 1 .. s.last : s.pts[k % Points[r]] = LoggedIn(s, k)

LEMMA MinOfTwo ==
  ASSUME NEW a \in Int, NEW b \in Int
  PROVE  /\ Min({a, b}) = IF a <= b THEN a ELSE b
         /\ Min({a, b}) \in {a, b} /\ Min({a, b}) <= a /\ Min({a, b}) <= b
<1> DEFINE m == IF a <= b THEN a ELSE b
<1>1. m \in {a, b} /\ \A y \in {a, b} : m <= y
  OBVIOUS
<1>2. \A x \in {a, b} : (\A y \in {a, b} : x <= y) => x = m
  OBVIOUS
<1> HIDE DEF m
<1>3. Min({a, b}) = m
  BY <1>1, <1>2 DEF Min
<1> QED
  BY <1>3 DEF m

LEMMA PointsType ==
  ASSUME NEW r \in DOMAIN Interval
  PROVE  Points[r] \in Nat \ {0} /\ Interval[r] \in Nat \ {0} /\ MaxCount[r] \in Nat
  BY ResolutionAssumption

LEMMA Position ==
  ASSUME NEW r \in DOMAIN Interval, NEW k \in Int
  PROVE  k % Points[r] \in 0 .. Points[r] - 1
<1>1. Points[r] \in Nat \ {0}
  BY PointsType
<1> QED
  BY <1>1, DivMod

LEMMA NewIsRing ==
  ASSUME NEW r \in DOMAIN Interval, NEW slot \in Nat
  PROVE  Ring(NewSeries(r, slot), r)
<1> DEFINE p == Points[r]
<1>0. p \in Nat \ {0}
  BY PointsType
<1>1. MadeOf(NewSeries(r, slot), r)
  BY DEF MadeOf, NewSeries, Nothing
<1>2. \A k \in Int : NewSeries(r, slot).pts[k % p] = 0
  BY Position DEF NewSeries
<1>3. \A k \in Int : LoggedIn(NewSeries(r, slot), k) = 0
  BY DEF LoggedIn, NewSeries, Nothing
<1>4. NewSeries(r, slot).last = slot /\ \A k \in slot - p + 1 .. slot : k \in Int
  BY <1>0 DEF NewSeries
<1> QED
  BY <1>0, <1>1, <1>2, <1>3, <1>4 DEF Ring

(* Moving on to a slot makes the points passed over those of this lap.     *)
LEMMA AdvancedIsRing ==
  ASSUME NEW r \in DOMAIN Interval, NEW s, Ring(s, r), NEW slot \in Nat, slot >= s.last
  PROVE  /\ Ring(Advanced(s, r, slot), r)
         /\ Advanced(s, r, slot).last = slot /\ Advanced(s, r, slot).log = s.log
<1> DEFINE p == Points[r]
           m == Min({slot - s.last, p})
           a == Advanced(s, r, slot)
<1>0. p \in Nat \ {0} /\ MadeOf(s, r) /\ s.last \in Nat
  BY PointsType DEF Ring, MadeOf
<1>1. CASE slot = s.last
  BY <1>1, <1>0 DEF Advanced
<1>2. CASE slot > s.last
  <2>1. a = [pts |-> [i \in 0 .. p - 1 |-> IF i \in SkippedSlots(s, r, slot) THEN 0 ELSE s.pts[i]],
             last |-> slot, log |-> s.log]
    <3>1. DOMAIN s.pts = 0 .. p - 1 /\ ~(slot <= s.last)
      BY <1>0, <1>2 DEF MadeOf
    <3>2. s = [pts |-> s.pts, last |-> s.last, log |-> s.log]
      BY <1>0 DEF MadeOf
    <3>3. a = [s EXCEPT !.pts = [i \in DOMAIN s.pts |-> IF i \in SkippedSlots(s, r, slot) THEN 0 ELSE s.pts[i]],
                        !.last = slot]
      BY <3>1 DEF Advanced
    <3> HIDE DEF a
    <3> QED
      BY <3>1, <3>2, <3>3
  <2>2. MadeOf(a, r) /\ a.last = slot /\ a.log = s.log
    <3>1. a.pts \in [0 .. p - 1 -> Nat]
      BY <1>0, <2>1 DEF MadeOf
    <3>2. \A k \in DOMAIN s.log : k \in 0 .. slot /\ s.log[k] \in Nat
      BY <1>0, <1>2 DEF MadeOf
    <3> HIDE DEF a
    <3>3. a = [pts |-> a.pts, last |-> a.last, log |-> a.log] /\ a.last = slot /\ a.log = s.log
      BY <2>1
    <3> QED
      BY <3>1, <3>2, <3>3 DEF MadeOf
  <2>3. m \in 1 .. p /\ m <= slot - s.last /\ m \in {slot - s.last, p}
    <3>1. slot - s.last \in Int /\ p \in Int /\ slot - s.last >= 1
      BY <1>0, <1>2
    <3>2. m \in {slot - s.last, p} /\ m <= slot - s.last /\ m <= p
      BY <3>1, MinOfTwo
    <3> HIDE DEF m
    <3> QED
      BY <1>0, <3>1, <3>2
  <2>4. SkippedSlots(s, r, slot) = { (s.last + j) % p : j \in 1 .. m }
    BY DEF SkippedSlots
  <2> HIDE DEF a, m
  <2>5. ASSUME NEW k \in slot - p + 1 .. slot PROVE a.pts[k % p] = LoggedIn(s, k)
    <3>k. k \in Int
      BY <1>0
    <3>0. k \in Int /\ k % p \in 0 .. p - 1
      BY <3>k, Position
    <3>1. CASE k > s.last
      <4>1. LoggedIn(s, k) = 0
        BY <1>0, <3>1, <3>0 DEF LoggedIn, MadeOf
      <4>2. k % p \in SkippedSlots(s, r, slot)
        <5>1. CASE m = slot - s.last
          <6>1. k - s.last \in 1 .. m /\ s.last + (k - s.last) = k
            BY <1>0, <3>0, <3>1, <5>1
          <6> QED
            BY <2>4, <6>1
        <5>2. CASE m = p
          <6>1. \E j \in 1 .. p : (s.last + j) % p = k % p
            <7>1. s.last \in Int
              BY <1>0
            <7> QED
              BY <1>0, <3>k, <7>1, ModOccurs
          <6> QED
            BY <2>4, <5>2, <6>1
        <5> QED
          BY <2>3, <5>1, <5>2
      <4> QED
        BY <2>1, <3>0, <4>1, <4>2
    <3>2. CASE k <= s.last
      <4>1. k \in s.last - p + 1 .. s.last
        BY <1>0, <1>2, <3>0, <3>2
      <4>2. k % p \notin SkippedSlots(s, r, slot)
        <5> SUFFICES ASSUME NEW j \in 1 .. m, (s.last + j) % p = k % p PROVE FALSE
          BY <2>4
        <5>1. s.last + j \in Int /\ k <= s.last + j /\ s.last + j < k + p /\ k # s.last + j
          BY <1>0, <2>3, <3>0, <3>2
        <5> QED
          BY <1>0, <3>0, <5>1, ModUnique
      <4>3. a.pts[k % p] = s.pts[k % p]
        BY <2>1, <3>0, <4>2
      <4> QED
        BY <4>1, <4>3 DEF Ring
    <3> QED
      BY <1>0, <3>0, <3>1, <3>2
  <2> QED
    BY <2>2, <2>5 DEF Ring, LoggedIn, a
<1> QED
  BY <1>0, <1>1, <1>2

(* What a write books, and where.                                          *)
LEMMA AddIsRing ==
  ASSUME NEW r \in DOMAIN Interval, NEW s, Ring(s, r), NEW slot \in Nat, NEW n \in Nat
  PROVE  /\ Ring(SeriesAdd(s, r, slot, n), r)
         /\ SeriesAdd(s, r, slot, n).last = IF slot < s.last THEN s.last ELSE slot
         /\ SeriesAdd(s, r, slot, n).log =
              IF slot < s.last THEN s.log
              ELSE With(s.log, slot, Min({LoggedIn(s, slot) + n, MaxCount[r]}))
<1> DEFINE p == Points[r]
           a == Advanced(s, r, slot)
           b == SeriesAdd(s, r, slot, n)
           x == Min({LoggedIn(s, slot) + n, MaxCount[r]})
<1>0. p \in Nat \ {0} /\ MadeOf(s, r) /\ s.last \in Nat /\ MaxCount[r] \in Nat
  BY PointsType DEF Ring, MadeOf
<1>1. CASE slot < s.last
  BY <1>1 DEF SeriesAdd
<1>2. CASE slot >= s.last
  <2>1. Ring(a, r) /\ a.last = slot /\ a.log = s.log
    BY <1>2, AdvancedIsRing
  <2>2. slot % p \in 0 .. p - 1 /\ slot \in slot - p + 1 .. slot
    <3>1. slot \in Int
      OBVIOUS
    <3> QED
      BY <1>0, <3>1, Position
  <2>3. LoggedIn(a, slot) = LoggedIn(s, slot) /\ LoggedIn(s, slot) \in Nat
    BY <1>0, <2>1 DEF LoggedIn, MadeOf
  <2>4. a.pts[slot % p] = LoggedIn(s, slot)
    BY <2>1, <2>2, <2>3 DEF Ring
  <2>5. MadeOf(a, r)
    BY <2>1 DEF Ring
  <2> HIDE DEF a, x
  <2>6. b = [a EXCEPT !.pts[slot % p] = Min({a.pts[slot % p] + n, MaxCount[r]}),
                      !.log = With(a.log, slot, x)]
    BY <1>0, <1>2 DEF SeriesAdd, a, x
  <2> HIDE DEF b
  <2>7. b = [pts |-> [a.pts EXCEPT ![slot % p] = x], last |-> slot, log |-> With(s.log, slot, x)]
    BY <2>1, <2>4, <2>5, <2>6 DEF MadeOf, x
  <2>8. x \in Nat
    <3>1. LoggedIn(s, slot) + n \in Int /\ MaxCount[r] \in Int
      BY <1>0, <2>3
    <3>2. x \in {LoggedIn(s, slot) + n, MaxCount[r]}
      BY <3>1, MinOfTwo DEF x
    <3> QED
      BY <1>0, <2>3, <3>2
  <2>9. MadeOf(b, r)
    <3>1. b.pts \in [0 .. p - 1 -> Nat]
      BY <2>5, <2>7, <2>8 DEF MadeOf
    <3>2. \A k \in DOMAIN With(s.log, slot, x) :
            k \in 0 .. slot /\ With(s.log, slot, x)[k] \in Nat
      BY <1>0, <1>2, <2>8 DEF MadeOf, With
    <3>3. b = [pts |-> b.pts, last |-> b.last, log |-> b.log] /\ b.last = slot
          /\ b.log = With(s.log, slot, x)
      BY <2>7
    <3> QED
      BY <3>1, <3>2, <3>3 DEF MadeOf
  <2>10. ASSUME NEW k \in slot - p + 1 .. slot PROVE b.pts[k % p] = LoggedIn(b, k)
    <3>k. k \in Int
      BY <1>0
    <3>0. k \in Int /\ k % p \in 0 .. p - 1
      BY <3>k, Position
    <3>1. CASE k = slot
      <4>1. b.pts[k % p] = x
        BY <2>2, <2>5, <2>7, <3>1 DEF MadeOf
      <4>2. LoggedIn(b, k) = x
        BY <2>7, <3>1 DEF LoggedIn, With
      <4> QED
        BY <4>1, <4>2
    <3>2. CASE k # slot
      <4>1. k % p # slot % p
        BY <1>0, <3>0, <3>2, ModUnique
      <4>2. b.pts[k % p] = a.pts[k % p]
        BY <2>2, <2>5, <2>7, <3>0, <4>1 DEF MadeOf
      <4>3. LoggedIn(b, k) = LoggedIn(a, k)
        BY <2>1, <2>7, <3>2 DEF LoggedIn, With
      <4>4. a.pts[k % p] = LoggedIn(a, k)
        BY <2>1 DEF Ring
      <4> QED
        BY <4>2, <4>3, <4>4
    <3> QED
      BY <3>1, <3>2
  <2>11. b.last = slot /\ b.log = With(s.log, slot, x)
    BY <2>7
  <2> QED
    BY <1>0, <1>2, <2>9, <2>10, <2>11 DEF Ring, b, x
<1> QED
  BY <1>0, <1>1, <1>2

(* What a reader is shown.                                                 *)
LEMMA RingIsTrue ==
  ASSUME NEW r \in DOMAIN Interval, NEW s, Ring(s, r)
  PROVE  TrueHistory(s, r) /\ SeriesType(s, r)
<1> DEFINE p == Points[r]
           slots == { k \in s.last - p + 1 .. s.last : k >= 0 }
           shown == PointsSince(s, r, p)
<1>0. p \in Nat \ {0} /\ MadeOf(s, r) /\ s.last \in Nat
  BY PointsType DEF Ring, MadeOf
<1>1. shown = [k \in slots |-> s.pts[k % p]]
  <2>1. p \in Int /\ p <= p
    BY <1>0
  <2>2. Min({p, Points[r]}) = p
    BY <2>1, MinOfTwo
  <2> QED
    BY <2>2 DEF PointsSince
<1>2. \A k \in slots : s.pts[k % p] = LoggedIn(s, k)
  BY DEF Ring
<1> HIDE DEF shown
<1>3. shown = [k \in DOMAIN shown |-> LoggedIn(s, k)] /\ DOMAIN shown = slots
  BY <1>1, <1>2
<1>4. Total(s.pts) = Total(shown)
  <2>1. \A k \in Int : k % p \in 0 .. p - 1
    BY Position
  <2>2. DOMAIN s.pts = 0 .. p - 1 /\ \A i \in 0 .. p - 1 : s.pts[i] \in Nat
    BY <1>0 DEF MadeOf
  <2>3. Summable(s.pts)
    <3>1. 0 \in Int /\ p - 1 \in Int
      BY <1>0
    <3>2. IsFiniteSet(0 .. p - 1)
      BY <3>1, FS_Interval
    <3> QED
      BY <2>2, <3>2 DEF Summable
  <2>4. Summable(shown)
    <3>1. s.last - p + 1 \in Int /\ s.last \in Int
      BY <1>0
    <3>2. IsFiniteSet(s.last - p + 1 .. s.last)
      BY <3>1, FS_Interval
    <3>3. IsFiniteSet(slots)
      BY <3>2, FS_Subset
    <3>4. \A k \in slots : shown[k] \in Nat
      BY <1>1, <2>1, <2>2
    <3> QED
      BY <1>3, <3>3, <3>4 DEF Summable
  <2> DEFINE b == [k \in slots |-> k % p]
  <2>5. b \in [DOMAIN shown -> DOMAIN s.pts]
    BY <1>3, <2>1, <2>2
  <2>6. \A x, y \in slots : b[x] = b[y] => x = y
    <3> SUFFICES ASSUME NEW x \in slots, NEW y \in slots, x % p = y % p PROVE x = y
      OBVIOUS
    <3>1. x < y + p /\ y < x + p /\ x \in Int /\ y \in Int
      BY <1>0
    <3>2. CASE x <= y
      BY <1>0, <3>1, <3>2, ModUnique
    <3>3. CASE y <= x
      BY <1>0, <3>1, <3>3, ModUnique
    <3> QED
      BY <3>1, <3>2, <3>3
  <2>7. \A x \in slots : shown[x] = s.pts[b[x]]
    BY <1>1
  <2>8. ASSUME NEW i \in 0 .. p - 1, \A x \in slots : b[x] # i PROVE s.pts[i] = 0
    <3>1. PICK j \in 1 .. p : ((s.last - p) + j) % p = i % p
      <4>1. s.last - p \in Int /\ i \in Int
        BY <1>0
      <4> QED
        BY <1>0, <4>1, ModOccurs
    <3> DEFINE k == (s.last - p) + j
    <3>2. k \in s.last - p + 1 .. s.last
      BY <1>0
    <3>3. i % p = i
      <4>1. i = p * 0 + i
        BY <1>0
      <4>2. (p * 0 + i) % p = i
        BY <1>0, ModOf
      <4> QED
        BY <4>1, <4>2
    <3>4. k % p = i
      BY <3>1, <3>3
    <3> HIDE DEF k
    <3>5. k \notin slots
      BY <2>8, <3>4
    <3>6. k < 0
      BY <1>0, <3>2, <3>5
    <3>7. LoggedIn(s, k) = 0
      BY <1>0, <3>6 DEF LoggedIn, MadeOf
    <3> QED
      BY <3>2, <3>4, <3>7 DEF Ring
  <2> HIDE DEF b, slots
  <2>9. Sum(shown, DOMAIN shown) = Sum(s.pts, DOMAIN s.pts)
    <3>1. \A x, y \in DOMAIN shown : b[x] = b[y] => x = y
      BY <1>3, <2>6
    <3>2. \A x \in DOMAIN shown : shown[x] = s.pts[b[x]]
      BY <1>3, <2>7
    <3>3. \A i \in DOMAIN s.pts : (\A x \in DOMAIN shown : b[x] # i) => s.pts[i] = 0
      BY <1>3, <2>2, <2>8
    <3> QED
      BY <2>3, <2>4, <2>5, <3>1, <3>2, <3>3, SumMoved
  <2> QED
    BY <2>9, TotalOf
<1>5. SeriesTotal(s) = Total([k \in DOMAIN shown |-> LoggedIn(s, k)])
  BY <1>3, <1>4 DEF SeriesTotal
<1>6. \A k \in DOMAIN shown : shown[k] = LoggedIn(s, k)
  BY <1>1, <1>2
<1>7. SeriesType(s, r)
  BY <1>0 DEF SeriesType, MadeOf
<1> QED
  BY <1>5, <1>6, <1>7 DEF TrueHistory, shown

-----------------------------------------------------------------------------
(* The reader: what consuming lines one after the other yields.            *)
Fresh == [names |-> reader.names, nets |-> reader.nets, hits |-> <<>>]

ConsumeTable(lines, it, n) ==
    it = [i \in 0 .. n |-> IF i = 0 THEN Fresh ELSE Consume(it[i - 1], lines[i])]

LEMMA ConsumedTable ==
  ASSUME NEW lines, Len(lines) \in Nat
  PROVE  ConsumeTable(lines, ConsumedUpTo(lines), Len(lines))
<1> DEFINE S == {n \in Nat : \E it : ConsumeTable(lines, it, n)}
<1>1. 0 \in S
  <2>1. ConsumeTable(lines, [i \in 0 .. 0 |-> Fresh], 0)
    BY DEF ConsumeTable
  <2> QED
    BY <2>1
<1>2. ASSUME NEW n \in Nat, n \in S PROVE n + 1 \in S
  <2>1. PICK it : ConsumeTable(lines, it, n)
    BY <1>2
  <2> DEFINE nx == [i \in 0 .. n + 1 |-> IF i = 0 THEN Fresh ELSE Consume(it[i - 1], lines[i])]
  <2>2. \A i \in 0 .. n : nx[i] = it[i]
    BY <2>1 DEF ConsumeTable
  <2>3. \A i \in 0 .. n + 1 : i # 0 => i - 1 \in 0 .. n
    OBVIOUS
  <2>4. nx = [i \in 0 .. n + 1 |-> IF i = 0 THEN Fresh ELSE Consume(nx[i - 1], lines[i])]
    <3> DEFINE ny == [i \in 0 .. n + 1 |-> IF i = 0 THEN Fresh ELSE Consume(nx[i - 1], lines[i])]
    <3>1. \A i \in 0 .. n + 1 : nx[i] = IF i = 0 THEN Fresh ELSE Consume(it[i - 1], lines[i])
      OBVIOUS
    <3>2. \A i \in 0 .. n + 1 : ny[i] = IF i = 0 THEN Fresh ELSE Consume(nx[i - 1], lines[i])
      OBVIOUS
    <3>3. nx = [i \in 0 .. n + 1 |-> nx[i]] /\ ny = [i \in 0 .. n + 1 |-> ny[i]]
      OBVIOUS
    <3> HIDE DEF nx, ny
    <3>4. \A i \in 0 .. n + 1 : nx[i] = ny[i]
      BY <2>2, <2>3, <3>1, <3>2
    <3>5. nx = ny
      BY <3>3, <3>4
    <3> QED
      BY <3>5 DEF ny
  <2>5. ConsumeTable(lines, nx, n + 1)
    BY <2>4 DEF ConsumeTable
  <2> QED
    BY <2>5
<1>3. Nat \subseteq S
  <2> HIDE DEF S
  <2> QED
    BY <1>1, <1>2, InductiveSet
<1>4. \E it : ConsumeTable(lines, it, Len(lines))
  BY <1>3
<1> QED
  BY <1>4 DEF ConsumedUpTo, ConsumeTable, Fresh

LEMMA ConsumedStep ==
  ASSUME NEW lines, Len(lines) \in Nat
  PROVE  /\ ConsumedUpTo(lines)[0] = Fresh
         /\ \A n \in 0 .. Len(lines) - 1 :
              ConsumedUpTo(lines)[n + 1] = Consume(ConsumedUpTo(lines)[n], lines[n + 1])
<1> DEFINE it == ConsumedUpTo(lines)
<1>1. ConsumeTable(lines, it, Len(lines))
  BY ConsumedTable
<1> HIDE DEF it
<1>2. \A i \in 0 .. Len(lines) : it[i] = IF i = 0 THEN Fresh ELSE Consume(it[i - 1], lines[i])
  BY <1>1, Zenon DEF ConsumeTable
<1>3. it[0] = Fresh
  BY <1>2
<1>4. ASSUME NEW n \in 0 .. Len(lines) - 1 PROVE it[n + 1] = Consume(it[n], lines[n + 1])
  <2>1. n + 1 \in 0 .. Len(lines) /\ n + 1 # 0 /\ (n + 1) - 1 = n
    OBVIOUS
  <2> QED
    BY <1>2, <2>1
<1> QED
  BY <1>3, <1>4 DEF it

-----------------------------------------------------------------------------
Known == { line \in Lines : line.kind # "long" }

ReaderType ==
    [made : BOOLEAN, offset : Nat, names : SUBSET Flows, nets : SUBSET Ips,
     times : [Flows -> 0 .. 2], cut : BOOLEAN, skipped : BOOLEAN, gen : Nat]

NamesFit(names) == IsFiniteSet(names) /\ Cardinality(names) <= MaxNames

ReaderOK == reader \in ReaderType /\ NamesFit(reader.names)

LogOK ==
    /\ log \in Seq(Lines) /\ seen \subseteq Lines /\ gen \in Nat
    /\ \/ tail = <<>>
       \/ tail = <<tail[1], tail[2]>> /\ tail[1] \in Known /\ tail[2] \in 1 .. 2

LEMMA KnownLines ==
  /\ Known \subseteq Lines
  /\ \A line \in Known : line.kind \in {"name", "flow"} /\ line.id \in Flows
                         /\ line = [kind |-> line.kind, id |-> line.id]
  /\ \A line \in Lines : line \notin Known => line.kind = "long"
  /\ \A line \in Lines : line.kind \in {"name", "flow", "long"}
  BY DEF Known, Lines

LEMMA PutFits ==
  ASSUME NEW names \in SUBSET Flows, NamesFit(names), NEW id \in Flows
  PROVE  Put(names, id) \in SUBSET Flows /\ NamesFit(Put(names, id))
<1> DEFINE rest == IF Cardinality(names) >= MaxNames THEN {} ELSE names
<1>1. IsFiniteSet(rest) /\ Cardinality(rest) \in Nat /\ Cardinality(rest) + 1 <= MaxNames
      /\ rest \in SUBSET Flows
  <2>1. MaxNames \in Nat \ {0} /\ Cardinality(names) \in Nat
    BY FS_CardinalityType, EveAssumption DEF NamesFit
  <2>2. IsFiniteSet({}) /\ Cardinality({}) = 0
    BY FS_EmptySet
  <2> QED
    BY <2>1, <2>2 DEF NamesFit
<1> HIDE DEF rest
<1>2. IsFiniteSet(rest \cup {id}) /\ Cardinality(rest \cup {id}) <= Cardinality(rest) + 1
  BY <1>1, FS_AddElement
<1>3. Cardinality(rest \cup {id}) \in Nat
  BY <1>2, FS_CardinalityType
<1>4. NamesFit(rest \cup {id})
  BY <1>1, <1>2, <1>3, EveAssumption DEF NamesFit
<1>5. Put(names, id) = rest \cup {id}
  BY DEF Put, rest
<1> QED
  BY <1>1, <1>4, <1>5

LEMMA FewerFit ==
  ASSUME NEW names \in SUBSET Flows, NamesFit(names), NEW id
  PROVE  names \ {id} \in SUBSET Flows /\ NamesFit(names \ {id})
<1>1. IsFiniteSet(names \ {id}) /\ Cardinality(names \ {id}) <= Cardinality(names)
  BY FS_Subset DEF NamesFit
<1>2. Cardinality(names \ {id}) \in Nat /\ Cardinality(names) \in Nat /\ MaxNames \in Nat
  BY <1>1, FS_CardinalityType, EveAssumption DEF NamesFit
<1> QED
  BY <1>1, <1>2 DEF NamesFit

HitType == [id : Flows, named : BOOLEAN]

AccOK(acc) ==
    /\ acc = [names |-> acc.names, nets |-> acc.nets, hits |-> acc.hits]
    /\ acc.names \in SUBSET Flows /\ NamesFit(acc.names)
    /\ acc.nets = reader.nets /\ acc.hits \in Seq(HitType)

(* The flow records of f among the first n lines; only those of the        *)
(* reader's networks count.                                                *)
RecordsOf(lines, n, f) ==
    { j \in 1 .. n : lines[j].kind = "flow" /\ lines[j].id = f /\ FlowIp[f] \in reader.nets }

HitsAt(hits, f) == { i \in 1 .. Len(hits) : hits[i].id = f }

HitCount(hits, f) == Cardinality(HitsAt(hits, f))

LEMMA FreshOK ==
  ASSUME ReaderOK
  PROVE  AccOK(Fresh)
<1>1. <<>> \in Seq(HitType)
  OBVIOUS
<1> QED
  BY <1>1 DEF AccOK, Fresh, ReaderOK, ReaderType

LEMMA ConsumeOK ==
  ASSUME NEW acc, AccOK(acc), NEW line \in Known
  PROVE  /\ AccOK(Consume(acc, line))
         /\ line.kind = "flow" /\ FlowIp[line.id] \in reader.nets =>
              \E h \in HitType : h.id = line.id /\ Consume(acc, line).hits = Append(acc.hits, h)
         /\ ~(line.kind = "flow" /\ FlowIp[line.id] \in reader.nets) =>
              Consume(acc, line).hits = acc.hits
<1> DEFINE c == Consume(acc, line)
<1>1. CASE line.kind = "name"
  <2>1. c = [acc EXCEPT !.names = Put(acc.names, line.id)]
    BY <1>1 DEF Consume
  <2>2. Put(acc.names, line.id) \in SUBSET Flows /\ NamesFit(Put(acc.names, line.id))
    BY KnownLines, PutFits DEF AccOK
  <2> DEFINE n == Put(acc.names, line.id)
  <2> HIDE DEF c, n
  <2>3. c = [names |-> n, nets |-> acc.nets, hits |-> acc.hits]
    BY <2>1 DEF AccOK, n
  <2>4. AccOK(c) /\ c.hits = acc.hits
    BY <2>2, <2>3 DEF AccOK, n
  <2> QED
    BY <1>1, <2>4 DEF c
<1>2. CASE line.kind = "flow"
  <2> DEFINE h == [id |-> line.id, named |-> line.id \in acc.names]
             hs == IF FlowIp[line.id] \in acc.nets THEN Append(acc.hits, h) ELSE acc.hits
  <2>1. c = [acc EXCEPT !.names = @ \ {line.id}, !.hits = hs]
    BY <1>2 DEF Consume
  <2>2. acc.names \ {line.id} \in SUBSET Flows /\ NamesFit(acc.names \ {line.id})
    BY FewerFit DEF AccOK
  <2>3. h \in HitType /\ h.id = line.id
    BY KnownLines DEF HitType
  <2>4. hs \in Seq(HitType)
    BY <2>3 DEF AccOK
  <2> HIDE DEF c, h
  <2>5. c = [names |-> acc.names \ {line.id}, nets |-> acc.nets, hits |-> hs]
    BY <2>1 DEF AccOK
  <2> HIDE DEF hs
  <2>6. AccOK(c) /\ c.hits = hs
    BY <2>2, <2>4, <2>5 DEF AccOK
  <2> QED
    BY <1>2, <2>3, <2>6 DEF c, hs, AccOK
<1> QED
  BY <1>1, <1>2, KnownLines

LEMMA AppendCount ==
  ASSUME NEW hits \in Seq(HitType), NEW h \in HitType, NEW f
  PROVE  /\ HitCount(hits, f) \in Nat
         /\ HitCount(Append(hits, h), f) = HitCount(hits, f) + IF h.id = f THEN 1 ELSE 0
<1> DEFINE N == Len(hits)
           A == HitsAt(hits, f)
           B == HitsAt(Append(hits, h), f)
<1>1. N \in Nat /\ Len(Append(hits, h)) = N + 1
      /\ \A i \in 1 .. N + 1 : Append(hits, h)[i] = IF i = N + 1 THEN h ELSE hits[i]
  OBVIOUS
<1>2. IsFiniteSet(A) /\ Cardinality(A) \in Nat
  <2>1. IsFiniteSet(1 .. N)
    BY <1>1, FS_Interval
  <2>2. A \subseteq 1 .. N
    BY DEF HitsAt
  <2> QED
    BY <2>1, <2>2, FS_Subset, FS_CardinalityType
<1>3. N + 1 \notin A
  BY <1>1 DEF HitsAt
<1>4. B = IF h.id = f THEN A \cup {N + 1} ELSE A
  BY <1>1 DEF HitsAt
<1>5. Cardinality(A \cup {N + 1}) = Cardinality(A) + 1
  BY <1>2, <1>3, FS_AddElement
<1> HIDE DEF A, B
<1>6. Cardinality(B) = Cardinality(A) + IF h.id = f THEN 1 ELSE 0
  BY <1>2, <1>4, <1>5
<1> QED
  BY <1>2, <1>6 DEF A, B, HitCount

(* Consuming known lines reports each flow record of a local device once.  *)
LEMMA ConsumedOK ==
  ASSUME ReaderOK, NEW lines \in Seq(Known)
  PROVE  \A n \in 0 .. Len(lines) :
           /\ AccOK(ConsumedUpTo(lines)[n])
           /\ \A f \in Flows :
                HitCount(ConsumedUpTo(lines)[n].hits, f) = Cardinality(RecordsOf(lines, n, f))
<1> DEFINE it == ConsumedUpTo(lines)
           Good(n) == AccOK(it[n]) /\ \A f \in Flows : HitCount(it[n].hits, f) = Cardinality(RecordsOf(lines, n, f))
           S == {n \in Nat : n <= Len(lines) => Good(n)}
<1>0. Len(lines) \in Nat /\ \A n \in 1 .. Len(lines) : lines[n] \in Known
  OBVIOUS
<1>1. 0 \in S
  <2>1. it[0] = Fresh /\ AccOK(Fresh)
    BY <1>0, ConsumedStep, FreshOK
  <2>2. Cardinality({}) = 0
    BY FS_EmptySet
  <2>3. ASSUME NEW f \in Flows PROVE RecordsOf(lines, 0, f) = {} /\ HitsAt(Fresh.hits, f) = {}
    BY DEF RecordsOf, HitsAt, Fresh
  <2>4. Good(0)
    BY <2>1, <2>2, <2>3 DEF HitCount
  <2> QED
    BY <2>4
<1>2. ASSUME NEW n \in Nat, n \in S PROVE n + 1 \in S
  <2> SUFFICES ASSUME n + 1 <= Len(lines) PROVE Good(n + 1)
    OBVIOUS
  <2>1. Good(n)
    BY <1>0, <1>2
  <2> DEFINE line == lines[n + 1]
  <2>2. line \in Known /\ n \in 0 .. Len(lines) - 1
    BY <1>0
  <2>3. it[n + 1] = Consume(it[n], line)
    BY <1>0, <2>2, ConsumedStep
  <2> HIDE DEF it
  <2>4. AccOK(it[n + 1])
    BY <2>1, <2>2, <2>3, ConsumeOK
  <2>h. line.kind = "flow" /\ FlowIp[line.id] \in reader.nets =>
          \E h \in HitType : h.id = line.id /\ it[n + 1].hits = Append(it[n].hits, h)
    <3> HIDE DEF line
    <3> DEFINE acc == it[n]
    <3>1. AccOK(acc) /\ line \in Known /\ it[n + 1] = Consume(acc, line)
      BY <2>1, <2>2, <2>3
    <3> HIDE DEF acc
    <3>2. line.kind = "flow" /\ FlowIp[line.id] \in reader.nets =>
            \E h \in HitType : h.id = line.id /\ Consume(acc, line).hits = Append(acc.hits, h)
      BY <3>1, ConsumeOK, Zenon
    <3> QED
      BY <3>1, <3>2 DEF acc
  <2>5. ASSUME NEW f \in Flows
        PROVE  HitCount(it[n + 1].hits, f) = Cardinality(RecordsOf(lines, n + 1, f))
    <3> DEFINE A == RecordsOf(lines, n, f)
               B == RecordsOf(lines, n + 1, f)
    <3>1. IsFiniteSet(A) /\ Cardinality(A) \in Nat
      <4>1. IsFiniteSet(1 .. n)
        BY FS_Interval
      <4>2. A \subseteq 1 .. n
        BY DEF RecordsOf
      <4> QED
        BY <4>1, <4>2, FS_Subset, FS_CardinalityType
    <3>2. n + 1 \notin A
      BY DEF RecordsOf
    <3>3. HitCount(it[n].hits, f) = Cardinality(A) /\ it[n].hits \in Seq(HitType)
      BY <2>1 DEF AccOK
    <3>4. CASE line.kind = "flow" /\ FlowIp[line.id] \in reader.nets /\ line.id = f
      <4>1. B = A \cup {n + 1}
        BY <3>4 DEF RecordsOf
      <4>2. PICK h \in HitType : h.id = line.id /\ it[n + 1].hits = Append(it[n].hits, h)
        BY <2>h, <3>4
      <4>3. HitCount(it[n + 1].hits, f) = HitCount(it[n].hits, f) + 1
        BY <3>3, <3>4, <4>2, AppendCount
      <4>4. Cardinality(A \cup {n + 1}) = Cardinality(A) + 1
        BY <3>1, <3>2, FS_AddElement
      <4> HIDE DEF A, B
      <4>5. HitCount(it[n + 1].hits, f) = Cardinality(B)
        BY <3>3, <4>1, <4>3, <4>4
      <4> QED
        BY <4>5 DEF B
    <3>5. CASE ~(line.kind = "flow" /\ FlowIp[line.id] \in reader.nets /\ line.id = f)
      <4>1. B = A
        BY <3>5 DEF RecordsOf
      <4>2. CASE line.kind = "flow" /\ FlowIp[line.id] \in reader.nets
        <5>1. PICK h \in HitType : h.id = line.id /\ it[n + 1].hits = Append(it[n].hits, h)
          BY <2>h, <4>2
        <5>2. h.id # f
          BY <3>5, <4>2, <5>1
        <5>3. HitCount(it[n + 1].hits, f) = HitCount(it[n].hits, f)
          BY <3>3, <5>1, <5>2, AppendCount
        <5> QED
          BY <3>3, <4>1, <5>3
      <4>3. CASE ~(line.kind = "flow" /\ FlowIp[line.id] \in reader.nets)
        <5>1. it[n + 1].hits = it[n].hits
          BY <2>1, <2>2, <2>3, <4>3, ConsumeOK
        <5> QED
          BY <3>3, <4>1, <5>1
      <4> QED
        BY <4>2, <4>3
    <3> QED
      BY <3>4, <3>5
  <2> QED
    BY <2>4, <2>5
<1>3. Nat \subseteq S
  <2> HIDE DEF S
  <2> QED
    BY <1>1, <1>2, InductiveSet
<1> QED
  BY <1>0, <1>3

-----------------------------------------------------------------------------
(* One reading of the log.                                                 *)
LEMMA LeastExists ==
  ASSUME NEW S, S \subseteq Nat, S # {}
  PROVE  Min(S) \in S /\ \A n \in S : Min(S) <= n
<1>1. PICK m \in S : \A n \in S : <<n, m>> \notin Less
  BY LessIsWellFounded, WFMin
<1>2. m \in Nat /\ \A n \in S : n \in Nat /\ ~(n < m)
  BY <1>1 DEF Less
<1>3. \A n \in S : m <= n
  BY <1>2
<1>4. \E x \in S : \A y \in S : x <= y
  BY <1>3
<1> QED
  BY <1>4 DEF Min

LEMMA ReadStart ==
  ASSUME LogOK, ReaderOK
  PROVE  /\ TailUnits \in 0 .. 2 /\ (TailUnits = 0 <=> tail = <<>>)
         /\ Len(log) \in Nat /\ Size = 3 * Len(log) + TailUnits
         /\ TurnedBack \in Nat /\ StartAt \in Nat /\ FirstLine \in Nat \ {0}
         /\ 3 * (FirstLine - 1) >= StartAt /\ 3 * (FirstLine - 1) <= StartAt + 2
<1>1. TailUnits \in 0 .. 2 /\ (TailUnits = 0 <=> tail = <<>>)
  BY DEF TailUnits, LogOK
<1>2. Len(log) \in Nat /\ reader.offset \in Nat /\ MaxRead \in Nat
  BY EveAssumption DEF LogOK, ReaderOK, ReaderType
<1>3. Size = 3 * Len(log) + TailUnits /\ Size \in Nat
  BY <1>1, <1>2 DEF Size, LineUnits
<1>4. TurnedBack \in Nat
  BY <1>2 DEF TurnedBack
<1>5. StartAt \in Nat
  BY <1>2, <1>3, <1>4 DEF StartAt
<1>6. StartAt + 2 \in Int /\ 3 \in Nat \ {0}
  BY <1>5
<1>7. /\ (StartAt + 2) \div 3 \in Int
      /\ 3 * ((StartAt + 2) \div 3) <= StartAt + 2 /\ StartAt + 2 < 3 * ((StartAt + 2) \div 3) + 3
  BY <1>6, DivBounds
<1>8. FirstLine = ((StartAt + 2) \div 3) + 1
  <2>1. StartAt + 3 - 1 = StartAt + 2
    BY <1>5
  <2> QED
    BY <2>1 DEF FirstLine, LineUnits
<1> QED
  BY <1>1, <1>2, <1>3, <1>4, <1>5, <1>7, <1>8

LEMMA LongLines ==
  ASSUME LogOK, ReaderOK
  PROVE  /\ LongLine \subseteq 1 .. Len(log)
         /\ LongLine # {} => Min(LongLine) \in LongLine /\ \A n \in LongLine : Min(LongLine) <= n
<1>1. LongLine \subseteq 1 .. Len(log)
  BY ReadStart DEF LongLine
<1>2. LongLine \subseteq Nat
  BY <1>1, ReadStart
<1>3. ASSUME LongLine # {} PROVE Min(LongLine) \in LongLine /\ \A n \in LongLine : Min(LongLine) <= n
  <2> DEFINE S == LongLine
  <2>1. S \subseteq Nat /\ S # {}
    BY <1>2, <1>3
  <2> HIDE DEF S
  <2>2. Min(S) \in S /\ \A n \in S : Min(S) <= n
    BY <2>1, LeastExists
  <2> QED
    BY <2>2 DEF S
<1> QED
  BY <1>1, <1>3

Present ==
    { log[i] : i \in 1 .. Len(log) } \cup (IF tail = <<>> THEN {} ELSE {tail[1]})

Readable == Known \cap Present

LEMMA LinesReadKnown ==
  ASSUME LogOK, ReaderOK
  PROVE  /\ LinesRead \in Seq(Readable) /\ LinesRead \in Seq(Known)
         /\ tail = <<>> /\ LongLine = {} =>
              /\ Len(LinesRead) = IF FirstLine <= Len(log) THEN Len(log) - FirstLine + 1 ELSE 0
              /\ \A j \in 1 .. Len(LinesRead) : LinesRead[j] = log[(FirstLine + j) - 1]
<1> DEFINE upTo == IF LongLine = {} THEN Len(log) ELSE Min(LongLine) - 1
           open == LongLine = {} /\ TailUnits = 2 /\ StartAt <= LineUnits * Len(log)
           body == SubSeq(log, FirstLine, upTo)
           rest == IF open THEN <<tail[1]>> ELSE <<>>
<1>1. upTo \in Int /\ upTo <= Len(log) /\ FirstLine \in Int /\ FirstLine >= 1 /\ Len(log) \in Nat
  BY ReadStart, LongLines
<1>2. \A i \in FirstLine .. upTo : log[i] \in Readable
  <2> SUFFICES ASSUME NEW i \in FirstLine .. upTo PROVE log[i] \in Readable
    OBVIOUS
  <2>1. i \in 1 .. Len(log) /\ i \in FirstLine .. Len(log)
    BY <1>1
  <2>2. i \notin LongLine
    BY LongLines, <1>1, <2>1
  <2>3. log[i] \in Lines
    BY <2>1 DEF LogOK
  <2> QED
    BY <2>1, <2>2, <2>3, KnownLines DEF LongLine, Readable, Present
<1> HIDE DEF upTo
<1>3. /\ body \in Seq(Readable)
      /\ Len(body) = IF FirstLine <= upTo THEN upTo - FirstLine + 1 ELSE 0
      /\ \A i \in 1 .. upTo - FirstLine + 1 : body[i] = log[FirstLine + i - 1]
  BY <1>1, <1>2, SubSeqProperties
<1>4. rest \in Seq(Readable)
  <2>1. CASE open
    <3>1. tail # <<>>
      BY <2>1, ReadStart
    <3>2. tail[1] \in Readable
      BY <3>1 DEF LogOK, Readable, Present
    <3> QED
      BY <2>1, <3>2
  <2>2. CASE ~open
    BY <2>2
  <2> QED
    BY <2>1, <2>2
<1>5. LinesRead = body \o rest
  BY DEF LinesRead, upTo
<1>6. tail = <<>> /\ LongLine = {} => rest = <<>> /\ upTo = Len(log)
  BY ReadStart DEF upTo
<1> HIDE DEF body, rest, open
<1>7. LinesRead \in Seq(Readable) /\ LinesRead \in Seq(Known)
  <2>1. LinesRead \in Seq(Readable)
    BY <1>3, <1>4, <1>5
  <2>2. Readable \subseteq Known
    BY DEF Readable
  <2> QED
    BY <2>1, <2>2
<1>8. ASSUME tail = <<>>, LongLine = {}
      PROVE  LinesRead = body /\ upTo = Len(log)
  BY <1>3, <1>5, <1>6, <1>8
<1>9. ASSUME tail = <<>>, LongLine = {}
      PROVE  /\ Len(LinesRead) = IF FirstLine <= Len(log) THEN Len(log) - FirstLine + 1 ELSE 0
             /\ \A j \in 1 .. Len(LinesRead) : LinesRead[j] = log[(FirstLine + j) - 1]
  <2>1. LinesRead = body /\ upTo = Len(log)
    BY <1>8, <1>9
  <2>2. Len(body) = IF FirstLine <= upTo THEN upTo - FirstLine + 1 ELSE 0
    BY <1>3
  <2>3. \A j \in 1 .. Len(body) : j \in 1 .. upTo - FirstLine + 1
    BY <1>1, <2>2
  <2>4. \A j \in 1 .. Len(body) : body[j] = log[(FirstLine + j) - 1]
    <3> SUFFICES ASSUME NEW j \in 1 .. Len(body) PROVE body[j] = log[(FirstLine + j) - 1]
      OBVIOUS
    <3>1. j \in 1 .. upTo - FirstLine + 1
      BY <2>3
    <3>2. body[j] = log[FirstLine + j - 1]
      BY <1>3, <3>1
    <3>3. FirstLine + j - 1 = (FirstLine + j) - 1
      BY <1>1, <3>1
    <3> QED
      BY <3>2, <3>3
  <2> QED
    BY <2>1, <2>2, <2>4
<1> QED
  BY <1>7, <1>9

LEMMA HitsOK ==
  ASSUME LogOK, ReaderOK
  PROVE  /\ AccOK(Consumed) /\ Hits \in Seq(HitType)
         /\ \A f \in Flows : HitTimes(f) \in Nat
         /\ \A f \in Flows :
              HitTimes(f) = IF Size = StartAt \/ LongLine # {} THEN 0
                            ELSE Cardinality(RecordsOf(LinesRead, Len(LinesRead), f))
<1>1. LinesRead \in Seq(Known) /\ Len(LinesRead) \in 0 .. Len(LinesRead)
  BY LinesReadKnown
<1>2. AccOK(Consumed)
      /\ \A f \in Flows : HitCount(Consumed.hits, f) = Cardinality(RecordsOf(LinesRead, Len(LinesRead), f))
  BY <1>1, ConsumedOK DEF Consumed
<1>3. Hits \in Seq(HitType)
  BY <1>2 DEF Hits, AccOK
<1>4. \A f \in Flows : HitTimes(f) = HitCount(Hits, f)
  BY DEF HitTimes, HitCount, HitsAt
<1>5. \A f \in Flows : HitCount(Hits, f) \in Nat
  <2> SUFFICES ASSUME NEW f \in Flows PROVE HitCount(Hits, f) \in Nat
    OBVIOUS
  <2>1. Len(Hits) \in Nat
    BY <1>3
  <2>2. IsFiniteSet(1 .. Len(Hits))
    BY <2>1, FS_Interval
  <2>3. HitsAt(Hits, f) \subseteq 1 .. Len(Hits)
    BY DEF HitsAt
  <2> QED
    BY <2>2, <2>3, FS_Subset, FS_CardinalityType DEF HitCount
<1>6. Cardinality({}) = 0 /\ \A f \in Flows : HitsAt(<<>>, f) = {}
  BY FS_EmptySet DEF HitsAt
<1>7. \A f \in Flows : HitCount(Hits, f) =
        IF Size = StartAt \/ LongLine # {} THEN 0
        ELSE Cardinality(RecordsOf(LinesRead, Len(LinesRead), f))
  BY <1>2, <1>6 DEF Hits, HitCount
<1> QED
  BY <1>2, <1>3, <1>4, <1>5, <1>7

LEMMA ReaderAfterOK ==
  ASSUME LogOK, ReaderOK
  PROVE  /\ ReaderAfterRead \in ReaderType /\ NamesFit(ReaderAfterRead.names)
         /\ ReaderAfterRead.gen = gen /\ ReaderAfterRead.made = reader.made
         /\ ReaderAfterRead.nets = reader.nets
         /\ ReaderAfterRead.offset = IF Size = StartAt THEN StartAt ELSE EndsAt
         /\ ReaderAfterRead.cut = (reader.cut \/ (Size # StartAt /\ tail # <<>>))
         /\ ReaderAfterRead.skipped = (reader.skipped \/ LongLine # {} \/ StartAt # TurnedBack
                         \/ (reader.gen # gen /\ reader.offset # 0 /\ Size >= reader.offset))
         /\ \A f \in Flows : ReaderAfterRead.times[f] = Min({reader.times[f] + HitTimes(f), 2})
<1> DEFINE read == IF Size = StartAt THEN [reader EXCEPT !.offset = StartAt]
                ELSE [reader EXCEPT !.offset = EndsAt,
                                    !.names = Consumed.names,
                                    !.cut = @ \/ tail # <<>>]
           times == [f \in Flows |-> Min({reader.times[f] + HitTimes(f), 2})]
           skip == reader.skipped \/ LongLine # {} \/ StartAt # TurnedBack
                         \/ (reader.gen # gen /\ reader.offset # 0 /\ Size >= reader.offset)
           after == [read EXCEPT !.times = times, !.skipped = skip, !.gen = gen]
           off == IF Size = StartAt THEN StartAt ELSE EndsAt
           nms == IF Size = StartAt THEN reader.names ELSE Consumed.names
           cut == reader.cut \/ (Size # StartAt /\ tail # <<>>)
<1>1. EndsAt \in Nat /\ off \in Nat
  <2>1. Size \in Nat /\ StartAt \in Nat
    BY ReadStart
  <2>2. CASE LongLine # {}
    <3>1. Min(LongLine) \in 1 .. Len(log) /\ Len(log) \in Nat
      BY <2>2, ReadStart, LongLines
    <3>2. EndsAt = 3 * (Min(LongLine) - 1)
      BY <2>2 DEF EndsAt, LineUnits
    <3> QED
      BY <2>1, <3>1, <3>2
  <2>3. CASE LongLine = {}
    BY <2>1, <2>3 DEF EndsAt
  <2> QED
    BY <2>2, <2>3
<1>2. nms \in SUBSET Flows /\ NamesFit(nms)
  BY HitsOK DEF AccOK, ReaderOK, ReaderType
<1>3. times \in [Flows -> 0 .. 2]
  <2> SUFFICES ASSUME NEW f \in Flows PROVE Min({reader.times[f] + HitTimes(f), 2}) \in 0 .. 2
    OBVIOUS
  <2>1. reader.times[f] + HitTimes(f) \in Nat
    BY HitsOK DEF ReaderOK, ReaderType
  <2>2. reader.times[f] + HitTimes(f) \in Int /\ 2 \in Int
    BY <2>1
  <2>3. Min({reader.times[f] + HitTimes(f), 2}) \in {reader.times[f] + HitTimes(f), 2}
        /\ Min({reader.times[f] + HitTimes(f), 2}) <= 2
    BY <2>2, MinOfTwo
  <2> QED
    BY <2>1, <2>3
<1>4. read = [made |-> reader.made, offset |-> off, names |-> nms, nets |-> reader.nets,
              times |-> reader.times, cut |-> cut, skipped |-> reader.skipped, gen |-> reader.gen]
  <2>1. reader = [made |-> reader.made, offset |-> reader.offset, names |-> reader.names,
              nets |-> reader.nets, times |-> reader.times, cut |-> reader.cut,
              skipped |-> reader.skipped, gen |-> reader.gen] /\ reader.cut \in BOOLEAN
    BY DEF ReaderOK, ReaderType
  <2>2. CASE Size = StartAt
    BY <2>1, <2>2
  <2>3. CASE Size # StartAt
    BY <2>1, <2>3
  <2> QED
    BY <2>2, <2>3
<1>5. ReaderAfterRead = after
  BY DEF ReaderAfterRead
<1>6. skip \in BOOLEAN /\ cut \in BOOLEAN /\ reader.made \in BOOLEAN
      /\ reader.nets \in SUBSET Ips /\ gen \in Nat
  BY DEF ReaderOK, ReaderType, LogOK
<1> HIDE DEF read, times, skip, off, nms, cut
<1>7. after = [made |-> reader.made, offset |-> off, names |-> nms, nets |-> reader.nets,
              times |-> times, cut |-> cut, skipped |-> skip, gen |-> gen]
  <2>1. DOMAIN read = {"made", "offset", "names", "nets", "times", "cut", "skipped", "gen"}
    BY <1>4
  <2>2. after = [f \in DOMAIN read |-> after[f]]
    OBVIOUS
  <2>3. /\ after.made = read.made /\ after.offset = read.offset /\ after.names = read.names
        /\ after.nets = read.nets /\ after.times = times /\ after.cut = read.cut
        /\ after.skipped = skip /\ after.gen = gen
    BY <2>1
  <2>4. /\ read.made = reader.made /\ read.offset = off /\ read.names = nms
        /\ read.nets = reader.nets /\ read.cut = cut
    BY <1>4
  <2> HIDE DEF after
  <2> QED
    BY <2>1, <2>2, <2>3, <2>4
<1>8. ReaderAfterRead = [made |-> reader.made, offset |-> off, names |-> nms, nets |-> reader.nets,
              times |-> times, cut |-> cut, skipped |-> skip, gen |-> gen]
  BY <1>5, <1>7
<1> HIDE DEF after
<1>9. ReaderAfterRead \in ReaderType /\ NamesFit(ReaderAfterRead.names)
  BY <1>1, <1>2, <1>3, <1>6, <1>8 DEF ReaderType
<1> QED
  BY <1>8, <1>9 DEF off, cut, skip, times

-----------------------------------------------------------------------------
FlowLine(f) == [kind |-> "flow", id |-> f]

(* Every line is written once.                                             *)
LogUnique ==
    /\ \A i \in 1 .. Len(log) : log[i] \in seen
    /\ \A i, j \in 1 .. Len(log) : log[i] = log[j] => i = j
    /\ tail # <<>> => tail[1] \in seen /\ \A i \in 1 .. Len(log) : log[i] # tail[1]

(* What was reported had been written, and before a rotation that the      *)
(* reader has not met it was written to the earlier file.                  *)
ReportedWasSeen ==
    /\ reader.gen <= gen
    /\ \A f \in Flows : reader.times[f] # 0 => FlowLine(f) \in seen
    /\ reader.gen # gen => \A f \in Flows : FlowLine(f) \in Present => reader.times[f] = 0

(* The reader stands behind line m and has reported what is before it.     *)
ReadTo(m) ==
    /\ reader.offset = 3 * m
    /\ \A i \in 1 .. Len(log) :
         log[i].kind = "flow" /\ FlowIp[log[i].id] \in reader.nets =>
           reader.times[log[i].id] = IF i <= m THEN 1 ELSE 0
    /\ tail # <<>> /\ tail[1].kind = "flow" => reader.times[tail[1].id] = 0

InStep ==
    reader.made /\ reader.gen = gen /\ ~reader.cut /\ ~reader.skipped =>
      \E m \in 0 .. Len(log) : ReadTo(m)

EveInv == LogOK /\ ReaderOK /\ LogUnique /\ ReportedWasSeen /\ InStep

LEMMA FlowLines ==
  /\ \A line \in Lines : line.kind = "flow" => line.id \in Flows /\ line = FlowLine(line.id)
  /\ \A f \in Flows : FlowLine(f) \in Known /\ FlowLine(f).kind = "flow" /\ FlowLine(f).id = f
  BY DEF Lines, FlowLine, Known

LEMMA ReportsInvariant ==
  ASSUME EveInv
  PROVE  FlowsReportedOnce
<1> SUFFICES ASSUME reader.made, reader.gen = gen, ~reader.cut, ~reader.skipped,
                    NEW i \in 1 .. Len(log), log[i].kind = "flow", FlowIp[log[i].id] \in reader.nets
             PROVE  reader.times[log[i].id] = IF LineUnits * i <= reader.offset THEN 1 ELSE 0
  BY DEF FlowsReportedOnce
<1>1. PICK m \in 0 .. Len(log) : ReadTo(m)
  BY DEF EveInv, InStep
<1>2. Len(log) \in Nat
  BY DEF EveInv, LogOK
<1>3. LineUnits * i <= reader.offset <=> i <= m
  BY <1>1, <1>2 DEF ReadTo, LineUnits
<1> QED
  BY <1>1, <1>3 DEF ReadTo

LEMMA EmptyReader ==
  ASSUME NEW made \in BOOLEAN, NEW networks \in SUBSET Ips, NEW g \in Nat, NEW r,
         r = [made |-> made, offset |-> 0, names |-> {}, nets |-> networks,
              times |-> [f \in Flows |-> 0], cut |-> FALSE, skipped |-> FALSE, gen |-> g]
  PROVE  r \in ReaderType /\ NamesFit(r.names)
<1>1. IsFiniteSet({}) /\ Cardinality({}) = 0
  BY FS_EmptySet
<1>2. NamesFit({})
  BY <1>1, EveAssumption DEF NamesFit
<1>3. [f \in Flows |-> 0] \in [Flows -> 0 .. 2]
  OBVIOUS
<1> QED
  BY <1>2, <1>3 DEF ReaderType

LEMMA NoReaderIs ==
  NoReader = [made |-> FALSE, offset |-> 0, names |-> {}, nets |-> {},
              times |-> [f \in Flows |-> 0], cut |-> FALSE, skipped |-> FALSE, gen |-> 0]
<1> DEFINE n == NewEveReader({})
<1>1. n = [made |-> TRUE, offset |-> 0, names |-> {}, nets |-> {},
           times |-> [f \in Flows |-> 0], cut |-> FALSE, skipped |-> FALSE, gen |-> gen]
  BY DEF NewEveReader
<1>2. NoReader = [n EXCEPT !.made = FALSE, !.gen = 0]
  BY DEF NoReader
<1> DEFINE k == [n EXCEPT !.made = FALSE, !.gen = 0]
           t == [f \in Flows |-> 0]
<1>3. DOMAIN n = {"made", "offset", "names", "nets", "times", "cut", "skipped", "gen"}
  BY <1>1
<1>4. k = [f \in DOMAIN n |-> k[f]]
  OBVIOUS
<1>5. n.times = t
  BY <1>1
<1> HIDE DEF t, n
<1>6. /\ k.made = FALSE /\ k.offset = 0 /\ k.names = {} /\ k.nets = {} /\ k.times = t
      /\ k.cut = FALSE /\ k.skipped = FALSE /\ k.gen = 0
  BY <1>1, <1>3, <1>5
<1> HIDE DEF k
<1>7. k = [made |-> FALSE, offset |-> 0, names |-> {}, nets |-> {},
           times |-> t, cut |-> FALSE, skipped |-> FALSE, gen |-> 0]
  BY <1>3, <1>4, <1>6
<1> QED
  BY <1>2, <1>7 DEF k, t

LEMMA EveBegins ==
  ASSUME EveInit
  PROVE  EveInv
<1>1. ReaderOK
  BY NoReaderIs, EmptyReader DEF EveInit, ReaderOK
<1>2. LogOK /\ LogUnique
  BY DEF EveInit, LogOK, LogUnique
<1>3. reader.gen = 0 /\ gen = 0 /\ reader.made = FALSE /\ \A f \in Flows : reader.times[f] = 0
  BY NoReaderIs DEF EveInit
<1> QED
  BY <1>1, <1>2, <1>3 DEF EveInv, ReportedWasSeen, InStep

(* A new reader, or none: nothing reported.                                *)
LEMMA ReaderReplaced ==
  ASSUME EveInv, nets \in SUBSET Ips, reader' = NewEveReader(nets) \/ reader' = NoReader,
         UNCHANGED logVars
  PROVE  EveInv'
<1>0. log' = log /\ tail' = tail /\ seen' = seen /\ gen' = gen
  BY DEF logVars
<1>l. LogOK' /\ LogUnique'
  BY <1>0 DEF EveInv, LogOK, LogUnique
<1>g. gen \in Nat /\ Len(log) \in Nat
  BY DEF EveInv, LogOK
<1>1. CASE reader' = NewEveReader(nets)
  <2>1. reader' = [made |-> TRUE, offset |-> 0, names |-> {}, nets |-> nets,
              times |-> [f \in Flows |-> 0], cut |-> FALSE, skipped |-> FALSE, gen |-> gen]
    BY <1>1 DEF NewEveReader
  <2>2. ReaderOK'
    BY <1>g, <2>1, EmptyReader DEF ReaderOK
  <2>3. reader'.gen = gen /\ reader'.offset = 0 /\ \A f \in Flows : reader'.times[f] = 0
    BY <2>1
  <2>4. ReportedWasSeen'
    BY <1>0, <1>g, <2>3 DEF ReportedWasSeen
  <2>5. \A i \in 1 .. Len(log) : log[i].kind = "flow" => reader'.times[log[i].id] = 0
    BY <2>3, FlowLines DEF EveInv, LogOK
  <2>6. tail # <<>> /\ tail[1].kind = "flow" => reader'.times[tail[1].id] = 0
    BY <2>3, KnownLines DEF EveInv, LogOK
  <2>7. ReadTo(0)'
    BY <1>0, <1>g, <2>3, <2>5, <2>6 DEF ReadTo
  <2>8. 0 \in 0 .. Len(log)'
    BY <1>0, <1>g
  <2> QED
    BY <1>l, <2>2, <2>4, <2>7, <2>8 DEF EveInv, InStep
<1>2. CASE reader' = NoReader
  <2>1. ReaderOK'
    BY <1>2, NoReaderIs, EmptyReader DEF ReaderOK
  <2>2. reader'.gen = 0 /\ reader'.made = FALSE /\ \A f \in Flows : reader'.times[f] = 0
    BY <1>2, NoReaderIs
  <2>3. ReportedWasSeen' /\ InStep'
    BY <1>0, <1>g, <2>2 DEF ReportedWasSeen, InStep
  <2> QED
    BY <1>l, <2>1, <2>3 DEF EveInv
<1> QED
  BY <1>1, <1>2

LEMMA NothingChanged ==
  ASSUME EveInv, UNCHANGED eveVars
  PROVE  EveInv'
<1>0. log' = log /\ tail' = tail /\ seen' = seen /\ gen' = gen /\ reader' = reader
  BY DEF eveVars
<1>1. LogOK' /\ ReaderOK' /\ LogUnique'
  BY <1>0 DEF EveInv, LogOK, ReaderOK, LogUnique
<1>2. ReportedWasSeen' /\ InStep'
  BY <1>0 DEF EveInv, ReportedWasSeen, InStep, ReadTo, Present
<1> QED
  BY <1>1, <1>2 DEF EveInv

-----------------------------------------------------------------------------
LEMMA LineAppended ==
  ASSUME NEW s \in Seq(Lines), NEW line \in Lines
  PROVE  /\ Append(s, line) \in Seq(Lines) /\ Len(s) \in Nat
         /\ Len(Append(s, line)) = Len(s) + 1
         /\ \A i \in 1 .. Len(s) : Append(s, line)[i] = s[i]
         /\ Append(s, line)[Len(s) + 1] = line
  OBVIOUS

(* The log grows by a line that is new, whose flow is not reported yet.    *)
LEMMA LogGrows ==
  ASSUME EveInv, NEW line \in Lines, log' = Append(log, line), tail' = <<>>,
         seen' \in SUBSET Lines, seen \cup {line} \subseteq seen', gen' = gen, reader' = reader,
         \A i \in 1 .. Len(log) : log[i] # line,
         \A f \in Flows : FlowLine(f) = line => reader.times[f] = 0
  PROVE  EveInv'
<1>0. /\ log' \in Seq(Lines) /\ Len(log) \in Nat /\ Len(log') = Len(log) + 1
      /\ \A i \in 1 .. Len(log) : log'[i] = log[i]
      /\ log'[Len(log) + 1] = line
      /\ log \in Seq(Lines) /\ gen \in Nat
  BY LineAppended DEF EveInv, LogOK
<1>1. \A i \in 1 .. Len(log') : i \in 1 .. Len(log) \/ i = Len(log) + 1
  BY <1>0
<1>2. LogOK' /\ ReaderOK'
  BY <1>0 DEF EveInv, LogOK, ReaderOK
<1>3. LogUnique'
  BY <1>0, <1>1 DEF EveInv, LogUnique
<1>4. Present' \subseteq Present \cup {line}
  BY <1>0, <1>1 DEF Present
<1>5. ReportedWasSeen'
  BY <1>4 DEF EveInv, ReportedWasSeen
<1>6. InStep'
  <2> SUFFICES ASSUME reader.made, reader.gen = gen, ~reader.cut, ~reader.skipped
               PROVE  \E m \in 0 .. Len(log') : ReadTo(m)'
    BY DEF InStep
  <2>1. PICK m \in 0 .. Len(log) : ReadTo(m)
    BY DEF EveInv, InStep
  <2>2. m \in 0 .. Len(log')
    BY <1>0
  <2>3. ASSUME NEW i \in 1 .. Len(log'), log'[i].kind = "flow", FlowIp[log'[i].id] \in reader.nets
        PROVE  reader.times[log'[i].id] = IF i <= m THEN 1 ELSE 0
    <3>1. CASE i \in 1 .. Len(log)
      BY <1>0, <2>1, <2>3, <3>1 DEF ReadTo
    <3>2. CASE i = Len(log) + 1
      <4>1. line.kind = "flow" /\ log'[i] = line
        BY <1>0, <2>3, <3>2
      <4>2. line.id \in Flows /\ FlowLine(line.id) = line
        BY <4>1, FlowLines
      <4>3. reader.times[line.id] = 0
        BY <4>2
      <4> QED
        BY <1>0, <3>2, <4>1, <4>3
    <3> QED
      BY <1>1, <3>1, <3>2
  <2>4. ReadTo(m)'
    BY <2>1, <2>3 DEF ReadTo
  <2> QED
    BY <2>2, <2>4
<1> QED
  BY <1>2, <1>3, <1>5, <1>6 DEF EveInv

LEMMA SuricataWrites ==
  ASSUME EveInv, NEW line \in Lines, WriteLine(line)
  PROVE  EveInv'
<1>0. tail = <<>> /\ line \notin seen /\ seen' = seen \cup {line} /\ gen' = gen /\ reader' = reader
  BY DEF WriteLine
<1>1. /\ \A i \in 1 .. Len(log) : log[i] # line
      /\ \A f \in Flows : FlowLine(f) = line => reader.times[f] = 0
      /\ seen' \in SUBSET Lines
  BY <1>0 DEF EveInv, LogUnique, ReportedWasSeen, LogOK
<1>2. CASE log' = Append(log, line) /\ tail' = tail
  BY <1>0, <1>1, <1>2, LogGrows
<1>3. ASSUME NEW units \in 1 .. LineUnits - 1, line.kind # "long", log' = log, tail' = <<line, units>>
      PROVE  EveInv'
  <2>1. tail' = <<tail'[1], tail'[2]>> /\ tail'[1] = line /\ tail'[2] = units /\ tail' # <<>>
        /\ line \in Known /\ units \in 1 .. 2
    BY <1>3 DEF Known, LineUnits
  <2>2. LogOK' /\ ReaderOK'
    BY <1>0, <1>1, <1>3, <2>1 DEF EveInv, LogOK, ReaderOK
  <2>3. LogUnique'
    BY <1>0, <1>1, <1>3, <2>1 DEF EveInv, LogUnique
  <2>4. Present' \subseteq Present \cup {line}
    BY <1>3, <2>1 DEF Present
  <2>5. ReportedWasSeen'
    BY <1>0, <1>1, <2>4 DEF EveInv, ReportedWasSeen
  <2>6. line.kind = "flow" => reader.times[line.id] = 0
    BY <1>1, FlowLines
  <2>7. \A m \in 0 .. Len(log) : ReadTo(m) => ReadTo(m)'
    BY <1>0, <1>3, <2>1, <2>6 DEF ReadTo
  <2>8. InStep'
    BY <1>0, <1>3, <2>7 DEF EveInv, InStep
  <2> QED
    BY <2>2, <2>3, <2>5, <2>8 DEF EveInv
<1> QED
  BY <1>2, <1>3 DEF WriteLine

LEMMA SuricataFinishes ==
  ASSUME EveInv, FinishLine
  PROVE  EveInv'
<1>0. tail # <<>> /\ seen' = seen /\ gen' = gen /\ reader' = reader
  BY DEF FinishLine
<1>1. tail = <<tail[1], tail[2]>> /\ tail[1] \in Known /\ tail[2] \in 1 .. 2 /\ tail[1] \in Lines
  BY <1>0, KnownLines DEF EveInv, LogOK
<1>2. CASE tail[2] = 1
  <2>1. tail' = <<tail[1], 2>> /\ log' = log
    BY <1>2 DEF FinishLine
  <2>2. tail' = <<tail'[1], tail'[2]>> /\ tail'[1] = tail[1] /\ tail'[2] = 2 /\ tail' # <<>>
    BY <2>1
  <2>3. LogOK' /\ ReaderOK'
    BY <1>0, <1>1, <2>1, <2>2 DEF EveInv, LogOK, ReaderOK
  <2>4. LogUnique'
    BY <1>0, <2>1, <2>2 DEF EveInv, LogUnique
  <2>5. Present' = Present
    BY <1>0, <2>1, <2>2 DEF Present
  <2>6. ReportedWasSeen'
    BY <1>0, <2>5 DEF EveInv, ReportedWasSeen
  <2>7. InStep'
    BY <1>0, <2>1, <2>2 DEF EveInv, InStep, ReadTo
  <2> QED
    BY <2>3, <2>4, <2>6, <2>7 DEF EveInv
<1>3. CASE tail[2] # 1
  <2>1. tail' = <<>> /\ log' = Append(log, tail[1])
    BY <1>3 DEF FinishLine
  <2> DEFINE line == tail[1]
  <2>2. /\ line \in Lines /\ seen \cup {line} \subseteq seen' /\ seen' \in SUBSET Lines
        /\ \A i \in 1 .. Len(log) : log[i] # line
    BY <1>0, <1>1 DEF EveInv, LogUnique, LogOK
  <2>3. ASSUME NEW f \in Flows, FlowLine(f) = line PROVE reader.times[f] = 0 \/ InStep'
    <3>1. CASE reader.gen # gen
      BY <1>0, <2>3, <3>1 DEF EveInv, ReportedWasSeen, Present
    <3>2. CASE reader.gen = gen
      <4>1. CASE ~(reader.made /\ ~reader.cut /\ ~reader.skipped)
        BY <1>0, <4>1 DEF InStep
      <4>2. CASE reader.made /\ ~reader.cut /\ ~reader.skipped
        <5>1. PICK m \in 0 .. Len(log) : ReadTo(m)
          BY <3>2, <4>2 DEF EveInv, InStep
        <5>2. line.kind = "flow" /\ line.id = f
          BY <2>3, FlowLines
        <5> QED
          BY <1>0, <5>1, <5>2 DEF ReadTo
      <4> QED
        BY <4>1, <4>2
    <3> QED
      BY <3>1, <3>2
  <2> HIDE DEF line
  <2>4. CASE \A f \in Flows : FlowLine(f) = line => reader.times[f] = 0
    BY <1>0, <2>1, <2>2, <2>4, LogGrows DEF line
  <2>5. CASE InStep'
    <3>0. /\ log' \in Seq(Lines) /\ Len(log) \in Nat /\ Len(log') = Len(log) + 1
          /\ \A i \in 1 .. Len(log) : log'[i] = log[i]
          /\ log'[Len(log) + 1] = line /\ gen \in Nat
      BY <2>1, <2>2, LineAppended DEF EveInv, LogOK, line
    <3>1. \A i \in 1 .. Len(log') : i \in 1 .. Len(log) \/ i = Len(log) + 1
      BY <3>0
    <3>2. LogOK' /\ ReaderOK'
      BY <1>0, <2>1, <3>0 DEF EveInv, LogOK, ReaderOK
    <3>3. LogUnique'
      BY <1>0, <2>1, <2>2, <3>0, <3>1 DEF EveInv, LogUnique
    <3>4. Present' \subseteq Present
      BY <1>0, <2>1, <3>0, <3>1 DEF Present, line
    <3>5. ReportedWasSeen'
      BY <1>0, <3>4 DEF EveInv, ReportedWasSeen
    <3> QED
      BY <2>5, <3>2, <3>3, <3>5 DEF EveInv
  <2> QED
    BY <2>3, <2>4, <2>5
<1> QED
  BY <1>2, <1>3

LEMMA LogRotates ==
  ASSUME EveInv, Rotate
  PROVE  EveInv'
<1>0. log' = <<>> /\ tail' = <<>> /\ gen' = gen + 1 /\ seen' = seen /\ reader' = reader
  BY DEF Rotate
<1>1. log' \in Seq(Lines) /\ Len(log') = 0 /\ gen \in Nat
  BY <1>0 DEF EveInv, LogOK
<1>2. LogOK' /\ ReaderOK'
  BY <1>0, <1>1 DEF EveInv, LogOK, ReaderOK
<1>3. LogUnique'
  BY <1>0, <1>1 DEF LogUnique
<1>4. Present' = {}
  BY <1>0, <1>1 DEF Present
<1>5. reader.gen \in Nat /\ reader.gen <= gen
  BY DEF EveInv, ReaderOK, ReaderType, ReportedWasSeen
<1>6. ReportedWasSeen'
  BY <1>0, <1>1, <1>4, <1>5 DEF EveInv, ReportedWasSeen
<1>7. InStep'
  BY <1>0, <1>1, <1>5 DEF InStep
<1> QED
  BY <1>2, <1>3, <1>6, <1>7 DEF EveInv

-----------------------------------------------------------------------------
(* A flow that is reported stands in the log.                              *)
LEMMA ReportIsPresent ==
  ASSUME LogOK, ReaderOK, NEW f \in Flows, HitTimes(f) # 0
  PROVE  FlowLine(f) \in Present
<1>1. Cardinality(RecordsOf(LinesRead, Len(LinesRead), f)) # 0
  BY HitsOK
<1>2. Cardinality({}) = 0
  BY FS_EmptySet
<1>3. PICK j \in 1 .. Len(LinesRead) : LinesRead[j].kind = "flow" /\ LinesRead[j].id = f
  BY <1>1, <1>2 DEF RecordsOf
<1>4. LinesRead[j] \in Readable
  BY LinesReadKnown
<1>5. LinesRead[j] \in Lines /\ LinesRead[j] \in Present
  BY <1>4 DEF Readable, Known
<1>6. LinesRead[j] = FlowLine(f)
  BY <1>3, <1>5, FlowLines
<1> QED
  BY <1>5, <1>6

(* Reading from line m + 1 to the end of a log of whole lines.             *)
LEMMA ReadsTheRest ==
  ASSUME LogOK, ReaderOK, LogUnique, tail = <<>>, LongLine = {}, Size # StartAt,
         NEW m \in 0 .. Len(log), StartAt = 3 * m,
         NEW i \in 1 .. Len(log), log[i].kind = "flow", FlowIp[log[i].id] \in reader.nets
  PROVE  log[i].id \in Flows /\ HitTimes(log[i].id) = IF i <= m THEN 0 ELSE 1
<1> DEFINE f == log[i].id
           N == Len(log)
           K == Len(LinesRead)
           R == RecordsOf(LinesRead, K, f)
<1>1. N \in Nat /\ Size = 3 * N /\ FirstLine = m + 1
  BY ReadStart
<1>2. m < N
  BY <1>1
<1>3. K = N - m /\ K \in Nat /\ \A j \in 1 .. K : LinesRead[j] = log[(FirstLine + j) - 1]
  <2>1. FirstLine <= N
    BY <1>1, <1>2
  <2>2. K = N - FirstLine + 1
    BY <2>1, LinesReadKnown
  <2> QED
    BY <1>1, <1>2, <2>2, LinesReadKnown
<1>4. log[i] \in Lines
  BY DEF LogOK
<1>5. f \in Flows /\ log[i] = FlowLine(f)
  BY <1>4, FlowLines
<1>6. HitTimes(f) = Cardinality(R)
  BY <1>5, HitsOK
<1>7. ASSUME NEW j \in 1 .. K PROVE j \in R <=> m + j = i
  <2>1. m + j \in 1 .. N /\ LinesRead[j] = log[m + j]
    <3>1. (FirstLine + j) - 1 = m + j
      BY <1>1, <1>3
    <3>2. LinesRead[j] = log[m + j]
      BY <1>3, <3>1
    <3>3. m + j \in 1 .. N
      BY <1>1, <1>3
    <3> QED
      BY <3>2, <3>3
  <2>2. log[m + j] \in Lines
    BY <2>1 DEF LogOK
  <2>3. log[m + j].kind = "flow" /\ log[m + j].id = f => log[m + j] = log[i]
    BY <1>5, <2>2, FlowLines
  <2>4. log[m + j] = log[i] => m + j = i
    BY <2>1 DEF LogUnique
  <2> QED
    BY <2>1, <2>3, <2>4 DEF RecordsOf
<1>8. R \subseteq 1 .. K
  BY DEF RecordsOf
<1> HIDE DEF R, f
<1>9. CASE i <= m
  <2>1. R = {}
    BY <1>1, <1>3, <1>7, <1>8, <1>9
  <2>2. Cardinality(R) = 0
    BY <2>1, FS_EmptySet
  <2> QED
    BY <1>5, <1>6, <1>9, <2>2 DEF f
<1>10. CASE i > m
  <2>1. i - m \in 1 .. K /\ m + (i - m) = i
    BY <1>1, <1>3, <1>10
  <2>2. \A j \in 1 .. K : m + j = i => j = i - m
    BY <1>1, <1>3
  <2>3. R = {i - m}
    BY <1>7, <1>8, <2>1, <2>2
  <2>4. Cardinality(R) = 1
    BY <2>3, FS_Singleton
  <2> QED
    BY <1>1, <1>5, <1>6, <1>10, <2>4 DEF f
<1> QED
  BY <1>1, <1>9, <1>10

LEMMA CappedAtTwo ==
  ASSUME NEW a \in Nat, NEW b \in Nat
  PROVE  Min({a + b, 2}) = IF a + b <= 2 THEN a + b ELSE 2
<1>1. a + b \in Int /\ 2 \in Int
  OBVIOUS
<1> QED
  BY <1>1, MinOfTwo

LEMMA LogRead ==
  ASSUME EveInv, reader.made, reader' = ReaderAfterRead, UNCHANGED logVars
  PROVE  EveInv'
<1>0. log' = log /\ tail' = tail /\ seen' = seen /\ gen' = gen /\ LogOK /\ ReaderOK
  BY DEF logVars, EveInv
<1>1. LogOK' /\ LogUnique' /\ Present' = Present
  BY <1>0 DEF EveInv, LogOK, LogUnique, Present
<1>2. ReaderOK'
  BY <1>0, ReaderAfterOK DEF ReaderOK
<1>3. \A f \in Flows : reader.times[f] \in Nat /\ HitTimes(f) \in Nat
  BY <1>0, HitsOK DEF ReaderOK, ReaderType
<1>4. \A f \in Flows : reader'.times[f] = IF reader.times[f] + HitTimes(f) <= 2
                                          THEN reader.times[f] + HitTimes(f) ELSE 2
  BY <1>0, <1>3, CappedAtTwo, ReaderAfterOK
<1>5. Present \subseteq seen
  BY DEF EveInv, LogUnique, Present
<1>6. ReportedWasSeen'
  <2>1. reader'.gen = gen /\ gen \in Nat
    BY <1>0, ReaderAfterOK DEF LogOK
  <2>2. ASSUME NEW f \in Flows, reader'.times[f] # 0 PROVE FlowLine(f) \in seen
    <3>1. reader.times[f] # 0 \/ HitTimes(f) # 0
      BY <1>3, <1>4, <2>2
    <3> QED
      BY <1>0, <1>5, <3>1, ReportIsPresent DEF EveInv, ReportedWasSeen
  <2> QED
    BY <1>0, <2>1, <2>2 DEF ReportedWasSeen
<1>7. InStep'
  <2> SUFFICES ASSUME ~reader'.cut, ~reader'.skipped
               PROVE  \E m \in 0 .. Len(log) : ReadTo(m)'
    BY <1>0 DEF InStep
  <2>1. /\ ~reader.cut /\ (Size = StartAt \/ tail = <<>>)
        /\ ~reader.skipped /\ LongLine = {} /\ StartAt = TurnedBack
        /\ ~(reader.gen # gen /\ reader.offset # 0 /\ Size >= reader.offset)
        /\ reader'.offset = IF Size = StartAt THEN StartAt ELSE EndsAt
        /\ reader'.nets = reader.nets
    BY <1>0, ReaderAfterOK
  <2>2. Len(log) \in Nat /\ TailUnits \in 0 .. 2 /\ (TailUnits = 0 <=> tail = <<>>)
        /\ Size = 3 * Len(log) + TailUnits
    BY <1>0, ReadStart
  <2>3. \A i \in 1 .. Len(log) : log[i].kind = "flow" =>
          log[i].id \in Flows /\ FlowLine(log[i].id) = log[i] /\ log[i] \in Present
    <3>1. \A i \in 1 .. Len(log) : log[i] \in Lines
      BY <1>0 DEF LogOK
    <3> QED
      BY <3>1, FlowLines DEF Present
  <2>4. PICK m \in 0 .. Len(log) :
          /\ StartAt = 3 * m
          /\ \A i \in 1 .. Len(log) :
               log[i].kind = "flow" /\ FlowIp[log[i].id] \in reader.nets =>
                 reader.times[log[i].id] = IF i <= m THEN 1 ELSE 0
    <3>1. CASE reader.gen = gen
      <4>1. PICK m \in 0 .. Len(log) : ReadTo(m)
        BY <2>1, <3>1 DEF EveInv, InStep
      <4>2. reader.offset = 3 * m /\ Size >= reader.offset
        BY <2>2, <4>1 DEF ReadTo
      <4>3. StartAt = 3 * m
        BY <2>1, <2>2, <4>2 DEF TurnedBack
      <4> QED
        BY <4>1, <4>3 DEF ReadTo
    <3>2. CASE reader.gen # gen
      <4>1. reader.offset \in Nat
        BY <1>0 DEF ReaderOK, ReaderType
      <4>2. StartAt = 0
        BY <2>1, <2>2, <3>2, <4>1 DEF TurnedBack
      <4>3. \A i \in 1 .. Len(log) : log[i].kind = "flow" => reader.times[log[i].id] = 0
        BY <2>3, <3>2 DEF EveInv, ReportedWasSeen
      <4>4. \A i \in 1 .. Len(log) : ~(i <= 0)
        OBVIOUS
      <4>5. 0 \in 0 .. Len(log) /\ StartAt = 3 * 0
        BY <2>2, <4>2
      <4> QED
        BY <4>3, <4>4, <4>5
    <3> QED
      BY <3>1, <3>2
  <2>5. tail = <<>>
    BY <2>1, <2>2, <2>4
  <2>6. CASE Size = StartAt
    <3>1. \A f \in Flows : HitTimes(f) = 0
      BY <1>0, <2>6, HitsOK
    <3>2. \A f \in Flows : reader.times[f] \in 0 .. 2
      BY <1>0 DEF ReaderOK, ReaderType
    <3>3. \A f \in Flows : reader'.times[f] = reader.times[f]
      BY <1>4, <3>1, <3>2
    <3>4. ReadTo(m)'
      BY <1>0, <2>1, <2>3, <2>4, <2>5, <2>6, <3>3 DEF ReadTo
    <3> QED
      BY <3>4
  <2>7. CASE Size # StartAt
    <3>1. reader'.offset = 3 * Len(log)
      BY <2>1, <2>2, <2>5, <2>7 DEF EndsAt
    <3>2. ASSUME NEW i \in 1 .. Len(log), log[i].kind = "flow", FlowIp[log[i].id] \in reader.nets
          PROVE  reader'.times[log[i].id] = 1
      <4>1. log[i].id \in Flows /\ HitTimes(log[i].id) = IF i <= m THEN 0 ELSE 1
        BY <1>0, <2>1, <2>4, <2>5, <2>7, <3>2, ReadsTheRest DEF EveInv
      <4>2. reader.times[log[i].id] = IF i <= m THEN 1 ELSE 0
        BY <2>4, <3>2
      <4> QED
        BY <1>4, <4>1, <4>2
    <3>3. \A i \in 1 .. Len(log) : i <= Len(log)
      BY <2>2
    <3>4. PICK n \in 0 .. Len(log) : n = Len(log)
      BY <2>2
    <3>5. ReadTo(n)'
      BY <1>0, <2>1, <2>5, <3>1, <3>2, <3>3, <3>4 DEF ReadTo
    <3> QED
      BY <3>5
  <2> QED
    BY <2>6, <2>7
<1> QED
  BY <1>1, <1>2, <1>6, <1>7 DEF EveInv

-----------------------------------------------------------------------------
(* The domain lists of the category store.                                 *)
DomainList(d) ==
    /\ IsFiniteSet(DOMAIN d) /\ Cardinality(DOMAIN d) <= MaxDomains
    /\ \A x \in DOMAIN d : d[x] \in Nat

DomainLists(doms) == \A ip \in DOMAIN doms : DomainList(doms[ip])

(* A finite set of numbered things has a largest.                          *)
LEMMA LargestExists ==
  ASSUME NEW d, NEW D \in SUBSET DOMAIN d, IsFiniteSet(D), D # {}, \A x \in D : d[x] \in Nat
  PROVE  \E x \in D : \A y \in D : d[x] >= d[y]
<1> DEFINE G == {s \in SUBSET D : s # {} => \E x \in s : \A y \in s : d[x] >= d[y]}
<1>1. {} \in G
  OBVIOUS
<1>2. ASSUME NEW s \in SUBSET D, s # {}, \A x \in s : s \ {x} \in G
      PROVE  s \in G
  <2>1. PICK z \in s : TRUE
    BY <1>2
  <2>2. CASE s \ {z} = {}
    <3>1. \A y \in s : y = z
      BY <2>2
    <3>2. \A y \in s : d[z] >= d[y]
      BY <3>1
    <3> QED
      BY <2>1, <3>2
  <2>3. CASE s \ {z} # {}
    <3>1. PICK x \in s \ {z} : \A y \in s \ {z} : d[x] >= d[y]
      BY <1>2, <2>1, <2>3
    <3>2. CASE d[x] >= d[z]
      <4>1. \A y \in s : d[x] >= d[y]
        BY <3>1, <3>2
      <4> QED
        BY <3>1, <4>1
    <3>3. CASE ~(d[x] >= d[z])
      <4>1. d[x] \in Nat /\ d[z] \in Nat /\ \A y \in s : d[y] \in Nat
        OBVIOUS
      <4>2. \A y \in s : d[z] >= d[y]
        BY <3>1, <3>3, <4>1
      <4> QED
        BY <2>1, <4>2
    <3> QED
      BY <3>2, <3>3
  <2> QED
    BY <2>2, <2>3
<1> HIDE DEF G
<1>3. \A s \in SUBSET D : s \in G
  BY <1>1, <1>2, SubsetInduction
<1>4. D \in G
  BY <1>3
<1> QED
  BY <1>4 DEF G

(* Hence a set of any size of its largest.                                 *)
Largest(k, d) ==
    { s \in SUBSET DOMAIN d : Cardinality(s) = k /\ \A x \in s, y \in DOMAIN d \ s : d[x] >= d[y] }

LEMMA LargestOfAnySize ==
  ASSUME NEW d, IsFiniteSet(DOMAIN d), \A x \in DOMAIN d : d[x] \in Nat,
         NEW k \in 0 .. Cardinality(DOMAIN d)
  PROVE  Largest(k, d) # {}
<1> DEFINE D == DOMAIN d
           S == {n \in Nat : n <= Cardinality(D) => Largest(n, d) # {}}
<1>0. Cardinality(D) \in Nat /\ Cardinality({}) = 0
  BY FS_CardinalityType, FS_EmptySet
<1>1. 0 \in S
  <2>1. {} \in Largest(0, d)
    BY <1>0 DEF Largest
  <2> QED
    BY <2>1
<1>2. ASSUME NEW n \in Nat, n \in S PROVE n + 1 \in S
  <2> SUFFICES ASSUME n + 1 <= Cardinality(D) PROVE Largest(n + 1, d) # {}
    OBVIOUS
  <2>1. PICK s \in Largest(n, d) : TRUE
    BY <1>0, <1>2
  <2>2. s \in SUBSET D /\ IsFiniteSet(s) /\ Cardinality(s) = n
    BY <2>1, FS_Subset DEF Largest
  <2>3. D \ s # {} /\ IsFiniteSet(D \ s)
    <3>1. s # D
      BY <1>0, <2>2
    <3> QED
      BY <2>2, <3>1, FS_Subset
  <2>4. PICK x \in D \ s : \A y \in D \ s : d[x] >= d[y]
    BY <2>3, LargestExists
  <2>5. Cardinality(s \cup {x}) = n + 1
    BY <2>2, FS_AddElement
  <2>6. s \cup {x} \in Largest(n + 1, d)
    BY <2>1, <2>2, <2>4, <2>5 DEF Largest
  <2> QED
    BY <2>6
<1>3. Nat \subseteq S
  <2> HIDE DEF S
  <2> QED
    BY <1>1, <1>2, InductiveSet
<1> QED
  BY <1>0, <1>3

LEMMA TrimLeavesRoom ==
  ASSUME NEW d, DomainList(d), NEW t, t = (CHOOSE u \in Trims(d) : TRUE)
  PROVE  /\ IsFiniteSet(DOMAIN t) /\ Cardinality(DOMAIN t) + 1 <= MaxDomains
         /\ \A x \in DOMAIN t : t[x] \in Nat
<1>0. MaxDomains \in Nat /\ MaxDomains >= 2 /\ Cardinality(DOMAIN d) \in Nat
  BY TrafficAssumption, FS_CardinalityType DEF DomainList
<1>1. CASE Cardinality(DOMAIN d) < MaxDomains
  <2>1. Trims(d) = {d}
    BY <1>1 DEF Trims
  <2>2. t = d
    BY <2>1
  <2> QED
    <3>1. Cardinality(DOMAIN d) + 1 <= MaxDomains
      BY <1>0, <1>1
    <3>2. IsFiniteSet(DOMAIN d) /\ \A x \in DOMAIN d : d[x] \in Nat
      BY DEF DomainList
    <3> QED
      BY <2>2, <3>1, <3>2
<1>2. CASE ~(Cardinality(DOMAIN d) < MaxDomains)
  <2> DEFINE h == MaxDomains \div 2
             Tops == { k \in kSubset(h, DOMAIN d) : \A x \in k, y \in DOMAIN d \ k : d[x] >= d[y] }
  <2>1. h \in Nat /\ h + 1 <= MaxDomains
    BY <1>0
  <2>2. h \in 0 .. Cardinality(DOMAIN d)
    BY <1>0, <1>2, <2>1
  <2>3. Largest(h, d) # {}
    BY <2>2, LargestOfAnySize DEF DomainList
  <2>4. Tops # {}
    BY <2>3 DEF Largest, kSubset
  <2>5. Trims(d) = { [x \in keep |-> d[x]] : keep \in Tops }
    BY <1>2 DEF Trims
  <2>6. t \in Trims(d)
    BY <2>4, <2>5
  <2>7. PICK keep \in Tops : t = [x \in keep |-> d[x]]
    BY <2>5, <2>6
  <2>8. keep \in SUBSET DOMAIN d /\ Cardinality(keep) = h /\ IsFiniteSet(keep)
    BY FS_Subset DEF kSubset, DomainList
  <2>9. DOMAIN t = keep /\ \A x \in keep : t[x] = d[x]
    BY <2>7
  <2> QED
    BY <2>1, <2>8, <2>9 DEF DomainList
<1> QED
  BY <1>1, <1>2

LEMMA DomainAddOK ==
  ASSUME NEW doms, DomainLists(doms), NEW h \in HitType
  PROVE  DomainLists(DomainAdd(doms, h))
<1> DEFINE ip == FlowIp[h.id]
           d == IF ip \in DOMAIN doms THEN doms[ip] ELSE NoCounters
           t == CHOOSE u \in Trims(d) : TRUE
           room == IF h.id \in DOMAIN d THEN d ELSE t
           old == IF h.id \in DOMAIN room THEN room[h.id] ELSE 0
           n == Min({old + 1, MaxCount[Domains]})
           new == With(room, h.id, n)
<1>0. MaxDomains \in Nat /\ MaxDomains >= 2 /\ MaxCount[Domains] \in Nat
  BY TrafficAssumption
<1>1. DomainList(d)
  <2>1. IsFiniteSet({}) /\ Cardinality({}) = 0
    BY FS_EmptySet
  <2>2. DOMAIN NoCounters = {}
    BY DEF NoCounters
  <2>3. DomainList(NoCounters)
    BY <1>0, <2>1, <2>2 DEF DomainList
  <2> QED
    BY <2>3 DEF DomainLists
<1>2. /\ IsFiniteSet(DOMAIN t) /\ Cardinality(DOMAIN t) + 1 <= MaxDomains
      /\ \A x \in DOMAIN t : t[x] \in Nat
  BY <1>1, TrimLeavesRoom
<1>3. \A x \in DOMAIN room : room[x] \in Nat
  BY <1>1, <1>2 DEF DomainList
<1>4. old \in Nat
  BY <1>3
<1> HIDE DEF old
<1>5. n \in Nat
  <2>1. old + 1 \in Int /\ MaxCount[Domains] \in Int
    BY <1>0, <1>4
  <2>2. n \in {old + 1, MaxCount[Domains]}
    BY <2>1, MinOfTwo
  <2> QED
    BY <1>0, <1>4, <2>2
<1> HIDE DEF n
<1>6. DOMAIN new = DOMAIN room \cup {h.id} /\ \A x \in DOMAIN new : new[x] \in Nat
  BY <1>3, <1>5 DEF With
<1>7. IsFiniteSet(DOMAIN new) /\ Cardinality(DOMAIN new) <= MaxDomains
  <2>1. CASE h.id \in DOMAIN d
    <3>1. DOMAIN new = DOMAIN d
      BY <1>6, <2>1
    <3> QED
      BY <1>1, <3>1 DEF DomainList
  <2>2. CASE h.id \notin DOMAIN d
    <3> HIDE DEF t, new
    <3>1. DOMAIN new = DOMAIN t \cup {h.id}
      BY <1>6, <2>2
    <3>2. IsFiniteSet(DOMAIN t \cup {h.id}) /\ Cardinality(DOMAIN t \cup {h.id}) <= Cardinality(DOMAIN t) + 1
      <4>1. Cardinality(DOMAIN t) \in Nat
        BY <1>2, FS_CardinalityType
      <4> QED
        BY <1>2, <4>1, FS_AddElement
    <3>3. Cardinality(DOMAIN t) \in Nat /\ Cardinality(DOMAIN t \cup {h.id}) \in Nat
      BY <1>2, <3>2, FS_CardinalityType
    <3> QED
      BY <1>0, <1>2, <3>1, <3>2, <3>3
  <2> QED
    BY <2>1, <2>2
<1> HIDE DEF new
<1>8. DomainList(new)
  BY <1>6, <1>7 DEF DomainList
<1>9. DomainAdd(doms, h) = IF ~h.named THEN doms ELSE With(doms, ip, new)
  BY DEF DomainAdd, new, n, old
<1>10. DomainLists(With(doms, ip, new))
  BY <1>8 DEF DomainLists, With
<1> QED
  BY <1>9, <1>10

-----------------------------------------------------------------------------
DomainsTable(doms, hits, it, n) ==
    it = [i \in 0 .. n |-> IF i = 0 THEN doms ELSE DomainAdd(it[i - 1], hits[i])]

LEMMA DomainsTableExists ==
  ASSUME NEW doms, NEW hits, Len(hits) \in Nat
  PROVE  DomainsTable(doms, hits, DomainsAdded(doms, hits), Len(hits))
<1> DEFINE S == {n \in Nat : \E it : DomainsTable(doms, hits, it, n)}
<1>1. 0 \in S
  <2>1. DomainsTable(doms, hits, [i \in 0 .. 0 |-> doms], 0)
    BY DEF DomainsTable
  <2> QED
    BY <2>1
<1>2. ASSUME NEW n \in Nat, n \in S PROVE n + 1 \in S
  <2>1. PICK it : DomainsTable(doms, hits, it, n)
    BY <1>2
  <2> DEFINE nx == [i \in 0 .. n + 1 |-> IF i = 0 THEN doms ELSE DomainAdd(it[i - 1], hits[i])]
  <2>2. \A i \in 0 .. n : nx[i] = it[i]
    BY <2>1 DEF DomainsTable
  <2>3. \A i \in 0 .. n + 1 : i # 0 => i - 1 \in 0 .. n
    OBVIOUS
  <2>4. nx = [i \in 0 .. n + 1 |-> IF i = 0 THEN doms ELSE DomainAdd(nx[i - 1], hits[i])]
    <3> DEFINE ny == [i \in 0 .. n + 1 |-> IF i = 0 THEN doms ELSE DomainAdd(nx[i - 1], hits[i])]
    <3>1. \A i \in 0 .. n + 1 : nx[i] = IF i = 0 THEN doms ELSE DomainAdd(it[i - 1], hits[i])
      OBVIOUS
    <3>2. \A i \in 0 .. n + 1 : ny[i] = IF i = 0 THEN doms ELSE DomainAdd(nx[i - 1], hits[i])
      OBVIOUS
    <3>3. nx = [i \in 0 .. n + 1 |-> nx[i]] /\ ny = [i \in 0 .. n + 1 |-> ny[i]]
      OBVIOUS
    <3> HIDE DEF nx, ny
    <3>4. \A i \in 0 .. n + 1 : nx[i] = ny[i]
      BY <2>2, <2>3, <3>1, <3>2
    <3>5. nx = ny
      BY <3>3, <3>4
    <3> QED
      BY <3>5 DEF ny
  <2>5. DomainsTable(doms, hits, nx, n + 1)
    BY <2>4 DEF DomainsTable
  <2> QED
    BY <2>5
<1>3. Nat \subseteq S
  <2> HIDE DEF S
  <2> QED
    BY <1>1, <1>2, InductiveSet
<1>4. \E it : DomainsTable(doms, hits, it, Len(hits))
  BY <1>3
<1> QED
  BY <1>4 DEF DomainsAdded, DomainsTable

LEMMA DomainsAddedOK ==
  ASSUME NEW doms, DomainLists(doms), NEW hits \in Seq(HitType)
  PROVE  DomainLists(DomainsAdded(doms, hits)[Len(hits)])
<1> DEFINE it == DomainsAdded(doms, hits)
           S == {n \in Nat : n <= Len(hits) => DomainLists(it[n])}
<1>0. Len(hits) \in Nat /\ \A i \in 1 .. Len(hits) : hits[i] \in HitType
  OBVIOUS
<1>1. DomainsTable(doms, hits, it, Len(hits))
  BY <1>0, DomainsTableExists
<1> HIDE DEF it
<1>2. \A i \in 0 .. Len(hits) : it[i] = IF i = 0 THEN doms ELSE DomainAdd(it[i - 1], hits[i])
  BY <1>1, Zenon DEF DomainsTable
<1>3. 0 \in S
  <2>1. it[0] = doms
    BY <1>0, <1>2
  <2> QED
    BY <2>1
<1>4. ASSUME NEW n \in Nat, n \in S PROVE n + 1 \in S
  <2> SUFFICES ASSUME n + 1 <= Len(hits) PROVE DomainLists(it[n + 1])
    OBVIOUS
  <2>1. n + 1 \in 0 .. Len(hits) /\ n + 1 # 0 /\ (n + 1) - 1 = n /\ n <= Len(hits)
    BY <1>0
  <2>2. it[n + 1] = DomainAdd(it[n], hits[n + 1])
    BY <1>2, <2>1
  <2>3. DomainLists(it[n]) /\ hits[n + 1] \in HitType
    BY <1>0, <1>4, <2>1
  <2> QED
    BY <2>2, <2>3, DomainAddOK
<1>5. Nat \subseteq S
  <2> HIDE DEF S
  <2> QED
    BY <1>3, <1>4, InductiveSet
<1> QED
  BY <1>0, <1>5 DEF it

-----------------------------------------------------------------------------
(* The two stores.                                                         *)
IsMap(f) == f = [x \in DOMAIN f |-> f[x]]

Rings(b, r) == IsMap(b) /\ \A k \in DOMAIN b : Ring(b[k], r)

Amounts(a) == \A k \in DOMAIN a : a[k] \in Nat

LEMMA AddedAreRings ==
  ASSUME NEW r \in DOMAIN Interval, NEW b, Rings(b, r), NEW amounts, Amounts(amounts),
         NEW t \in Nat
  PROVE  /\ Rings(BucketAdd(b, r, t, amounts), r)
         /\ DOMAIN BucketAdd(b, r, t, amounts) = DOMAIN b \cup DOMAIN amounts
<1> DEFINE c == BucketAdd(b, r, t, amounts)
           old(k) == IF k \in DOMAIN b THEN b[k] ELSE NewSeries(r, Slot(r, t))
<1>1. DOMAIN c = DOMAIN b \cup DOMAIN amounts
      /\ \A k \in DOMAIN c : c[k] = IF k \in DOMAIN amounts
                                    THEN SeriesAdd(old(k), r, Slot(r, t), amounts[k]) ELSE old(k)
  BY DEF BucketAdd
<1>2. Slot(r, t) \in Nat
  BY PointsType, DivNat DEF Slot
<1>3. \A k : Ring(old(k), r)
  BY <1>2, NewIsRing DEF Rings
<1> HIDE DEF c, old
<1>4. ASSUME NEW k \in DOMAIN c PROVE Ring(c[k], r)
  <2>1. CASE k \in DOMAIN amounts
    <3>1. amounts[k] \in Nat
      BY <2>1 DEF Amounts
    <3>2. Ring(SeriesAdd(old(k), r, Slot(r, t), amounts[k]), r)
      BY <1>2, <1>3, <3>1, AddIsRing
    <3> QED
      BY <1>1, <2>1, <3>2
  <2>2. CASE k \notin DOMAIN amounts
    BY <1>1, <1>3, <2>2
  <2> QED
    BY <2>1, <2>2
<1>5. IsMap(c)
  BY DEF c, BucketAdd, IsMap
<1> QED
  BY <1>1, <1>4, <1>5 DEF Rings, c

LEMMA KeptAreRings ==
  ASSUME NEW r, NEW b, Rings(b, r), NEW t, NEW age
  PROVE  Rings(Kept(b, r, t, age), r) /\ DOMAIN Kept(b, r, t, age) \subseteq DOMAIN b
<1>1. IsMap(Kept(b, r, t, age))
  BY DEF Kept, IsMap
<1> QED
  BY <1>1 DEF Rings, Kept

HistMem(m) ==
    /\ DOMAIN m = HistRes
    /\ \A r \in HistRes : Rings(m[r], r) /\ DOMAIN m[r] \subseteq Ips

CatMem(m) ==
    /\ DOMAIN m = CatFiles
    /\ \A r \in CatRes : Rings(m[r], r)
    /\ DomainLists(m[Domains])

StoreShape(st, names) ==
    /\ st = [mem |-> st.mem, dirty |-> st.dirty, file |-> st.file, todo |-> st.todo,
             partial |-> st.partial, torn |-> st.torn]
    /\ st.dirty \in BOOLEAN /\ st.partial \in BOOLEAN /\ st.torn \in BOOLEAN
    /\ st.todo \subseteq names
    /\ DOMAIN st.mem = names /\ DOMAIN st.file = names /\ IsMap(st.mem) /\ IsMap(st.file)

HistOK(h) == StoreShape(h, HistRes) /\ HistMem(h.mem) /\ HistMem(h.file)

CatsOK(c) == StoreShape(c, CatFiles) /\ CatMem(c.mem) /\ CatMem(c.file)

LEMMA StoreFields ==
  ASSUME NEW st, NEW m, NEW d \in BOOLEAN, NEW f, NEW t, NEW p \in BOOLEAN, NEW q \in BOOLEAN,
         st = [mem |-> m, dirty |-> d, file |-> f, todo |-> t, partial |-> p, torn |-> q]
  PROVE  /\ st.mem = m /\ st.dirty = d /\ st.file = f /\ st.todo = t
         /\ st.partial = p /\ st.torn = q
         /\ st = [mem |-> st.mem, dirty |-> st.dirty, file |-> st.file, todo |-> st.todo,
                  partial |-> st.partial, torn |-> st.torn]
  OBVIOUS

(* What each step of a save, and a start, leaves of a store.               *)
LEMMA SaveBegins ==
  ASSUME NEW names, NEW st, StoreShape(st, names)
  PROVE  /\ StoreShape(SaveBegun(st), names)
         /\ SaveBegun(st).mem = st.mem /\ SaveBegun(st).file = st.file
         /\ SaveBegun(st).dirty = FALSE /\ SaveBegun(st).todo = names
         /\ SaveBegun(st).partial = TRUE /\ SaveBegun(st).torn = st.torn
<1>1. SaveBegun(st) = [mem |-> st.mem, dirty |-> FALSE, file |-> st.file, todo |-> names,
                       partial |-> TRUE, torn |-> st.torn]
  <2> DEFINE l == [st EXCEPT !.dirty = FALSE, !.todo = DOMAIN st.mem, !.partial = TRUE]
  <2>1. DOMAIN st = {"mem", "dirty", "file", "todo", "partial", "torn"}
    BY DEF StoreShape
  <2>2. l = [f \in DOMAIN st |-> l[f]]
    OBVIOUS
  <2>3. /\ l.mem = st.mem /\ l.dirty = FALSE /\ l.file = st.file /\ l.todo = names
        /\ l.partial = TRUE /\ l.torn = st.torn
    BY <2>1 DEF StoreShape
  <2> HIDE DEF l
  <2>4. l = [mem |-> st.mem, dirty |-> FALSE, file |-> st.file, todo |-> names,
             partial |-> TRUE, torn |-> st.torn]
    BY <2>1, <2>2, <2>3
  <2> QED
    BY <2>4 DEF SaveBegun, l
<1>2. /\ SaveBegun(st).mem = st.mem /\ SaveBegun(st).file = st.file
      /\ SaveBegun(st).dirty = FALSE /\ SaveBegun(st).todo = names
      /\ SaveBegun(st).partial = TRUE /\ SaveBegun(st).torn = st.torn
  BY <1>1
<1>3. StoreShape(SaveBegun(st), names)
  BY <1>1, <1>2 DEF StoreShape
<1> QED
  BY <1>2, <1>3

LEMMA SaveStops ==
  ASSUME NEW names, NEW st, StoreShape(st, names)
  PROVE  /\ StoreShape(SaveStopped(st), names)
         /\ SaveStopped(st).mem = st.mem /\ SaveStopped(st).file = st.file
         /\ SaveStopped(st).dirty = st.dirty /\ SaveStopped(st).todo = {}
         /\ SaveStopped(st).partial = st.partial /\ SaveStopped(st).torn = st.torn
<1>1. SaveStopped(st) = [mem |-> st.mem, dirty |-> st.dirty, file |-> st.file, todo |-> {},
                         partial |-> st.partial, torn |-> st.torn]
  BY DEF SaveStopped, StoreShape
<1>2. /\ SaveStopped(st).mem = st.mem /\ SaveStopped(st).file = st.file
      /\ SaveStopped(st).dirty = st.dirty /\ SaveStopped(st).todo = {}
      /\ SaveStopped(st).partial = st.partial /\ SaveStopped(st).torn = st.torn
  BY <1>1
<1>3. StoreShape(SaveStopped(st), names)
  BY <1>1, <1>2 DEF StoreShape
<1> QED
  BY <1>2, <1>3

LEMMA StoreLoads ==
  ASSUME NEW names, NEW st, StoreShape(st, names)
  PROVE  /\ StoreShape(Loaded(st), names)
         /\ Loaded(st).mem = st.file /\ Loaded(st).file = st.file
         /\ Loaded(st).dirty = FALSE /\ Loaded(st).todo = {}
         /\ Loaded(st).partial = st.partial /\ Loaded(st).torn = (st.torn \/ st.partial)
<1>1. Loaded(st) = [mem |-> st.file, dirty |-> FALSE, file |-> st.file, todo |-> {},
                    partial |-> st.partial, torn |-> (st.torn \/ st.partial)]
  <2> DEFINE q == st.torn \/ st.partial
             l == [st EXCEPT !.mem = st.file, !.dirty = FALSE, !.todo = {}, !.torn = q]
  <2>1. DOMAIN st = {"mem", "dirty", "file", "todo", "partial", "torn"}
    BY DEF StoreShape
  <2>2. l = [f \in DOMAIN st |-> l[f]]
    OBVIOUS
  <2>q. q \in BOOLEAN
    OBVIOUS
  <2> HIDE DEF q
  <2>3. /\ l.mem = st.file /\ l.dirty = FALSE /\ l.file = st.file /\ l.todo = {}
        /\ l.partial = st.partial /\ l.torn = q
    BY <2>1 DEF StoreShape
  <2> HIDE DEF l
  <2>4. l = [mem |-> st.file, dirty |-> FALSE, file |-> st.file, todo |-> {},
             partial |-> st.partial, torn |-> q]
    BY <2>1, <2>2, <2>3
  <2> QED
    BY <2>4 DEF Loaded, l, q
<1>2. /\ Loaded(st).mem = st.file /\ Loaded(st).file = st.file
      /\ Loaded(st).dirty = FALSE /\ Loaded(st).todo = {}
      /\ Loaded(st).partial = st.partial /\ Loaded(st).torn = (st.torn \/ st.partial)
  BY <1>1
<1>3. StoreShape(Loaded(st), names)
  BY <1>1, <1>2 DEF StoreShape
<1> QED
  BY <1>2, <1>3

LEMMA FileStep ==
  ASSUME NEW names, NEW st, StoreShape(st, names), NEW r \in names
  PROVE  /\ StoreShape(FileWritten(st, r), names)
         /\ FileWritten(st, r).mem = st.mem /\ FileWritten(st, r).dirty = st.dirty
         /\ FileWritten(st, r).file = [st.file EXCEPT ![r] = st.mem[r]]
         /\ FileWritten(st, r).todo = st.todo \ {r}
         /\ FileWritten(st, r).partial = (st.todo # {r}) /\ FileWritten(st, r).torn = st.torn
<1> DEFINE w == FileWritten(st, r)
           p == st.todo # {r}
           fs == [st.file EXCEPT ![r] = st.mem[r]]
<1>0. p \in BOOLEAN
  OBVIOUS
<1> HIDE DEF p
<1>1. w = [mem |-> st.mem, dirty |-> st.dirty, file |-> fs, todo |-> st.todo \ {r},
           partial |-> p, torn |-> st.torn]
  <2>1. w = [st EXCEPT !.file = fs, !.todo = st.todo \ {r}, !.partial = p]
    BY DEF FileWritten, StoreShape, p
  <2> HIDE DEF w, fs
  <2> QED
    BY <1>0, <2>1 DEF StoreShape
<1>2. DOMAIN fs = names /\ IsMap(fs)
  BY DEF StoreShape, IsMap
<1> HIDE DEF w, fs
<1>3. /\ w.mem = st.mem /\ w.dirty = st.dirty /\ w.file = fs /\ w.todo = st.todo \ {r}
      /\ w.partial = p /\ w.torn = st.torn
  BY <1>0, <1>1
<1>4. w = [mem |-> w.mem, dirty |-> w.dirty, file |-> w.file, todo |-> w.todo,
           partial |-> w.partial, torn |-> w.torn]
  BY <1>1, <1>3
<1>5. StoreShape(w, names)
  BY <1>0, <1>2, <1>3, <1>4 DEF StoreShape
<1> QED
  BY <1>3, <1>5 DEF w, fs, p

-----------------------------------------------------------------------------
ScenarioType == [devices : SUBSET Ips, packets : Nat, lines : Nat, faults : Nat, time : Nat]

Counters(f) == DOMAIN f \subseteq Ips /\ \A ip \in DOMAIN f : f[ip] \in Nat

CollType(c) == c = [based |-> c.based, prev |-> c.prev] /\ c.based \in BOOLEAN /\ Counters(c.prev)

Base ==
    /\ nets \subseteq Ips /\ now \in Nat
    /\ rules \in [Ips -> 0 .. MaxRules] /\ Counters(bytes)
    /\ sent \in [Ips -> Nat] /\ counted \in [Ips -> Nat] /\ booked \in [Ips -> Nat]
    /\ CollType(coll)
    /\ left \in ScenarioType
    /\ run \in {"loop", "stopping", "down"} /\ saving \in {"no", "hist", "cats"}

LEMMA RulesAdded ==
  ASSUME NEW local, NEW has \in [Ips -> 0 .. MaxRules]
  PROVE  AccountingAdded(local, has) \in [Ips -> 0 .. MaxRules]
<1>0. MaxRules \in Nat
  BY TrafficAssumption
<1>1. \A ip \in Ips : Min({has[ip] + 1, MaxRules}) \in 0 .. MaxRules
  <2> SUFFICES ASSUME NEW ip \in Ips PROVE Min({has[ip] + 1, MaxRules}) \in 0 .. MaxRules
    OBVIOUS
  <2>1. has[ip] \in 0 .. MaxRules
    OBVIOUS
  <2> DEFINE a == has[ip] + 1
  <2>2. a \in Int /\ MaxRules \in Int /\ a >= 0
    BY <1>0, <2>1
  <2> HIDE DEF a
  <2>3. Min({a, MaxRules}) \in {a, MaxRules} /\ Min({a, MaxRules}) <= MaxRules
    BY <2>2, MinOfTwo
  <2>4. Min({a, MaxRules}) \in 0 .. MaxRules
    BY <1>0, <2>2, <2>3
  <2> QED
    BY <2>4 DEF a
<1> QED
  BY <1>1 DEF AccountingAdded

LEMMA NoRulesType ==
  NoRules \in [Ips -> 0 .. MaxRules] /\ NoRules \in [Ips -> Nat] /\ Counters(NoCounters)
  BY TrafficAssumption DEF NoRules, NoCounters, Counters

LEMMA NoPrevType == CollType(NoPrev) /\ NoPrev.based = FALSE
<1>1. NoPrev = [based |-> NoPrev.based, prev |-> NoPrev.prev]
      /\ NoPrev.based = FALSE /\ NoPrev.prev = NoCounters
  BY DEF NoPrev
<1> QED
  BY <1>1, NoRulesType DEF CollType

LEMMA Scenario ==
  ASSUME left \in ScenarioType
  PROVE  /\ [left EXCEPT !.packets = @ - 1] \in ScenarioType \/ ~(left.packets > 0)
         /\ [left EXCEPT !.lines = @ - 1] \in ScenarioType \/ ~(left.lines > 0)
         /\ [left EXCEPT !.faults = @ - 1] \in ScenarioType \/ ~(left.faults > 0)
         /\ [left EXCEPT !.time = @ - 1] \in ScenarioType \/ ~(left.time > 0)
  BY DEF ScenarioType

(* What a sample books.                                                    *)
LEMMA DeltaType ==
  ASSUME Base, NEW b \in Nat, NEW ip
  PROVE  Delta(b, ip) \in Nat /\ Delta(b, ip) <= b
  BY DEF Base, CollType, Counters, Delta

LEMMA SampledType ==
  ASSUME Base
  PROVE  /\ DOMAIN Sampled \subseteq DOMAIN bytes /\ DOMAIN Sampled \subseteq Ips /\ Amounts(Sampled)
         /\ coll.based => \A ip \in DOMAIN bytes :
              Delta(bytes[ip], ip) = IF ip \in DOMAIN Sampled THEN Sampled[ip] ELSE 0
         /\ ~coll.based => DOMAIN Sampled = {}
<1>1. \A ip \in DOMAIN bytes : Delta(bytes[ip], ip) \in Nat
  BY DeltaType DEF Base, Counters
<1>2. CASE coll.based
  <2> DEFINE d == [ip \in DOMAIN bytes |-> Delta(bytes[ip], ip)]
  <2>1. Sampled = [k \in { x \in DOMAIN d : d[x] > 0 } |-> d[k]]
    BY <1>2 DEF Sampled, Positive
  <2>2. DOMAIN d = DOMAIN bytes /\ \A ip \in DOMAIN bytes : d[ip] = Delta(bytes[ip], ip)
    OBVIOUS
  <2> HIDE DEF d
  <2>3. DOMAIN Sampled = { x \in DOMAIN bytes : Delta(bytes[x], x) > 0 }
        /\ \A x \in DOMAIN Sampled : Sampled[x] = Delta(bytes[x], x)
    BY <2>1, <2>2
  <2> QED
    BY <1>1, <1>2, <2>3 DEF Amounts, Base, Counters
<1>3. CASE ~coll.based
  BY <1>3 DEF Sampled, NoCounters, Amounts
<1> QED
  BY <1>2, <1>3

LEMMA SampleSets ==
  ASSUME Base, HistOK(hist), SampleTraffic
  PROVE  \/ rules' = AccountingAdded(nets, rules) /\ UNCHANGED <<coll, hist, booked>> /\ DOMAIN bytes = {}
         \/ /\ coll' = [based |-> TRUE, prev |-> bytes] /\ UNCHANGED rules
            /\ booked' = [ip \in Ips |->
                            booked[ip] + IF ip \in DOMAIN Sampled THEN Sampled[ip] ELSE 0]
            /\ hist' = [mem |-> [r \in HistRes |-> BucketAdd(hist.mem[r], r, now, Sampled)],
                        dirty |-> hist.dirty \/ DOMAIN Sampled # {}, file |-> hist.file,
                        todo |-> hist.todo, partial |-> hist.partial, torn |-> hist.torn]
<1>1. CASE DOMAIN bytes = {}
  BY <1>1 DEF SampleTraffic, EnsureAccounting
<1>2. CASE DOMAIN bytes # {}
  <2> DEFINE m == [r \in HistRes |-> BucketAdd(hist.mem[r], r, now, Sampled)]
             d == hist.dirty \/ DOMAIN Sampled # {}
  <2>1. hist' = [hist EXCEPT !.mem = m, !.dirty = d]
    BY <1>2 DEF SampleTraffic
  <2>2. d \in BOOLEAN
    BY DEF HistOK, StoreShape
  <2> HIDE DEF m, d
  <2>3. hist' = [mem |-> m, dirty |-> d, file |-> hist.file,
                 todo |-> hist.todo, partial |-> hist.partial, torn |-> hist.torn]
    BY <2>1, <2>2 DEF HistOK, StoreShape
  <2> QED
    BY <1>2, <2>3 DEF SampleTraffic, m, d
<1> QED
  BY <1>1, <1>2

BaseVars == <<nets, now, rules, bytes, sent, counted, booked, coll, left, run, saving>>

LEMMA BaseBegins == ASSUME Init PROVE Base
  BY NoRulesType, NoPrevType, TrafficAssumption DEF Init, Base, ScenarioType

LEMMA ForwardBase ==
  ASSUME Base, NEW ip \in Ips, Forward(ip)
  PROVE  Base'
<1>1. left' \in ScenarioType
  BY Scenario DEF Base, Forward
<1>2. rules[ip] \in Nat /\ sent[ip] \in Nat /\ counted[ip] \in Nat
  BY TrafficAssumption DEF Base
<1>3. sent' \in [Ips -> Nat] /\ counted' \in [Ips -> Nat]
  BY <1>2 DEF Base, Forward
<1>4. Counters(bytes')
  <2> DEFINE n == (IF ip \in DOMAIN bytes THEN bytes[ip] ELSE 0) + rules[ip]
  <2>1. n \in Nat
    BY <1>2 DEF Base, Counters
  <2>2. bytes' = bytes \/ bytes' = With(bytes, ip, n)
    BY DEF Forward
  <2> HIDE DEF n
  <2> QED
    BY <2>1, <2>2 DEF Base, Counters, With
<1>5. UNCHANGED <<nets, now, rules, booked, coll, run, saving>>
  BY DEF Forward, storeVars, loopVars
<1> QED
  BY <1>1, <1>3, <1>4, <1>5 DEF Base

LEMMA BaseStep ==
  ASSUME Base, HistOK(hist), Next
  PROVE  Base'
<1>1. ASSUME NEW ip \in Ips, Expire(ip) PROVE Base'
  <2>1. left' \in ScenarioType
    BY <1>1, Scenario DEF Base, Expire, Disturb
  <2>2. Counters(bytes')
    BY <1>1 DEF Base, Counters, Expire
  <2> QED
    BY <1>1, <2>1, <2>2 DEF Base, Expire, storeVars, loopVars
<1>2. ASSUME NEW local \in SUBSET Ips, Apply(local) PROVE Base'
  <2>1. left' \in ScenarioType
    BY <1>2, Scenario DEF Base, Apply, Disturb
  <2>2. rules' \in [Ips -> 0 .. MaxRules] /\ Counters(bytes')
    BY <1>2, NoRulesType, RulesAdded DEF Apply, TableAfterApply
  <2> QED
    BY <1>2, <2>1, <2>2 DEF Base, Apply, storeVars, loopVars
<1>3. CASE ReapplyNftablesOnly
  <2>1. left' \in ScenarioType
    BY <1>3, Scenario DEF Base, ReapplyNftablesOnly, Disturb
  <2> QED
    BY <1>3, <2>1, NoRulesType DEF Base, ReapplyNftablesOnly, storeVars, loopVars
<1>4. CASE Tick
  <2>0. UNCHANGED <<nets, bytes, sent, counted, run, saving, now, left>> /\ SampleTraffic
    BY <1>4 DEF Tick, loopVars
  <2>1. CASE rules' = AccountingAdded(nets, rules) /\ UNCHANGED <<coll, hist, booked>>
    <3>1. rules' \in [Ips -> 0 .. MaxRules]
      BY <2>1, RulesAdded DEF Base
    <3> QED
      BY <2>0, <2>1, <3>1 DEF Base
  <2>2. CASE /\ coll' = [based |-> TRUE, prev |-> bytes] /\ UNCHANGED rules
             /\ booked' = [ip \in Ips |->
                             booked[ip] + IF ip \in DOMAIN Sampled THEN Sampled[ip] ELSE 0]
    <3>1. coll'.based = TRUE /\ coll'.prev = bytes
          /\ coll' = [based |-> coll'.based, prev |-> coll'.prev]
      BY <2>2
    <3>2. CollType(coll')
      BY <3>1 DEF Base, CollType
    <3>3. \A ip \in Ips : booked[ip] + (IF ip \in DOMAIN Sampled THEN Sampled[ip] ELSE 0) \in Nat
      BY SampledType DEF Base, Amounts
    <3>4. booked' \in [Ips -> Nat]
      BY <2>2, <3>3
    <3> QED
      BY <2>0, <2>2, <3>2, <3>4 DEF Base
  <2> QED
    BY <2>0, <2>1, <2>2, SampleSets
<1>5. CASE Prune
  BY <1>5 DEF Prune, Base, kernelVars, loopVars
<1>6. CASE SaveBegin
  BY <1>6 DEF SaveBegin, Base, kernelVars
<1>7. CASE SaveFile
  BY <1>7 DEF SaveFile, Base, kernelVars
<1>8. CASE SaveFails
  <2>1. left' \in ScenarioType
    BY <1>8, Scenario DEF Base, SaveFails, Disturb
  <2> QED
    BY <1>8, <2>1 DEF SaveFails, Base, kernelVars
<1>9. CASE Stop
  <2>1. left' \in ScenarioType
    BY <1>9, Scenario DEF Base, Stop, Disturb
  <2> QED
    BY <1>9, <2>1 DEF Stop, Base, kernelVars, storeVars
<1>10. ASSUME NEW reboot \in BOOLEAN, Exit(reboot) PROVE Base'
  <2>1. left' \in ScenarioType
    BY <1>10, Scenario DEF Base, Exit, Disturb
  <2>2. rules' \in [Ips -> 0 .. MaxRules] /\ Counters(bytes')
    BY <1>10, NoRulesType DEF Exit, Base
  <2> QED
    BY <1>10, <2>1, <2>2 DEF Exit, Base, storeVars
<1>11. CASE Start
  <2>1. rules' \in [Ips -> 0 .. MaxRules] /\ Counters(bytes')
    BY <1>11, NoRulesType, RulesAdded DEF Start
  <2> QED
    BY <1>11, <2>1, NoPrevType DEF Start, Base
<1>12. CASE Pass
  <2>1. left' \in ScenarioType
    BY <1>12, Scenario DEF Base, Pass
  <2> QED
    BY <1>12, <2>1 DEF Pass, Base, kernelVars, storeVars, loopVars
<1>13. CASE ClockSetBack
  <2>1. left' \in ScenarioType
    BY <1>13, Scenario DEF Base, ClockSetBack, Disturb
  <2> QED
    BY <1>13, <2>1 DEF ClockSetBack, Base, kernelVars, storeVars, loopVars
<1>14. CASE Suricata
  <2>1. left' \in ScenarioType
    BY <1>14, Scenario DEF Base, Suricata, Disturb
  <2> QED
    BY <1>14, <2>1 DEF Suricata, Base, kernelVars, storeVars, loopVars
<1> QED
  BY <1>1, <1>2, <1>3, <1>4, <1>5, <1>6, <1>7, <1>8, <1>9, <1>10, <1>11, <1>12, <1>13, <1>14,
     ForwardBase DEF Next

-----------------------------------------------------------------------------
(* What the next sample will book, with what has been booked, was counted. *)
Pending(ip) ==
    IF coll.based /\ ip \in DOMAIN bytes THEN Delta(bytes[ip], ip) ELSE 0

CountInv == \A ip \in Ips : booked[ip] + Pending(ip) <= counted[ip]

LEMMA PendingType ==
  ASSUME Base, NEW ip \in Ips
  PROVE  Pending(ip) \in Nat /\ booked[ip] \in Nat /\ counted[ip] \in Nat
  BY DeltaType DEF Base, Counters, Pending

LEMMA CountBegins == ASSUME Init PROVE CountInv
  BY NoPrevType DEF Init, CountInv, Pending, NoRules

LEMMA ForwardCounts ==
  ASSUME Base, CountInv, NEW ip \in Ips, Forward(ip)
  PROVE  CountInv'
<1>0. booked' = booked /\ coll' = coll /\ rules[ip] \in Nat
      /\ counted' = [counted EXCEPT ![ip] = @ + rules[ip]]
  BY TrafficAssumption DEF Base, Forward, storeVars
<1> DEFINE o == IF ip \in DOMAIN bytes THEN bytes[ip] ELSE 0
<1>1. o \in Nat
  BY DEF Base, Counters
<1> SUFFICES ASSUME NEW x \in Ips PROVE booked'[x] + Pending(x)' <= counted'[x]
  BY DEF CountInv
<1>2. Pending(x) \in Nat /\ booked[x] \in Nat /\ counted[x] \in Nat /\ booked[x] + Pending(x) <= counted[x]
  BY PendingType DEF CountInv
<1>3. CASE rules[ip] = 0
  <2>1. bytes' = bytes
    BY <1>3 DEF Forward
  <2>2. counted'[x] = counted[x]
    BY <1>0, <1>2, <1>3 DEF Base
  <2> QED
    BY <1>0, <1>2, <2>1, <2>2 DEF Pending, Delta
<1>4. CASE rules[ip] # 0
  <2>1. bytes' = With(bytes, ip, o + rules[ip])
    BY <1>4 DEF Forward
  <2> HIDE DEF o
  <2>2. CASE x # ip
    <3>1. (x \in DOMAIN bytes' <=> x \in DOMAIN bytes) /\ (x \in DOMAIN bytes => bytes'[x] = bytes[x])
      BY <2>1, <2>2 DEF With
    <3>2. counted'[x] = counted[x]
      BY <1>0, <2>2 DEF Base
    <3> QED
      BY <1>0, <1>2, <3>1, <3>2 DEF Pending, Delta
  <2>3. CASE x = ip
    <3>1. x \in DOMAIN bytes' /\ bytes'[x] = o + rules[ip]
      BY <2>1, <2>3 DEF With
    <3>2. counted'[x] = counted[x] + rules[ip]
      BY <1>0, <2>3 DEF Base
    <3>3. CASE ~coll.based
      <4>1. Pending(x)' = 0
        BY <1>0, <3>3 DEF Pending
      <4>2. Pending(x) = 0
        BY <3>3 DEF Pending
      <4> QED
        BY <1>0, <1>2, <3>2, <4>1, <4>2
    <3>4. CASE coll.based
      <4>1. Pending(x)' = Delta(o + rules[ip], x)
        BY <1>0, <3>1, <3>4 DEF Pending, Delta
      <4>2. Delta(o + rules[ip], x) <= Pending(x) + rules[ip] /\ Delta(o + rules[ip], x) \in Nat
        <5>1. x \in DOMAIN bytes => o = bytes[x] /\ Pending(x) = Delta(o, x)
          BY <2>3, <3>4 DEF o, Pending
        <5>2. x \notin DOMAIN bytes => o = 0 /\ Pending(x) = 0
          BY <2>3 DEF o, Pending
        <5>3. x \in DOMAIN coll.prev => coll.prev[x] \in Nat
          BY DEF Base, CollType, Counters
        <5>4. Delta(o + rules[ip], x) <= Delta(o, x) + rules[ip] /\ Delta(o, x) <= o
          BY <1>0, <1>1, <5>3 DEF Delta
        <5>5. Delta(o + rules[ip], x) \in Nat /\ Delta(o, x) \in Nat
          BY <1>0, <1>1, <5>3 DEF Delta
        <5> QED
          BY <1>0, <1>1, <1>2, <5>1, <5>2, <5>4, <5>5
      <4> QED
        BY <1>0, <1>2, <3>2, <4>1, <4>2
    <3> QED
      BY <3>3, <3>4
  <2> QED
    BY <2>2, <2>3
<1> QED
  BY <1>3, <1>4

LEMMA CountStep ==
  ASSUME Base, HistOK(hist), CountInv, Next
  PROVE  CountInv'
<1>0. \A ip \in Ips : Pending(ip) \in Nat /\ booked[ip] \in Nat /\ counted[ip] \in Nat
                      /\ booked[ip] + Pending(ip) <= counted[ip]
  BY PendingType DEF CountInv
<1>a. ASSUME UNCHANGED <<booked, counted, coll>>, \A ip \in DOMAIN bytes' : ip \in DOMAIN bytes /\ bytes'[ip] = bytes[ip]
      PROVE  CountInv'
  <2>1. \A ip \in Ips : Pending(ip)' = Pending(ip) \/ Pending(ip)' = 0
    BY <1>a DEF Pending, Delta
  <2> QED
    BY <1>0, <1>a, <2>1 DEF CountInv
<1>n. DOMAIN NoCounters = {}
  BY DEF NoCounters
<1>1. ASSUME NEW ip \in Ips, Expire(ip) PROVE CountInv'
  BY <1>1, <1>a DEF Expire, storeVars
<1>2. ASSUME NEW local \in SUBSET Ips, Apply(local) PROVE CountInv'
  BY <1>2, <1>a, <1>n DEF Apply, TableAfterApply, storeVars
<1>3. CASE ReapplyNftablesOnly
  BY <1>3, <1>a, <1>n DEF ReapplyNftablesOnly, storeVars
<1>4. CASE Tick
  <2>0. UNCHANGED <<bytes, counted>> /\ SampleTraffic
    BY <1>4 DEF Tick
  <2>1. CASE UNCHANGED <<coll, booked>>
    BY <1>a, <2>0, <2>1
  <2>2. CASE /\ coll' = [based |-> TRUE, prev |-> bytes]
             /\ booked' = [ip \in Ips |->
                             booked[ip] + IF ip \in DOMAIN Sampled THEN Sampled[ip] ELSE 0]
    <3> SUFFICES ASSUME NEW ip \in Ips PROVE booked'[ip] + Pending(ip)' <= counted'[ip]
      BY DEF CountInv
    <3>1. booked'[ip] = booked[ip] + Pending(ip)
      BY <2>2, SampledType DEF Pending
    <3>2. Pending(ip)' = 0
      <4>1. coll'.prev = bytes
        BY <2>2
      <4>2. ip \in DOMAIN bytes => bytes[ip] \in Nat
        BY DEF Base, Counters
      <4>3. ip \in DOMAIN bytes => Delta(bytes[ip], ip)' = 0
        BY <2>0, <4>1, <4>2 DEF Delta
      <4> QED
        BY <2>0, <4>3 DEF Pending
    <3> QED
      BY <1>0, <2>0, <3>1, <3>2
  <2> QED
    BY <2>0, <2>1, <2>2, SampleSets
<1>5. CASE Prune \/ SaveBegin \/ SaveFile \/ SaveFails \/ Stop \/ Pass \/ ClockSetBack \/ Suricata
  <2>1. UNCHANGED <<booked, counted, coll, bytes>>
    BY <1>5 DEF Prune, SaveBegin, SaveFile, SaveFails, Stop, Pass, ClockSetBack, Suricata,
                kernelVars, storeVars
  <2> QED
    BY <1>a, <2>1
<1>6. ASSUME NEW reboot \in BOOLEAN, Exit(reboot) PROVE CountInv'
  BY <1>6, <1>a, <1>n DEF Exit, storeVars
<1>7. CASE Start
  <2>1. coll' = NoPrev /\ UNCHANGED <<booked, counted>>
    BY <1>7 DEF Start
  <2>2. \A ip \in Ips : Pending(ip)' = 0
    BY <2>1, NoPrevType DEF Pending
  <2> QED
    BY <1>0, <2>1, <2>2 DEF CountInv
<1> QED
  BY <1>1, <1>2, <1>3, <1>4, <1>5, <1>6, <1>7, ForwardCounts DEF Next

-----------------------------------------------------------------------------
Main == Base /\ HistOK(hist) /\ CatsOK(cats) /\ EveInv

LEMMA NothingAdded ==
  ASSUME NEW b, IsMap(b), NEW r, NEW t, NEW amounts, DOMAIN amounts = {}
  PROVE  BucketAdd(b, r, t, amounts) = b
<1>1. BucketAdd(b, r, t, amounts) = [k \in DOMAIN b |-> b[k]]
  BY DEF BucketAdd
<1> QED
  BY <1>1 DEF IsMap

(* A round of the loop, as seen by the history.                            *)
LEMMA SampledHist ==
  ASSUME Base, HistOK(hist), SampleTraffic
  PROVE  /\ HistOK(hist') /\ hist'.todo = hist.todo /\ hist'.partial = hist.partial
         /\ hist'.file = hist.file /\ hist'.torn = hist.torn
         /\ hist'.dirty \/ (~hist.dirty /\ hist'.mem = hist.mem)
         /\ \/ hist' = hist /\ UNCHANGED booked
            \/ /\ hist'.mem = [r \in HistRes |-> BucketAdd(hist.mem[r], r, now, Sampled)]
               /\ booked' = [ip \in Ips |->
                              booked[ip] + IF ip \in DOMAIN Sampled THEN Sampled[ip] ELSE 0]
<1>1. CASE UNCHANGED <<hist, booked>>
  <2>1. hist.dirty \in BOOLEAN
    BY DEF HistOK, StoreShape
  <2>2. hist'.dirty \/ (~hist.dirty /\ hist'.mem = hist.mem)
    BY <1>1, <2>1
  <2> QED
    BY <1>1, <2>2
<1>2. ASSUME hist' = [mem |-> [r \in HistRes |-> BucketAdd(hist.mem[r], r, now, Sampled)],
                      dirty |-> hist.dirty \/ DOMAIN Sampled # {}, file |-> hist.file,
                      todo |-> hist.todo, partial |-> hist.partial, torn |-> hist.torn],
             booked' = [ip \in Ips |->
                         booked[ip] + IF ip \in DOMAIN Sampled THEN Sampled[ip] ELSE 0]
      PROVE  /\ HistOK(hist') /\ hist'.todo = hist.todo /\ hist'.partial = hist.partial
             /\ hist'.file = hist.file /\ hist'.torn = hist.torn
             /\ hist'.dirty \/ (~hist.dirty /\ hist'.mem = hist.mem)
             /\ hist'.mem = [r \in HistRes |-> BucketAdd(hist.mem[r], r, now, Sampled)]
  <2> DEFINE m == [r \in HistRes |-> BucketAdd(hist.mem[r], r, now, Sampled)]
             d == hist.dirty \/ DOMAIN Sampled # {}
  <2>1. d \in BOOLEAN /\ hist.partial \in BOOLEAN /\ hist.torn \in BOOLEAN
    BY DEF HistOK, StoreShape
  <2>2. IsMap(m) /\ DOMAIN m = HistRes
    BY DEF IsMap
  <2>3. ASSUME NEW r \in HistRes PROVE Rings(m[r], r) /\ DOMAIN m[r] \subseteq Ips
    <3>1. r \in DOMAIN Interval /\ Rings(hist.mem[r], r) /\ DOMAIN hist.mem[r] \subseteq Ips
      BY TrafficAssumption DEF HistOK, HistMem
    <3>2. Amounts(Sampled) /\ DOMAIN Sampled \subseteq Ips /\ now \in Nat
      BY SampledType DEF Base
    <3>3. m[r] = BucketAdd(hist.mem[r], r, now, Sampled)
      OBVIOUS
    <3> HIDE DEF m
    <3>4. Rings(m[r], r) /\ DOMAIN m[r] = DOMAIN hist.mem[r] \cup DOMAIN Sampled
      <4> DEFINE b == hist.mem[r]
                 a == Sampled
      <4>1. m[r] = BucketAdd(b, r, now, a) /\ Rings(b, r) /\ Amounts(a) /\ now \in Nat
            /\ r \in DOMAIN Interval
        BY <3>1, <3>2, <3>3
      <4> HIDE DEF a, b
      <4>2. Rings(m[r], r) /\ DOMAIN m[r] = DOMAIN b \cup DOMAIN a
        <5>1. Rings(BucketAdd(b, r, now, a), r)
          BY <4>1, AddedAreRings
        <5>2. DOMAIN BucketAdd(b, r, now, a) = DOMAIN b \cup DOMAIN a
          BY DEF BucketAdd
        <5> QED
          BY <4>1, <5>1, <5>2
      <4> QED
        BY <4>2 DEF a, b
    <3> QED
      BY <3>1, <3>2, <3>4
  <2>4. ASSUME DOMAIN Sampled = {} PROVE m = hist.mem
    <3>1. \A r \in HistRes : IsMap(hist.mem[r])
      BY DEF HistOK, HistMem, Rings
    <3>2. \A r \in HistRes : m[r] = hist.mem[r]
      BY <2>4, <3>1, NothingAdded
    <3>3. m = [r \in HistRes |-> m[r]] /\ hist.mem = [r \in HistRes |-> hist.mem[r]]
      BY <2>2 DEF IsMap, HistOK, StoreShape
    <3> HIDE DEF m
    <3> QED
      BY <3>2, <3>3
  <2>5. hist.dirty \in BOOLEAN /\ (d <=> hist.dirty \/ DOMAIN Sampled # {})
    BY DEF HistOK, StoreShape
  <2>6. hist' = [mem |-> m, dirty |-> d, file |-> hist.file,
                 todo |-> hist.todo, partial |-> hist.partial, torn |-> hist.torn]
    BY <1>2
  <2> HIDE DEF m, d
  <2>7. /\ hist'.mem = m /\ hist'.dirty = d /\ hist'.file = hist.file /\ hist'.todo = hist.todo
        /\ hist'.partial = hist.partial /\ hist'.torn = hist.torn
        /\ hist' = [mem |-> hist'.mem, dirty |-> hist'.dirty, file |-> hist'.file,
                    todo |-> hist'.todo, partial |-> hist'.partial, torn |-> hist'.torn]
    <3> DEFINE h == hist'
               p == hist.partial
               q == hist.torn
    <3> HIDE DEF h, p, q
    <3>1. h = [mem |-> m, dirty |-> d, file |-> hist.file,
                 todo |-> hist.todo, partial |-> p, torn |-> q] /\ p \in BOOLEAN /\ q \in BOOLEAN
      BY <2>1, <2>6 DEF h, p, q
    <3>2. /\ h.mem = m /\ h.dirty = d /\ h.file = hist.file /\ h.todo = hist.todo
          /\ h.partial = p /\ h.torn = q
          /\ h = [mem |-> h.mem, dirty |-> h.dirty, file |-> h.file,
                    todo |-> h.todo, partial |-> h.partial, torn |-> h.torn]
      BY <2>1, <3>1, StoreFields
    <3> QED
      BY <3>2 DEF h, p, q
  <2>8. HistOK(hist')
    BY <2>1, <2>2, <2>3, <2>7 DEF HistOK, StoreShape, HistMem
  <2> QED
    BY <2>4, <2>5, <2>7, <2>8 DEF m
<1> QED
  BY <1>1, <1>2, SampleSets

(* And as seen by the categories.                                          *)
LEMMA HitsCounted ==
  ASSUME NEW hits \in Seq(HitType), NEW key
  PROVE  HitsOf(hits, key) \in Nat
<1>1. Len(hits) \in Nat
  OBVIOUS
<1>2. IsFiniteSet(1 .. Len(hits))
  BY <1>1, FS_Interval
<1> QED
  BY <1>2, FS_Subset, FS_CardinalityType DEF HitsOf

LEMMA BookedCats ==
  ASSUME CatsOK(cats), now \in Nat, NEW hits \in Seq(HitType)
  PROVE  LET c == CatsBooked(hits)
         IN  /\ CatsOK(c) /\ c.todo = cats.todo /\ c.partial = cats.partial
             /\ c.file = cats.file /\ c.torn = cats.torn
             /\ c.dirty \/ (~cats.dirty /\ c.mem = cats.mem)
<1> DEFINE amounts == [k \in { CatKey(hits[i]) : i \in 1 .. Len(hits) } |-> HitsOf(hits, k)]
           m == [r \in CatFiles |->
                      IF r = Domains THEN DomainsAdded(cats.mem[r], hits)[Len(hits)]
                      ELSE BucketAdd(cats.mem[r], r, now, amounts)]
           d == cats.dirty \/ hits # <<>>
           c == [cats EXCEPT !.mem = m, !.dirty = d]
<1>0. Amounts(amounts)
  BY HitsCounted DEF Amounts
<1>e. hits = <<>> => DOMAIN amounts = {}
  OBVIOUS
<1> HIDE DEF amounts
<1>1. d \in BOOLEAN /\ cats.dirty \in BOOLEAN /\ cats.partial \in BOOLEAN /\ cats.torn \in BOOLEAN
      /\ (d <=> cats.dirty \/ hits # <<>>)
  BY DEF CatsOK, StoreShape
<1>2. IsMap(m) /\ DOMAIN m = CatFiles
  BY DEF IsMap
<1>3. ASSUME NEW r \in CatRes PROVE Rings(m[r], r)
  <2>1. r \in DOMAIN Interval /\ r # Domains /\ r \in CatFiles /\ Rings(cats.mem[r], r)
    BY TrafficAssumption DEF CatsOK, CatMem, CatFiles
  <2>2. m[r] = BucketAdd(cats.mem[r], r, now, amounts)
    BY <2>1
  <2> QED
    BY <1>0, <2>1, <2>2, AddedAreRings
<1>4. DomainLists(m[Domains])
  <2>1. m[Domains] = DomainsAdded(cats.mem[Domains], hits)[Len(hits)]
    BY DEF CatFiles
  <2> QED
    BY <2>1, DomainsAddedOK DEF CatsOK, CatMem
<1>5. ASSUME hits = <<>> PROVE m = cats.mem
  <2>1. ASSUME NEW r \in CatFiles PROVE m[r] = cats.mem[r]
    <3>1. CASE r = Domains
      <4>1. Len(hits) = 0
        BY <1>5
      <4>2. DomainsTable(cats.mem[r], hits, DomainsAdded(cats.mem[r], hits), 0)
        BY <4>1, DomainsTableExists
      <4>3. DomainsAdded(cats.mem[r], hits)[0] = cats.mem[r]
        <5> DEFINE it == DomainsAdded(cats.mem[r], hits)
        <5> HIDE DEF it
        <5>1. it = [i \in 0 .. 0 |-> IF i = 0 THEN cats.mem[r] ELSE DomainAdd(it[i - 1], hits[i])]
          BY <4>2 DEF DomainsTable, it
        <5>2. it[0] = cats.mem[r]
          BY <5>1
        <5> QED
          BY <5>2 DEF it
      <4> QED
        BY <3>1, <4>1, <4>3
    <3>2. CASE r # Domains
      <4>1. r \in CatRes
        BY <3>2 DEF CatFiles
      <4>2. IsMap(cats.mem[r])
        BY <4>1 DEF CatsOK, CatMem, Rings
      <4>3. m[r] = BucketAdd(cats.mem[r], r, now, amounts)
        BY <3>2
      <4> QED
        BY <1>5, <1>e, <4>2, <4>3, NothingAdded
    <3> QED
      BY <3>1, <3>2
  <2>2. m = [r \in CatFiles |-> m[r]] /\ cats.mem = [r \in CatFiles |-> cats.mem[r]]
    BY <1>2 DEF IsMap, CatsOK, StoreShape
  <2> HIDE DEF m
  <2> QED
    BY <2>1, <2>2
<1>6. CatsBooked(hits) = c
  BY DEF CatsBooked, amounts, CatsOK, CatMem
<1> HIDE DEF m, d
<1>7. c = [mem |-> m, dirty |-> d, file |-> cats.file,
           todo |-> cats.todo, partial |-> cats.partial, torn |-> cats.torn]
  <2>1. cats = [mem |-> cats.mem, dirty |-> cats.dirty, file |-> cats.file,
                todo |-> cats.todo, partial |-> cats.partial, torn |-> cats.torn]
    BY DEF CatsOK, StoreShape
  <2>2. DOMAIN cats = {"mem", "dirty", "file", "todo", "partial", "torn"}
    BY <2>1
  <2>3. c = [f \in DOMAIN cats |-> c[f]]
    OBVIOUS
  <2>4. /\ c.mem = m /\ c.dirty = d /\ c.file = cats.file /\ c.todo = cats.todo
        /\ c.partial = cats.partial /\ c.torn = cats.torn
    BY <2>2
  <2> HIDE DEF c
  <2> QED
    BY <1>1, <2>2, <2>3, <2>4
<1> HIDE DEF c
<1>8. /\ c.mem = m /\ c.dirty = d /\ c.file = cats.file /\ c.todo = cats.todo
      /\ c.partial = cats.partial /\ c.torn = cats.torn
      /\ c = [mem |-> c.mem, dirty |-> c.dirty, file |-> c.file, todo |-> c.todo,
              partial |-> c.partial, torn |-> c.torn]
  <2> DEFINE p == cats.partial
             q == cats.torn
  <2> HIDE DEF p, q
  <2>1. c = [mem |-> m, dirty |-> d, file |-> cats.file, todo |-> cats.todo, partial |-> p, torn |-> q]
        /\ p \in BOOLEAN /\ q \in BOOLEAN
    BY <1>1, <1>7 DEF p, q
  <2>2. /\ c.mem = m /\ c.dirty = d /\ c.file = cats.file /\ c.todo = cats.todo
        /\ c.partial = p /\ c.torn = q
        /\ c = [mem |-> c.mem, dirty |-> c.dirty, file |-> c.file, todo |-> c.todo,
                partial |-> c.partial, torn |-> c.torn]
    BY <1>1, <2>1, StoreFields
  <2> QED
    BY <2>2 DEF p, q
<1>9. CatsOK(c)
  BY <1>1, <1>2, <1>3, <1>4, <1>8 DEF CatsOK, StoreShape, CatMem
<1> QED
  BY <1>1, <1>5, <1>6, <1>8, <1>9

LEMMA ClassifiedCats ==
  ASSUME Main, ClassifyTraffic
  PROVE  /\ CatsOK(cats') /\ cats'.todo = cats.todo /\ cats'.partial = cats.partial
         /\ cats'.file = cats.file /\ cats'.torn = cats.torn
         /\ cats'.dirty \/ (~cats.dirty /\ cats'.mem = cats.mem)
<1>1. CASE cats' = CatsBooked(Hits)
  <2>1. Hits \in Seq(HitType)
    BY HitsOK DEF Main, EveInv
  <2> QED
    BY <1>1, <2>1, BookedCats DEF Main, Base
<1>2. CASE UNCHANGED cats
  <2>1. cats.dirty \in BOOLEAN
    BY DEF Main, CatsOK, StoreShape
  <2>2. cats'.dirty \/ (~cats.dirty /\ cats'.mem = cats.mem)
    BY <1>2, <2>1
  <2> QED
    BY <1>2, <2>2 DEF Main
<1> QED
  BY <1>1, <1>2 DEF ClassifyTraffic

(* A prune drops series of the history.                                    *)
LEMMA PrunedHist ==
  ASSUME HistOK(hist), Prune
  PROVE  /\ HistOK(hist') /\ hist'.todo = hist.todo /\ hist'.partial = hist.partial
         /\ hist'.file = hist.file /\ hist'.torn = hist.torn
         /\ hist'.dirty \/ (~hist.dirty /\ hist'.mem = hist.mem)
         /\ hist'.mem = [r \in HistRes |-> Kept(hist.mem[r], r, now, MaxAge)]
<1> DEFINE m == [r \in HistRes |-> Kept(hist.mem[r], r, now, MaxAge)]
           d == DirtyAfterPrune(m)
<1>1. d \in BOOLEAN /\ hist.dirty \in BOOLEAN /\ (d <=> hist.dirty \/ m # hist.mem)
      /\ hist.partial \in BOOLEAN /\ hist.torn \in BOOLEAN
  BY DEF HistOK, StoreShape, DirtyAfterPrune
<1>2. IsMap(m) /\ DOMAIN m = HistRes
  BY DEF IsMap
<1>3. ASSUME NEW r \in HistRes PROVE Rings(m[r], r) /\ DOMAIN m[r] \subseteq Ips
  <2>1. m[r] = Kept(hist.mem[r], r, now, MaxAge)
    OBVIOUS
  <2>2. Rings(hist.mem[r], r) /\ DOMAIN hist.mem[r] \subseteq Ips
    BY DEF HistOK, HistMem
  <2> QED
    BY <2>1, <2>2, KeptAreRings
<1>4. hist' = [hist EXCEPT !.mem = m, !.dirty = d]
  BY DEF Prune
<1> HIDE DEF m, d
<1>5. hist' = [mem |-> m, dirty |-> d, file |-> hist.file,
               todo |-> hist.todo, partial |-> hist.partial, torn |-> hist.torn]
  BY <1>1, <1>4 DEF HistOK, StoreShape
<1>6. /\ hist'.mem = m /\ hist'.dirty = d /\ hist'.file = hist.file /\ hist'.todo = hist.todo
      /\ hist'.partial = hist.partial /\ hist'.torn = hist.torn
      /\ hist' = [mem |-> hist'.mem, dirty |-> hist'.dirty, file |-> hist'.file,
                  todo |-> hist'.todo, partial |-> hist'.partial, torn |-> hist'.torn]
  <2> DEFINE h == hist'
             p == hist.partial
             q == hist.torn
  <2> HIDE DEF h, p, q
  <2>1. h = [mem |-> m, dirty |-> d, file |-> hist.file,
               todo |-> hist.todo, partial |-> p, torn |-> q] /\ p \in BOOLEAN /\ q \in BOOLEAN
    BY <1>1, <1>5 DEF h, p, q
  <2>2. /\ h.mem = m /\ h.dirty = d /\ h.file = hist.file /\ h.todo = hist.todo
        /\ h.partial = p /\ h.torn = q
        /\ h = [mem |-> h.mem, dirty |-> h.dirty, file |-> h.file,
                  todo |-> h.todo, partial |-> h.partial, torn |-> h.torn]
    BY <1>1, <2>1, StoreFields
  <2> QED
    BY <2>2 DEF h, p, q
<1>7. HistOK(hist')
  BY <1>1, <1>2, <1>3, <1>6 DEF HistOK, StoreShape, HistMem
<1> QED
  BY <1>1, <1>6, <1>7 DEF m

-----------------------------------------------------------------------------
(* A store that is not dirty has in its files what it has in memory, but   *)
(* for the files that a save under way has still to write.                 *)
SavedPart(st, names) ==
    ~st.dirty /\ (st.todo # {} \/ ~st.partial) =>
      \A r \in names \ st.todo : st.file[r] = st.mem[r]

Unfinished(st) == st.todo # {} => st.partial

SaveInv ==
    /\ Unfinished(hist) /\ Unfinished(cats)
    /\ run # "down" =>
         /\ hist.todo # {} => saving = "hist"
         /\ cats.todo # {} => saving = "cats"
         /\ SavedPart(hist, HistRes) /\ SavedPart(cats, CatFiles)

MarkedIfChanged(st, new) ==
    /\ new.todo = st.todo /\ new.partial = st.partial /\ new.file = st.file
    /\ new.dirty \/ (~st.dirty /\ new.mem = st.mem)

LEMMA KeptSaved ==
  ASSUME NEW st, NEW new, NEW names, MarkedIfChanged(st, new)
  PROVE  /\ Unfinished(st) => Unfinished(new)
         /\ SavedPart(st, names) => SavedPart(new, names)
  BY DEF MarkedIfChanged, Unfinished, SavedPart

LEMMA FileSaved ==
  ASSUME NEW names, NEW st, StoreShape(st, names), NEW r \in st.todo,
         Unfinished(st), SavedPart(st, names)
  PROVE  Unfinished(FileWritten(st, r)) /\ SavedPart(FileWritten(st, r), names)
<1> DEFINE w == FileWritten(st, r)
<1>1. /\ w.mem = st.mem /\ w.dirty = st.dirty /\ w.file = [st.file EXCEPT ![r] = st.mem[r]]
      /\ w.todo = st.todo \ {r} /\ w.partial = (st.todo # {r})
  BY FileStep DEF StoreShape
<1>2. DOMAIN st.file = names /\ r \in names
  BY DEF StoreShape
<1> HIDE DEF w
<1>3. Unfinished(w)
  BY <1>1 DEF Unfinished
<1>4. SavedPart(w, names)
  BY <1>1, <1>2 DEF SavedPart
<1> QED
  BY <1>3, <1>4 DEF w

LEMMA MainBegins == ASSUME Init PROVE Main /\ SaveInv
<1>1. ASSUME NEW names, NEW st, st = EmptyStore(names)
      PROVE  /\ StoreShape(st, names) /\ st.todo = {} /\ st.partial = FALSE
             /\ st.mem = [r \in names |-> Nothing] /\ st.file = [r \in names |-> Nothing]
  <2> DEFINE n == [r \in names |-> Nothing]
  <2>0. IsMap(n) /\ DOMAIN n = names
    BY DEF IsMap
  <2>1. st = [mem |-> n, dirty |-> FALSE, file |-> n, todo |-> {}, partial |-> FALSE, torn |-> FALSE]
    BY <1>1 DEF EmptyStore
  <2> HIDE DEF n
  <2>2. /\ st.mem = n /\ st.dirty = FALSE /\ st.file = n /\ st.todo = {} /\ st.partial = FALSE
        /\ st.torn = FALSE
        /\ st = [mem |-> st.mem, dirty |-> st.dirty, file |-> st.file, todo |-> st.todo,
                 partial |-> st.partial, torn |-> st.torn]
    BY <2>1
  <2>3. StoreShape(st, names)
    BY <2>0, <2>2 DEF StoreShape
  <2> QED
    BY <2>2, <2>3 DEF n
<1>2. \A r : Rings(Nothing, r) /\ DOMAIN Nothing = {} /\ DomainLists(Nothing)
  BY DEF Rings, IsMap, Nothing, DomainLists
<1>3. HistMem([r \in HistRes |-> Nothing]) /\ CatMem([r \in CatFiles |-> Nothing])
  BY <1>2 DEF HistMem, CatMem, CatFiles
<1>4. HistOK(hist) /\ hist.todo = {}
  BY <1>1, <1>3 DEF Init, HistOK
<1>5. CatsOK(cats) /\ cats.todo = {}
  BY <1>1, <1>3 DEF Init, CatsOK
<1>6. run = "down"
  BY DEF Init
<1> QED
  BY <1>4, <1>5, <1>6, BaseBegins, EveBegins DEF Main, SaveInv, Unfinished, Init

LEMMA EveStep ==
  ASSUME Main, Next
  PROVE  EveInv'
<1>1. CASE Tick
  <2>1. UNCHANGED logVars /\ ClassifyTraffic
    BY <1>1 DEF Tick
  <2>2. nets \in SUBSET Ips
    BY DEF Main, Base
  <2>3. CASE reader.made
    BY <2>1, <2>3, LogRead DEF ClassifyTraffic, Main
  <2>4. CASE ~reader.made /\ nets # {}
    BY <2>1, <2>2, <2>4, ReaderReplaced DEF ClassifyTraffic, Main
  <2>5. CASE ~reader.made /\ nets = {}
    <3>1. UNCHANGED eveVars
      BY <2>1, <2>5 DEF ClassifyTraffic, eveVars, logVars
    <3> QED
      BY <3>1, NothingChanged DEF Main
  <2> QED
    BY <2>3, <2>4, <2>5
<1>2. CASE Start
  <2>1. UNCHANGED logVars /\ reader' = NoReader /\ nets \in SUBSET Ips
    BY <1>2 DEF Start, Main, Base
  <2> QED
    BY <2>1, ReaderReplaced DEF Main
<1>3. CASE Suricata
  BY <1>3, SuricataWrites, SuricataFinishes, LogRotates DEF Suricata, Main
<1>4. ASSUME UNCHANGED eveVars PROVE EveInv'
  BY <1>4, NothingChanged DEF Main
<1>5. CASE Prune \/ SaveBegin \/ SaveFile \/ SaveFails \/ Stop \/ Pass \/ ClockSetBack
           \/ ReapplyNftablesOnly
  BY <1>4, <1>5 DEF Prune, SaveBegin, SaveFile, SaveFails, Stop, Pass, ClockSetBack,
     ReapplyNftablesOnly
<1>6. ASSUME NEW ip \in Ips, Forward(ip) \/ Expire(ip) PROVE EveInv'
  BY <1>4, <1>6 DEF Forward, Expire
<1>7. ASSUME NEW local \in SUBSET Ips, Apply(local) PROVE EveInv'
  BY <1>4, <1>7 DEF Apply
<1>8. ASSUME NEW reboot \in BOOLEAN, Exit(reboot) PROVE EveInv'
  BY <1>4, <1>8 DEF Exit
<1> QED
  BY <1>1, <1>2, <1>3, <1>5, <1>6, <1>7, <1>8 DEF Next

StoresOK == HistOK(hist) /\ CatsOK(cats) /\ SaveInv

LEMMA StoresKept ==
  ASSUME StoresOK, UNCHANGED <<hist, cats, saving>>, run' = "down" \/ run # "down"
  PROVE  StoresOK'
  BY DEF StoresOK, SaveInv, HistOK, CatsOK, SavedPart, Unfinished, StoreShape, HistMem, CatMem

LEMMA StoresStep ==
  ASSUME Main, SaveInv, Next
  PROVE  StoresOK'
<1>0. StoresOK
  BY DEF Main, StoresOK
<1>s. StoreShape(hist, HistRes) /\ StoreShape(cats, CatFiles)
      /\ HistMem(hist.mem) /\ HistMem(hist.file) /\ CatMem(cats.mem) /\ CatMem(cats.file)
  BY DEF Main, HistOK, CatsOK
<1>1. CASE Tick
  <2>1. SampleTraffic /\ ClassifyTraffic /\ run = "loop" /\ saving = "no" /\ UNCHANGED <<run, saving>>
    BY <1>1 DEF Tick, loopVars
  <2>2. HistOK(hist') /\ MarkedIfChanged(hist, hist')
    BY <2>1, SampledHist DEF Main, MarkedIfChanged
  <2>3. CatsOK(cats') /\ MarkedIfChanged(cats, cats')
    BY <2>1, ClassifiedCats DEF MarkedIfChanged
  <2>4. /\ Unfinished(hist') /\ SavedPart(hist', HistRes)
        /\ Unfinished(cats') /\ SavedPart(cats', CatFiles)
    BY <2>1, <2>2, <2>3, KeptSaved DEF SaveInv
  <2> QED
    BY <2>1, <2>2, <2>3, <2>4 DEF StoresOK, SaveInv, MarkedIfChanged
<1>2. CASE Prune
  <2>1. run = "loop" /\ saving = "no" /\ UNCHANGED <<run, saving, cats>>
    BY <1>2 DEF Prune, loopVars
  <2>2. HistOK(hist') /\ MarkedIfChanged(hist, hist')
    BY <1>2, PrunedHist DEF Main, MarkedIfChanged
  <2>3. Unfinished(hist') /\ SavedPart(hist', HistRes)
    BY <2>1, <2>2, KeptSaved DEF SaveInv
  <2>4. CatsOK(cats')
    BY <2>1 DEF Main
  <2> QED
    BY <2>1, <2>2, <2>3, <2>4 DEF StoresOK, SaveInv, MarkedIfChanged
<1>3. CASE SaveBegin
  <2>0. run # "down" /\ saving = "no" /\ UNCHANGED run
    BY <1>3 DEF SaveBegin
  <2>1. CASE hist' = SaveBegun(hist) /\ saving' = "hist" /\ UNCHANGED cats
    <3>1. /\ StoreShape(hist', HistRes) /\ hist'.mem = hist.mem /\ hist'.file = hist.file
          /\ hist'.todo = HistRes /\ hist'.partial = TRUE
      BY <1>s, <2>1, SaveBegins
    <3>2. HistOK(hist') /\ CatsOK(cats')
      BY <1>s, <2>1, <3>1 DEF HistOK, Main
    <3>3. Unfinished(hist') /\ SavedPart(hist', HistRes)
      BY <3>1 DEF Unfinished, SavedPart
    <3> QED
      BY <2>0, <2>1, <3>2, <3>3 DEF StoresOK, SaveInv
  <2>2. CASE cats' = SaveBegun(cats) /\ saving' = "cats" /\ UNCHANGED hist
    <3>1. /\ StoreShape(cats', CatFiles) /\ cats'.mem = cats.mem /\ cats'.file = cats.file
          /\ cats'.todo = CatFiles /\ cats'.partial = TRUE
      BY <1>s, <2>2, SaveBegins
    <3>2. HistOK(hist') /\ CatsOK(cats')
      BY <1>s, <2>2, <3>1 DEF CatsOK, Main
    <3>3. Unfinished(cats') /\ SavedPart(cats', CatFiles)
      BY <3>1 DEF Unfinished, SavedPart
    <3> QED
      BY <2>0, <2>2, <3>2, <3>3 DEF StoresOK, SaveInv
  <2> QED
    BY <1>3, <2>1, <2>2 DEF SaveBegin
<1>4. CASE SaveFile
  <2>0. run # "down" /\ UNCHANGED run
    BY <1>4 DEF SaveFile
  <2>1. ASSUME saving = "hist", UNCHANGED cats, NEW r \in hist.todo, hist' = FileWritten(hist, r),
               saving' = IF hist'.todo # {} THEN "hist" ELSE "no"
        PROVE  StoresOK'
    <3>1. r \in HistRes
      BY <1>s DEF StoreShape
    <3>2. /\ StoreShape(hist', HistRes) /\ hist'.mem = hist.mem
          /\ hist'.file = [hist.file EXCEPT ![r] = hist.mem[r]]
      BY <1>s, <2>1, <3>1, FileStep
    <3>3. HistMem(hist'.file)
      BY <1>s, <3>1, <3>2 DEF HistMem
    <3>4. HistOK(hist') /\ CatsOK(cats')
      BY <1>s, <2>1, <3>2, <3>3 DEF HistOK, Main
    <3>5. Unfinished(hist') /\ SavedPart(hist', HistRes)
      BY <1>s, <2>0, <2>1, FileSaved DEF SaveInv
    <3> QED
      BY <2>0, <2>1, <3>4, <3>5 DEF StoresOK, SaveInv
  <2>2. ASSUME saving = "cats", UNCHANGED hist, NEW r \in cats.todo, cats' = FileWritten(cats, r),
               saving' = IF cats'.todo # {} THEN "cats" ELSE "no"
        PROVE  StoresOK'
    <3>1. r \in CatFiles
      BY <1>s DEF StoreShape
    <3>2. /\ StoreShape(cats', CatFiles) /\ cats'.mem = cats.mem
          /\ cats'.file = [cats.file EXCEPT ![r] = cats.mem[r]]
      BY <1>s, <2>2, <3>1, FileStep
    <3>3. CatMem(cats'.file)
      BY <1>s, <3>1, <3>2 DEF CatMem, CatFiles
    <3>4. HistOK(hist') /\ CatsOK(cats')
      BY <1>s, <2>2, <3>2, <3>3 DEF CatsOK, Main
    <3>5. Unfinished(cats') /\ SavedPart(cats', CatFiles)
      BY <1>s, <2>0, <2>2, FileSaved DEF SaveInv
    <3> QED
      BY <2>0, <2>2, <3>4, <3>5 DEF StoresOK, SaveInv
  <2> QED
    BY <1>4, <2>1, <2>2 DEF SaveFile
<1>5. CASE SaveFails
  <2>0. run # "down" /\ UNCHANGED run /\ saving' = "no"
    BY <1>5 DEF SaveFails
  <2>1. CASE saving = "hist" /\ hist' = SaveStopped(hist) /\ UNCHANGED cats
    <3>1. /\ StoreShape(hist', HistRes) /\ hist'.mem = hist.mem /\ hist'.file = hist.file
          /\ hist'.dirty = hist.dirty /\ hist'.todo = {} /\ hist'.partial = hist.partial
      BY <1>s, <2>1, SaveStops
    <3>2. HistOK(hist') /\ CatsOK(cats')
      BY <1>s, <2>1, <3>1 DEF HistOK, Main
    <3>3. Unfinished(hist') /\ SavedPart(hist', HistRes)
      BY <2>0, <3>1 DEF Unfinished, SavedPart, SaveInv
    <3> QED
      BY <2>0, <2>1, <3>1, <3>2, <3>3 DEF StoresOK, SaveInv
  <2>2. CASE saving = "cats" /\ cats' = SaveStopped(cats) /\ UNCHANGED hist
    <3>1. /\ StoreShape(cats', CatFiles) /\ cats'.mem = cats.mem /\ cats'.file = cats.file
          /\ cats'.dirty = cats.dirty /\ cats'.todo = {} /\ cats'.partial = cats.partial
      BY <1>s, <2>2, SaveStops
    <3>2. HistOK(hist') /\ CatsOK(cats')
      BY <1>s, <2>2, <3>1 DEF CatsOK, Main
    <3>3. Unfinished(cats') /\ SavedPart(cats', CatFiles)
      BY <2>0, <3>1 DEF Unfinished, SavedPart, SaveInv
    <3> QED
      BY <2>0, <2>2, <3>1, <3>2, <3>3 DEF StoresOK, SaveInv
  <2> QED
    BY <1>5, <2>1, <2>2 DEF SaveFails
<1>6. CASE Start
  <2>1. /\ StoreShape(hist', HistRes) /\ hist'.mem = hist.file /\ hist'.file = hist.file
        /\ hist'.todo = {}
    BY <1>6, <1>s, StoreLoads DEF Start
  <2>2. /\ StoreShape(cats', CatFiles) /\ cats'.mem = cats.file /\ cats'.file = cats.file
        /\ cats'.todo = {}
    BY <1>6, <1>s, StoreLoads DEF Start
  <2>3. HistOK(hist') /\ CatsOK(cats')
    BY <1>s, <2>1, <2>2 DEF HistOK, CatsOK
  <2> QED
    BY <2>1, <2>2, <2>3 DEF StoresOK, SaveInv, Unfinished, SavedPart
<1>7. ASSUME NEW reboot \in BOOLEAN, Exit(reboot) PROVE StoresOK'
  <2>1. UNCHANGED <<hist, cats>> /\ run' = "down"
    BY <1>7 DEF Exit, storeVars
  <2> QED
    BY <1>0, <2>1 DEF StoresOK, SaveInv, HistOK, CatsOK, Unfinished, StoreShape, HistMem, CatMem
<1>8. CASE ReapplyNftablesOnly \/ Pass \/ ClockSetBack \/ Suricata
  <2>1. UNCHANGED <<hist, cats, run, saving>>
    BY <1>8 DEF ReapplyNftablesOnly, Pass, ClockSetBack, Suricata, storeVars, loopVars
  <2> QED
    BY <1>0, <2>1, StoresKept
<1>9. CASE Stop
  <2>1. UNCHANGED <<hist, cats, saving>> /\ run # "down"
    BY <1>9 DEF Stop, storeVars
  <2> QED
    BY <1>0, <2>1, StoresKept
<1>10. ASSUME NEW ip \in Ips, Forward(ip) \/ Expire(ip) PROVE StoresOK'
  <2>1. UNCHANGED <<hist, cats, run, saving>>
    BY <1>10 DEF Forward, Expire, storeVars, loopVars
  <2> QED
    BY <1>0, <2>1, StoresKept
<1>11. ASSUME NEW local \in SUBSET Ips, Apply(local) PROVE StoresOK'
  <2>1. UNCHANGED <<hist, cats, run, saving>>
    BY <1>11 DEF Apply, storeVars, loopVars
  <2> QED
    BY <1>0, <2>1, StoresKept
<1> QED
  BY <1>1, <1>2, <1>3, <1>4, <1>5, <1>6, <1>7, <1>8, <1>9, <1>10, <1>11 DEF Next

-----------------------------------------------------------------------------
(* Slots of two resolutions.                                               *)
Coarser(j, f, c) == (j * Interval[f]) \div Interval[c]

LEMMA Nested ==
  ASSUME NEW t \in Int, NEW a \in Nat \ {0}, NEW q \in Nat \ {0}, a * q \in Nat \ {0}
  PROVE  ((t \div a) * a) \div (a * q) = t \div (a * q)
<1> DEFINE b == a * q
           d == t \div b
           e == t \div a
           x == e * a
<1>1. d \in Int /\ b * d <= t /\ t < b * d + b /\ e \in Int /\ a * e <= t /\ t < a * e + a
  BY DivBounds
<1>2. b * d = a * (q * d)
  BY <1>1
<1>3. q * d \in Int
  BY <1>1
<1>4. q * d <= e
  <2> DEFINE y == q * d
  <2>1. y \in Int /\ a * y < a * (e + 1)
    BY <1>1, <1>2, <1>3
  <2> HIDE DEF y, e
  <2>2. y < e + 1
    BY <1>1, <2>1
  <2>3. y <= e
    BY <1>1, <2>1, <2>2
  <2> QED
    BY <2>3 DEF y
<1>5. a * (q * d) <= a * e
  <2> DEFINE y == q * d
  <2> HIDE DEF y, e
  <2>1. y \in Int /\ y <= e /\ e \in Int
    BY <1>1, <1>3, <1>4 DEF y
  <2>2. a * y <= a * e
    BY <2>1
  <2> QED
    BY <2>2 DEF y
<1>6. x \in Int /\ x = a * e /\ b * d <= x /\ x < b * d + b
  BY <1>1, <1>2, <1>5
<1> HIDE DEF x, d, b, e
<1>7. x - b * d \in 0 .. b - 1 /\ x = b * d + (x - b * d) /\ b \in Nat \ {0}
  BY <1>1, <1>6 DEF b
<1> DEFINE r == x - b * d
<1> HIDE DEF r
<1>8. r \in 0 .. b - 1 /\ x = b * d + r
  BY <1>7 DEF r
<1>9. (b * d + r) \div b = d
  BY <1>1, <1>7, <1>8, DivOf
<1> QED
  BY <1>8, <1>9 DEF x, d, b, e

FinerOf(f, c) == f \in HistRes /\ c \in HistRes /\ Interval[f] < Interval[c]

LEMMA CoarserSlots ==
  ASSUME NEW f, NEW c, FinerOf(f, c)
  PROVE  /\ f \in DOMAIN Interval /\ c \in DOMAIN Interval
         /\ \A t \in Int : Slot(f, t) \in Int /\ Slot(c, t) \in Int /\ Coarser(Slot(f, t), f, c) = Slot(c, t)
         /\ \A j \in Int : Coarser(j, f, c) \in Int
         /\ \A j, k \in Int : j <= k => Coarser(j, f, c) <= Coarser(k, f, c)
<1> DEFINE a == Interval[f]
           b == Interval[c]
           q == b \div a
<1>1. f \in DOMAIN Interval /\ c \in DOMAIN Interval
  BY TrafficAssumption DEF FinerOf
<1>2. a \in Nat \ {0} /\ b \in Nat \ {0} /\ a < b /\ b % a = 0
  BY <1>1, PointsType, TrafficAssumption DEF FinerOf
<1>3. \A j \in Int : j * a \in Int
  BY <1>2
<1> HIDE DEF a, b
<1>4. q \in Nat /\ b = a * q
  <2>1. b \in Int /\ b \in Nat
    BY <1>2
  <2>2. b = a * (b \div a) + (b % a)
    BY <1>2, <2>1, DivMod
  <2>3. b \div a \in Nat
    BY <1>2, <2>1, DivNat
  <2> QED
    BY <1>2, <2>2, <2>3
<1>5. q \in Nat \ {0}
  BY <1>2, <1>4
<1> HIDE DEF q
<1>6. \A t \in Int : ((t \div a) * a) \div b = t \div b
  BY <1>2, <1>4, <1>5, Nested
<1>7. \A t \in Int : t \div a \in Int /\ t \div b \in Int
  BY <1>2, DivInt
<1>8. \A j \in Int : Coarser(j, f, c) \in Int
  BY <1>2, <1>3, DivInt DEF Coarser, a, b
<1>9. ASSUME NEW j \in Int, NEW k \in Int, j <= k PROVE Coarser(j, f, c) <= Coarser(k, f, c)
  <2>1. j * a <= k * a /\ j * a \in Int /\ k * a \in Int
    BY <1>2, <1>9
  <2>2. (j * a) \div b <= (k * a) \div b
    BY <1>2, <2>1, DivMono
  <2> QED
    BY <2>2 DEF Coarser, a, b
<1> QED
  BY <1>1, <1>6, <1>7, <1>8, <1>9 DEF Coarser, Slot, a, b

-----------------------------------------------------------------------------
(* What was booked in the fine slots inside a coarse one.                  *)
Inside(s, f, c, k) == { j \in DOMAIN s.log : Coarser(j, f, c) = k }

Covers(sf, sc, f, c) == \A k \in Int : Sum(sf.log, Inside(sf, f, c, k)) <= LoggedIn(sc, k)

PairOK(sf, sc, f, c) == sc.last = Coarser(sf.last, f, c) /\ Covers(sf, sc, f, c)

LEMMA LogIsSummable ==
  ASSUME NEW r, NEW s, Ring(s, r)
  PROVE  Summable(s.log) /\ s.last \in Nat /\ (\A k : LoggedIn(s, k) \in Nat)
         /\ DOMAIN s.log \subseteq 0 .. s.last
<1>1. s.last \in Nat /\ \A k \in DOMAIN s.log : k \in 0 .. s.last /\ s.log[k] \in Nat
  BY DEF Ring, MadeOf
<1>2. 0 \in Int /\ s.last \in Int
  BY <1>1
<1>3. IsFiniteSet(0 .. s.last)
  BY <1>2, FS_Interval
<1>4. IsFiniteSet(DOMAIN s.log)
  BY <1>1, <1>3, FS_Subset
<1> QED
  BY <1>1, <1>4 DEF Summable, LoggedIn

LEMMA AddOld ==
  ASSUME NEW r, NEW s, NEW slot, NEW n, slot < s.last
  PROVE  SeriesAdd(s, r, slot, n) = s
  BY DEF SeriesAdd

LEMMA AddNew ==
  ASSUME NEW r \in DOMAIN Interval, NEW s, Ring(s, r), NEW slot \in Nat, NEW n \in Nat,
         ~(slot < s.last)
  PROVE  /\ SeriesAdd(s, r, slot, n).last = slot
         /\ SeriesAdd(s, r, slot, n).log = With(s.log, slot, Min({LoggedIn(s, slot) + n, MaxCount[r]}))
<1> DEFINE a == Advanced(s, r, slot)
           b == SeriesAdd(s, r, slot, n)
           x == Min({LoggedIn(s, slot) + n, MaxCount[r]})
           z == Min({a.pts[slot % Points[r]] + n, MaxCount[r]})
<1>1. s.last \in Nat /\ slot >= s.last
  BY DEF Ring, MadeOf
<1>2. Ring(a, r) /\ a.last = slot /\ a.log = s.log
  BY <1>1, AdvancedIsRing
<1>3. a = [pts |-> a.pts, last |-> slot, log |-> s.log]
  BY <1>2 DEF Ring, MadeOf
<1> HIDE DEF a, x, z
<1>4. b = [a EXCEPT !.pts[slot % Points[r]] = z, !.log = With(a.log, slot, x)]
  BY DEF SeriesAdd, a, x, z
<1> HIDE DEF b
<1>5. b.last = slot /\ b.log = With(s.log, slot, x)
  BY <1>2, <1>3, <1>4
<1> QED
  BY <1>5 DEF b, x

LEMMA WithIsSummable ==
  ASSUME NEW g, Summable(g), NEW y, NEW x \in Nat
  PROVE  /\ Summable(With(g, y, x)) /\ DOMAIN With(g, y, x) = DOMAIN g \cup {y}
         /\ With(g, y, x)[y] = x /\ \A z \in DOMAIN g : z # y => With(g, y, x)[z] = g[z]
<1>1. /\ DOMAIN With(g, y, x) = DOMAIN g \cup {y}
      /\ With(g, y, x)[y] = x /\ \A z \in DOMAIN g : z # y => With(g, y, x)[z] = g[z]
  BY DEF With
<1>2. IsFiniteSet(DOMAIN g \cup {y})
  BY FS_AddElement DEF Summable
<1> QED
  BY <1>1, <1>2 DEF Summable

LEMMA SumOfMore ==
  ASSUME NEW g, Summable(g), NEW y, NEW x \in Nat, NEW I \in SUBSET DOMAIN g
  PROVE  /\ Sum(g, I) \in Nat
         /\ y \notin I => Sum(With(g, y, x), I) = Sum(g, I)
                          /\ Sum(With(g, y, x), I \cup {y}) = Sum(g, I) + x
         /\ y \in I => Sum(With(g, y, x), I) + g[y] = Sum(g, I) + x
<1> DEFINE h == With(g, y, x)
           J == I \ {y}
<1>1. /\ Summable(h) /\ DOMAIN h = DOMAIN g \cup {y} /\ h[y] = x
      /\ \A z \in DOMAIN g : z # y => h[z] = g[z]
  <2>1. Summable(h)
    BY WithIsSummable
  <2> QED
    BY <2>1 DEF With
<1> HIDE DEF h
<1>2. J \in SUBSET DOMAIN g /\ J \subseteq DOMAIN h /\ \A z \in J : g[z] = h[z]
  BY <1>1
<1>3. Sum(g, J) = Sum(h, J) /\ Sum(g, J) \in Nat /\ Sum(g, I) \in Nat
  BY <1>1, <1>2, SumSame, SumNat
<1>4. y \in J \cup {y} /\ (J \cup {y}) \ {y} = J /\ J \cup {y} \in SUBSET DOMAIN h
  BY <1>1
<1>5. Sum(h, J \cup {y}) = x + Sum(h, J)
  BY <1>1, <1>4, SumInsert
<1>6. ASSUME y \notin I PROVE Sum(h, I) = Sum(g, I) /\ Sum(h, I \cup {y}) = Sum(g, I) + x
  <2>1. J = I
    BY <1>6
  <2> HIDE DEF J
  <2> QED
    BY <1>3, <1>5, <2>1
<1>7. ASSUME y \in I PROVE Sum(h, I) + g[y] = Sum(g, I) + x
  <2>1. J \cup {y} = I
    BY <1>7
  <2>2. Sum(g, I) = g[y] + Sum(g, J)
    BY <1>7, SumInsert
  <2>3. g[y] \in Nat
    BY <1>7 DEF Summable
  <2> HIDE DEF J
  <2>4. Sum(h, I) = x + Sum(h, J)
    BY <1>5, <2>1
  <2> QED
    BY <1>3, <2>2, <2>3, <2>4
<1> QED
  BY <1>3, <1>6, <1>7 DEF h

LEMMA NewCovers ==
  ASSUME NEW f, NEW c, NEW r, NEW slot \in Nat, NEW sc, Ring(sc, r)
  PROVE  Covers(NewSeries(f, slot), sc, f, c)
<1> DEFINE n == NewSeries(f, slot)
<1>1. DOMAIN n.log = {}
  BY DEF NewSeries, Nothing
<1> HIDE DEF n
<1>2. IsFiniteSet(DOMAIN n.log)
  BY <1>1, FS_EmptySet
<1>3. Sum(n.log, {}) = 0
  BY <1>2, SumEmpty
<1>4. \A k \in Int : Inside(n, f, c, k) = {}
  BY <1>1 DEF Inside
<1> QED
  BY <1>3, <1>4, LogIsSummable DEF Covers, n

(* Adding the same amount at the same moment to both.                      *)
LEMMA AddPair ==
  ASSUME NEW f, NEW c, FinerOf(f, c), NEW sf, NEW sc, Ring(sf, f), Ring(sc, c),
         Covers(sf, sc, f, c), NEW t \in Nat, NEW n \in Nat,
         sc.last <= Coarser(sf.last, f, c),
         sc.last = Coarser(sf.last, f, c) \/ sf.last <= Slot(f, t),
         LoggedIn(sc, Slot(c, t)) + n <= MaxCount[c]
  PROVE  PairOK(SeriesAdd(sf, f, Slot(f, t), n), SeriesAdd(sc, c, Slot(c, t), n), f, c)
<1> DEFINE x == Slot(f, t)
           y == Slot(c, t)
           df == SeriesAdd(sf, f, x, n)
           dc == SeriesAdd(sc, c, y, n)
           w == Min({LoggedIn(sf, x) + n, MaxCount[f]})
           v == Min({LoggedIn(sc, y) + n, MaxCount[c]})
<1>1. /\ f \in DOMAIN Interval /\ c \in DOMAIN Interval
      /\ \A j \in Int : Coarser(j, f, c) \in Int
      /\ \A j, k \in Int : j <= k => Coarser(j, f, c) <= Coarser(k, f, c)
  BY CoarserSlots
<1>x. x \in Nat /\ y \in Nat /\ Coarser(x, f, c) = y
  <2>1. t \in Int /\ Interval[f] \in Nat \ {0} /\ Interval[c] \in Nat \ {0}
    BY <1>1, PointsType
  <2>2. x \in Nat /\ y \in Nat
    BY <2>1, DivNat DEF Slot
  <2>3. Coarser(x, f, c) = y
    BY <2>1, CoarserSlots
  <2> QED
    BY <2>2, <2>3
<1> HIDE DEF x, y
<1>2. /\ Summable(sf.log) /\ sf.last \in Nat /\ sc.last \in Nat
      /\ \A k : LoggedIn(sf, k) \in Nat /\ LoggedIn(sc, k) \in Nat
  BY LogIsSummable
<1>3. MaxCount[f] \in Nat /\ MaxCount[c] \in Nat
  BY <1>1, PointsType
<1>4. v = LoggedIn(sc, y) + n
  <2> DEFINE a == LoggedIn(sc, y) + n
  <2>1. a \in Int /\ MaxCount[c] \in Int /\ a <= MaxCount[c]
    BY <1>2, <1>3 DEF y
  <2> HIDE DEF a
  <2>2. Min({a, MaxCount[c]}) = a
    BY <2>1, MinOfTwo
  <2> QED
    BY <2>2 DEF a
<1>5. w \in Nat /\ w <= LoggedIn(sf, x) + n
  <2> DEFINE a == LoggedIn(sf, x) + n
  <2>1. a \in Int /\ MaxCount[f] \in Int /\ a >= 0
    BY <1>2
     , <1>3
  <2> HIDE DEF a
  <2>2. Min({a, MaxCount[f]}) \in {a, MaxCount[f]} /\ Min({a, MaxCount[f]}) <= a
    BY <2>1, MinOfTwo
  <2>3. Min({a, MaxCount[f]}) \in Nat
    BY <1>3, <2>1, <2>2
  <2> QED
    BY <2>2, <2>3 DEF a
<1>6. (x < sf.last => df = sf) /\ (~(x < sf.last) => df.last = x /\ df.log = With(sf.log, x, w))
  <2>1. ASSUME x < sf.last PROVE df = sf
    BY <2>1, AddOld
  <2>2. ASSUME ~(x < sf.last) PROVE df.last = x /\ df.log = With(sf.log, x, w)
    BY <1>1, <1>x, <2>2, AddNew
  <2> QED
    BY <2>1, <2>2
<1>7. (y < sc.last => dc = sc) /\ (~(y < sc.last) => dc.last = y /\ dc.log = With(sc.log, y, v))
  <2>1. ASSUME y < sc.last PROVE dc = sc
    BY <2>1, AddOld
  <2>2. ASSUME ~(y < sc.last) PROVE dc.last = y /\ dc.log = With(sc.log, y, v)
    BY <1>1, <1>x, <2>2, AddNew
  <2> QED
    BY <2>1, <2>2
<1> HIDE DEF df, dc, v, w
<1>8. CASE x < sf.last
  <2>1. sc.last = Coarser(sf.last, f, c) /\ y <= sc.last
    <3>1. sc.last = Coarser(sf.last, f, c)
      BY <1>8, <1>2, <1>x DEF x
    <3>2. Coarser(x, f, c) <= Coarser(sf.last, f, c)
      BY <1>1, <1>2, <1>8, <1>x
    <3> QED
      BY <1>x, <3>1, <3>2
  <2>2. dc.last = sc.last /\ df.last = sf.last /\ df.log = sf.log
    BY <1>2, <1>6, <1>7, <1>8, <1>x, <2>1
  <2>3. \A k : LoggedIn(dc, k) >= LoggedIn(sc, k)
    <3>1. \A k : LoggedIn(dc, k) = LoggedIn(sc, k) \/ (k = y /\ LoggedIn(dc, k) = v)
      BY <1>7 DEF LoggedIn, With
    <3> QED
      BY <1>2, <1>4, <3>1
  <2>4. Covers(df, dc, f, c)
    <3> SUFFICES ASSUME NEW k \in Int PROVE Sum(df.log, Inside(df, f, c, k)) <= LoggedIn(dc, k)
      BY DEF Covers
    <3>1. Inside(df, f, c, k) = Inside(sf, f, c, k)
      BY <2>2 DEF Inside
    <3>2. Sum(sf.log, Inside(sf, f, c, k)) <= LoggedIn(sc, k)
      BY DEF Covers
    <3>3. Inside(sf, f, c, k) \in SUBSET DOMAIN sf.log
      BY DEF Inside
    <3>4. Sum(sf.log, Inside(sf, f, c, k)) \in Nat
      BY <1>2, <3>3, SumNat
    <3>5. LoggedIn(dc, k) >= LoggedIn(sc, k) /\ LoggedIn(sc, k) \in Nat /\ LoggedIn(dc, k) \in Int
      <4>1. LoggedIn(dc, k) = LoggedIn(sc, k) \/ LoggedIn(dc, k) = v
        BY <1>7 DEF LoggedIn, With
      <4> QED
        BY <1>2, <1>4, <2>3, <4>1
    <3> QED
      BY <2>2, <3>1, <3>2, <3>4, <3>5
  <2> QED
    BY <2>1, <2>2, <2>4 DEF PairOK, df, dc, x, y
<1>9. CASE ~(x < sf.last)
  <2>1. sc.last <= y
    <3>1. Coarser(sf.last, f, c) <= Coarser(x, f, c)
      BY <1>1, <1>2, <1>9, <1>x
    <3>2. Coarser(sf.last, f, c) \in Int
      BY <1>1, <1>2
    <3> QED
      BY <1>2, <1>x, <3>1, <3>2
  <2>2. dc.last = y /\ df.last = x /\ df.log = With(sf.log, x, w) /\ dc.log = With(sc.log, y, v)
    BY <1>2, <1>6, <1>7, <1>9, <1>x, <2>1
  <2>3. Covers(df, dc, f, c)
    <3> SUFFICES ASSUME NEW k \in Int PROVE Sum(df.log, Inside(df, f, c, k)) <= LoggedIn(dc, k)
      BY DEF Covers
    <3> DEFINE I == Inside(sf, f, c, k)
    <3>1. I \in SUBSET DOMAIN sf.log
      BY DEF Inside
    <3>2. Sum(sf.log, I) <= LoggedIn(sc, k) /\ LoggedIn(sc, k) \in Nat
      BY <1>2 DEF Covers
    <3>3. /\ Sum(sf.log, I) \in Nat
          /\ x \notin I => Sum(df.log, I) = Sum(sf.log, I)
                           /\ Sum(df.log, I \cup {x}) = Sum(sf.log, I) + w
          /\ x \in I => Sum(df.log, I) + sf.log[x] = Sum(sf.log, I) + w
      BY <1>2, <1>5, <2>2, <3>1, SumOfMore
    <3>4. Inside(df, f, c, k) = IF k = y THEN I \cup {x} ELSE I
      BY <1>x, <2>2 DEF Inside, With
    <3>5. k # y => x \notin I
      BY <1>x DEF Inside
    <3>6. k = y => (x \in I <=> x \in DOMAIN sf.log)
      BY <1>x DEF Inside
    <3>7. LoggedIn(dc, k) = IF k = y THEN v ELSE LoggedIn(sc, k)
      BY <2>2 DEF LoggedIn, With
    <3> HIDE DEF I
    <3>8. CASE k # y
      BY <3>2, <3>3, <3>4, <3>5, <3>7, <3>8
    <3>9. CASE k = y /\ x \notin I
      <4>1. LoggedIn(sf, x) = 0
        BY <3>6, <3>9 DEF LoggedIn
      <4>2. Sum(df.log, I \cup {x}) = Sum(sf.log, I) + w /\ w <= n
        BY <1>5, <3>3, <3>9, <4>1
      <4> QED
        BY <1>4, <1>5, <3>2, <3>3, <3>4, <3>7, <3>9, <4>2
    <3>10. CASE k = y /\ x \in I
      <4>1. LoggedIn(sf, x) = sf.log[x] /\ sf.log[x] \in Nat
        BY <1>2, <3>1, <3>10 DEF LoggedIn, Summable
      <4>2. I \cup {x} = I
        BY <3>10
      <4>3. Sum(df.log, I) + sf.log[x] = Sum(sf.log, I) + w /\ w <= sf.log[x] + n
        BY <1>5, <3>3, <3>10, <4>1
      <4>4. Sum(df.log, I) = (Sum(sf.log, I) + w) - sf.log[x]
        <5>1. Summable(df.log)
          <6>1. Summable(With(sf.log, x, w))
            BY <1>2, <1>5, WithIsSummable
          <6> QED
            BY <2>2, <6>1
        <5>3. I \in SUBSET DOMAIN df.log
          BY <2>2, <3>1 DEF With
        <5>2. Sum(df.log, I) \in Nat
          BY <5>1, <5>3, SumNat
        <5> QED
          BY <1>5, <3>3, <4>1, <4>3, <5>2
      <4>5. Inside(df, f, c, k) = I /\ LoggedIn(dc, k) = v /\ v = LoggedIn(sc, k) + n
        BY <1>4, <3>4, <3>7, <3>10, <4>2
      <4> QED
        BY <1>5, <3>2, <3>3, <4>1, <4>3, <4>4, <4>5
    <3> QED
      BY <3>8, <3>9, <3>10
  <2> QED
    BY <1>x, <2>2, <2>3 DEF PairOK, df, dc, x, y
<1> QED
  BY <1>8, <1>9

-----------------------------------------------------------------------------
(* Two resolutions of the history: every device of the finer one is in the *)
(* coarser one, with the same last slot and at least the same amounts; and *)
(* a device that is in the coarser one only was last written at t or       *)
(* before.                                                                 *)
Together(bf, bc, f, c, t) ==
    /\ \A ip \in DOMAIN bf : ip \in DOMAIN bc /\ PairOK(bf[ip], bc[ip], f, c)
    /\ \A ip \in DOMAIN bc \ DOMAIN bf : bc[ip].last <= Slot(c, t)

LEMMA SlotMono ==
  ASSUME NEW r \in DOMAIN Interval, NEW t \in Int, NEW u \in Int, t <= u
  PROVE  Slot(r, t) \in Int /\ Slot(r, u) \in Int /\ Slot(r, t) <= Slot(r, u)
<1>1. Interval[r] \in Nat \ {0}
  BY PointsType
<1>2. t \div Interval[r] \in Int /\ u \div Interval[r] \in Int
  BY <1>1, DivInt
<1>3. t \div Interval[r] <= u \div Interval[r]
  BY <1>1, DivMono
<1> QED
  BY <1>2, <1>3 DEF Slot

LEMMA TogetherLater ==
  ASSUME NEW f, NEW c, FinerOf(f, c), NEW bf, NEW bc, Rings(bc, c),
         NEW t \in Int, NEW u \in Int, t <= u, Together(bf, bc, f, c, t)
  PROVE  Together(bf, bc, f, c, u)
<1>1. c \in DOMAIN Interval
  BY CoarserSlots
<1>2. Slot(c, t) \in Int /\ Slot(c, u) \in Int /\ Slot(c, t) <= Slot(c, u)
  BY <1>1, SlotMono
<1>3. \A ip \in DOMAIN bc : bc[ip].last \in Nat
  BY DEF Rings, Ring, MadeOf
<1> QED
  BY <1>2, <1>3 DEF Together

(* A prune.                                                                *)
LEMMA PrunedTogether ==
  ASSUME NEW f, NEW c, FinerOf(f, c), NEW bf, NEW bc, Rings(bf, f), Rings(bc, c),
         NEW t \in Int, NEW age \in Int, NEW u \in Int, t - age <= u,
         Together(bf, bc, f, c, u)
  PROVE  Together(Kept(bf, f, t, age), Kept(bc, c, t, age), f, c, u)
<1> DEFINE v == t - age
           kf == Kept(bf, f, t, age)
           kc == Kept(bc, c, t, age)
<1>0. v \in Int /\ v <= u
  OBVIOUS
<1>1. /\ DOMAIN kf = { ip \in DOMAIN bf : bf[ip].last >= Slot(f, v) }
      /\ DOMAIN kc = { ip \in DOMAIN bc : bc[ip].last >= Slot(c, v) }
      /\ \A ip \in DOMAIN kf : kf[ip] = bf[ip]
      /\ \A ip \in DOMAIN kc : kc[ip] = bc[ip]
  BY DEF Kept, Cutoff
<1> HIDE DEF kf, kc, v
<1>2. /\ f \in DOMAIN Interval /\ c \in DOMAIN Interval
      /\ \A j, k \in Int : j <= k => Coarser(j, f, c) <= Coarser(k, f, c)
      /\ \A j \in Int : Coarser(j, f, c) \in Int
  BY CoarserSlots
<1>3. Slot(f, v) \in Int /\ Slot(c, v) \in Int /\ Coarser(Slot(f, v), f, c) = Slot(c, v)
  BY <1>0, CoarserSlots
<1>4. Slot(c, u) \in Int /\ Slot(c, v) <= Slot(c, u)
  BY <1>0, <1>2, SlotMono
<1>5. /\ \A ip \in DOMAIN bf : bf[ip].last \in Nat
      /\ \A ip \in DOMAIN bc : bc[ip].last \in Nat
  BY DEF Rings, Ring, MadeOf
<1>6. \A ip \in DOMAIN bf : ip \in DOMAIN bc /\ PairOK(bf[ip], bc[ip], f, c)
                            /\ bc[ip].last = Coarser(bf[ip].last, f, c)
  BY DEF Together, PairOK
<1>7. ASSUME NEW ip \in DOMAIN kf PROVE ip \in DOMAIN kc /\ PairOK(kf[ip], kc[ip], f, c)
  <2>1. ip \in DOMAIN bf /\ bf[ip].last >= Slot(f, v) /\ bf[ip].last \in Int
    BY <1>1, <1>5
  <2>2. Coarser(Slot(f, v), f, c) <= Coarser(bf[ip].last, f, c)
    BY <1>2, <1>3, <2>1
  <2>3. bc[ip].last >= Slot(c, v)
    BY <1>2, <1>3, <1>6, <2>1, <2>2
  <2>4. ip \in DOMAIN kc
    BY <1>1, <1>6, <2>1, <2>3
  <2> QED
    BY <1>1, <1>6, <2>1, <2>4
<1>8. ASSUME NEW ip \in DOMAIN kc, ip \notin DOMAIN kf PROVE kc[ip].last <= Slot(c, u)
  <2>1. ip \in DOMAIN bc /\ kc[ip] = bc[ip]
    BY <1>1, <1>8
  <2>2. CASE ip \notin DOMAIN bf
    BY <2>1, <2>2 DEF Together
  <2>3. CASE ip \in DOMAIN bf
    <3>1. bf[ip].last \in Int /\ bf[ip].last <= Slot(f, v)
      BY <1>1, <1>3, <1>5, <1>8, <2>3
    <3>2. Coarser(bf[ip].last, f, c) <= Coarser(Slot(f, v), f, c)
      BY <1>2, <1>3, <3>1
    <3>3. bc[ip].last = Coarser(bf[ip].last, f, c) /\ bc[ip].last \in Int
      BY <1>5, <1>6, <2>1, <2>3
    <3> QED
      BY <1>3, <1>4, <2>1, <3>2, <3>3
  <2> QED
    BY <2>2, <2>3
<1> QED
  BY <1>7, <1>8 DEF Together, kf, kc

(* A sample.                                                               *)
Before(b, r, t, k) == IF k \in DOMAIN b THEN b[k] ELSE NewSeries(r, Slot(r, t))

LEMMA BeforeRing ==
  ASSUME NEW r \in DOMAIN Interval, NEW b, Rings(b, r), NEW t \in Nat, NEW k
  PROVE  Ring(Before(b, r, t, k), r)
<1>1. Slot(r, t) \in Nat
  BY PointsType, DivNat DEF Slot
<1>2. Ring(NewSeries(r, Slot(r, t)), r)
  BY <1>1, NewIsRing
<1> QED
  BY <1>2 DEF Before, Rings

LEMMA AddedTogether ==
  ASSUME NEW f, NEW c, FinerOf(f, c), NEW bf, NEW bc, Rings(bf, f), Rings(bc, c),
         NEW t \in Nat, NEW u \in Int, u <= t, Together(bf, bc, f, c, u),
         NEW a, Amounts(a),
         \A ip \in DOMAIN a : LoggedIn(Before(bc, c, t, ip), Slot(c, t)) + a[ip] <= MaxCount[c]
  PROVE  Together(BucketAdd(bf, f, t, a), BucketAdd(bc, c, t, a), f, c, u)
<1> DEFINE nf == BucketAdd(bf, f, t, a)
           nc == BucketAdd(bc, c, t, a)
           of(ip) == Before(bf, f, t, ip)
           oc(ip) == Before(bc, c, t, ip)
<1>1. /\ DOMAIN nf = DOMAIN bf \cup DOMAIN a /\ DOMAIN nc = DOMAIN bc \cup DOMAIN a
      /\ \A ip \in DOMAIN nf :
           nf[ip] = IF ip \in DOMAIN a THEN SeriesAdd(of(ip), f, Slot(f, t), a[ip]) ELSE of(ip)
      /\ \A ip \in DOMAIN nc :
           nc[ip] = IF ip \in DOMAIN a THEN SeriesAdd(oc(ip), c, Slot(c, t), a[ip]) ELSE oc(ip)
  BY DEF BucketAdd, Before
<1>2. f \in DOMAIN Interval /\ c \in DOMAIN Interval /\ t \in Int
  BY CoarserSlots
<1>3. Slot(f, t) \in Int /\ Slot(c, t) \in Int /\ Coarser(Slot(f, t), f, c) = Slot(c, t)
  BY <1>2, CoarserSlots
<1>4. Slot(c, u) \in Int /\ Slot(c, u) <= Slot(c, t)
  BY <1>2, SlotMono
<1>5. \A ip : Ring(of(ip), f) /\ Ring(oc(ip), c)
  BY <1>2, BeforeRing
<1> HIDE DEF nf, nc
<1>6. ASSUME NEW ip \in DOMAIN a PROVE PairOK(nf[ip], nc[ip], f, c)
  <2>1. a[ip] \in Nat
    BY DEF Amounts
  <2>2. Ring(of(ip), f) /\ Ring(oc(ip), c)
    BY <1>5
  <2>3. LoggedIn(oc(ip), Slot(c, t)) + a[ip] <= MaxCount[c]
    OBVIOUS
  <2>4. /\ Covers(of(ip), oc(ip), f, c) /\ oc(ip).last <= Coarser(of(ip).last, f, c)
        /\ oc(ip).last = Coarser(of(ip).last, f, c) \/ of(ip).last <= Slot(f, t)
    <3>1. CASE ip \in DOMAIN bf
      <4>1. of(ip) = bf[ip] /\ oc(ip) = bc[ip] /\ PairOK(bf[ip], bc[ip], f, c)
        BY <3>1 DEF Together, Before
      <4>2. oc(ip).last \in Nat
        BY <2>2 DEF Ring, MadeOf
      <4> QED
        BY <4>1, <4>2 DEF PairOK
    <3>2. CASE ip \notin DOMAIN bf
      <4>0. Slot(f, t) \in Nat
        BY <1>2, PointsType, DivNat DEF Slot
      <4>1. of(ip) = NewSeries(f, Slot(f, t)) /\ of(ip).last = Slot(f, t)
        BY <3>2 DEF Before, NewSeries
      <4>2. Covers(of(ip), oc(ip), f, c)
        BY <2>2, <4>0, <4>1, NewCovers
      <4>3. oc(ip).last \in Int /\ oc(ip).last <= Slot(c, t)
        <5>1. CASE ip \in DOMAIN bc
          <6>1. oc(ip) = bc[ip] /\ bc[ip].last <= Slot(c, u)
            BY <3>2, <5>1 DEF Together, Before
          <6>2. oc(ip).last \in Int
            BY <2>2 DEF Ring, MadeOf
          <6> QED
            BY <1>3, <1>4, <6>1, <6>2
        <5>2. CASE ip \notin DOMAIN bc
          <6>1. oc(ip).last = Slot(c, t)
            BY <5>2 DEF Before, NewSeries
          <6> QED
            BY <1>3, <6>1
        <5> QED
          BY <5>1, <5>2
      <4> QED
        BY <1>3, <4>1, <4>2, <4>3
    <3> QED
      BY <3>1, <3>2
  <2>5. /\ nf[ip] = SeriesAdd(of(ip), f, Slot(f, t), a[ip])
        /\ nc[ip] = SeriesAdd(oc(ip), c, Slot(c, t), a[ip])
    BY <1>1
  <2> DEFINE sf == of(ip)
             sc == oc(ip)
             n == a[ip]
  <2>6. /\ n \in Nat /\ Ring(sf, f) /\ Ring(sc, c) /\ LoggedIn(sc, Slot(c, t)) + n <= MaxCount[c]
        /\ Covers(sf, sc, f, c) /\ sc.last <= Coarser(sf.last, f, c)
        /\ sc.last = Coarser(sf.last, f, c) \/ sf.last <= Slot(f, t)
    BY <2>1, <2>2, <2>3, <2>4
  <2> HIDE DEF sf, sc, n
  <2>7. PairOK(SeriesAdd(sf, f, Slot(f, t), n), SeriesAdd(sc, c, Slot(c, t), n), f, c)
    BY <2>6, AddPair
  <2> QED
    BY <2>5, <2>7 DEF sf, sc, n
<1>7. ASSUME NEW ip \in DOMAIN nf PROVE ip \in DOMAIN nc /\ PairOK(nf[ip], nc[ip], f, c)
  <2>1. CASE ip \in DOMAIN a
    BY <1>1, <1>6, <2>1
  <2>2. CASE ip \notin DOMAIN a
    <3>1. ip \in DOMAIN bf /\ ip \in DOMAIN bc /\ PairOK(bf[ip], bc[ip], f, c)
      BY <1>1, <2>2 DEF Together
    <3>2. nf[ip] = bf[ip] /\ nc[ip] = bc[ip]
      BY <1>1, <2>2, <3>1 DEF Before
    <3> QED
      BY <1>1, <3>1, <3>2
  <2> QED
    BY <2>1, <2>2
<1>8. ASSUME NEW ip \in DOMAIN nc, ip \notin DOMAIN nf PROVE nc[ip].last <= Slot(c, u)
  <2>1. ip \in DOMAIN bc /\ ip \notin DOMAIN bf /\ ip \notin DOMAIN a
    BY <1>1, <1>8
  <2>2. nc[ip] = bc[ip]
    BY <1>1, <2>1 DEF Before
  <2> QED
    BY <2>1, <2>2 DEF Together
<1> QED
  BY <1>7, <1>8 DEF Together, nf, nc

-----------------------------------------------------------------------------
(* No slot has more than what was booked for its device.                   *)
Within(m) ==
    \A r \in HistRes : \A ip \in DOMAIN m[r] : \A k \in Int :
      LoggedIn(m[r][ip], k) <= booked[ip]

LEMMA AddedAtMost ==
  ASSUME NEW r \in DOMAIN Interval, NEW s, Ring(s, r), NEW slot \in Nat, NEW n \in Nat, NEW k
  PROVE  /\ LoggedIn(s, k) \in Nat /\ LoggedIn(SeriesAdd(s, r, slot, n), k) \in Nat
         /\ LoggedIn(SeriesAdd(s, r, slot, n), k) <= LoggedIn(s, k) + n
<1> DEFINE b == SeriesAdd(s, r, slot, n)
           o == LoggedIn(s, slot) + n
           x == Min({o, MaxCount[r]})
<1>1. \A j : LoggedIn(s, j) \in Nat
  BY LogIsSummable
<1>2. Ring(b, r)
  BY AddIsRing
<1>3. \A j : LoggedIn(b, j) \in Nat
  BY <1>2, LogIsSummable
<1>4. CASE slot < s.last
  <2>1. b = s
    BY <1>4, AddOld
  <2> HIDE DEF b
  <2>2. LoggedIn(s, k) \in Nat
    BY <1>1
  <2> QED
    BY <2>1, <2>2 DEF b
<1>5. CASE ~(slot < s.last)
  <2>1. b.log = With(s.log, slot, x)
    BY <1>5, AddNew
  <2>2. x <= o
    <3>1. o \in Int /\ MaxCount[r] \in Int
      BY <1>1, PointsType
    <3> HIDE DEF o
    <3> QED
      BY <3>1, MinOfTwo
  <2> HIDE DEF b, x
  <2>3. LoggedIn(b, k) = IF k = slot THEN x ELSE LoggedIn(s, k)
    BY <2>1 DEF LoggedIn, With
  <2>4. LoggedIn(b, k) <= LoggedIn(s, k) + n
    <3>1. LoggedIn(s, k) \in Nat /\ LoggedIn(b, k) \in Nat
      BY <1>1, <1>3 DEF b
    <3> QED
      BY <2>2, <2>3, <3>1 DEF o
  <2>5. LoggedIn(s, k) \in Nat /\ LoggedIn(b, k) \in Nat
    BY <1>1, <1>3 DEF b
  <2> QED
    BY <2>4, <2>5 DEF b
<1> QED
  BY <1>4, <1>5

(* What a sample books for a device, with what was booked before, was      *)
(* counted.                                                                *)
LEMMA SampledAtMost ==
  ASSUME Base, CountInv, NEW ip \in Ips
  PROVE  LET n == IF ip \in DOMAIN Sampled THEN Sampled[ip] ELSE 0
         IN  n \in Nat /\ booked[ip] \in Nat /\ counted[ip] \in Nat /\ booked[ip] + n <= counted[ip]
<1> DEFINE n == IF ip \in DOMAIN Sampled THEN Sampled[ip] ELSE 0
<1>1. Pending(ip) \in Nat /\ booked[ip] \in Nat /\ counted[ip] \in Nat
      /\ booked[ip] + Pending(ip) <= counted[ip]
  BY PendingType DEF CountInv
<1>2. n = Pending(ip)
  <2>1. CASE coll.based /\ ip \in DOMAIN bytes
    BY <2>1, SampledType DEF Pending
  <2>2. CASE coll.based /\ ip \notin DOMAIN bytes
    <3>1. ip \notin DOMAIN Sampled
      BY <2>2, SampledType
    <3> QED
      BY <2>2, <3>1 DEF Pending
  <2>3. CASE ~coll.based
    <3>1. ip \notin DOMAIN Sampled
      BY <2>3, SampledType
    <3> QED
      BY <2>3, <3>1 DEF Pending
  <2> QED
    BY <2>1, <2>2, <2>3
<1> HIDE DEF n
<1>3. n \in Nat /\ booked[ip] + n <= counted[ip]
  BY <1>1, <1>2
<1> QED
  BY <1>1, <1>3 DEF n

LEMMA BeforeWithin ==
  ASSUME Base, NEW m, HistMem(m), Within(m), NEW r \in HistRes, NEW ip \in Ips, NEW k \in Int, NEW t
  PROVE  LoggedIn(Before(m[r], r, t, ip), k) <= booked[ip]
<1>1. CASE ip \in DOMAIN m[r]
  BY <1>1 DEF Within, Before
<1>2. CASE ip \notin DOMAIN m[r]
  <2>1. LoggedIn(Before(m[r], r, t, ip), k) = 0
    BY <1>2 DEF Before, NewSeries, LoggedIn, Nothing
  <2>2. booked[ip] \in Nat
    BY DEF Base
  <2> QED
    BY <2>1, <2>2
<1> QED
  BY <1>1, <1>2

LEMMA AddedWithin ==
  ASSUME Base, CountInv, NEW m, HistMem(m), Within(m), HistRes \subseteq DOMAIN Interval,
         booked' = [ip \in Ips |->
                      booked[ip] + IF ip \in DOMAIN Sampled THEN Sampled[ip] ELSE 0]
  PROVE  /\ \A r \in HistRes : \A ip \in DOMAIN BucketAdd(m[r], r, now, Sampled) : \A k \in Int :
              LoggedIn(BucketAdd(m[r], r, now, Sampled)[ip], k) <= booked'[ip]
         /\ \A ip \in Ips : booked[ip] <= booked'[ip] /\ booked[ip] \in Nat /\ booked'[ip] \in Nat
<1>1. ASSUME NEW ip \in Ips
      PROVE  /\ booked'[ip] = booked[ip] + (IF ip \in DOMAIN Sampled THEN Sampled[ip] ELSE 0)
             /\ (IF ip \in DOMAIN Sampled THEN Sampled[ip] ELSE 0) \in Nat /\ booked[ip] \in Nat
  BY SampledAtMost
<1>2. \A ip \in Ips : booked[ip] <= booked'[ip] /\ booked[ip] \in Nat /\ booked'[ip] \in Nat
  BY <1>1
<1>3. ASSUME NEW r \in HistRes, NEW ip \in DOMAIN BucketAdd(m[r], r, now, Sampled), NEW k \in Int
      PROVE  LoggedIn(BucketAdd(m[r], r, now, Sampled)[ip], k) <= booked'[ip]
  <2> DEFINE o == Before(m[r], r, now, ip)
             d == BucketAdd(m[r], r, now, Sampled)[ip]
  <2>1. r \in DOMAIN Interval /\ now \in Nat /\ Rings(m[r], r) /\ DOMAIN m[r] \subseteq Ips
    BY DEF Base, HistMem
  <2>2. ip \in DOMAIN m[r] \cup DOMAIN Sampled /\ ip \in Ips
    <3>1. DOMAIN BucketAdd(m[r], r, now, Sampled) = DOMAIN m[r] \cup DOMAIN Sampled
      BY DEF BucketAdd
    <3>2. DOMAIN Sampled \subseteq Ips
      BY SampledType
    <3> QED
      BY <2>1, <3>1, <3>2
  <2>3. d = IF ip \in DOMAIN Sampled THEN SeriesAdd(o, r, Slot(r, now), Sampled[ip]) ELSE o
    BY <2>2 DEF BucketAdd, Before
  <2>4. Ring(o, r) /\ LoggedIn(o, k) <= booked[ip]
    BY <2>1, <2>2, BeforeRing, BeforeWithin
  <2>5. LoggedIn(o, k) \in Nat
    BY <2>4, LogIsSummable
  <2> HIDE DEF o, d
  <2>6. CASE ip \in DOMAIN Sampled
    <3>1. Slot(r, now) \in Nat /\ Sampled[ip] \in Nat
      BY <2>1, <2>6, PointsType, DivNat, SampledType DEF Slot, Amounts
    <3>2. LoggedIn(d, k) \in Nat /\ LoggedIn(d, k) <= LoggedIn(o, k) + Sampled[ip]
      BY <2>1, <2>3, <2>4, <2>6, <3>1, AddedAtMost
    <3>3. booked'[ip] = booked[ip] + Sampled[ip] /\ booked[ip] \in Nat
      BY <1>1, <2>2, <2>6
    <3> QED
      BY <2>4, <2>5, <3>1, <3>2, <3>3 DEF d
  <2>7. CASE ip \notin DOMAIN Sampled
    <3>1. d = o
      BY <2>3, <2>7
    <3>2. booked[ip] <= booked'[ip] /\ booked[ip] \in Nat /\ booked'[ip] \in Nat
      BY <1>2, <2>2
    <3> QED
      BY <2>4, <2>5, <3>1, <3>2 DEF d
  <2> QED
    BY <2>6, <2>7
<1> QED
  BY <1>2, <1>3

-----------------------------------------------------------------------------
(* What can still be counted fits in a slot, and the clock cannot be set   *)
(* back by more than a series is kept.                                     *)
Budget ==
    /\ left.faults <= MaxAge
    /\ \A r \in HistRes : \A ip \in Ips : counted[ip] + left.packets * MaxRules <= MaxCount[r]

LEMMA BudgetBegins ==
  ASSUME ClockStays, NoSlotFull, Init
  PROVE  Budget
<1>1. left \in Scenarios /\ counted = [ip \in Ips |-> 0]
  BY DEF Init, NoRules
<1>2. ASSUME NEW r \in HistRes, NEW ip \in Ips
      PROVE  counted[ip] + left.packets * MaxRules <= MaxCount[r]
  <2> DEFINE x == left.packets * MaxRules
  <2>1. x <= MaxCount[r] /\ counted[ip] = 0
    BY <1>1 DEF NoSlotFull
  <2>2. x \in Int
    BY <1>1, TrafficAssumption
  <2> HIDE DEF x
  <2>3. counted[ip] + x <= MaxCount[r]
    BY <2>1, <2>2
  <2> QED
    BY <2>3 DEF x
<1> QED
  BY <1>1, <1>2 DEF Budget, ClockStays

LEMMA BudgetSpent ==
  ASSUME NEW p \in Nat, p > 0, NEW m \in Nat
  PROVE  p * m = (p - 1) * m + m /\ p * m \in Nat /\ (p - 1) * m \in Nat
<1>1. p - 1 \in Nat
  OBVIOUS
<1> QED
  BY <1>1

LEMMA BudgetStep ==
  ASSUME Base, Budget, Next
  PROVE  Budget' /\ left'.faults <= left.faults /\ now - left.faults <= now' - left'.faults
         /\ left'.faults \in Nat
<1>0. left \in ScenarioType /\ MaxRules \in Nat /\ left.faults \in Nat /\ left.packets \in Nat
      /\ now \in Nat /\ MaxAge \in Int /\ left.faults <= MaxAge
  BY TrafficAssumption DEF Base, ScenarioType, Budget
<1>a. ASSUME left'.packets = left.packets, left'.faults = left.faults \/ left'.faults = left.faults - 1,
             left'.faults \in Nat, counted' = counted, now' - left'.faults >= now - left.faults
      PROVE  Budget' /\ left'.faults <= left.faults /\ now - left.faults <= now' - left'.faults
             /\ left'.faults \in Nat
  <2>1. left'.faults <= left.faults /\ left'.faults <= MaxAge
    BY <1>0, <1>a
  <2>2. \A r \in HistRes : \A ip \in Ips : counted'[ip] + left'.packets * MaxRules <= MaxCount[r]
    BY <1>a DEF Budget
  <2>3. now - left.faults <= now' - left'.faults
    BY <1>a
  <2>4. Budget'
    BY <2>1, <2>2 DEF Budget
  <2> QED
    BY <1>a, <2>1, <2>3, <2>4
<1>b. ASSUME Disturb PROVE left'.packets = left.packets /\ left'.faults = left.faults - 1
                           /\ left'.faults \in Nat
  BY <1>0, <1>b DEF Disturb, ScenarioType
<1>1. ASSUME NEW ip \in Ips, Forward(ip)
      PROVE  Budget' /\ left'.faults <= left.faults /\ now - left.faults <= now' - left'.faults
             /\ left'.faults \in Nat
  <2>1. left'.faults = left.faults /\ left'.packets = left.packets - 1 /\ left.packets > 0 /\ now' = now
        /\ counted' = [counted EXCEPT ![ip] = @ + rules[ip]]
    BY <1>0, <1>1 DEF Forward, ScenarioType
  <2>2. left.packets * MaxRules = (left.packets - 1) * MaxRules + MaxRules
        /\ left.packets * MaxRules \in Nat /\ (left.packets - 1) * MaxRules \in Nat
    BY <1>0, <2>1, BudgetSpent
  <2>3. ASSUME NEW r \in HistRes, NEW x \in Ips
        PROVE  counted'[x] + left'.packets * MaxRules <= MaxCount[r]
    <3>1. counted[x] + left.packets * MaxRules <= MaxCount[r]
      BY DEF Budget
    <3>2. counted[x] \in Nat /\ rules[ip] \in 0 .. MaxRules /\ MaxCount[r] \in Nat
      BY TrafficAssumption, PointsType DEF Base
    <3>3. counted'[x] \in Nat /\ counted'[x] <= counted[x] + MaxRules
      BY <1>0, <2>1, <3>2 DEF Base
    <3> DEFINE z == left'.packets * MaxRules
               y == left.packets * MaxRules
    <3>4. y = z + MaxRules /\ z \in Nat
      BY <2>1, <2>2
    <3>5. counted[x] + y <= MaxCount[r]
      BY <3>1
    <3> HIDE DEF y, z
    <3>6. counted'[x] + z <= MaxCount[r]
      BY <1>0, <3>2, <3>3, <3>4, <3>5
    <3> QED
      BY <3>6 DEF z
  <2>4. Budget'
    BY <1>0, <2>1, <2>3 DEF Budget
  <2> QED
    BY <1>0, <2>1, <2>4
<1>2. CASE left' = left /\ counted' = counted /\ now' = now
  BY <1>0, <1>2, <1>a
<1>3. CASE Disturb /\ counted' = counted /\ now' = now
  BY <1>0, <1>3, <1>a, <1>b
<1>4. CASE Pass
  <2>1. left'.packets = left.packets /\ left'.faults = left.faults /\ now' = now + 1
        /\ counted' = counted
    BY <1>0, <1>4 DEF Pass, ScenarioType, kernelVars
  <2> QED
    BY <1>0, <1>a, <2>1
<1>5. CASE ClockSetBack
  <2>1. Disturb /\ counted' = counted /\ now' = now - 1
    BY <1>5 DEF ClockSetBack, kernelVars
  <2> QED
    BY <1>0, <1>a, <1>b, <2>1
<1>6. CASE Suricata
  <2>1. counted' = counted /\ now' = now
    BY <1>6 DEF Suricata, kernelVars
  <2>2. CASE left' = [left EXCEPT !.lines = @ - 1]
    <3>1. left'.packets = left.packets /\ left'.faults = left.faults
      BY <1>0, <2>2 DEF ScenarioType
    <3> QED
      BY <1>0, <1>a, <2>1, <3>1
  <2>3. CASE left' = left
    BY <1>2, <2>1, <2>3
  <2>4. CASE Disturb
    BY <1>3, <2>1, <2>4
  <2> QED
    BY <1>6, <2>2, <2>3, <2>4 DEF Suricata
<1>7. ASSUME NEW ip \in Ips, Expire(ip) PROVE Disturb /\ counted' = counted /\ now' = now
  BY <1>7 DEF Expire
<1>8. ASSUME NEW local \in SUBSET Ips, Apply(local) PROVE Disturb /\ counted' = counted /\ now' = now
  BY <1>8 DEF Apply
<1>9. CASE ReapplyNftablesOnly
  BY <1>3, <1>9 DEF ReapplyNftablesOnly
<1>10. CASE Tick \/ Prune \/ SaveBegin \/ SaveFile \/ Start
  BY <1>2, <1>10 DEF Tick, Prune, SaveBegin, SaveFile, Start, kernelVars
<1>11. CASE SaveFails \/ Stop
  BY <1>3, <1>11 DEF SaveFails, Stop, kernelVars
<1>12. ASSUME NEW reboot \in BOOLEAN, Exit(reboot)
       PROVE  (left' = left \/ Disturb) /\ counted' = counted /\ now' = now
  BY <1>12 DEF Exit
<1> QED
  BY <1>1, <1>2, <1>3, <1>4, <1>5, <1>6, <1>7, <1>8, <1>9, <1>10, <1>11, <1>12 DEF Next

-----------------------------------------------------------------------------
Coherent(m, t) == \A f, c \in HistRes : Interval[f] < Interval[c] => Together(m[f], m[c], f, c, t)

(* The resolutions tell the same story in memory, and in the files of a    *)
(* save that was finished, unless a process once started from others.      *)
CoarseInv ==
    /\ Within(hist.mem) /\ Within(hist.file)
    /\ hist.todo # {} /\ run # "down" => ~hist.dirty
    /\ ~hist.torn => Coherent(hist.mem, now - left.faults)
    /\ ~hist.torn /\ ~hist.partial => Coherent(hist.file, now - left.faults)

LEMMA CoherentLater ==
  ASSUME NEW m, HistMem(m), NEW t \in Int, NEW u \in Int, t <= u, Coherent(m, t)
  PROVE  Coherent(m, u)
<1> SUFFICES ASSUME NEW f \in HistRes, NEW c \in HistRes, Interval[f] < Interval[c]
             PROVE  Together(m[f], m[c], f, c, u)
  BY DEF Coherent
<1>1. FinerOf(f, c) /\ Together(m[f], m[c], f, c, t) /\ Rings(m[c], c)
  BY DEF FinerOf, Coherent, HistMem
<1> DEFINE bf == m[f]
           bc == m[c]
<1>2. FinerOf(f, c) /\ Together(bf, bc, f, c, t) /\ Rings(bc, c)
  BY <1>1
<1> HIDE DEF bf, bc
<1>3. Together(bf, bc, f, c, u)
  BY <1>2, TogetherLater
<1> QED
  BY <1>3 DEF bf, bc

-----------------------------------------------------------------------------
LEMMA CoarseBegins ==
  ASSUME Init
  PROVE  CoarseInv
<1> DEFINE n == [r \in HistRes |-> Nothing]
<1>1. hist.mem = n /\ hist.file = n /\ hist.todo = {}
  BY DEF Init, EmptyStore
<1>2. \A r \in HistRes : DOMAIN n[r] = {}
  BY DEF Nothing
<1> HIDE DEF n
<1>3. Within(n)
  BY <1>2 DEF Within
<1>4. \A t : Coherent(n, t)
  BY <1>2 DEF Coherent, Together
<1> QED
  BY <1>1, <1>3, <1>4 DEF CoarseInv

(* A step that leaves the history alone.                                   *)
LEMMA CoarseKept ==
  ASSUME Main, CoarseInv, UNCHANGED <<hist, booked>>, run' = "down" \/ run # "down",
         now - left.faults \in Int, now' - left'.faults \in Int,
         now - left.faults <= now' - left'.faults
  PROVE  CoarseInv'
<1> DEFINE t == now - left.faults
           u == now' - left'.faults
<1>1. HistMem(hist.mem) /\ HistMem(hist.file) /\ t \in Int /\ u \in Int /\ t <= u
  BY DEF Main, HistOK
<1>2. hist'.torn = hist.torn /\ hist'.partial = hist.partial /\ hist'.mem = hist.mem /\ hist'.file = hist.file
      /\ hist'.todo = hist.todo /\ hist'.dirty = hist.dirty
  OBVIOUS
<1>3. /\ Within(hist.mem)' /\ Within(hist.file)'
      /\ hist.todo # {} /\ run # "down" => ~hist.dirty
      /\ ~hist.torn => Coherent(hist.mem, t)
      /\ ~hist.torn /\ ~hist.partial => Coherent(hist.file, t)
  BY DEF CoarseInv, Within
<1> HIDE DEF t, u
<1>4. /\ Coherent(hist.mem, t) => Coherent(hist.mem, u)
      /\ Coherent(hist.file, t) => Coherent(hist.file, u)
  BY <1>1, CoherentLater
<1>5. /\ ~hist.torn => Coherent(hist.mem, u)
      /\ ~hist.torn /\ ~hist.partial => Coherent(hist.file, u)
  BY <1>3, <1>4
<1>6. /\ ~hist'.torn => Coherent(hist'.mem, u)
      /\ ~hist'.torn /\ ~hist'.partial => Coherent(hist'.file, u)
  BY <1>2, <1>5
<1>7. hist'.todo # {} /\ run' # "down" => ~hist'.dirty
  BY <1>2, <1>3
<1> QED
  BY <1>3, <1>6, <1>7 DEF CoarseInv, u

LEMMA CoarseSampled ==
  ASSUME Main, CountInv, Budget, CoarseInv, SampleTraffic, hist.todo = {},
         UNCHANGED <<now, left, counted>>, now - left.faults \in Int, left.faults \in Nat
  PROVE  Within(hist.mem)' /\ Within(hist.file)'
         /\ (~hist.torn => Coherent(hist'.mem, now - left.faults))
<1> DEFINE t == now - left.faults
<1>0. HistMem(hist.mem) /\ HistMem(hist.file) /\ t \in Int /\ now \in Nat /\ t <= now
      /\ Base /\ HistOK(hist) /\ HistRes \subseteq DOMAIN Interval
  BY TrafficAssumption DEF Main, HistOK, Base
<1>1. /\ hist'.file = hist.file
      /\ \/ hist' = hist /\ UNCHANGED booked
         \/ /\ hist'.mem = [r \in HistRes |-> BucketAdd(hist.mem[r], r, now, Sampled)]
            /\ booked' = [ip \in Ips |->
                              booked[ip] + IF ip \in DOMAIN Sampled THEN Sampled[ip] ELSE 0]
  BY <1>0, SampledHist
<1>w. Within(hist.mem) /\ Within(hist.file) /\ (~hist.torn => Coherent(hist.mem, t))
  BY DEF CoarseInv
<1> HIDE DEF t
<1>2. CASE hist' = hist /\ UNCHANGED booked
  <2>1. Within(hist.mem)' /\ Within(hist.file)'
    BY <1>2, <1>w DEF Within
  <2> QED
    BY <1>2, <1>w, <2>1 DEF t
<1>3. CASE /\ hist'.mem = [r \in HistRes |-> BucketAdd(hist.mem[r], r, now, Sampled)]
           /\ booked' = [ip \in Ips |->
                              booked[ip] + IF ip \in DOMAIN Sampled THEN Sampled[ip] ELSE 0]
  <2>1. /\ \A r \in HistRes : \A ip \in DOMAIN BucketAdd(hist.mem[r], r, now, Sampled) : \A k \in Int :
              LoggedIn(BucketAdd(hist.mem[r], r, now, Sampled)[ip], k) <= booked'[ip]
        /\ \A ip \in Ips : booked[ip] <= booked'[ip] /\ booked[ip] \in Nat /\ booked'[ip] \in Nat
    <3> DEFINE m == hist.mem
    <3>1. HistMem(m) /\ Within(m)
      BY <1>0, <1>w
    <3> HIDE DEF m
    <3>2. /\ \A r \in HistRes : \A ip \in DOMAIN BucketAdd(m[r], r, now, Sampled) : \A k \in Int :
              LoggedIn(BucketAdd(m[r], r, now, Sampled)[ip], k) <= booked'[ip]
          /\ \A ip \in Ips : booked[ip] <= booked'[ip] /\ booked[ip] \in Nat /\ booked'[ip] \in Nat
      BY <1>0, <1>3, <3>1, AddedWithin
    <3> QED
      BY <3>2 DEF m
  <2>2. Within(hist.mem)'
    <3>1. \A r \in HistRes : hist'.mem[r] = BucketAdd(hist.mem[r], r, now, Sampled)
      BY <1>3
    <3>2. \A r \in HistRes : \A ip \in DOMAIN hist'.mem[r] : \A k \in Int :
             LoggedIn(hist'.mem[r][ip], k) <= booked'[ip]
      BY <2>1, <3>1
    <3> QED
      BY <3>2 DEF Within
  <2>3. Within(hist.file)'
    <3>1. ASSUME NEW r \in HistRes, NEW ip \in DOMAIN hist.file[r], NEW k \in Int
          PROVE  LoggedIn(hist.file[r][ip], k) <= booked'[ip]
      <4>1. LoggedIn(hist.file[r][ip], k) <= booked[ip]
        BY <1>w DEF Within
      <4>2. ip \in Ips /\ Ring(hist.file[r][ip], r)
        BY <1>0 DEF HistMem, Rings
      <4>3. LoggedIn(hist.file[r][ip], k) \in Nat
        BY <4>2, LogIsSummable
      <4>4. booked[ip] <= booked'[ip] /\ booked[ip] \in Nat /\ booked'[ip] \in Nat
        BY <2>1, <4>2
      <4> QED
        BY <4>1, <4>3, <4>4
    <3>2. \A r \in HistRes : \A ip \in DOMAIN hist'.file[r] : \A k \in Int :
             LoggedIn(hist'.file[r][ip], k) <= booked'[ip]
      BY <1>1, <3>1
    <3> QED
      BY <3>2 DEF Within
  <2>4. ASSUME ~hist.torn, NEW f \in HistRes, NEW c \in HistRes, Interval[f] < Interval[c]
        PROVE  Together(hist'.mem[f], hist'.mem[c], f, c, t)
    <3> DEFINE bf == hist.mem[f]
               bc == hist.mem[c]
               a == Sampled
    <3>1. FinerOf(f, c) /\ Together(bf, bc, f, c, t) /\ Rings(bf, f) /\ Rings(bc, c)
      BY <1>0, <1>w, <2>4 DEF FinerOf, Coherent, HistMem
    <3>2. Amounts(a)
      BY <1>0, SampledType
    <3>3. ASSUME NEW ip \in DOMAIN a
          PROVE  LoggedIn(Before(bc, c, now, ip), Slot(c, now)) + a[ip] <= MaxCount[c]
      <4>0. c \in DOMAIN Interval /\ ip \in Ips
        BY <1>0, <3>3, SampledType
      <4>1. Slot(c, now) \in Int /\ now \in Int
        BY <1>0, <4>0, SlotMono
      <4>2. LoggedIn(Before(bc, c, now, ip), Slot(c, now)) <= booked[ip]
        BY <1>0, <1>w, <4>0, <4>1, BeforeWithin
      <4>3. Ring(Before(bc, c, now, ip), c)
        BY <1>0, <3>1, <4>0, BeforeRing
      <4>4. LoggedIn(Before(bc, c, now, ip), Slot(c, now)) \in Nat
        BY <4>3, LogIsSummable
      <4>5. a[ip] \in Nat /\ booked[ip] \in Nat /\ counted[ip] \in Nat /\ booked[ip] + a[ip] <= counted[ip]
        BY <1>0, <3>3, <4>0, SampledAtMost
      <4>6. counted[ip] <= MaxCount[c]
        <5> DEFINE x == left.packets * MaxRules
        <5>1. counted[ip] + x <= MaxCount[c]
          BY <4>0 DEF Budget
        <5>2. x \in Nat
          BY <1>0, TrafficAssumption DEF Base, ScenarioType
        <5>3. MaxCount[c] \in Nat
          BY <4>0, PointsType
        <5> HIDE DEF x
        <5> QED
          BY <4>5, <5>1, <5>2, <5>3
      <4>7. MaxCount[c] \in Nat
        BY <4>0, PointsType
      <4> DEFINE l == LoggedIn(Before(bc, c, now, ip), Slot(c, now))
                 n == a[ip]
      <4>8. l <= booked[ip] /\ l \in Nat /\ n \in Nat /\ booked[ip] + n <= counted[ip]
        BY <4>2, <4>4, <4>5
      <4> HIDE DEF l, n, a
      <4>9. l + n <= MaxCount[c]
        BY <4>5, <4>6, <4>7, <4>8
      <4> QED
        BY <4>9 DEF l, n
    <3>4. hist'.mem[f] = BucketAdd(bf, f, now, a) /\ hist'.mem[c] = BucketAdd(bc, c, now, a)
      BY <1>3
    <3> HIDE DEF bf, bc, a
    <3>5. Together(BucketAdd(bf, f, now, a), BucketAdd(bc, c, now, a), f, c, t)
      BY <1>0, <3>1, <3>2, <3>3, AddedTogether
    <3> QED
      BY <3>4, <3>5
  <2>5. ~hist.torn => Coherent(hist'.mem, t)
    BY <2>4 DEF Coherent
  <2> QED
    BY <2>2, <2>3, <2>5 DEF t
<1> QED
  BY <1>1, <1>2, <1>3

-----------------------------------------------------------------------------
LEMMA WithinPart ==
  ASSUME NEW m, Within(m), NEW n, booked' = booked, HistRes \subseteq DOMAIN n,
         \A r \in HistRes : \A ip \in DOMAIN n[r] : ip \in DOMAIN m[r] /\ n[r][ip] = m[r][ip]
  PROVE  \A r \in HistRes : \A ip \in DOMAIN n[r] : \A k \in Int : LoggedIn(n[r][ip], k) <= booked'[ip]
  BY DEF Within

LEMMA CoarsePruned ==
  ASSUME Main, Budget, CoarseInv, Prune, left.faults \in Nat
  PROVE  /\ Within(hist.mem)' /\ Within(hist.file)'
         /\ (~hist.torn => Coherent(hist'.mem, now - left.faults))
<1> DEFINE t == now - left.faults
<1>0. HistMem(hist.mem) /\ t \in Int /\ now \in Int /\ MaxAge \in Int /\ now - MaxAge <= t
      /\ HistOK(hist) /\ booked' = booked
  BY TrafficAssumption DEF Main, HistOK, Base, Budget, Prune
<1>1. hist'.file = hist.file /\ hist'.mem = [r \in HistRes |-> Kept(hist.mem[r], r, now, MaxAge)]
  BY <1>0, PrunedHist
<1>w. Within(hist.mem) /\ Within(hist.file) /\ (~hist.torn => Coherent(hist.mem, t))
  BY DEF CoarseInv
<1> HIDE DEF t
<1>2. \A r \in HistRes : \A ip \in DOMAIN hist'.mem[r] :
        ip \in DOMAIN hist.mem[r] /\ hist'.mem[r][ip] = hist.mem[r][ip]
  BY <1>1 DEF Kept
<1>3. Within(hist.mem)'
  BY <1>0, <1>2, <1>w DEF Within
<1>4. Within(hist.file)'
  BY <1>0, <1>1, <1>w DEF Within
<1>5. ASSUME ~hist.torn, NEW f \in HistRes, NEW c \in HistRes, Interval[f] < Interval[c]
      PROVE  Together(hist'.mem[f], hist'.mem[c], f, c, t)
  <2> DEFINE bf == hist.mem[f]
             bc == hist.mem[c]
  <2>1. FinerOf(f, c) /\ Together(bf, bc, f, c, t) /\ Rings(bf, f) /\ Rings(bc, c)
    BY <1>0, <1>w, <1>5 DEF FinerOf, Coherent, HistMem
  <2>2. hist'.mem[f] = Kept(bf, f, now, MaxAge) /\ hist'.mem[c] = Kept(bc, c, now, MaxAge)
    BY <1>1
  <2> HIDE DEF bf, bc
  <2>3. Together(Kept(bf, f, now, MaxAge), Kept(bc, c, now, MaxAge), f, c, t)
    BY <1>0, <2>1, PrunedTogether
  <2> QED
    BY <2>2, <2>3
<1>6. ~hist.torn => Coherent(hist'.mem, t)
  BY <1>5 DEF Coherent
<1> QED
  BY <1>3, <1>4, <1>6 DEF t

LEMMA CoarseStep ==
  ASSUME Main, CountInv, SaveInv, Budget, CoarseInv, Next
  PROVE  CoarseInv'
<1> DEFINE t == now - left.faults
           u == now' - left'.faults
<1>0. /\ HistMem(hist.mem) /\ HistMem(hist.file) /\ HistOK(hist) /\ StoreShape(hist, HistRes)
      /\ Base /\ left.faults \in Nat
  BY DEF Main, HistOK, Base, ScenarioType
<1>t. t \in Int /\ u \in Int /\ t <= u
  <2>1. Base' /\ left'.faults \in Nat /\ t <= u
    BY <1>0, BaseStep, BudgetStep
  <2> QED
    BY <1>0, <2>1 DEF Base
<1>w. /\ Within(hist.mem) /\ Within(hist.file)
      /\ hist.todo # {} /\ run # "down" => ~hist.dirty
      /\ ~hist.torn => Coherent(hist.mem, t)
      /\ ~hist.torn /\ ~hist.partial => Coherent(hist.file, t)
  BY DEF CoarseInv
<1>s. run # "down" => /\ hist.todo # {} => saving = "hist"
                      /\ SavedPart(hist, HistRes)
  BY DEF SaveInv
<1>u. \A st : HistMem(st) /\ Coherent(st, t) => Coherent(st, u)
  <2> HIDE DEF t, u
  <2> QED
    BY <1>t, CoherentLater
<1>k. ASSUME UNCHANGED <<hist, booked>>, run' = "down" \/ run # "down" PROVE CoarseInv'
  BY <1>t, <1>k, CoarseKept
<1>b. hist.dirty \in BOOLEAN /\ hist.partial \in BOOLEAN /\ hist.torn \in BOOLEAN
  BY <1>0 DEF StoreShape
<1> HIDE DEF t
<1>m. ASSUME booked' = booked, hist'.mem = hist.mem, hist'.file = hist.file
      PROVE  Within(hist.mem)' /\ Within(hist.file)'
  BY <1>m, <1>w DEF Within
<1>1. CASE Tick
  <2>1. SampleTraffic /\ run = "loop" /\ saving = "no" /\ UNCHANGED <<now, left, counted, run>>
    BY <1>1 DEF Tick, loopVars
  <2>2. hist.todo = {} /\ t = u
    BY <1>s, <2>1 DEF t
  <2>3. Within(hist.mem)' /\ Within(hist.file)' /\ (~hist.torn => Coherent(hist'.mem, t))
    BY <1>0, <1>t, <2>1, <2>2, CoarseSampled DEF t
  <2>4. hist'.todo = hist.todo /\ hist'.partial = hist.partial /\ hist'.file = hist.file
        /\ hist'.torn = hist.torn
    BY <1>0, <2>1, SampledHist
  <2> QED
    BY <1>w, <2>2, <2>3, <2>4 DEF CoarseInv
<1>2. CASE Prune
  <2>1. run = "loop" /\ saving = "no" /\ UNCHANGED <<now, left, run>>
    BY <1>2 DEF Prune, loopVars
  <2>2. hist.todo = {} /\ t = u
    BY <1>s, <2>1 DEF t
  <2>3. Within(hist.mem)' /\ Within(hist.file)' /\ (~hist.torn => Coherent(hist'.mem, t))
    BY <1>0, <1>2, CoarsePruned DEF t
  <2>4. hist'.todo = hist.todo /\ hist'.partial = hist.partial /\ hist'.file = hist.file
        /\ hist'.torn = hist.torn
    BY <1>0, <1>2, PrunedHist
  <2> QED
    BY <1>w, <2>2, <2>3, <2>4 DEF CoarseInv
<1>3. CASE SaveBegin
  <2>0. run # "down" /\ UNCHANGED <<run, booked, now, left>>
    BY <1>3 DEF SaveBegin
  <2>1. CASE hist' = SaveBegun(hist)
    <3>1. /\ hist'.mem = hist.mem /\ hist'.file = hist.file /\ hist'.dirty = FALSE
          /\ hist'.partial = TRUE /\ hist'.torn = hist.torn
      <4>1. /\ SaveBegun(hist).mem = hist.mem /\ SaveBegun(hist).file = hist.file
            /\ SaveBegun(hist).dirty = FALSE
            /\ SaveBegun(hist).partial = TRUE /\ SaveBegun(hist).torn = hist.torn
        <5>1. StoreShape(hist, HistRes)
          BY <1>0
        <5> QED
          BY <5>1 DEF SaveBegun, StoreShape
      <4> QED
        BY <2>1, <4>1
    <3>2. ~hist'.torn => Coherent(hist'.mem, u)
      BY <1>0, <1>u, <1>w, <3>1
    <3> QED
      BY <1>m, <2>0, <3>1, <3>2 DEF CoarseInv
  <2>2. CASE UNCHANGED hist
    BY <1>k, <2>0, <2>2
  <2> QED
    BY <1>3, <2>1, <2>2 DEF SaveBegin
<1>4. CASE SaveFile
  <2>0. run # "down" /\ UNCHANGED <<run, booked, now, left>>
    BY <1>4 DEF SaveFile
  <2>1. ASSUME NEW r \in hist.todo, hist' = FileWritten(hist, r) PROVE CoarseInv'
    <3>1. r \in HistRes /\ DOMAIN hist.file = HistRes /\ DOMAIN hist.mem = HistRes
          /\ IsMap(hist.file) /\ IsMap(hist.mem)
      BY <1>0 DEF StoreShape
    <3>2. /\ hist'.mem = hist.mem /\ hist'.dirty = hist.dirty
          /\ hist'.file = [hist.file EXCEPT ![r] = hist.mem[r]]
          /\ hist'.todo = hist.todo \ {r}
          /\ hist'.partial = (hist.todo # {r}) /\ hist'.torn = hist.torn
      BY <1>0, <2>1, <3>1, FileStep
    <3>3. ~hist.dirty
      BY <1>w, <2>0
    <3>4. Within(hist.mem)'
      BY <1>w, <2>0, <3>2 DEF Within
    <3>5. Within(hist.file)'
      <4>1. \A x \in HistRes : hist'.file[x] = IF x = r THEN hist.mem[x] ELSE hist.file[x]
        BY <3>1, <3>2
      <4>2. ASSUME NEW x \in HistRes, NEW ip \in DOMAIN hist'.file[x], NEW k \in Int
            PROVE  LoggedIn(hist'.file[x][ip], k) <= booked'[ip]
        <5>1. CASE hist'.file[x] = hist.mem[x]
          BY <1>w, <2>0, <5>1 DEF Within
        <5>2. CASE hist'.file[x] = hist.file[x]
          BY <1>w, <2>0, <5>2 DEF Within
        <5> QED
          BY <4>1, <5>1, <5>2
      <4> QED
        BY <4>2 DEF Within
    <3>6. ~hist'.torn => Coherent(hist'.mem, u)
      BY <1>0, <1>u, <1>w, <3>2
    <3>7. ASSUME ~hist'.torn, ~hist'.partial PROVE Coherent(hist'.file, u)
      <4>1. hist.todo = {r}
        BY <3>2, <3>7
      <4>2. \A x \in HistRes \ {r} : hist.file[x] = hist.mem[x]
        BY <1>s, <2>0, <3>3, <4>1 DEF SavedPart
      <4>3. hist'.file = [x \in HistRes |-> IF x = r THEN hist.mem[r] ELSE hist.file[x]]
        BY <3>1, <3>2
      <4>4. hist'.file = [x \in HistRes |-> hist.mem[x]] /\ hist.mem = [x \in HistRes |-> hist.mem[x]]
        BY <3>1, <4>2, <4>3 DEF IsMap
      <4> QED
        BY <3>2, <3>6, <3>7, <4>4
    <3> QED
      BY <3>2, <3>3, <3>4, <3>5, <3>6, <3>7 DEF CoarseInv
  <2>2. CASE UNCHANGED hist
    BY <1>k, <2>0, <2>2
  <2> QED
    BY <1>4, <2>1, <2>2 DEF SaveFile
<1>5. CASE SaveFails
  <2>0. run # "down" /\ UNCHANGED <<run, booked>>
    BY <1>5 DEF SaveFails
  <2>1. CASE hist' = SaveStopped(hist)
    <3>1. /\ hist'.mem = hist.mem /\ hist'.file = hist.file /\ hist'.todo = {}
          /\ hist'.partial = hist.partial /\ hist'.torn = hist.torn
      BY <1>0, <2>1, SaveStops
    <3>2. ~hist'.torn => Coherent(hist'.mem, u)
      BY <1>0, <1>u, <1>w, <3>1
    <3>3. ~hist'.torn /\ ~hist'.partial => Coherent(hist'.file, u)
      BY <1>0, <1>u, <1>w, <3>1
    <3> QED
      BY <1>m, <2>0, <3>1, <3>2, <3>3 DEF CoarseInv
  <2>2. CASE UNCHANGED hist
    BY <1>k, <2>0, <2>2
  <2> QED
    BY <1>5, <2>1, <2>2 DEF SaveFails
<1>6. CASE Start
  <2>0. UNCHANGED booked /\ hist' = Loaded(hist)
    BY <1>6 DEF Start
  <2>1. /\ hist'.mem = hist.file /\ hist'.file = hist.file /\ hist'.todo = {}
        /\ hist'.partial = hist.partial /\ hist'.torn = (hist.torn \/ hist.partial)
    BY <1>0, <2>0, StoreLoads
  <2>2. Within(hist.mem)' /\ Within(hist.file)'
    BY <1>w, <2>0, <2>1 DEF Within
  <2>3. ~hist'.torn => Coherent(hist'.file, u)
    BY <1>0, <1>u, <1>w, <2>1
  <2> QED
    BY <2>1, <2>2, <2>3 DEF CoarseInv
<1>7. ASSUME NEW reboot \in BOOLEAN, Exit(reboot) PROVE CoarseInv'
  BY <1>7, <1>k DEF Exit, storeVars
<1>8. CASE ReapplyNftablesOnly \/ Pass \/ ClockSetBack \/ Suricata \/ Stop
  <2>1. UNCHANGED <<hist, booked>> /\ (run' = run \/ run # "down")
    BY <1>8 DEF ReapplyNftablesOnly, Pass, ClockSetBack, Suricata, Stop, storeVars, loopVars
  <2> QED
    BY <1>k, <2>1
<1>9. ASSUME NEW ip \in Ips, Forward(ip) \/ Expire(ip) PROVE CoarseInv'
  <2>1. UNCHANGED <<hist, booked>> /\ run' = run
    BY <1>9 DEF Forward, Expire, storeVars, loopVars
  <2> QED
    BY <1>k, <2>1
<1>10. ASSUME NEW local \in SUBSET Ips, Apply(local) PROVE CoarseInv'
  BY <1>10, <1>k DEF Apply, storeVars, loopVars
<1> QED
  BY <1>1, <1>2, <1>3, <1>4, <1>5, <1>6, <1>7, <1>8, <1>9, <1>10 DEF Next

-----------------------------------------------------------------------------
LEMMA ShownSlots ==
  ASSUME NEW r \in DOMAIN Interval, NEW s, Ring(s, r)
  PROVE  LET shown == PointsSince(s, r, Points[r])
         IN  /\ IsFiniteSet(DOMAIN shown) /\ DOMAIN shown \subseteq Int
             /\ \A k \in DOMAIN shown : shown[k] = LoggedIn(s, k) /\ shown[k] \in Nat
<1> DEFINE shown == PointsSince(s, r, Points[r])
           n == Min({Points[r], Points[r]})
<1>1. s.last \in Int /\ n \in Int
  <2>1. Points[r] \in Int
    BY PointsType
  <2>2. Min({Points[r], Points[r]}) \in {Points[r], Points[r]}
    BY <2>1, MinOfTwo
  <2> QED
    BY <2>1, <2>2 DEF Ring, MadeOf
<1>2. DOMAIN shown = { k \in s.last - n + 1 .. s.last : k >= 0 }
  BY DEF PointsSince
<1> HIDE DEF n
<1>3. s.last - n + 1 \in Int
  BY <1>1
<1>4. IsFiniteSet(s.last - n + 1 .. s.last)
  BY <1>1, <1>3, FS_Interval
<1>5. IsFiniteSet(DOMAIN shown) /\ DOMAIN shown \subseteq Int
  BY <1>1, <1>2, <1>4, FS_Subset
<1>6. \A k \in DOMAIN shown : shown[k] = LoggedIn(s, k)
  BY RingIsTrue DEF TrueHistory
<1>7. \A k : LoggedIn(s, k) \in Nat
  BY LogIsSummable
<1> HIDE DEF shown
<1> QED
  BY <1>5, <1>6, <1>7 DEF shown

LEMMA PairShows ==
  ASSUME NEW f, NEW c, FinerOf(f, c), NEW sf, NEW sc, Ring(sf, f), Ring(sc, c),
         Covers(sf, sc, f, c)
  PROVE  LET fine == PointsSince(sf, f, Points[f])
             coarse == PointsSince(sc, c, Points[c])
             inside(k) == { j \in DOMAIN fine : (j * Interval[f]) \div Interval[c] = k }
         IN  \A k \in DOMAIN coarse : Total([j \in inside(k) |-> fine[j]]) <= coarse[k]
<1> DEFINE fine == PointsSince(sf, f, Points[f])
           coarse == PointsSince(sc, c, Points[c])
           inside(k) == { j \in DOMAIN fine : (j * Interval[f]) \div Interval[c] = k }
<1>1. f \in DOMAIN Interval /\ c \in DOMAIN Interval
  BY CoarserSlots
<1>2. /\ IsFiniteSet(DOMAIN fine) /\ DOMAIN fine \subseteq Int
      /\ \A j \in DOMAIN fine : fine[j] = LoggedIn(sf, j) /\ fine[j] \in Nat
  BY <1>1, ShownSlots
<1>3. DOMAIN coarse \subseteq Int /\ \A k \in DOMAIN coarse : coarse[k] = LoggedIn(sc, k)
  BY <1>1, ShownSlots
<1>4. Summable(sf.log) /\ \A k : LoggedIn(sc, k) \in Nat
  BY LogIsSummable
<1> HIDE DEF fine, coarse
<1> SUFFICES ASSUME NEW k \in DOMAIN coarse PROVE Total([j \in inside(k) |-> fine[j]]) <= coarse[k]
  BY DEF fine, coarse
<1> DEFINE g == [j \in inside(k) |-> fine[j]]
           D == inside(k)
           G == D \cap DOMAIN sf.log
           I == Inside(sf, f, c, k)
<1>5. D \subseteq DOMAIN fine /\ DOMAIN g = D /\ \A j \in D : g[j] = fine[j] /\ Coarser(j, f, c) = k
  BY DEF Coarser
<1>6. IsFiniteSet(D)
  BY <1>2, <1>5, FS_Subset
<1> HIDE DEF g, D
<1>7. Summable(g)
  BY <1>2, <1>5, <1>6 DEF Summable
<1>8. G \subseteq D /\ G \subseteq I /\ I \subseteq DOMAIN sf.log
  BY <1>5 DEF Inside
<1>9. \A j \in G : g[j] = sf.log[j]
  BY <1>2, <1>5 DEF LoggedIn
<1>10. \A j \in D \ G : g[j] = 0
  BY <1>2, <1>5 DEF LoggedIn
<1>11. G \subseteq DOMAIN sf.log
  BY <1>8
<1> HIDE DEF G, I
<1>12. Sum(g, G) = Sum(g, D)
  BY <1>5, <1>7, <1>8, <1>10, SumPart
<1>13. Sum(g, G) = Sum(sf.log, G)
  BY <1>4, <1>5, <1>7, <1>8, <1>9, <1>11, SumSame
<1>14. Sum(sf.log, G) <= Sum(sf.log, I) /\ Sum(sf.log, G) \in Nat /\ Sum(sf.log, I) \in Nat
  BY <1>4, <1>8, <1>11, SumPart, SumNat
<1>15. Sum(sf.log, I) <= LoggedIn(sc, k) /\ coarse[k] = LoggedIn(sc, k) /\ LoggedIn(sc, k) \in Nat
  BY <1>3, <1>4 DEF Covers, I
<1>16. Total(g) = Sum(g, D)
  BY <1>5, TotalOf
<1>17. Total(g) <= coarse[k]
  <2> DEFINE a == Sum(sf.log, G)
             b == Sum(sf.log, I)
             l == LoggedIn(sc, k)
  <2>1. Total(g) = a
    BY <1>12, <1>13, <1>16
  <2>2. a <= b /\ a \in Nat /\ b \in Nat /\ b <= l /\ l \in Nat /\ coarse[k] = l
    BY <1>14, <1>15
  <2> HIDE DEF a, b, l
  <2>3. a <= l
    BY <2>2
  <2> QED
    BY <2>1, <2>2, <2>3
<1> QED
  BY <1>17 DEF g, D

LEMMA CoarseShown ==
  ASSUME Main, CoarseInv
  PROVE  CoarseCoversFine
<1> SUFFICES ASSUME ~hist.torn, NEW f \in HistRes, NEW c \in HistRes, Interval[f] < Interval[c],
                    NEW ip \in DOMAIN hist.mem[f]
             PROVE  /\ ip \in DOMAIN hist.mem[c]
                    /\ LET fine == PointsSince(hist.mem[f][ip], f, Points[f])
                           coarse == PointsSince(hist.mem[c][ip], c, Points[c])
                           inside(k) == { j \in DOMAIN fine : (j * Interval[f]) \div Interval[c] = k }
                       IN  \A k \in DOMAIN coarse : Total([j \in inside(k) |-> fine[j]]) <= coarse[k]
  BY DEF CoarseCoversFine
<1>1. Together(hist.mem[f], hist.mem[c], f, c, now - left.faults)
  BY DEF CoarseInv, Coherent
<1>2. ip \in DOMAIN hist.mem[c] /\ PairOK(hist.mem[f][ip], hist.mem[c][ip], f, c)
  BY <1>1 DEF Together
<1> DEFINE sf == hist.mem[f][ip]
           sc == hist.mem[c][ip]
<1>3. FinerOf(f, c) /\ Ring(sf, f) /\ Ring(sc, c) /\ Covers(sf, sc, f, c)
  BY <1>2 DEF FinerOf, Main, HistOK, HistMem, Rings, PairOK
<1> HIDE DEF sf, sc
<1>4. LET fine == PointsSince(sf, f, Points[f])
          coarse == PointsSince(sc, c, Points[c])
          inside(k) == { j \in DOMAIN fine : (j * Interval[f]) \div Interval[c] = k }
      IN  \A k \in DOMAIN coarse : Total([j \in inside(k) |-> fine[j]]) <= coarse[k]
  BY <1>3, PairShows
<1> QED
  BY <1>2, <1>4 DEF sf, sc

-----------------------------------------------------------------------------
TrafficInv == Main /\ CountInv /\ SaveInv

LEMMA TrafficBegins == Init => TrafficInv
  BY MainBegins, CountBegins DEF TrafficInv

LEMMA TrafficStep == TrafficInv /\ [Next]_vars => TrafficInv'
<1> SUFFICES ASSUME TrafficInv, [Next]_vars PROVE TrafficInv'
  OBVIOUS
<1>1. CASE Next
  <2>1. Main' /\ SaveInv'
    <3>1. Base' /\ EveInv' /\ StoresOK'
      BY <1>1, BaseStep, EveStep, StoresStep DEF TrafficInv, Main
    <3> QED
      BY <3>1 DEF Main, StoresOK
  <2>2. CountInv'
    BY <1>1, CountStep DEF TrafficInv, Main
  <2> QED
    BY <2>1, <2>2 DEF TrafficInv
<1>2. CASE UNCHANGED vars
  <2>1. UNCHANGED <<nets, rules, bytes, coll, hist, cats, run, saving, now, sent, counted, booked, left>>
        /\ UNCHANGED eveVars
    BY <1>2 DEF vars, eveVars
  <2>2. EveInv'
    BY <2>1, NothingChanged DEF TrafficInv, Main
  <2>3. StoresOK'
    BY <2>1, StoresKept DEF TrafficInv, Main, StoresOK
  <2>4. Base'
    BY <2>1 DEF TrafficInv, Main, Base
  <2>5. CountInv'
    BY <2>1 DEF TrafficInv, CountInv, Pending, Delta
  <2> QED
    BY <2>2, <2>3, <2>4, <2>5 DEF TrafficInv, Main, StoresOK
<1> QED
  BY <1>1, <1>2

(* The inductive invariant.                                                *)
THEOREM TrafficInvHolds == Spec => []TrafficInv
  BY TrafficBegins, TrafficStep, PTL DEF Spec

(* Types, and the limits of the tables: no more counting rules than the    *)
(* bound, no more names kept than MaxNames, no longer domain list than     *)
(* MaxDomains, whatever is trimmed.                                        *)
THEOREM TypeCorrect == Spec => []TypeOK
<1>1. TrafficInv => TypeOK
  <2> SUFFICES ASSUME TrafficInv PROVE TypeOK
    OBVIOUS
  <2>0. Base /\ HistOK(hist) /\ CatsOK(cats) /\ LogOK /\ ReaderOK
    BY DEF TrafficInv, Main, EveInv
  <2>1. EveTypeOK
    <3>1. \A i \in 1 .. Len(log) : log[i] \in Lines
      BY <2>0 DEF LogOK
    <3>2. tail = <<>> \/ (tail[1] \in Lines /\ tail[2] \in 1 .. LineUnits - 1)
      BY <2>0, KnownLines DEF LogOK, LineUnits
    <3> QED
      BY <2>0, <3>1, <3>2 DEF EveTypeOK, LogOK, ReaderOK, ReaderType, NamesFit
  <2>2. ASSUME NEW r \in HistRes, NEW ip \in DOMAIN hist.mem[r]
        PROVE  ip \in Ips /\ SeriesType(hist.mem[r][ip], r)
    <3>1. Ring(hist.mem[r][ip], r) /\ ip \in Ips /\ r \in DOMAIN Interval
      BY <2>0, TrafficAssumption DEF HistOK, HistMem, Rings
    <3> QED
      BY <3>1, RingIsTrue
  <2>3. ASSUME NEW r \in CatRes, NEW k \in DOMAIN cats.mem[r]
        PROVE  SeriesType(cats.mem[r][k], r)
    <3>1. Ring(cats.mem[r][k], r) /\ r \in DOMAIN Interval
      BY <2>0, TrafficAssumption DEF CatsOK, CatMem, Rings
    <3> QED
      BY <3>1, RingIsTrue
  <2>4. \A ip \in DOMAIN cats.mem[Domains] :
          Cardinality(DOMAIN cats.mem[Domains][ip]) <= MaxDomains
    BY <2>0 DEF CatsOK, CatMem, DomainLists, DomainList
  <2>5. hist.todo \subseteq HistRes /\ cats.todo \subseteq CatFiles
    BY <2>0 DEF HistOK, CatsOK, StoreShape
  <2> QED
    BY <2>0, <2>1, <2>2, <2>3, <2>4, <2>5 DEF TypeOK, Base, Counters, CollType
<1> QED
  BY <1>1, TrafficInvHolds, PTL

(* Nothing is reported twice: the agent never books more bytes for a       *)
(* device than the kernel counted for it, whatever resets the counters,    *)
(* and a reader that has met no unfinished line and passed over nothing    *)
(* has reported each flow of a local device in what it has read once, and  *)
(* none beyond it.                                                         *)
THEOREM NothingTwice == Spec => []CountedOnce
<1>1. TrafficInv => CountedOnce
  <2> SUFFICES ASSUME TrafficInv PROVE CountedOnce
    OBVIOUS
  <2>1. NothingInvented
    <3> SUFFICES ASSUME NEW ip \in Ips PROVE booked[ip] <= counted[ip]
      BY DEF NothingInvented
    <3>1. Pending(ip) \in Nat /\ booked[ip] \in Nat /\ counted[ip] \in Nat
          /\ booked[ip] + Pending(ip) <= counted[ip]
      BY PendingType DEF TrafficInv, Main, CountInv
    <3> QED
      BY <3>1
  <2>2. FlowsReportedOnce
    BY ReportsInvariant DEF TrafficInv, Main
  <2> QED
    BY <2>1, <2>2 DEF CountedOnce
<1> QED
  BY <1>1, TrafficInvHolds, PTL

(* A store that is not dirty has its contents in its files, unless its     *)
(* last save was broken off.                                               *)
THEOREM CleanIsSaved == Spec => []CleanMeansSaved
<1>1. TrafficInv => CleanMeansSaved
  <2> SUFFICES ASSUME TrafficInv, run # "down", NEW st \in {hist, cats}, ~st.dirty, ~st.partial
               PROVE  st.mem = st.file
    BY DEF CleanMeansSaved
  <2>1. PICK names : StoreShape(st, names) /\ SavedPart(st, names) /\ Unfinished(st)
    BY DEF TrafficInv, Main, SaveInv, HistOK, CatsOK
  <2>2. st.todo = {}
    BY <2>1 DEF Unfinished
  <2>3. \A r \in names : st.file[r] = st.mem[r]
    BY <2>1, <2>2 DEF SavedPart
  <2>4. st.mem = [r \in names |-> st.mem[r]] /\ st.file = [r \in names |-> st.file[r]]
    BY <2>1 DEF StoreShape, IsMap
  <2> QED
    BY <2>3, <2>4
<1> QED
  BY <1>1, TrafficInvHolds, PTL

(* What a history shows for a slot, and its total, is what was booked in   *)
(* the slots of the last lap, in either store: across gaps of any length,  *)
(* clock changes, prunes, saves that were broken off and restarts.         *)
THEOREM RingsTellTheTruth == Spec => []HistoryIsTrue
<1>1. TrafficInv => HistoryIsTrue
  <2> SUFFICES ASSUME TrafficInv PROVE HistoryIsTrue
    OBVIOUS
  <2>0. HistMem(hist.mem) /\ CatMem(cats.mem)
    BY DEF TrafficInv, Main, HistOK, CatsOK
  <2>1. ASSUME NEW r \in HistRes, NEW ip \in DOMAIN hist.mem[r]
        PROVE  TrueHistory(hist.mem[r][ip], r)
    <3>1. Ring(hist.mem[r][ip], r) /\ r \in DOMAIN Interval
      BY <2>0, TrafficAssumption DEF HistMem, Rings
    <3> QED
      BY <3>1, RingIsTrue
  <2>2. ASSUME NEW r \in CatRes, NEW k \in DOMAIN cats.mem[r]
        PROVE  TrueHistory(cats.mem[r][k], r)
    <3>1. Ring(cats.mem[r][k], r) /\ r \in DOMAIN Interval
      BY <2>0, TrafficAssumption DEF CatMem, Rings
    <3> QED
      BY <3>1, RingIsTrue
  <2> QED
    BY <2>1, <2>2 DEF HistoryIsTrue
<1> QED
  BY <1>1, TrafficInvHolds, PTL

(* What the GUI draws happened, at every zoom: the histories are true, and *)
(* a coarse slot has at least what the fine slots inside it have, unless a *)
(* process once started from the files of a save that was broken off.  The *)
(* clock may be set back and the histories pruned, saved and loaded at any *)
(* moment, as long as the clock is not set back by more than the retention *)
(* and no slot comes to its limit.                                         *)
THEOREM HistoriesTellTheTruth ==
    ASSUME ClockStays, NoSlotFull
    PROVE  Spec => []HistoriesAreTrue
<1> DEFINE Inv == TrafficInv /\ Budget /\ CoarseInv
<1>1. Init => Inv
  BY TrafficBegins, BudgetBegins, CoarseBegins
<1>2. Inv /\ [Next]_vars => Inv'
  <2> SUFFICES ASSUME Inv, [Next]_vars PROVE Inv'
    OBVIOUS
  <2>1. TrafficInv'
    BY TrafficStep
  <2>2. Main /\ CountInv /\ SaveInv /\ Budget /\ CoarseInv /\ Base
    BY DEF TrafficInv, Main
  <2>3. CASE Next
    BY <2>1, <2>2, <2>3, BudgetStep, CoarseStep
  <2>4. CASE UNCHANGED vars
    <3>1. UNCHANGED <<hist, booked, run, now, left, counted>>
      BY <2>4 DEF vars
    <3>2. Budget'
      BY <2>2, <3>1 DEF Budget
    <3>3. now - left.faults \in Int
      BY <2>2 DEF Base, ScenarioType
    <3>4. CoarseInv'
      BY <2>2, <3>1, <3>3, CoarseKept
    <3> QED
      BY <2>1, <3>2, <3>4
  <2> QED
    BY <2>3, <2>4
<1>3. Inv => CoarseCoversFine
  BY CoarseShown DEF TrafficInv
<1>4. Spec => []CoarseCoversFine
  BY <1>1, <1>2, <1>3, PTL DEF Spec
<1> QED
  BY <1>4, RingsTellTheTruth, PTL DEF HistoriesAreTrue
=============================================================================
