---------------------------- MODULE RingIndexes ----------------------------
(***************************************************************************)
(* The arithmetic of free-running ring indexes: an index that runs modulo  *)
(* w stands for a natural number that never wraps, and what the driver     *)
(* computes from wrapped indexes is what it would compute from those.      *)
(***************************************************************************)
EXTENDS Integers, FiniteSets, Functions, FiniteSetTheorems, TLAPS

LEMMA Divide ==
    ASSUME NEW m \in Nat \ {0}, NEW a \in Nat
    PROVE  \E q \in Nat, r \in 0..(m - 1) : a = (q * m) + r /\ a % m = r
<1>1. a = ((a \div m) * m) + (a % m)
  OBVIOUS
<1>2. a \div m \in Nat /\ a % m \in 0..(m - 1)
  OBVIOUS
<1> QED
  BY <1>1, <1>2

LEMMA Remainder ==
    ASSUME NEW m \in Nat \ {0}, NEW q \in Nat, NEW r \in 0..(m - 1),
           NEW a, a = (q * m) + r
    PROVE  a % m = r
OBVIOUS

LEMMA ModRange ==
    ASSUME NEW m \in Nat \ {0}, NEW a \in Int
    PROVE  a % m \in 0..(m - 1)
OBVIOUS

(* Adding to a wrapped index. *)
LEMMA ModAdd ==
    ASSUME NEW m \in Nat \ {0}, NEW a \in Nat, NEW b \in Nat
    PROVE  ((a % m) + b) % m = (a + b) % m
<1>1. PICK q \in Nat, r \in 0..(m - 1) : a = (q * m) + r /\ a % m = r
  BY Divide
<1>2. r + b \in Nat
  OBVIOUS
<1>3. PICK p \in Nat, s \in 0..(m - 1) : r + b = (p * m) + s /\ (r + b) % m = s
  BY <1>2, Divide
<1>4. a + b = ((q + p) * m) + s
  BY <1>1, <1>3
<1>5. (a + b) % m = s
  <2>1. q + p \in Nat
    OBVIOUS
  <2> QED
    BY <1>4, <2>1, Remainder
<1> QED
  BY <1>1, <1>3, <1>5

(* The entry of a wrapped index, when the wrap is a multiple of the ring. *)
LEMMA ModMod ==
    ASSUME NEW m \in Nat \ {0}, NEW w \in Nat \ {0}, w % m = 0, NEW a \in Nat
    PROVE  (a % w) % m = a % m
<1>1. PICK q \in Nat, v \in 0..(w - 1) : a = (q * w) + v /\ a % w = v
  BY Divide
<1>2. PICK p \in Nat : w = p * m
  <2>1. PICK p \in Nat, s \in 0..(m - 1) : w = (p * m) + s /\ w % m = s
    BY Divide
  <2> QED
    BY <2>1
<1>3. v \in Nat
  OBVIOUS
<1>4. PICK r \in Nat, s \in 0..(m - 1) : v = (r * m) + s /\ v % m = s
  BY <1>3, Divide
<1>5. (q * p) + r \in Nat
  OBVIOUS
<1>6. a = (((q * p) + r) * m) + s
  <2>1. q * w = (q * p) * m
    BY <1>2
  <2>2. ((q * p) + r) * m = ((q * p) * m) + (r * m)
    OBVIOUS
  <2> QED
    BY <1>1, <1>4, <2>1, <2>2
<1>7. a % m = s
  BY <1>5, <1>6, Remainder
<1> QED
  BY <1>1, <1>4, <1>7

(* The unsigned difference of two wrapped indexes. *)
LEMMA ModDistance ==
    ASSUME NEW m \in Nat \ {0}, NEW a \in Nat, NEW b \in Nat,
           b <= a, a - b < m
    PROVE  ((a % m) + m - (b % m)) % m = a - b
<1>1. PICK q \in Nat, r \in 0..(m - 1) : a = (q * m) + r /\ a % m = r
  BY Divide
<1>2. PICK p \in Nat, s \in 0..(m - 1) : b = (p * m) + s /\ b % m = s
  BY Divide
<1>3. q = p \/ q = p + 1
  <2>1. (q - p) * m = (a - b) + (s - r)
    BY <1>1, <1>2
  <2>2. CASE q < p
    <3>1. (p - q) * m >= m
      BY <2>2
    <3> QED
      BY <2>1, <3>1
  <2>3. CASE q > p + 1
    <3>1. (q - p) * m >= 2 * m
      BY <2>3
    <3> QED
      BY <2>1, <3>1
  <2> QED
    BY <2>2, <2>3
<1>4. a - b \in 0..(m - 1)
  OBVIOUS
<1>5. CASE q = p
  <2>1. r + m - s = (1 * m) + (a - b)
    BY <1>1, <1>2, <1>5
  <2>2. (r + m - s) % m = a - b
    BY <1>4, <2>1, Remainder
  <2> QED
    BY <1>1, <1>2, <2>2
<1>6. CASE q = p + 1
  <2>1. q * m = (p * m) + m
    BY <1>6
  <2>2. r + m - s = (0 * m) + (a - b)
    BY <1>1, <1>2, <2>1
  <2>3. (r + m - s) % m = a - b
    BY <1>4, <2>2, Remainder
  <2> QED
    BY <1>1, <1>2, <2>3
<1> QED
  BY <1>3, <1>5, <1>6

(* Indexes less than a ring apart have different entries. *)
LEMMA ModInjective ==
    ASSUME NEW m \in Nat \ {0}, NEW a \in Nat, NEW b \in Nat,
           b <= a, a - b < m, a % m = b % m
    PROVE  a = b
<1>1. PICK r \in 0..(m - 1) : a % m = r /\ b % m = r
  BY ModRange
<1>2. (r + m - r) % m = a - b
  BY <1>1, ModDistance
<1>3. r + m - r = (1 * m) + 0
  OBVIOUS
<1>4. (r + m - r) % m = 0
  BY <1>3, Remainder
<1> QED
  BY <1>2, <1>4

(* A whole turn of the ring ends at the same entry. *)
LEMMA ModTurn ==
    ASSUME NEW m \in Nat \ {0}, NEW a \in Nat
    PROVE  (a + m) % m = a % m
<1>1. PICK q \in Nat, r \in 0..(m - 1) : a = (q * m) + r /\ a % m = r
  BY Divide
<1>2. PICK p \in Nat : p = q + 1
  OBVIOUS
<1>3. PICK b : b = a + m
  OBVIOUS
<1>4. b = (p * m) + r
  BY <1>1, <1>2, <1>3
<1>5. b % m = r
  BY <1>4, Remainder
<1> QED
  BY <1>1, <1>3, <1>5

(* Indexes less than a ring apart do not share an entry. *)
LEMMA Apart ==
    ASSUME NEW m \in Nat \ {0}, NEW a \in Nat, NEW b \in Nat, b < a, a - b < m
    PROVE  a % m # b % m
<1>1. b <= a /\ a # b
  OBVIOUS
<1>2. SUFFICES ASSUME a % m = b % m
               PROVE  a = b
  BY <1>1
<1> QED
  BY <1>1, <1>2, ModInjective

(* The entry j after a wrapped index. *)
LEMMA EntryAfter ==
    ASSUME NEW m \in Nat \ {0}, NEW w \in Nat \ {0}, w % m = 0,
           NEW a \in Nat, NEW j \in Nat
    PROVE  ((a % w) + j) % m = (a + j) % m
<1>1. a % w \in Nat
  BY ModRange
<1>2. (a % w) % m = a % m
  BY ModMod
<1>3. (((a % w) % m) + j) % m = ((a % w) + j) % m
  BY <1>1, ModAdd
<1>4. ((a % m) + j) % m = (a + j) % m
  BY ModAdd
<1> QED
  BY <1>2, <1>3, <1>4

(* As many entries as indexes, when they are at most a ring apart. *)
LEMMA EntriesCount ==
    ASSUME NEW m \in Nat \ {0}, NEW a \in Nat, NEW b \in Nat,
           a <= b, b - a <= m
    PROVE  /\ IsFiniteSet({k % m : k \in a..(b - 1)})
           /\ Cardinality({k % m : k \in a..(b - 1)}) = b - a
<1> DEFINE S == a..(b - 1)
           T == {k % m : k \in S}
           g == [k \in S |-> k % m]
<1>1. g \in Bijection(S, T)
  <2>1. ASSUME NEW i \in S, NEW j \in S, g[i] = g[j]
        PROVE  i = j
    <3>1. i \in Nat /\ j \in Nat /\ i - j < m /\ j - i < m
      OBVIOUS
    <3>2. i % m = j % m
      BY <2>1
    <3>3. CASE j < i
      BY <3>1, <3>2, <3>3, Apart
    <3>4. CASE i < j
      BY <3>1, <3>2, <3>4, Apart
    <3> QED
      BY <3>1, <3>3, <3>4
  <2>2. g \in [S -> T]
    OBVIOUS
  <2>3. \A t \in T : \E k \in S : g[k] = t
    OBVIOUS
  <2> QED
    BY <2>1, <2>2, <2>3 DEF Bijection, Injection, Surjection, IsInjective
<1>2. a \in Int /\ b - 1 \in Int
  OBVIOUS
<1>3. IsFiniteSet(S) /\ Cardinality(S) = IF a > b - 1 THEN 0 ELSE (b - 1) - a + 1
  BY <1>2, FS_Interval
<1>4. Cardinality(S) = b - a
  BY <1>3
<1>5. IsFiniteSet(T) /\ Cardinality(T) = Cardinality(S)
  BY <1>1, <1>3, FS_Bijection DEF ExistsBijection
<1> QED
  BY <1>4, <1>5
============================================================================
