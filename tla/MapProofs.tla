------------------------------ MODULE MapProofs ------------------------------
(***************************************************************************)
(* Proofs about Map, for any elements and keys, any hash function and any  *)
(* number of operations.                                                   *)
(***************************************************************************)
EXTENDS Map, Integers, FiniteSetTheorems, TLAPS

-----------------------------------------------------------------------------
(* The inductive invariant, of a table with capacity c and slots s.           *)

Tables(c) ==
  [slot : [0..c - 1 -> Elements \cup {Empty}], count : Nat, capacity : {c}]

(* q is visited by a search that begins at h, before p.                       *)
Between(h, q, p) == IF h <= p THEN h <= q /\ q < p ELSE q >= h \/ q < p

Used(c, s) == {s[p] : p \in 0..c - 1} \ {Empty}

Distinct(c, s) ==
  \A p, q \in 0..c - 1 :
    s[p] # Empty /\ s[q] # Empty /\ KeyOf(s[p]) = KeyOf(s[q]) => p = q

(* No empty slot lies between the home of an element and its slot.            *)
Reached(c, s) ==
  \A p \in 0..c - 1 : s[p] # Empty =>
    \A q \in 0..c - 1 : Between(hash[KeyOf(s[p])] % c, q, p) => s[q] # Empty

Good(t) ==
  /\ t.capacity \in Nat \ {0}
  /\ t \in Tables(t.capacity)
  /\ Distinct(t.capacity, t.slot)
  /\ Reached(t.capacity, t.slot)
  /\ IsFiniteSet(InUse(t))
  /\ t.count = Cardinality(InUse(t))

HashOK == hash \in [Keys -> 0..MaxHash]

IInv ==
  /\ HashOK
  /\ Good(m)
  /\ RoomLeft

-----------------------------------------------------------------------------
(* Numbers.                                                                   *)
LEMMA LeastOf ==
  ASSUME NEW S \in SUBSET Nat, S # {}
  PROVE  \E x \in S : \A y \in S : x <= y
<1>1. IsWellFoundedOn(OpToRel(<, Nat), Nat)
  BY NatLessThanWellFounded, Zenon
<1>2. PICK x \in S : \A y \in S : ~ (<<y, x>> \in OpToRel(<, Nat))
  BY <1>1, WFMin, Zenon
<1>3. \A y \in S : ~ (y < x)
  BY <1>2, Zenon DEF OpToRel
<1> QED
  BY <1>3

LEMMA MinOfIs ==
  ASSUME NEW S \in SUBSET Nat, S # {}
  PROVE  MinOf(S) \in S /\ \A y \in S : MinOf(S) <= y
BY LeastOf, Zenon DEF MinOf

LEMMA Induction ==
  ASSUME NEW S \in SUBSET Nat, 0 \in S, \A n \in S : n + 1 \in S
  PROVE  S = Nat
<1> SUFFICES ASSUME S # Nat PROVE FALSE
  OBVIOUS
<1>1. PICK x \in Nat \ S : \A y \in Nat \ S : x <= y
  BY LeastOf
<1>2. x # 0 /\ x - 1 \in Nat
  BY <1>1
<1>3. x - 1 \in S
  BY <1>1, <1>2
<1> QED
  BY <1>1, <1>3

(* A power of two is the number of sets of numbers from 1 to its exponent.    *)
LEMMA PowerIs ==
  ASSUME NEW n \in Nat
  PROVE  2 ^ n \in Nat /\ 2 ^ n > n
<1>1. IsFiniteSet(1..n) /\ Cardinality(1..n) = n
  BY FS_Interval
<1>2. IsFiniteSet(SUBSET (1..n)) /\ Cardinality(SUBSET (1..n)) = 2 ^ n
  BY <1>1, FS_SUBSET
<1>3. 2 ^ n \in Nat
  BY <1>2, FS_CardinalityType
<1> DEFINE f == [x \in 0..n |-> 1..x]
<1>4. f \in Injection(0..n, SUBSET (1..n))
  <2>1. f \in [0..n -> SUBSET (1..n)]
    OBVIOUS
  <2>2. ASSUME NEW x \in 0..n, NEW y \in 0..n, f[x] = f[y] PROVE x = y
    <3>1. 1..x = 1..y
      BY <2>2
    <3> QED
      BY <3>1
  <2> QED
    BY <2>1, <2>2 DEF Injection, IsInjective
<1>5. Cardinality(0..n) <= Cardinality(SUBSET (1..n))
  BY <1>2, <1>4, FS_Injection
<1>6. Cardinality(0..n) = n + 1
  BY FS_Interval
<1> QED
  BY <1>2, <1>3, <1>5, <1>6

LEMMA RoundupIs ==
  ASSUME NEW size \in Nat
  PROVE  /\ map_roundup(size) \in Nat \ {0}
         /\ map_roundup(size) >= size
         /\ IsPowerOfTwo(map_roundup(size))
<1> DEFINE S == {i \in 0..size : 2 ^ i >= size}
           i == MinOf(S)
<1>1. S \in SUBSET Nat
  OBVIOUS
<1>2. size \in S
  BY PowerIs
<1>3. i \in S
  <2> HIDE DEF S
  <2> QED
    BY <1>1, <1>2, MinOfIs
<1>4. i \in 0..size /\ 2 ^ i >= size
  BY <1>3
<1>5. map_roundup(size) = 2 ^ i
  BY DEF map_roundup
<1> HIDE DEF i
<1>6. 2 ^ i \in Nat /\ 2 ^ i > i
  BY <1>4, PowerIs
<1> QED
  BY <1>4, <1>5, <1>6 DEF IsPowerOfTwo

(* The masks go round the end of the table.                                   *)
LEMMA WrapIs ==
  ASSUME NEW c \in Nat \ {0}, NEW x \in 0..c - 1, NEW d \in 0..c
  PROVE  /\ (x + d) % c = IF x + d < c THEN x + d ELSE x + d - c
         /\ (x + d) % c \in 0..c - 1
<1>1. CASE x + d < c
  BY <1>1
<1>2. CASE x + d >= c
  BY <1>2
<1> QED
  BY <1>1, <1>2

-----------------------------------------------------------------------------
(* Searches.                                                                  *)
LEMMA HomeIs ==
  ASSUME HashOK, NEW k \in Keys, NEW c \in Nat \ {0}
  PROVE  hash[k] % c \in 0..c - 1
<1>1. hash[k] \in Nat
  BY MapOK DEF HashOK
<1> QED
  BY <1>1

LEMMA AtIs ==
  ASSUME HashOK, NEW t, t.capacity \in Nat \ {0}, NEW k \in Keys,
         NEW p0 \in 0..t.capacity - 1, t.slot[p0] = Empty \/ KeyOf(t.slot[p0]) = k
  PROVE  /\ map_at(t, k) \in 0..t.capacity - 1
         /\ t.slot[map_at(t, k)] = Empty \/ KeyOf(t.slot[map_at(t, k)]) = k
         /\ \A q \in 0..t.capacity - 1 : Between(hash[k] % t.capacity, q, map_at(t, k)) =>
              t.slot[q] # Empty /\ KeyOf(t.slot[q]) # k
<1> DEFINE c == t.capacity
           h == hash[k] % c
           S == Stops(t, k)
           d == MinOf(S)
           at(x) == (h + x) % c
<1>1. h \in 0..c - 1
  BY HomeIs
<1>2. S = {x \in 0..c - 1 : t.slot[at(x)] = Empty \/ KeyOf(t.slot[at(x)]) = k}
  BY DEF Stops, Probe, Home
<1>3. map_at(t, k) = at(d)
  BY DEF map_at, Probe, Home
<1> HIDE DEF S, d, h, c
<1>4. c \in Nat \ {0} /\ p0 \in 0..c - 1
  BY DEF c
<1>5. \A x \in 0..c - 1 : at(x) = (IF h + x < c THEN h + x ELSE h + x - c) /\ at(x) \in 0..c - 1
  <2> SUFFICES ASSUME NEW x \in 0..c - 1
               PROVE  at(x) = (IF h + x < c THEN h + x ELSE h + x - c) /\ at(x) \in 0..c - 1
    OBVIOUS
  <2>1. x \in 0..c
    BY <1>4
  <2> QED
    BY <1>1, <1>4, <2>1, WrapIs
<1> HIDE DEF at
<1>6. d \in S /\ \A y \in S : d <= y
  <2>1. S \in SUBSET Nat
    BY <1>2, <1>4
  <2>2. PICK x \in 0..c - 1 : at(x) = p0
    <3>1. CASE p0 >= h
      <4>1. p0 - h \in 0..c - 1 /\ at(p0 - h) = p0
        BY <1>1, <1>4, <1>5, <3>1
      <4> QED
        BY <4>1
    <3>2. CASE p0 < h
      <4>1. p0 - h + c \in 0..c - 1 /\ at(p0 - h + c) = p0
        BY <1>1, <1>4, <1>5, <3>2
      <4> QED
        BY <4>1
    <3> QED
      BY <1>1, <1>4, <3>1, <3>2
  <2>3. x \in S
    BY <1>2, <2>2
  <2> QED
    BY <2>1, <2>3, MinOfIs DEF d
<1>7. d \in 0..c - 1 /\ (t.slot[at(d)] = Empty \/ KeyOf(t.slot[at(d)]) = k)
  BY <1>2, <1>6
<1>8. ASSUME NEW q \in 0..c - 1, Between(h, q, at(d))
      PROVE  t.slot[q] # Empty /\ KeyOf(t.slot[q]) # k
  <2>1. PICK x \in 0..c - 1 : at(x) = q /\ x < d
    <3>1. CASE q >= h
      <4>1. q - h \in 0..c - 1 /\ at(q - h) = q /\ q - h < d
        BY <1>1, <1>4, <1>5, <1>7, <1>8, <3>1 DEF Between
      <4> QED
        BY <4>1
    <3>2. CASE q < h
      <4>1. q - h + c \in 0..c - 1 /\ at(q - h + c) = q /\ q - h + c < d
        BY <1>1, <1>4, <1>5, <1>7, <1>8, <3>2 DEF Between
      <4> QED
        BY <4>1
    <3> QED
      BY <1>1, <1>4, <3>1, <3>2
  <2>2. x \notin S
    BY <1>6, <1>7, <2>1
  <2> QED
    BY <1>2, <2>1, <2>2
<1> QED
  BY <1>3, <1>5, <1>7, <1>8 DEF h, c

(* A search ends at the first slot that is empty or has the key.              *)
LEMMA AtOf ==
  ASSUME HashOK, NEW t, t.capacity \in Nat \ {0}, NEW k \in Keys,
         NEW p \in 0..t.capacity - 1, t.slot[p] = Empty \/ KeyOf(t.slot[p]) = k,
         \A q \in 0..t.capacity - 1 : Between(hash[k] % t.capacity, q, p) =>
           t.slot[q] # Empty /\ KeyOf(t.slot[q]) # k
  PROVE  map_at(t, k) = p
<1> DEFINE h == hash[k] % t.capacity
           a == map_at(t, k)
<1>1. /\ a \in 0..t.capacity - 1
      /\ t.slot[a] = Empty \/ KeyOf(t.slot[a]) = k
      /\ \A q \in 0..t.capacity - 1 : Between(h, q, a) =>
              t.slot[q] # Empty /\ KeyOf(t.slot[q]) # k
  BY AtIs
<1>2. h \in 0..t.capacity - 1
  BY HomeIs
<1>3. \A q \in 0..t.capacity - 1 : Between(h, q, p) =>
              t.slot[q] # Empty /\ KeyOf(t.slot[q]) # k
  OBVIOUS
<1> HIDE DEF h, a
<1>4. ~ Between(h, p, a)
  BY <1>1
<1>5. ~ Between(h, a, p)
  BY <1>1, <1>3
<1>6. a = p
  BY <1>1, <1>2, <1>4, <1>5 DEF Between
<1> QED
  BY <1>6 DEF a

LEMMA ElementOf ==
  ASSUME NEW t, Good(t), NEW p \in 0..t.capacity - 1, t.slot[p] # Empty
  PROVE  /\ t.slot[p] \in Elements /\ KeyOf(t.slot[p]) \in Keys
         /\ t.slot[p] \in InUse(t)
<1>1. t.slot \in [0..t.capacity - 1 -> Elements \cup {Empty}]
  BY DEF Good, Tables
<1>2. t.slot[p] \in Elements
  BY <1>1
<1> QED
  BY <1>2 DEF Keys, InUse

(* Every element is found.                                                    *)
LEMMA GoodIsFindable ==
  ASSUME HashOK, NEW t, Good(t),
         NEW p \in 0..t.capacity - 1, t.slot[p] # Empty
  PROVE  map_at(t, KeyOf(t.slot[p])) = p
<1> DEFINE k == KeyOf(t.slot[p])
           h == hash[k] % t.capacity
<1>1. k \in Keys /\ t.capacity \in Nat \ {0}
  BY ElementOf DEF Good
<1>2. h \in 0..t.capacity - 1
  BY <1>1, HomeIs
<1>3. ASSUME NEW q \in 0..t.capacity - 1, Between(h, q, p)
      PROVE  t.slot[q] # Empty /\ KeyOf(t.slot[q]) # k
  <2>1. t.slot[q] # Empty
    BY <1>3 DEF Good, Reached
  <2>2. q # p
    <3> HIDE DEF h
    <3> QED
      BY <1>1, <1>2, <1>3 DEF Between
  <2> QED
    BY <2>1, <2>2 DEF Good, Distinct
<1> HIDE DEF k
<1>4. t.slot[p] = Empty \/ KeyOf(t.slot[p]) = k
  BY DEF k
<1>5. map_at(t, k) = p
  BY <1>1, <1>3, <1>4, AtOf
<1> QED
  BY <1>5 DEF k

-----------------------------------------------------------------------------
(* The table has room, so that every search ends.                             *)
LEMMA SomeSlotIsEmpty ==
  ASSUME NEW t, Good(t), t.count < t.capacity
  PROVE  \E p \in 0..t.capacity - 1 : t.slot[p] = Empty
<1> SUFFICES ASSUME \A p \in 0..t.capacity - 1 : t.slot[p] # Empty PROVE FALSE
  OBVIOUS
<1> DEFINE I == 0..t.capacity - 1
<1>1. t.capacity \in Nat \ {0} /\ IsFiniteSet(InUse(t)) /\ t.count = Cardinality(InUse(t))
  BY DEF Good
<1>2. IsFiniteSet(I) /\ Cardinality(I) = t.capacity
  <2>1. 0 \in Int /\ t.capacity - 1 \in Int /\ ~(0 > t.capacity - 1)
    BY <1>1
  <2>2. IsFiniteSet(I) /\ Cardinality(I) = t.capacity - 1 - 0 + 1
    BY <2>1, FS_Interval
  <2> QED
    BY <1>1, <2>2
<1>3. t.slot \in [I -> Elements \cup {Empty}]
  BY DEF Good, Tables
<1>4. \A p \in I : t.slot[p] \in InUse(t)
  BY DEF InUse
<1>5. t.slot \in [I -> InUse(t)]
  BY <1>3, <1>4
<1>6. Cardinality(InUse(t)) < Cardinality(I)
  BY <1>1, <1>2
<1> DEFINE s == t.slot
           U == InUse(t)
<1>7. PICK x \in I, y \in I : x # y /\ s[x] = s[y]
  <2>1. /\ IsFiniteSet(I) /\ IsFiniteSet(U) /\ Cardinality(U) < Cardinality(I)
        /\ s \in [I -> U]
    BY <1>1, <1>2, <1>5, <1>6
  <2> HIDE DEF I, s, U
  <2> QED
    BY <2>1, FS_PigeonHole
<1> QED
  BY <1>7 DEF Good, Distinct

(* A key is there if the search for it ends at an element.                    *)
LEMMA HasIs ==
  ASSUME HashOK, NEW t, Good(t), t.count < t.capacity, NEW k \in Keys
  PROVE  /\ map_at(t, k) \in 0..t.capacity - 1
         /\ Has(t, k) => KeyOf(t.slot[map_at(t, k)]) = k
         /\ ~Has(t, k) =>
              /\ t.slot[map_at(t, k)] = Empty
              /\ \A q \in 0..t.capacity - 1 :
                   Between(hash[k] % t.capacity, q, map_at(t, k)) => t.slot[q] # Empty
              /\ \A p \in 0..t.capacity - 1 : t.slot[p] # Empty => KeyOf(t.slot[p]) # k
<1>1. PICK p0 \in 0..t.capacity - 1 : t.slot[p0] = Empty
  BY SomeSlotIsEmpty
<1>2. t.capacity \in Nat \ {0}
  BY DEF Good
<1>3. /\ map_at(t, k) \in 0..t.capacity - 1
      /\ t.slot[map_at(t, k)] = Empty \/ KeyOf(t.slot[map_at(t, k)]) = k
      /\ \A q \in 0..t.capacity - 1 : Between(hash[k] % t.capacity, q, map_at(t, k)) =>
           t.slot[q] # Empty /\ KeyOf(t.slot[q]) # k
  BY <1>1, <1>2, AtIs
<1>4. ASSUME ~Has(t, k), NEW p \in 0..t.capacity - 1, t.slot[p] # Empty, KeyOf(t.slot[p]) = k
      PROVE  FALSE
  BY <1>4, GoodIsFindable DEF Has
<1> QED
  BY <1>3, <1>4 DEF Has

With(t, s, n) == [t EXCEPT !.slot = s, !.count = n]

LEMMA WithIs ==
  ASSUME NEW c \in Nat, NEW t \in Tables(c), NEW n \in Nat,
         NEW s \in [0..c - 1 -> Elements \cup {Empty}]
  PROVE  /\ With(t, s, n) \in Tables(c)
         /\ With(t, s, n).slot = s /\ With(t, s, n).count = n /\ With(t, s, n).capacity = c
BY DEF Tables, With

LEMMA UsedAfterPut ==
  ASSUME NEW c \in Nat, NEW s \in [0..c - 1 -> Elements \cup {Empty}],
         NEW p \in 0..c - 1, s[p] = Empty, NEW e \in Elements, e # Empty
  PROVE  Used(c, [s EXCEPT ![p] = e]) = Used(c, s) \cup {e}
BY DEF Used

(* An element is put in the first empty slot.                                 *)
LEMMA PlaceIs ==
  ASSUME HashOK, NEW t, Good(t), t.count < t.capacity, NEW e \in Elements
  PROVE  /\ Good(Place(t, e))
         /\ Place(t, e).capacity = t.capacity
         /\ Has(t, KeyOf(e)) => Place(t, e) = t
         /\ ~Has(t, KeyOf(e)) =>
              /\ InUse(Place(t, e)) = InUse(t) \cup {e}
              /\ Place(t, e).count = t.count + 1
              /\ \A x \in InUse(t) : KeyOf(x) # KeyOf(e)
<1> DEFINE c == t.capacity
           k == KeyOf(e)
           p == map_at(t, k)
           u == Place(t, e)
<1>1. k \in Keys /\ e # Empty
  BY MapOK DEF Keys
<1>2. CASE Has(t, k)
  BY <1>2 DEF Place
<1>3. CASE ~Has(t, k)
  <2>1. /\ p \in 0..c - 1 /\ t.slot[p] = Empty
        /\ \A q \in 0..c - 1 : Between(hash[k] % c, q, p) => t.slot[q] # Empty
        /\ \A q \in 0..c - 1 : t.slot[q] # Empty => KeyOf(t.slot[q]) # k
    BY <1>1, <1>3, HasIs
  <2>2. u = [t EXCEPT !.slot[p] = e, !.count = t.count + 1]
    BY <1>3 DEF Place
  <2>3. /\ c \in Nat \ {0} /\ t \in Tables(c) /\ t.count \in Nat
        /\ t.slot \in [0..c - 1 -> Elements \cup {Empty}]
    BY DEF Good, Tables
  <2> HIDE DEF p, u, k
  <2>4. /\ u \in Tables(c) /\ u.capacity = c /\ u.count = t.count + 1
        /\ u.slot = [t.slot EXCEPT ![p] = e]
    <3> DEFINE s == [t.slot EXCEPT ![p] = e]
               n == t.count + 1
    <3>1. /\ s \in [0..c - 1 -> Elements \cup {Empty}]
          /\ n \in Nat /\ c \in Nat /\ t \in Tables(c)
      BY <2>1, <2>3
    <3>2. u = With(t, s, n)
      BY <2>2 DEF With
    <3> HIDE DEF c, s, n
    <3>3. u \in Tables(c) /\ u.slot = s /\ u.count = n /\ u.capacity = c
      BY <3>1, <3>2, WithIs
    <3> QED
      BY <3>3 DEF s, n
  <2>5. /\ u.slot[p] = e
        /\ \A q \in 0..c - 1 : q # p => u.slot[q] = t.slot[q]
    BY <2>1, <2>3, <2>4
  <2>6. InUse(u) = InUse(t) \cup {e}
    <3>1. InUse(u) = Used(c, u.slot) /\ InUse(t) = Used(c, t.slot)
      BY <2>4 DEF InUse, Used
    <3> HIDE DEF c
    <3> QED
      BY <1>1, <2>1, <2>3, <2>4, <3>1, UsedAfterPut
  <2>7. \A x \in InUse(t) : KeyOf(x) # k
    BY <2>1 DEF InUse
  <2>8. Distinct(c, u.slot)
    BY <1>1, <2>1, <2>5 DEF k, Good, Distinct
  <2>9. Reached(c, u.slot)
    <3> SUFFICES ASSUME NEW x \in 0..c - 1, u.slot[x] # Empty,
                        NEW q \in 0..c - 1, Between(hash[KeyOf(u.slot[x])] % c, q, x)
                 PROVE  u.slot[q] # Empty
      BY DEF Reached
    <3>1. CASE q = p
      BY <1>1, <2>5, <3>1
    <3>2. CASE q # p /\ x = p
      BY <2>1, <2>5, <3>2 DEF k
    <3>3. CASE q # p /\ x # p
      BY <2>5, <3>3 DEF Good, Reached
    <3> QED
      BY <3>1, <3>2, <3>3
  <2>10. IsFiniteSet(InUse(u)) /\ u.count = Cardinality(InUse(u))
    <3>1. IsFiniteSet(InUse(t)) /\ t.count = Cardinality(InUse(t))
      BY DEF Good
    <3>2. e \notin InUse(t)
      BY <2>7 DEF k
    <3> QED
      BY <2>4, <2>6, <3>1, <3>2, FS_AddElement
  <2>11. Good(u)
    BY <2>3, <2>4, <2>8, <2>9, <2>10 DEF Good
  <2> QED
    BY <1>3, <2>4, <2>6, <2>7, <2>11 DEF u, k
<1> QED
  BY <1>2, <1>3

-----------------------------------------------------------------------------
(* map_rehash.                                                                *)
LEMMA NewIs ==
  ASSUME NEW c \in Nat \ {0}
  PROVE  /\ Good(NewMap(c)) /\ InUse(NewMap(c)) = {}
         /\ NewMap(c).capacity = c /\ NewMap(c).count = 0
<1> DEFINE u == NewMap(c)
<1>1. u \in Tables(c) /\ u.capacity = c /\ u.count = 0 /\ \A p \in 0..c - 1 : u.slot[p] = Empty
  BY DEF NewMap, Tables
<1> HIDE DEF u
<1>2. InUse(u) = {}
  BY <1>1 DEF InUse
<1>3. Distinct(c, u.slot) /\ Reached(c, u.slot)
  BY <1>1 DEF Distinct, Reached
<1>4. IsFiniteSet({}) /\ Cardinality({}) = 0
  BY FS_EmptySet
<1>5. Good(u) /\ InUse(u) = {} /\ u.capacity = c /\ u.count = 0
  BY <1>1, <1>2, <1>3, <1>4 DEF Good
<1> QED
  BY <1>5 DEF u

(* The tables in which the elements of the first 0, ..., n slots of t are.    *)
Filling(f, t, c, n) ==
  f = [i \in 0..n |-> IF i = 0 THEN NewMap(c)
                      ELSE IF t.slot[i - 1] = Empty THEN f[i - 1]
                      ELSE Place(f[i - 1], t.slot[i - 1])]

LEMMA FillingExists ==
  ASSUME NEW t, NEW c, NEW n \in Nat
  PROVE  \E f : Filling(f, t, c, n)
<1> DEFINE S == {k \in Nat : \E f : Filling(f, t, c, k)}
           Step(i, x) == IF t.slot[i - 1] = Empty THEN x ELSE Place(x, t.slot[i - 1])
<1>1. \A f : \A k \in Nat :
        Filling(f, t, c, k) <=> f = [i \in 0..k |-> IF i = 0 THEN NewMap(c) ELSE Step(i, f[i - 1])]
  BY DEF Filling
<1> HIDE DEF Step
<1>2. 0 \in S
  <2> DEFINE f == [i \in 0..0 |-> NewMap(c)]
  <2>1. f = [i \in 0..0 |-> IF i = 0 THEN NewMap(c) ELSE Step(i, f[i - 1])]
    OBVIOUS
  <2> HIDE DEF f
  <2> QED
    BY <1>1, <2>1
<1>3. ASSUME NEW k \in S PROVE k + 1 \in S
  <2>1. k \in Nat
    OBVIOUS
  <2>2. PICK f : Filling(f, t, c, k)
    OBVIOUS
  <2>3. f = [i \in 0..k |-> IF i = 0 THEN NewMap(c) ELSE Step(i, f[i - 1])]
    BY <1>1, <2>1, <2>2
  <2> DEFINE g == [i \in 0..k + 1 |-> IF i = k + 1 THEN Step(k + 1, f[k]) ELSE f[i]]
             h == [i \in 0..k + 1 |-> IF i = 0 THEN NewMap(c) ELSE Step(i, g[i - 1])]
  <2>4. ASSUME NEW i \in 0..k + 1 PROVE g[i] = h[i]
    <3>1. CASE i = 0
      <4>1. g[i] = f[0] /\ h[i] = NewMap(c)
        BY <2>1, <3>1
      <4>2. f[0] = NewMap(c)
        BY <2>1, <2>3
      <4> QED
        BY <4>1, <4>2
    <3>2. CASE i = k + 1
      <4>1. g[i] = Step(k + 1, f[k]) /\ g[k] = f[k] /\ h[i] = Step(k + 1, g[k])
        BY <2>1, <3>2
      <4> QED
        BY <4>1
    <3>3. CASE i \in 1..k
      <4>1. g[i] = f[i] /\ g[i - 1] = f[i - 1] /\ h[i] = Step(i, g[i - 1])
        BY <2>1, <3>3
      <4>2. f[i] = Step(i, f[i - 1])
        BY <2>1, <2>3, <3>3
      <4> QED
        BY <4>1, <4>2
    <3> QED
      BY <2>1, <3>1, <3>2, <3>3
  <2>5. g = h
    BY <2>4
  <2>6. Filling(g, t, c, k + 1)
    <3> HIDE DEF g
    <3> QED
      BY <1>1, <2>1, <2>5
  <2> HIDE DEF g
  <2> QED
    BY <2>1, <2>6
<1>4. S \in SUBSET Nat
  OBVIOUS
<1> HIDE DEF S
<1>5. S = Nat
  BY <1>2, <1>3, <1>4, Induction
<1> QED
  BY <1>5 DEF S

LEMMA RehashIs ==
  ASSUME NEW t, t.capacity \in Nat, NEW size
  PROVE  \E f : /\ Filling(f, t, map_roundup(size), t.capacity)
                /\ map_rehash(t, size) = f[t.capacity]
<1> DEFINE c == map_roundup(size)
           f == CHOOSE g : g = [i \in 0..t.capacity |->
                  IF i = 0 THEN NewMap(c)
                  ELSE IF t.slot[i - 1] = Empty THEN g[i - 1]
                  ELSE Place(g[i - 1], t.slot[i - 1])]
<1>1. map_rehash(t, size) = f[t.capacity]
  BY Zenon DEF map_rehash
<1>2. f = CHOOSE g : Filling(g, t, c, t.capacity)
  BY Zenon DEF Filling
<1>3. Filling(f, t, c, t.capacity)
  <2>1. \E g : Filling(g, t, c, t.capacity)
    <3> HIDE DEF c
    <3> QED
      BY FillingExists
  <2> HIDE DEF f, c
  <2> QED
    BY <1>2, <2>1, Zenon
<1> QED
  BY <1>1, <1>3, Zenon

First(t, i) == {t.slot[j] : j \in 0..i - 1} \ {Empty}

(* As the keys of t are distinct, map_insert puts each of its elements.       *)
LEMMA FillingKeeps ==
  ASSUME HashOK, NEW t, Good(t), NEW c \in Nat \ {0}, t.count <= c,
         NEW f, Filling(f, t, c, t.capacity)
  PROVE  \A i \in 0..t.capacity : Good(f[i]) /\ f[i].capacity = c /\ InUse(f[i]) = First(t, i)
<1> DEFINE P(i) == Good(f[i]) /\ f[i].capacity = c /\ InUse(f[i]) = First(t, i)
           S == {i \in Nat : i <= t.capacity => P(i)}
<1>1. t.capacity \in Nat /\ t.count = Cardinality(InUse(t)) /\ IsFiniteSet(InUse(t))
  BY DEF Good
<1>2. /\ f[0] = NewMap(c)
      /\ \A i \in 1..t.capacity :
           f[i] = IF t.slot[i - 1] = Empty THEN f[i - 1] ELSE Place(f[i - 1], t.slot[i - 1])
  BY <1>1 DEF Filling
<1>3. 0 \in S
  <2>1. First(t, 0) = {}
    BY DEF First
  <2> QED
    BY <1>2, <2>1, NewIs
<1>4. ASSUME NEW i \in S PROVE i + 1 \in S
  <2> SUFFICES ASSUME i + 1 <= t.capacity PROVE P(i + 1)
    BY <1>4
  <2>1. i \in Nat /\ i \in 0..t.capacity - 1
    BY <1>1
  <2>2. P(i)
    BY <1>1, <1>4, <2>1
  <2>3. f[i + 1] = IF t.slot[i] = Empty THEN f[i] ELSE Place(f[i], t.slot[i])
    <3>1. i + 1 \in 1..t.capacity /\ (i + 1) - 1 = i
      BY <1>1, <2>1
    <3> QED
      BY <1>2, <3>1
  <2>4. First(t, i + 1) = First(t, i) \cup ({t.slot[i]} \ {Empty})
    <3>1. 0..(i + 1) - 1 = 0..i - 1 \cup {i}
      BY <2>1
    <3> QED
      BY <3>1 DEF First
  <2>5. CASE t.slot[i] = Empty
    BY <2>2, <2>3, <2>4, <2>5
  <2>6. CASE t.slot[i] # Empty
    <3> DEFINE e == t.slot[i]
    <3>1. e \in Elements /\ e \in InUse(t) /\ KeyOf(e) \in Keys
      BY <2>1, <2>6, ElementOf
    <3>2. \A x \in First(t, i) : KeyOf(x) # KeyOf(e) /\ x \in InUse(t)
      <4> SUFFICES ASSUME NEW j \in 0..i - 1, t.slot[j] # Empty
                   PROVE  KeyOf(t.slot[j]) # KeyOf(e) /\ t.slot[j] \in InUse(t)
        BY DEF First
      <4>1. j \in 0..t.capacity - 1 /\ j # i
        BY <1>1, <2>1
      <4> QED
        BY <2>1, <2>6, <4>1, ElementOf DEF Good, Distinct
    <3>3. f[i].count + 1 <= t.count /\ f[i].count \in Nat
      <4>1. f[i].count = Cardinality(First(t, i)) /\ IsFiniteSet(First(t, i))
        BY <2>2 DEF Good
      <4>2. First(t, i) \cup {e} \in SUBSET InUse(t) /\ e \notin First(t, i)
        BY <3>1, <3>2
      <4>3. Cardinality(First(t, i) \cup {e}) = Cardinality(First(t, i)) + 1
        BY <4>1, <4>2, FS_AddElement
      <4>4. Cardinality(First(t, i) \cup {e}) <= Cardinality(InUse(t))
        BY <1>1, <4>2, FS_Subset
      <4>5. Cardinality(First(t, i)) \in Nat
        BY <4>1, FS_CardinalityType
      <4> QED
        BY <1>1, <4>1, <4>3, <4>4, <4>5
    <3>4. t.count \in Nat
      BY DEF Good, Tables
    <3>5. f[i].count < f[i].capacity
      BY <2>2, <3>3, <3>4
    <3>6. ~Has(f[i], KeyOf(e))
      <4> SUFFICES ASSUME Has(f[i], KeyOf(e)) PROVE FALSE
        OBVIOUS
      <4> DEFINE p == map_at(f[i], KeyOf(e))
      <4>1. p \in 0..f[i].capacity - 1 /\ KeyOf(f[i].slot[p]) = KeyOf(e)
        BY <2>2, <3>1, <3>5, HasIs
      <4>2. f[i].slot[p] \in InUse(f[i])
        BY <4>1 DEF InUse, Has
      <4> QED
        BY <2>2, <3>2, <4>1, <4>2
    <3>7. /\ Good(Place(f[i], e)) /\ Place(f[i], e).capacity = f[i].capacity
          /\ InUse(Place(f[i], e)) = InUse(f[i]) \cup {e}
      BY <2>2, <3>1, <3>5, <3>6, PlaceIs
    <3>8. f[i + 1] = Place(f[i], e)
      BY <2>3, <2>6
    <3>9. First(t, i + 1) = InUse(f[i]) \cup {e}
      BY <2>2, <2>4, <2>6
    <3> HIDE DEF e
    <3>10. Good(f[i + 1]) /\ f[i + 1].capacity = c /\ InUse(f[i + 1]) = First(t, i + 1)
      BY <2>2, <3>7, <3>8, <3>9
    <3> QED
      BY <3>10
  <2> QED
    BY <2>5, <2>6
<1>5. S \in SUBSET Nat
  OBVIOUS
<1>6. S = Nat
  <2> HIDE DEF S
  <2> QED
    BY <1>3, <1>4, <1>5, Induction
<1> QED
  BY <1>1, <1>6

LEMMA ReserveIs ==
  ASSUME HashOK, NEW t, Good(t), IsPowerOfTwo(t.capacity),
         2 * t.count <= t.capacity, NEW size \in Nat \ {0}
  PROVE  /\ Good(map_reserve(t, size)) /\ InUse(map_reserve(t, size)) = InUse(t)
         /\ map_reserve(t, size).count = t.count
         /\ IsPowerOfTwo(map_reserve(t, size).capacity)
         /\ 2 * t.count <= map_reserve(t, size).capacity
         /\ 2 * size <= map_reserve(t, size).capacity
<1>1. t.capacity \in Nat \ {0} /\ t.count \in Nat
  BY DEF Good, Tables
<1>2. CASE 2 * size <= t.capacity
  BY <1>1, <1>2 DEF map_reserve
<1>3. CASE 2 * size > t.capacity
  <2> DEFINE c == map_roundup(2 * size)
  <2>1. c \in Nat \ {0} /\ c >= 2 * size /\ IsPowerOfTwo(c)
    BY RoundupIs
  <2>2. PICK f : /\ Filling(f, t, c, t.capacity)
                 /\ map_rehash(t, 2 * size) = f[t.capacity]
    BY <1>1, RehashIs
  <2> HIDE DEF c
  <2>3. t.count <= c
    BY <1>1, <1>3, <2>1
  <2>4. t.capacity \in 0..t.capacity
    BY <1>1
  <2> DEFINE u == f[t.capacity]
  <2>5. Good(u) /\ u.capacity = c /\ InUse(u) = First(t, t.capacity)
    BY <2>1, <2>2, <2>3, <2>4, FillingKeeps
  <2>6. map_reserve(t, size) = u
    BY <1>1, <1>3, <2>2 DEF map_reserve
  <2> HIDE DEF u
  <2>7. InUse(u) = InUse(t)
    BY <2>5 DEF First, InUse
  <2>8. u.count = t.count
    BY <2>5, <2>7 DEF Good
  <2> QED
    BY <1>1, <1>3, <2>1, <2>5, <2>6, <2>7, <2>8
<1> QED
  BY <1>1, <1>2, <1>3

-----------------------------------------------------------------------------
(* map_erase.  Of a table with capacity c and slots s the element at i is     *)
(* erased; the next empty slot is run further on.                             *)

(* The slot that is x further on than i, going round.                         *)
Ring(c, i, x) == IF i + x < c THEN i + x ELSE i + x - c

ToBeErased(c, s, i, run) ==
  /\ c \in Nat \ {0}
  /\ s \in [0..c - 1 -> Elements \cup {Empty}]
  /\ Distinct(c, s) /\ Reached(c, s)
  /\ i \in 0..c - 1 /\ s[i] # Empty
  /\ run \in 1..c - 1 /\ s[Ring(c, i, run)] = Empty
  /\ \A x \in 1..run - 1 : s[Ring(c, i, x)] # Empty

(* The slots once the hole is emptied.                                        *)
Hollow(s, hole) == [s EXCEPT ![hole] = Empty]

(* After x slots were looked at, s has become s2.  The search for an element  *)
(* passes the hole only if the element is still to be looked at.              *)
Shifted(c, s, i, run, x, s2, hole) ==
  /\ s2 \in [0..c - 1 -> Elements \cup {Empty}]
  /\ \E y \in 0..x : hole = Ring(c, i, y)
  /\ \A y \in x + 1..run : s2[Ring(c, i, y)] = s[Ring(c, i, y)]
  /\ Used(c, Hollow(s2, hole)) = Used(c, s) \ {s[i]}
  /\ Distinct(c, Hollow(s2, hole))
  /\ \A p, q \in 0..c - 1 :
       /\ Hollow(s2, hole)[p] # Empty
       /\ Between(hash[KeyOf(Hollow(s2, hole)[p])] % c, q, p)
       => \/ Hollow(s2, hole)[q] # Empty
          \/ q = hole /\ \E y \in x + 1..run - 1 : p = Ring(c, i, y)

LEMMA RingIs ==
  ASSUME NEW c \in Nat \ {0}, NEW i \in 0..c - 1
  PROVE  /\ \A x \in 0..c - 1 : Ring(c, i, x) \in 0..c - 1
         /\ \A x, y \in 0..c - 1 : Ring(c, i, x) = Ring(c, i, y) => x = y
         /\ \A x \in 0..c : (i + x) % c = Ring(c, i, x)
         /\ Ring(c, i, 0) = i
<1>1. \A x \in 0..c : (i + x) % c = Ring(c, i, x)
  BY WrapIs DEF Ring
<1> QED
  BY <1>1 DEF Ring

(* A search that passes x, and not the empty slot behind, ends between them.  *)
LEMMA EndsBefore ==
  ASSUME NEW c \in Nat \ {0}, NEW i \in 0..c - 1, NEW h \in 0..c - 1, NEW p \in 0..c - 1,
         NEW x \in 0..c - 1, NEW run \in x + 1..c - 1,
         Between(h, Ring(c, i, x), p), p # Ring(c, i, run), ~Between(h, Ring(c, i, run), p)
  PROVE  \E y \in x + 1..run - 1 : p = Ring(c, i, y)
<1> DEFINE y == IF p >= i THEN p - i ELSE p - i + c
<1>1. y \in 0..c - 1 /\ p = Ring(c, i, y)
  BY DEF Ring
<1>2. x < y
  BY DEF Ring, Between
<1>3. y < run
  BY DEF Ring, Between
<1> HIDE DEF y
<1> QED
  BY <1>1, <1>2, <1>3

LEMMA HollowIs ==
  ASSUME NEW c \in Nat, NEW s \in [0..c - 1 -> Elements \cup {Empty}], NEW hole \in 0..c - 1
  PROVE  /\ Hollow(s, hole) \in [0..c - 1 -> Elements \cup {Empty}]
         /\ Hollow(s, hole)[hole] = Empty
         /\ \A q \in 0..c - 1 : q # hole => Hollow(s, hole)[q] = s[q]
BY DEF Hollow

LEMMA KeyOfSlot ==
  ASSUME HashOK, NEW c \in Nat \ {0},
         NEW s \in [0..c - 1 -> Elements \cup {Empty}], NEW p \in 0..c - 1, s[p] # Empty
  PROVE  KeyOf(s[p]) \in Keys /\ hash[KeyOf(s[p])] % c \in 0..c - 1
<1>1. s[p] \in Elements
  OBVIOUS
<1>2. KeyOf(s[p]) \in Keys
  BY <1>1 DEF Keys
<1> QED
  BY <1>2, HomeIs

(* The element itself is taken out.                                           *)
LEMMA ShiftBegins ==
  ASSUME HashOK, NEW c, NEW s, NEW i, NEW run, ToBeErased(c, s, i, run)
  PROVE  Shifted(c, s, i, run, 0, s, i)
<1> DEFINE v == Hollow(s, i)
<1>1. /\ c \in Nat \ {0} /\ c \in Nat /\ s \in [0..c - 1 -> Elements \cup {Empty}]
      /\ i \in 0..c - 1 /\ s[i] # Empty /\ run \in 1..c - 1 /\ s[Ring(c, i, run)] = Empty
  BY DEF ToBeErased
<1>2. v[i] = Empty /\ \A q \in 0..c - 1 : q # i => v[q] = s[q]
  BY <1>1, HollowIs
<1> HIDE DEF v
<1>3. Used(c, v) = Used(c, s) \ {s[i]}
  <2>1. \A q \in 0..c - 1 : q # i /\ s[q] # Empty => s[q] # s[i]
    BY <1>1 DEF ToBeErased, Distinct
  <2> QED
    BY <1>1, <1>2, <2>1 DEF Used
<1>4. Distinct(c, v)
  BY <1>1, <1>2 DEF ToBeErased, Distinct
<1>5. ASSUME NEW p \in 0..c - 1, NEW q \in 0..c - 1, v[p] # Empty,
             Between(hash[KeyOf(v[p])] % c, q, p), v[q] = Empty
      PROVE  q = i /\ \E y \in 0 + 1..run - 1 : p = Ring(c, i, y)
  <2> DEFINE h == hash[KeyOf(s[p])] % c
  <2>1. p # i /\ v[p] = s[p] /\ s[p] # Empty
    BY <1>2, <1>5
  <2>2. h \in 0..c - 1
    BY <1>1, <2>1, KeyOfSlot
  <2>3. \A x \in 0..c - 1 : Between(h, x, p) => s[x] # Empty
    BY <2>1 DEF ToBeErased, Reached
  <2>4. Between(h, q, p)
    BY <1>5, <2>1
  <2> HIDE DEF h
  <2>5. q = i
    BY <1>2, <1>5, <2>3, <2>4
  <2>6. Ring(c, i, run) \in 0..c - 1 /\ Ring(c, i, 0) = i
    BY <1>1, RingIs
  <2>7. p # Ring(c, i, run) /\ ~Between(h, Ring(c, i, run), p)
    BY <1>1, <2>1, <2>3, <2>6
  <2>8. 0 \in 0..c - 1 /\ run \in 0 + 1..c - 1
    BY <1>1
  <2>9. Between(h, Ring(c, i, 0), p)
    BY <2>4, <2>5, <2>6
  <2> QED
    BY <1>1, <2>2, <2>5, <2>7, <2>8, <2>9, EndsBefore
<1>6. i = Ring(c, i, 0) /\ 0 \in 0..0
  BY <1>1, RingIs
<1> QED
  BY <1>1, <1>3, <1>4, <1>5, <1>6 DEF Shifted, v

(* Moves asks whether the search for the element at j passes the hole.        *)
LEMMA MovesIs ==
  ASSUME NEW c \in Nat, NEW h \in 0..c - 1, NEW hole \in 0..c - 1, NEW j \in 0..c - 1, hole # j
  PROVE  Moves(h, hole, j) <=> Between(h, hole, j)
BY DEF Moves, Between

(* One more slot is looked at, and its element moved or not.                  *)
LEMMA ShiftKeeps ==
  ASSUME HashOK, NEW c, NEW s, NEW i, NEW run, ToBeErased(c, s, i, run),
         NEW x \in 1..run - 1, NEW s2, NEW hole, Shifted(c, s, i, run, x - 1, s2, hole),
         NEW j, j = Ring(c, i, x)
  PROVE  /\ Moves(hash[KeyOf(s[j])] % c, hole, j) =>
              Shifted(c, s, i, run, x, [s2 EXCEPT ![hole] = s[j]], j)
         /\ ~Moves(hash[KeyOf(s[j])] % c, hole, j) => Shifted(c, s, i, run, x, s2, hole)
<1> DEFINE v == Hollow(s2, hole)
           h == hash[KeyOf(s[j])] % c
           r == Ring(c, i, run)
<1>1. /\ c \in Nat \ {0} /\ c \in Nat /\ s \in [0..c - 1 -> Elements \cup {Empty}]
      /\ i \in 0..c - 1 /\ run \in 1..c - 1 /\ s[r] = Empty
      /\ s[j] # Empty
  BY DEF ToBeErased
<1>2. /\ s2 \in [0..c - 1 -> Elements \cup {Empty}]
      /\ \A y \in x..run : s2[Ring(c, i, y)] = s[Ring(c, i, y)]
      /\ Used(c, v) = Used(c, s) \ {s[i]}
      /\ Distinct(c, v)
      /\ \A p, q \in 0..c - 1 :
           v[p] # Empty /\ Between(hash[KeyOf(v[p])] % c, q, p) =>
             \/ v[q] # Empty
             \/ q = hole /\ \E y \in x..run - 1 : p = Ring(c, i, y)
  BY DEF Shifted
<1>3. PICK g \in 0..x - 1 : hole = Ring(c, i, g)
  BY DEF Shifted
<1>4. /\ x \in 0..c - 1 /\ g \in 0..c - 1 /\ run \in 0..c - 1
      /\ x \in Nat /\ x # g /\ g # run /\ x # run
      /\ x \in x..run /\ run \in x..run
  BY <1>1, <1>3
<1>5. /\ hole \in 0..c - 1 /\ j \in 0..c - 1 /\ r \in 0..c - 1
      /\ hole # j /\ hole # r /\ j # r
  <2>1. /\ \A y \in 0..c - 1 : Ring(c, i, y) \in 0..c - 1
        /\ \A y, z \in 0..c - 1 : Ring(c, i, y) = Ring(c, i, z) => y = z
    BY <1>1, RingIs, ZenonT(60)
  <2>2. Ring(c, i, g) # Ring(c, i, x) /\ Ring(c, i, g) # r /\ Ring(c, i, x) # r
    BY <1>4, <2>1
  <2>3. Ring(c, i, g) \in 0..c - 1 /\ Ring(c, i, x) \in 0..c - 1 /\ r \in 0..c - 1
    BY <1>4, <2>1
  <2> QED
    BY <1>3, <2>2, <2>3
<1>6. s2[j] = s[j] /\ s2[r] = Empty
  BY <1>1, <1>2, <1>4
<1>7. v[hole] = Empty /\ \A q \in 0..c - 1 : q # hole => v[q] = s2[q]
  BY <1>1, <1>2, <1>5, HollowIs
<1>8. v[j] = s[j] /\ v[r] = Empty
  BY <1>5, <1>6, <1>7
<1>9. h \in 0..c - 1
  BY <1>1, <1>5, KeyOfSlot
<1>10. Moves(h, hole, j) <=> Between(h, hole, j)
  BY <1>1, <1>5, <1>9, MovesIs
<1> HIDE DEF v
<1>11. ASSUME ~Between(h, hole, j) PROVE Shifted(c, s, i, run, x, s2, hole)
  <2>1. \A y \in x + 1..run : s2[Ring(c, i, y)] = s[Ring(c, i, y)]
    BY <1>1, <1>2, <1>4
  <2>2. ASSUME NEW p \in 0..c - 1, NEW q \in 0..c - 1, v[p] # Empty,
               Between(hash[KeyOf(v[p])] % c, q, p), v[q] = Empty
        PROVE  q = hole /\ \E y \in x + 1..run - 1 : p = Ring(c, i, y)
    <3>1. q = hole
      BY <1>2, <2>2
    <3>2. PICK y \in x..run - 1 : p = Ring(c, i, y)
      BY <1>2, <2>2
    <3>3. y # x
      <4> SUFFICES ASSUME y = x PROVE FALSE
        OBVIOUS
      <4>1. p = j
        BY <3>2
      <4> QED
        BY <1>8, <1>11, <2>2, <3>1, <4>1
    <3>4. y \in x + 1..run - 1
      BY <1>1, <1>4, <3>2, <3>3
    <3> QED
      BY <3>1, <3>2, <3>4
  <2>3. g \in 0..x
    BY <1>3, <1>4
  <2> QED
    BY <1>2, <1>3, <2>1, <2>2, <2>3 DEF Shifted, v
<1>12. ASSUME Between(h, hole, j) PROVE Shifted(c, s, i, run, x, [s2 EXCEPT ![hole] = s[j]], j)
  <2> DEFINE s3 == [s2 EXCEPT ![hole] = s[j]]
             w == Hollow(s3, j)
  <2>1. /\ s3 \in [0..c - 1 -> Elements \cup {Empty}] /\ s3[hole] = s[j]
        /\ \A q \in 0..c - 1 : q # hole => s3[q] = s2[q]
    BY <1>1, <1>2, <1>5
  <2> HIDE DEF s3
  <2>2. w[j] = Empty /\ \A q \in 0..c - 1 : q # j => w[q] = s3[q]
    BY <1>1, <1>5, <2>1, HollowIs
  <2> HIDE DEF w
  <2>3. /\ w[hole] = s[j] /\ w[j] = Empty
        /\ \A q \in 0..c - 1 : q # j /\ q # hole => w[q] = v[q]
    BY <1>5, <1>7, <2>1, <2>2
  <2>4. \A y \in x + 1..run : s3[Ring(c, i, y)] = s[Ring(c, i, y)]
    <3> SUFFICES ASSUME NEW y \in x + 1..run PROVE s3[Ring(c, i, y)] = s[Ring(c, i, y)]
      OBVIOUS
    <3>1. y \in x..run /\ y \in 0..c - 1 /\ y # g
      BY <1>1, <1>3, <1>4
    <3>2. Ring(c, i, y) \in 0..c - 1 /\ Ring(c, i, y) # hole
      <4>1. /\ \A a \in 0..c - 1 : Ring(c, i, a) \in 0..c - 1
            /\ \A a, b \in 0..c - 1 : Ring(c, i, a) = Ring(c, i, b) => a = b
        BY <1>1, RingIs, ZenonT(60)
      <4>2. Ring(c, i, y) # Ring(c, i, g) /\ Ring(c, i, y) \in 0..c - 1
        BY <1>4, <3>1, <4>1
      <4> QED
        BY <1>3, <4>2
    <3> QED
      BY <1>2, <2>1, <3>1, <3>2
  <2>5. Used(c, w) = Used(c, v)
    <3>1. ASSUME NEW p \in 0..c - 1, w[p] # Empty PROVE \E q \in 0..c - 1 : v[q] = w[p]
      <4>1. p # j
        BY <2>3, <3>1
      <4>2. CASE p = hole
        BY <1>5, <1>7, <1>8, <2>3, <4>2
      <4>3. CASE p # hole
        BY <2>3, <4>1, <4>3
      <4> QED
        BY <4>2, <4>3
    <3>2. ASSUME NEW p \in 0..c - 1, v[p] # Empty PROVE \E q \in 0..c - 1 : w[q] = v[p]
      <4>1. p # hole
        BY <1>7, <3>2
      <4>2. CASE p = j
        BY <1>5, <1>7, <1>8, <2>3, <4>2
      <4>3. CASE p # j
        BY <2>3, <4>1, <4>3
      <4> QED
        BY <4>2, <4>3
    <3> QED
      BY <3>1, <3>2 DEF Used
  <2>6. Distinct(c, w)
    BY <1>2, <1>5, <1>7, <1>8, <2>3 DEF Distinct
  <2>7. ASSUME NEW p \in 0..c - 1, NEW q \in 0..c - 1, w[p] # Empty,
               Between(hash[KeyOf(w[p])] % c, q, p), w[q] = Empty
        PROVE  q = j /\ \E y \in x + 1..run - 1 : p = Ring(c, i, y)
    <3>1. CASE p = hole
      <4>1. Between(h, q, hole)
        BY <2>3, <2>7, <3>1
      <4>2. Between(h, q, j) /\ q # hole /\ q # j
        <5> HIDE DEF h
        <5> QED
          BY <1>1, <1>5, <1>9, <1>12, <4>1 DEF Between
      <4>3. v[q] # Empty
        BY <1>1, <1>2, <1>5, <1>8, <4>2
      <4> QED
        BY <2>3, <2>7, <4>2, <4>3
    <3>2. CASE p # hole
      <4> DEFINE hp == hash[KeyOf(v[p])] % c
      <4>1. p # j /\ w[p] = v[p] /\ v[p] # Empty /\ Between(hp, q, p)
        BY <2>3, <2>7, <3>2
      <4>2. q # hole
        BY <1>1, <2>3, <2>7
      <4>3. q = j
        <5> SUFFICES ASSUME q # j PROVE FALSE
          OBVIOUS
        <5>1. v[q] = Empty
          BY <2>3, <2>7, <4>2
        <5> QED
          BY <1>2, <4>1, <4>2, <5>1
      <4>4. ~Between(hp, r, p) /\ p # r
        BY <1>2, <1>5, <1>8, <4>1
      <4>5. hp \in 0..c - 1
        <5>1. v \in [0..c - 1 -> Elements \cup {Empty}]
          BY <1>1, <1>2, <1>5, HollowIs DEF v
        <5> QED
          BY <1>1, <4>1, <5>1, KeyOfSlot
      <4> HIDE DEF hp
      <4>6. run \in x + 1..c - 1
        BY <1>1, <1>4
      <4>7. Between(hp, Ring(c, i, x), p)
        BY <4>1, <4>3
      <4> QED
        BY <1>1, <1>4, <4>3, <4>4, <4>5, <4>6, <4>7, EndsBefore
    <3> QED
      BY <3>1, <3>2
  <2>8. x \in 0..x
    BY <1>4
  <2> QED
    BY <1>2, <2>1, <2>4, <2>5, <2>6, <2>7, <2>8 DEF Shifted, s3, w
<1> QED
  BY <1>10, <1>11, <1>12

(* What the loop of map_erase has made of the table after 0, ..., n slots.    *)
Step(t, i, d, s) ==
  IF Moves(Home(t, KeyOf(t.slot[(i + d) % t.capacity])), s.hole, (i + d) % t.capacity)
  THEN [slot |-> [s.slot EXCEPT ![s.hole] = t.slot[(i + d) % t.capacity]],
        hole |-> (i + d) % t.capacity]
  ELSE s

Moving(f, t, i, n) ==
  f = [d \in 0..n |-> IF d = 0 THEN [slot |-> t.slot, hole |-> i] ELSE Step(t, i, d, f[d - 1])]

LEMMA MovingExists ==
  ASSUME NEW t, NEW i, NEW n \in Nat
  PROVE  \E f : Moving(f, t, i, n)
<1> DEFINE S == {k \in Nat : \E f : Moving(f, t, i, k)}
           first == [slot |-> t.slot, hole |-> i]
<1>1. \A f : \A k \in Nat :
        Moving(f, t, i, k) <=> f = [d \in 0..k |-> IF d = 0 THEN first ELSE Step(t, i, d, f[d - 1])]
  BY DEF Moving
<1> HIDE DEF first
<1>2. 0 \in S
  <2> DEFINE f == [d \in 0..0 |-> first]
  <2>1. f = [d \in 0..0 |-> IF d = 0 THEN first ELSE Step(t, i, d, f[d - 1])]
    OBVIOUS
  <2> HIDE DEF f
  <2> QED
    BY <1>1, <2>1
<1>3. ASSUME NEW k \in S PROVE k + 1 \in S
  <2>1. k \in Nat
    OBVIOUS
  <2>2. PICK f : Moving(f, t, i, k)
    OBVIOUS
  <2>3. f = [d \in 0..k |-> IF d = 0 THEN first ELSE Step(t, i, d, f[d - 1])]
    BY <1>1, <2>1, <2>2
  <2> DEFINE g == [d \in 0..k + 1 |-> IF d = k + 1 THEN Step(t, i, k + 1, f[k]) ELSE f[d]]
             h == [d \in 0..k + 1 |-> IF d = 0 THEN first ELSE Step(t, i, d, g[d - 1])]
  <2>4. ASSUME NEW d \in 0..k + 1 PROVE g[d] = h[d]
    <3>1. CASE d = 0
      <4>1. g[d] = f[0] /\ h[d] = first
        BY <2>1, <3>1
      <4>2. f[0] = first
        BY <2>1, <2>3
      <4> QED
        BY <4>1, <4>2
    <3>2. CASE d = k + 1
      <4>1. g[d] = Step(t, i, k + 1, f[k]) /\ g[k] = f[k] /\ h[d] = Step(t, i, k + 1, g[k])
        BY <2>1, <3>2
      <4> QED
        BY <4>1
    <3>3. CASE d \in 1..k
      <4>1. g[d] = f[d] /\ g[d - 1] = f[d - 1] /\ h[d] = Step(t, i, d, g[d - 1])
        BY <2>1, <3>3
      <4>2. f[d] = Step(t, i, d, f[d - 1])
        BY <2>1, <2>3, <3>3
      <4> QED
        BY <4>1, <4>2
    <3> QED
      BY <2>1, <3>1, <3>2, <3>3
  <2>5. g = h
    BY <2>4
  <2>6. Moving(g, t, i, k + 1)
    <3> HIDE DEF g
    <3> QED
      BY <1>1, <2>1, <2>5
  <2> HIDE DEF g
  <2> QED
    BY <2>1, <2>6
<1>4. S \in SUBSET Nat
  OBVIOUS
<1> HIDE DEF S
<1>5. S = Nat
  BY <1>2, <1>3, <1>4, Induction
<1> QED
  BY <1>5 DEF S

(* The distance from i to the next empty slot.                                *)
Run(t, i) == MinOf({d \in 1..t.capacity : t.slot[(i + d) % t.capacity] = Empty})

LEMMA RunIs ==
  ASSUME HashOK, NEW t, Good(t), t.count < t.capacity,
         NEW i \in 0..t.capacity - 1, t.slot[i] # Empty
  PROVE  ToBeErased(t.capacity, t.slot, i, Run(t, i))
<1> DEFINE c == t.capacity
           s == t.slot
           S == {d \in 1..c : s[(i + d) % c] = Empty}
           run == Run(t, i)
<1>1. /\ c \in Nat \ {0} /\ s \in [0..c - 1 -> Elements \cup {Empty}]
      /\ Distinct(c, s) /\ Reached(c, s)
  BY DEF Good, Tables
<1>2. PICK p \in 0..c - 1 : s[p] = Empty
  BY SomeSlotIsEmpty
<1>3. run = MinOf(S)
  BY DEF Run
<1>4. i \in 0..c - 1 /\ s[i] # Empty
  OBVIOUS
<1> HIDE DEF run, c, s
<1>5. \A x \in 0..c : (i + x) % c = Ring(c, i, x)
  BY <1>1, <1>4, RingIs
<1>6. p # i
  BY <1>2, <1>4
<1>7. PICK d \in 1..c : Ring(c, i, d) = p
  <2>1. CASE p > i
    <3>1. p - i \in 1..c /\ Ring(c, i, p - i) = p
      BY <1>1, <1>2, <1>4, <2>1 DEF Ring
    <3> QED
      BY <3>1
  <2>2. CASE p < i
    <3>1. p - i + c \in 1..c /\ Ring(c, i, p - i + c) = p
      BY <1>1, <1>2, <1>4, <2>2 DEF Ring
    <3> QED
      BY <3>1
  <2> QED
    BY <1>1, <1>2, <1>4, <1>6, <2>1, <2>2
<1>8. d \in S
  BY <1>1, <1>2, <1>5, <1>7
<1>9. run \in S /\ \A y \in S : run <= y
  <2>1. S \in SUBSET Nat
    BY <1>1
  <2> HIDE DEF S
  <2> QED
    BY <1>3, <1>8, <2>1, MinOfIs
<1>10. run \in 1..c /\ s[Ring(c, i, run)] = Empty
  BY <1>1, <1>5, <1>9
<1>11. run # c
  <2> SUFFICES ASSUME run = c PROVE FALSE
    OBVIOUS
  <2>1. Ring(c, i, c) = i
    BY <1>1, <1>4 DEF Ring
  <2> QED
    BY <1>4, <1>10, <2>1
<1>12. ASSUME NEW x \in 1..run - 1 PROVE s[Ring(c, i, x)] # Empty
  <2>1. x \in 1..c /\ x \in 0..c /\ x < run
    BY <1>1, <1>10
  <2>2. x \notin S
    BY <1>1, <1>9, <1>10, <2>1
  <2> QED
    BY <1>5, <2>1, <2>2
<1>13. run \in 1..c - 1
  BY <1>1, <1>10, <1>11
<1>14. ToBeErased(c, s, i, run)
  BY <1>1, <1>4, <1>10, <1>12, <1>13 DEF ToBeErased
<1> QED
  BY <1>14 DEF c, s, run

LEMMA UnplaceLast ==
  ASSUME NEW t, NEW i, Run(t, i) \in Nat \ {0}
  PROVE  \E f : /\ Moving(f, t, i, Run(t, i) - 1)
                /\ Unplace(t, i) = With(t, Hollow(f[Run(t, i) - 1].slot, f[Run(t, i) - 1].hole),
                                        t.count - 1)
<1> DEFINE run == MinOf({d \in 1..t.capacity : t.slot[(i + d) % t.capacity] = Empty})
           f == CHOOSE g : g =
                  [d \in 0..run - 1 |->
                     IF d = 0 THEN [slot |-> t.slot, hole |-> i]
                     ELSE IF Moves(Home(t, KeyOf(t.slot[(i + d) % t.capacity])), g[d - 1].hole,
                                   (i + d) % t.capacity)
                          THEN [slot |-> [g[d - 1].slot EXCEPT ![g[d - 1].hole]
                                            = t.slot[(i + d) % t.capacity]],
                                hole |-> (i + d) % t.capacity]
                          ELSE g[d - 1]]
<1>1. Unplace(t, i) = [t EXCEPT !.slot = [f[run - 1].slot EXCEPT ![f[run - 1].hole] = Empty],
                                !.count = t.count - 1]
  BY Zenon DEF Unplace
<1>2. f = CHOOSE g : Moving(g, t, i, run - 1)
  BY Zenon DEF Moving, Step
<1>3. run = Run(t, i)
  BY Zenon DEF Run
<1> HIDE DEF run, f
<1>4. \E g : Moving(g, t, i, run - 1)
  <2>1. run - 1 \in Nat
    BY <1>3
  <2> QED
    BY <2>1, MovingExists
<1>5. Moving(f, t, i, run - 1)
  BY <1>2, <1>4, Zenon
<1>6. Unplace(t, i) = With(t, Hollow(f[run - 1].slot, f[run - 1].hole), t.count - 1)
  BY <1>1, Zenon DEF With, Hollow
<1> QED
  BY <1>3, <1>5, <1>6, Zenon

LEMMA MovingKeeps ==
  ASSUME HashOK, NEW t, NEW i, NEW run, NEW f,
         ToBeErased(t.capacity, t.slot, i, run), Moving(f, t, i, run - 1)
  PROVE  \A d \in 0..run - 1 : Shifted(t.capacity, t.slot, i, run, d, f[d].slot, f[d].hole)
<1> DEFINE c == t.capacity
           s == t.slot
           P(d) == Shifted(c, s, i, run, d, f[d].slot, f[d].hole)
           S == {d \in Nat : d <= run - 1 => P(d)}
<1>1. c \in Nat \ {0} /\ i \in 0..c - 1 /\ run \in 1..c - 1
  BY DEF ToBeErased
<1>2. /\ f[0] = [slot |-> s, hole |-> i]
      /\ \A d \in 1..run - 1 : f[d] = Step(t, i, d, f[d - 1])
  BY <1>1 DEF Moving
<1>3. 0 \in S
  <2>1. f[0].slot = s /\ f[0].hole = i
    BY <1>2
  <2> QED
    BY <2>1, ShiftBegins
<1>4. ASSUME NEW d \in S PROVE d + 1 \in S
  <2> SUFFICES ASSUME d + 1 <= run - 1 PROVE P(d + 1)
    BY <1>4
  <2>1. d \in Nat /\ d + 1 \in 1..run - 1 /\ (d + 1) - 1 = d /\ d + 1 \in 0..c
    BY <1>1
  <2>2. P(d)
    BY <1>1, <1>4, <2>1
  <2> DEFINE j == Ring(c, i, d + 1)
             b == f[d]
             a == f[d + 1]
  <2>3. a = Step(t, i, d + 1, b)
    BY <1>2, <2>1
  <2>4. (i + (d + 1)) % c = j
    <3> HIDE DEF c
    <3>1. \A x \in 0..c : (i + x) % c = Ring(c, i, x)
      BY <1>1, RingIs
    <3> QED
      BY <2>1, <3>1
  <2>5. a = IF Moves(hash[KeyOf(s[j])] % c, b.hole, j)
            THEN [slot |-> [b.slot EXCEPT ![b.hole] = s[j]], hole |-> j] ELSE b
    BY <2>3, <2>4, Zenon DEF Step, Home
  <2>6. Shifted(c, s, i, run, (d + 1) - 1, b.slot, b.hole)
    BY <2>1, <2>2
  <2>7. /\ Moves(hash[KeyOf(s[j])] % c, b.hole, j) =>
              Shifted(c, s, i, run, d + 1, [b.slot EXCEPT ![b.hole] = s[j]], j)
        /\ ~Moves(hash[KeyOf(s[j])] % c, b.hole, j) =>
              Shifted(c, s, i, run, d + 1, b.slot, b.hole)
    <3> DEFINE bs == b.slot
               bh == b.hole
    <3>1. Shifted(c, s, i, run, (d + 1) - 1, bs, bh) /\ ToBeErased(c, s, i, run)
      BY <2>6
    <3>2. j = Ring(c, i, d + 1)
      OBVIOUS
    <3> HIDE DEF bs, bh, c, s, j
    <3>3. /\ Moves(hash[KeyOf(s[j])] % c, bh, j) =>
                Shifted(c, s, i, run, d + 1, [bs EXCEPT ![bh] = s[j]], j)
          /\ ~Moves(hash[KeyOf(s[j])] % c, bh, j) =>
                Shifted(c, s, i, run, d + 1, bs, bh)
      BY <2>1, <3>1, <3>2, ShiftKeeps
    <3> QED
      BY <3>3 DEF bs, bh
  <2> HIDE DEF j, c, s, b
  <2>8. Shifted(c, s, i, run, d + 1, a.slot, a.hole)
    <3>1. CASE Moves(hash[KeyOf(s[j])] % c, b.hole, j)
      <4>1. a = [slot |-> [b.slot EXCEPT ![b.hole] = s[j]], hole |-> j]
        BY <2>5, <3>1
      <4> HIDE DEF a
      <4>2. a.slot = [b.slot EXCEPT ![b.hole] = s[j]] /\ a.hole = j
        BY <4>1
      <4> QED
        BY <2>7, <3>1, <4>2
    <3>2. CASE ~Moves(hash[KeyOf(s[j])] % c, b.hole, j)
      <4>1. a = b
        BY <2>5, <3>2
      <4> HIDE DEF a
      <4> QED
        BY <2>7, <3>2, <4>1
    <3> QED
      BY <3>1, <3>2
  <2> QED
    BY <2>8 DEF b
<1>5. S \in SUBSET Nat
  OBVIOUS
<1>6. S = Nat
  <2> HIDE DEF S
  <2> QED
    BY <1>3, <1>4, <1>5, Induction
<1> QED
  BY <1>1, <1>6

(* The table is good again, and has lost this element only.                   *)
LEMMA UnplaceIs ==
  ASSUME HashOK, NEW t, Good(t), t.count < t.capacity,
         NEW i \in 0..t.capacity - 1, t.slot[i] # Empty
  PROVE  /\ Good(Unplace(t, i)) /\ Unplace(t, i).capacity = t.capacity
         /\ Unplace(t, i).count = t.count - 1
         /\ InUse(Unplace(t, i)) = InUse(t) \ {t.slot[i]}
<1> DEFINE c == t.capacity
           s == t.slot
           run == Run(t, i)
           u == Unplace(t, i)
<1>1. ToBeErased(c, s, i, run)
  BY RunIs
<1>2. c \in Nat \ {0} /\ c \in Nat /\ i \in 0..c - 1 /\ run \in 1..c - 1
  BY <1>1 DEF ToBeErased
<1>3. PICK f : /\ Moving(f, t, i, run - 1)
               /\ u = With(t, Hollow(f[run - 1].slot, f[run - 1].hole), t.count - 1)
  <2>1. Run(t, i) \in Nat \ {0}
    BY <1>2
  <2> QED
    BY <2>1, UnplaceLast
<1> DEFINE s2 == f[run - 1].slot
           hole == f[run - 1].hole
           v == Hollow(s2, hole)
<1> HIDE DEF run, u
<1>4. Shifted(c, s, i, run, run - 1, s2, hole)
  <2>1. run - 1 \in 0..run - 1
    BY <1>2
  <2> QED
    BY <1>1, <1>3, <2>1, MovingKeeps
<1>5. u = With(t, v, t.count - 1)
  BY <1>3
<1> HIDE DEF s2, hole
<1>6. PICK g \in 0..run - 1 : hole = Ring(c, i, g)
  BY <1>4 DEF Shifted
<1>7. hole \in 0..c - 1
  <2>1. g \in 0..c - 1
    BY <1>2
  <2> QED
    BY <1>2, <1>6, <2>1, RingIs
<1>8. v \in [0..c - 1 -> Elements \cup {Empty}]
  <2>1. s2 \in [0..c - 1 -> Elements \cup {Empty}]
    BY <1>4 DEF Shifted
  <2> QED
    BY <1>2, <1>7, <2>1, HollowIs
<1>9. Used(c, v) = Used(c, s) \ {s[i]} /\ Distinct(c, v)
  BY <1>4 DEF Shifted
<1>10. Reached(c, v)
  <2>1. ~ \E y \in (run - 1) + 1..run - 1 : TRUE
    BY <1>2
  <2>2. \A p, q \in 0..c - 1 :
          v[p] # Empty /\ Between(hash[KeyOf(v[p])] % c, q, p) => v[q] # Empty
    BY <1>4, <2>1 DEF Shifted
  <2> QED
    BY <2>2 DEF Reached
<1> HIDE DEF v
<1>11. IsFiniteSet(InUse(t)) /\ t.count = Cardinality(InUse(t)) /\ t \in Tables(c)
       /\ t.count \in Nat
  BY DEF Good, Tables
<1>12. InUse(t) = Used(c, s) /\ s[i] \in InUse(t)
  BY DEF InUse, Used
<1>13. /\ IsFiniteSet(InUse(t) \ {s[i]})
       /\ Cardinality(InUse(t) \ {s[i]}) = t.count - 1
  BY <1>11, <1>12, FS_RemoveElement
<1>14. t.count - 1 \in Nat
  BY <1>13, FS_CardinalityType
<1>15. u \in Tables(c) /\ u.slot = v /\ u.count = t.count - 1 /\ u.capacity = c
  <2> DEFINE n == t.count - 1
  <2>1. n \in Nat /\ t \in Tables(c) /\ u = With(t, v, n)
    BY <1>5, <1>11, <1>14
  <2> HIDE DEF n, c
  <2>2. u \in Tables(c) /\ u.slot = v /\ u.count = n /\ u.capacity = c
    BY <1>2, <1>8, <2>1, WithIs
  <2> QED
    BY <2>2 DEF n
<1>16. InUse(u) = Used(c, v)
  BY <1>15 DEF InUse, Used
<1>17. Good(u)
  BY <1>2, <1>9, <1>10, <1>12, <1>13, <1>15, <1>16 DEF Good
<1> QED
  BY <1>9, <1>12, <1>15, <1>16, <1>17 DEF u

-----------------------------------------------------------------------------
(* What the operations do to the table, and to the dictionary that it is.     *)
LEMMA RoomForOne ==
  ASSUME NEW t, Good(t), 2 * t.count <= t.capacity
  PROVE  t.count < t.capacity /\ t.count \in Nat /\ t.capacity \in Nat \ {0}
<1>1. t.count \in Nat /\ t.capacity \in Nat \ {0}
  BY DEF Good, Tables
<1> QED
  BY <1>1

WithKey(t, k) == {x \in InUse(t) : KeyOf(x) = k}

LEMMA FoundIs ==
  ASSUME HashOK, NEW t, Good(t), t.count < t.capacity, NEW k \in Keys
  PROVE  /\ map_at(t, k) \in 0..t.capacity - 1
         /\ Has(t, k) => /\ t.slot[map_at(t, k)] # Empty
                         /\ WithKey(t, k) = {t.slot[map_at(t, k)]}
         /\ ~Has(t, k) => WithKey(t, k) = {}
<1> DEFINE p == map_at(t, k)
<1>1. /\ p \in 0..t.capacity - 1
      /\ Has(t, k) => KeyOf(t.slot[p]) = k
      /\ ~Has(t, k) => \A q \in 0..t.capacity - 1 : t.slot[q] # Empty => KeyOf(t.slot[q]) # k
  BY HasIs
<1>2. Has(t, k) <=> t.slot[p] # Empty
  BY DEF Has
<1> HIDE DEF p
<1>3. ASSUME Has(t, k) PROVE WithKey(t, k) = {t.slot[p]}
  <2>1. t.slot[p] # Empty /\ KeyOf(t.slot[p]) = k
    BY <1>1, <1>2, <1>3
  <2>2. ASSUME NEW q \in 0..t.capacity - 1, t.slot[q] # Empty, KeyOf(t.slot[q]) = k
        PROVE  q = p
    BY <1>1, <2>1, <2>2 DEF Good, Distinct
  <2> QED
    BY <1>1, <2>1, <2>2 DEF WithKey, InUse
<1>4. ASSUME ~Has(t, k) PROVE WithKey(t, k) = {}
  BY <1>1, <1>4 DEF WithKey, InUse
<1> QED
  BY <1>1, <1>2, <1>3, <1>4 DEF p

LEMMA GoodAgain ==
  ASSUME NEW u, Good(u), IsPowerOfTwo(u.capacity), 2 * u.count <= u.capacity, HashOK,
         m' = u, hash' = hash
  PROVE  IInv' /\ InUse(m)' = InUse(u) /\ (m.count)' = Cardinality(InUse(m)')
<1>1. Good(m)'
  BY DEF Good, Tables, Distinct, Reached, InUse
<1>2. HashOK'
  BY DEF HashOK
<1>3. RoomLeft'
  BY DEF RoomLeft, IsPowerOfTwo
<1>4. InUse(m)' = InUse(u)
  BY DEF InUse
<1>5. u.count = Cardinality(InUse(u))
  BY DEF Good
<1> QED
  BY <1>1, <1>2, <1>3, <1>4, <1>5 DEF IInv

(* The cardinality that Dictionary speaks of is the one of FiniteSets.        *)
LEMMA SameCardinality == ASSUME NEW S PROVE MapPromise!Cardinality(S) = Cardinality(S)
BY Zenon DEF MapPromise!Cardinality, Cardinality

LEMMA InsertKeeps ==
  ASSUME IInv, NEW e \in Elements, map_insert(e)
  PROVE  IInv' /\ MapPromise!Next
<1> DEFINE t == map_reserve(m, m.count + 1)
           k == KeyOf(e)
           u == Place(t, e)
<1>1. HashOK /\ Good(m) /\ IsPowerOfTwo(m.capacity) /\ 2 * m.count <= m.capacity
  BY DEF IInv, RoomLeft
<1>2. m' = u /\ released' = (IF Has(t, k) THEN {e} ELSE {}) /\ hash' = hash
  BY DEF map_insert
<1>3. /\ Good(t) /\ InUse(t) = InUse(m) /\ t.count = m.count /\ IsPowerOfTwo(t.capacity)
      /\ 2 * (m.count + 1) <= t.capacity /\ m.count \in Nat
  <2>1. m.count \in Nat /\ m.count + 1 \in Nat \ {0}
    BY <1>1, RoomForOne
  <2> QED
    BY <1>1, <2>1, ReserveIs
<1> HIDE DEF t
<1>4. t.capacity \in Nat \ {0} /\ t.count < t.capacity /\ 2 * t.count <= t.capacity
  BY <1>3 DEF Good
<1>5. k \in Keys
  BY DEF Keys
<1>6. /\ Good(u) /\ u.capacity = t.capacity
      /\ Has(t, k) => u = t
      /\ ~Has(t, k) => InUse(u) = InUse(t) \cup {e} /\ u.count = t.count + 1
  BY <1>1, <1>3, <1>4, PlaceIs
<1> HIDE DEF u, k
<1>7. Has(t, k) <=> WithKey(m, k) # {}
  <2>1. /\ Has(t, k) => WithKey(t, k) = {t.slot[map_at(t, k)]}
        /\ ~Has(t, k) => WithKey(t, k) = {}
    <3>1. HashOK /\ Good(t) /\ t.count < t.capacity /\ k \in Keys
      BY <1>1, <1>3, <1>4, <1>5
    <3> QED
      BY <3>1, FoundIs
  <2>2. Has(t, k) <=> WithKey(t, k) # {}
    BY <2>1
  <2> QED
    BY <1>3, <2>2 DEF WithKey
<1>8. 2 * u.count <= u.capacity
  BY <1>3, <1>4, <1>6
<1>9. IInv' /\ InUse(m)' = InUse(u) /\ (m.count)' = Cardinality(InUse(m)')
  BY <1>1, <1>2, <1>3, <1>6, <1>8, GoodAgain
<1>10. MapPromise!Insert(e)
  <2>1. MapPromise!With(KeyOf(e)) = WithKey(m, k)
    BY DEF MapPromise!With, WithKey, k
  <2>2. CASE Has(t, k)
    BY <1>2, <1>3, <1>6, <1>7, <1>9, <2>1, <2>2 DEF MapPromise!Insert
  <2>3. CASE ~Has(t, k)
    BY <1>2, <1>3, <1>6, <1>7, <1>9, <2>1, <2>3 DEF MapPromise!Insert
  <2> QED
    BY <2>2, <2>3
<1> QED
  BY <1>9, <1>10, SameCardinality DEF MapPromise!Next

LEMMA EraseKeeps ==
  ASSUME IInv, NEW k \in Keys, map_erase(k)
  PROVE  IInv' /\ MapPromise!Next
<1> DEFINE i == map_at(m, k)
           u == IF Has(m, k) THEN Unplace(m, i) ELSE m
<1>1. HashOK /\ Good(m) /\ IsPowerOfTwo(m.capacity) /\ 2 * m.count <= m.capacity
  BY DEF IInv, RoomLeft
<1>2. /\ m' = u /\ hash' = hash
      /\ released' = IF Has(m, k) THEN {m.slot[i]} ELSE {}
  BY DEF map_erase
<1>3. m.count < m.capacity /\ m.count \in Nat /\ m.capacity \in Nat \ {0}
  BY <1>1, RoomForOne
<1>4. /\ i \in 0..m.capacity - 1
      /\ Has(m, k) => m.slot[i] # Empty /\ WithKey(m, k) = {m.slot[i]}
      /\ ~Has(m, k) => WithKey(m, k) = {}
  BY <1>1, <1>3, FoundIs
<1>5. /\ Good(u) /\ u.capacity = m.capacity /\ u.count <= m.count /\ u.count \in Nat
      /\ InUse(u) = InUse(m) \ WithKey(m, k)
  <2>1. CASE Has(m, k)
    <3>1. /\ Good(Unplace(m, i)) /\ Unplace(m, i).capacity = m.capacity
          /\ Unplace(m, i).count = m.count - 1
          /\ InUse(Unplace(m, i)) = InUse(m) \ {m.slot[i]}
      BY <1>1, <1>3, <1>4, <2>1, UnplaceIs
    <3>2. u = Unplace(m, i)
      BY <2>1
    <3> HIDE DEF u
    <3>3. Good(u) /\ u.count \in Nat
      BY <3>1, <3>2 DEF Good, Tables
    <3> QED
      BY <1>3, <1>4, <2>1, <3>1, <3>2, <3>3
  <2>2. CASE ~Has(m, k)
    BY <1>1, <1>3, <1>4, <2>2
  <2> QED
    BY <2>1, <2>2
<1> HIDE DEF u, i
<1>6. 2 * u.count <= u.capacity /\ IsPowerOfTwo(u.capacity)
  BY <1>1, <1>3, <1>5
<1>7. IInv' /\ InUse(m)' = InUse(u) /\ (m.count)' = Cardinality(InUse(m)')
  BY <1>1, <1>2, <1>5, <1>6, GoodAgain
<1>8. released' = WithKey(m, k)
  BY <1>2, <1>4
<1>9. PICK e \in Elements : k = KeyOf(e)
  BY DEF Keys
<1>10. MapPromise!With(KeyOf(e)) = WithKey(m, k)
  BY <1>9 DEF MapPromise!With, WithKey
<1>11. MapPromise!Erase(KeyOf(e))
  BY <1>5, <1>7, <1>8, <1>10 DEF MapPromise!Erase
<1> QED
  BY <1>7, <1>11, SameCardinality DEF MapPromise!Next

LEMMA SizeKeeps ==
  ASSUME IInv, NEW size \in 1..MaxReserve, reserve(size)
  PROVE  IInv' /\ MapPromise!Next
<1> DEFINE u == map_reserve(m, size)
<1>1. HashOK /\ Good(m) /\ IsPowerOfTwo(m.capacity) /\ 2 * m.count <= m.capacity
  BY DEF IInv, RoomLeft
<1>2. m' = u /\ released' = {} /\ hash' = hash
  BY DEF reserve
<1>3. size \in Nat \ {0}
  BY MapOK
<1>4. /\ Good(u) /\ InUse(u) = InUse(m) /\ u.count = m.count /\ IsPowerOfTwo(u.capacity)
      /\ 2 * m.count <= u.capacity
  BY <1>1, <1>3, ReserveIs
<1> HIDE DEF u
<1>5. IInv' /\ InUse(m)' = InUse(u) /\ (m.count)' = Cardinality(InUse(m)')
  BY <1>1, <1>2, <1>4, GoodAgain
<1>6. MapPromise!Reserve
  BY <1>2, <1>4, <1>5 DEF MapPromise!Reserve
<1> QED
  BY <1>5, <1>6, SameCardinality DEF MapPromise!Next

LEMMA NewKeeps ==
  LET u == NewMap(map_roundup(MinCapacity))
  IN  /\ Good(u) /\ InUse(u) = {} /\ u.count = 0
      /\ IsPowerOfTwo(u.capacity) /\ 2 * u.count <= u.capacity
<1> DEFINE c == map_roundup(MinCapacity)
<1>1. MinCapacity \in Nat
  BY MapOK
<1>2. c \in Nat \ {0} /\ IsPowerOfTwo(c)
  BY <1>1, RoundupIs
<1> HIDE DEF c
<1>3. Good(NewMap(c)) /\ InUse(NewMap(c)) = {} /\ NewMap(c).capacity = c /\ NewMap(c).count = 0
  BY <1>2, NewIs
<1> QED
  BY <1>2, <1>3 DEF c

LEMMA ClearKeeps ==
  ASSUME IInv, map_clear
  PROVE  IInv' /\ MapPromise!Next
<1> DEFINE u == NewMap(map_roundup(MinCapacity))
<1>1. HashOK
  BY DEF IInv
<1>2. m' = u /\ released' = InUse(m) /\ hash' = hash
  BY DEF map_clear
<1>3. Good(u) /\ InUse(u) = {} /\ IsPowerOfTwo(u.capacity) /\ 2 * u.count <= u.capacity
  BY NewKeeps
<1> HIDE DEF u
<1>4. IInv' /\ InUse(m)' = InUse(u) /\ (m.count)' = Cardinality(InUse(m)')
  BY <1>1, <1>2, <1>3, GoodAgain
<1>5. MapPromise!Clear
  BY <1>2, <1>3, <1>4 DEF MapPromise!Clear
<1> QED
  BY <1>4, <1>5, SameCardinality DEF MapPromise!Next

LEMMA InitIInv ==
  ASSUME MapInit
  PROVE  IInv /\ MapPromise!Init
<1> DEFINE u == NewMap(map_roundup(MinCapacity))
<1>1. m = u /\ released = {} /\ HashOK
  BY DEF MapInit, HashOK
<1>2. /\ Good(u) /\ InUse(u) = {} /\ u.count = 0
      /\ IsPowerOfTwo(u.capacity) /\ 2 * u.count <= u.capacity
  BY NewKeeps
<1> HIDE DEF u
<1> QED
  BY <1>1, <1>2 DEF IInv, RoomLeft, MapPromise!Init

LEMMA NextKeeps ==
  ASSUME IInv, [MapNext]_map_vars
  PROVE  IInv' /\ [DictionaryStep]_map_vars
<1>1. ASSUME NEW e \in Elements, map_insert(e) PROVE IInv' /\ MapPromise!Next
  BY <1>1, InsertKeeps
<1>2. ASSUME NEW k \in Keys, map_erase(k) PROVE IInv' /\ MapPromise!Next
  BY <1>2, EraseKeeps
<1>3. ASSUME NEW size \in 1..MaxReserve, reserve(size) PROVE IInv' /\ MapPromise!Next
  BY <1>3, SizeKeeps
<1>4. CASE map_clear
  BY <1>4, ClearKeeps DEF DictionaryStep
<1>5. CASE UNCHANGED map_vars
  <2>1. m' = m /\ hash' = hash
    BY <1>5 DEF map_vars
  <2>2. HashOK /\ Good(m) /\ IsPowerOfTwo(m.capacity) /\ 2 * m.count <= m.capacity
    BY DEF IInv, RoomLeft
  <2>3. IInv'
    BY <2>1, <2>2, GoodAgain
  <2> QED
    BY <1>5, <2>3
<1> QED
  BY <1>1, <1>2, <1>3, <1>4, <1>5 DEF MapNext, DictionaryStep

LEMMA Invariance == MapSpec => []IInv
<1>1. MapInit => IInv
  BY InitIInv
<1>2. IInv /\ [MapNext]_map_vars => IInv'
  BY NextKeeps
<1> QED
  BY <1>1, <1>2, PTL DEF MapSpec

(* At least half of the slots are empty, whatever was inserted, erased and    *)
(* reserved, so that every search of the table ends.                          *)
THEOREM MapHasRoom == MapSpec => []RoomLeft
<1>1. IInv => RoomLeft
  BY DEF IInv
<1> QED
  BY <1>1, Invariance, PTL

(* Every element is where the search for its key ends, for all hash functions *)
(* and all sequences of operations: erasing moves back what it must.          *)
THEOREM ElementsAreFound == MapSpec => []Findable
<1>1. IInv => Findable
  BY GoodIsFindable DEF IInv, Findable
<1> QED
  BY <1>1, Invariance, PTL

(* The table is a dictionary: one element for each key, the first one given,  *)
(* none lost, moved out or duplicated by growing and erasing, each released   *)
(* once, and their number is the count.                                       *)
THEOREM MapImplementsDictionary == MapSpec => ImplementsDictionary
<1>1. MapInit => MapPromise!Init
  BY InitIInv
<1>2. IInv /\ [MapNext]_map_vars => [DictionaryStep]_map_vars
  BY NextKeeps
<1> QED
  BY <1>1, <1>2, Invariance, PTL DEF MapSpec, ImplementsDictionary
=============================================================================
