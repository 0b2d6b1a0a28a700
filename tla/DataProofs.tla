------------------------------ MODULE DataProofs ------------------------------
(***************************************************************************)
(* Proofs about Writer, String and Vector, for texts, strings, objects and *)
(* rows of any size.                                                       *)
(***************************************************************************)
EXTENDS Vector, String, Writer, FiniteSetTheorems, SequenceTheorems, TLAPS

-----------------------------------------------------------------------------
(* Numbers and recursion.                                                     *)

LEMMA LeastOf ==
  ASSUME NEW S \in SUBSET Nat, S # {}
  PROVE  \E x \in S : \A y \in S : x <= y
<1>1. IsWellFoundedOn(OpToRel(<, Nat), Nat)
  BY NatLessThanWellFounded, Zenon
<1>2. PICK x \in S : \A y \in S : ~ (<<y, x>> \in OpToRel(<, Nat))
  BY <1>1, WFMin, Zenon
<1>3. \A y \in S : ~ (y < x)
  BY <1>2, Zenon DEF OpToRel
<1> QED
  BY <1>3

LEMMA Induction ==
  ASSUME NEW S \in SUBSET Nat, 0 \in S, \A n \in S : n + 1 \in S
  PROVE  S = Nat
<1> SUFFICES ASSUME S # Nat PROVE FALSE
  OBVIOUS
<1>1. PICK x \in Nat \ S : \A y \in Nat \ S : x <= y
  BY LeastOf
<1>2. x # 0 /\ x - 1 \in Nat
  BY <1>1
<1>3. x - 1 \in S
  BY <1>1, <1>2
<1> QED
  BY <1>1, <1>3

(* The sequence of values that a step function makes from a first one.        *)
Steps(f, S, base, step, n) ==
  /\ f \in [0..n -> S]
  /\ f[0] = base
  /\ \A i \in 1..n : f[i] = step[<<i, f[i - 1]>>]

LEMMA Recursion ==
  ASSUME NEW S, NEW base \in S, NEW step \in [Nat \X S -> S], NEW n \in Nat
  PROVE  \E f : Steps(f, S, base, step, n)
<1> DEFINE N == {j \in Nat : \E f : Steps(f, S, base, step, j)}
<1>1. 0 \in N
  <2> DEFINE f == [i \in 0..0 |-> base]
  <2>1. f \in [0..0 -> S] /\ f[0] = base
    OBVIOUS
  <2> HIDE DEF f
  <2>2. Steps(f, S, base, step, 0)
    BY <2>1 DEF Steps
  <2> QED
    BY <2>2
<1>2. ASSUME NEW j \in N PROVE j + 1 \in N
  <2>1. j \in Nat
    OBVIOUS
  <2>2. PICK f : Steps(f, S, base, step, j)
    OBVIOUS
  <2>3. /\ f \in [0..j -> S] /\ f[0] = base
        /\ \A i \in 1..j : f[i] = step[<<i, f[i - 1]>>]
    BY <2>2 DEF Steps
  <2> DEFINE g == [i \in 0..j + 1 |-> IF i = j + 1 THEN step[<<j + 1, f[j]>>] ELSE f[i]]
  <2>4. step[<<j + 1, f[j]>>] \in S
    BY <2>1, <2>3
  <2>5. g \in [0..j + 1 -> S]
    BY <2>1, <2>3, <2>4
  <2>6. \A i \in 0..j : g[i] = f[i]
    BY <2>1
  <2>7. g[j + 1] = step[<<j + 1, f[j]>>]
    BY <2>1
  <2> HIDE DEF g
  <2>8. g[0] = base
    BY <2>1, <2>3, <2>6
  <2>9. ASSUME NEW i \in 1..j + 1 PROVE g[i] = step[<<i, g[i - 1]>>]
    <3>1. CASE i = j + 1
      BY <2>1, <2>6, <2>7, <3>1
    <3>2. CASE i \in 1..j
      <4>1. i \in 0..j /\ i - 1 \in 0..j
        BY <2>1, <3>2
      <4>2. g[i] = f[i] /\ g[i - 1] = f[i - 1]
        BY <2>6, <4>1
      <4> QED
        BY <2>3, <3>2, <4>2
    <3> QED
      BY <2>1, <3>1, <3>2
  <2>10. Steps(g, S, base, step, j + 1)
    BY <2>5, <2>8, <2>9 DEF Steps
  <2> QED
    BY <2>1, <2>10
<1>3. N \in SUBSET Nat
  OBVIOUS
<1> HIDE DEF N
<1>4. N = Nat
  BY <1>1, <1>2, <1>3, Induction
<1> QED
  BY <1>4 DEF N

(* A power of two is the number of sets of numbers from 1 to its exponent.    *)
LEMMA Doubled ==
  ASSUME NEW n \in Nat
  PROVE  2 ^ n \in Nat /\ 2 ^ (n + 1) = 2 * 2 ^ n
<1> DEFINE A == SUBSET (1..n)
           With1(a) == a \cup {n + 1}
           B == {With1(a) : a \in A}
<1>1. IsFiniteSet(1..n) /\ Cardinality(1..n) = n
  BY FS_Interval
<1>2. IsFiniteSet(1..n + 1) /\ Cardinality(1..n + 1) = n + 1
  BY FS_Interval
<1>3. IsFiniteSet(A) /\ Cardinality(A) = 2 ^ n
  BY <1>1, FS_SUBSET
<1>4. IsFiniteSet(SUBSET (1..n + 1)) /\ Cardinality(SUBSET (1..n + 1)) = 2 ^ (n + 1)
  BY <1>2, FS_SUBSET
<1>5. SUBSET (1..n + 1) = A \cup B
  <2>1. ASSUME NEW s \in SUBSET (1..n + 1) PROVE s \in A \cup B
    <3>1. CASE n + 1 \in s
      <4>1. s \ {n + 1} \in A /\ s = With1(s \ {n + 1})
        BY <3>1
      <4> QED
        BY <4>1
    <3>2. CASE n + 1 \notin s
      BY <3>2
    <3> QED
      BY <3>1, <3>2
  <2>2. ASSUME NEW s \in A \cup B PROVE s \in SUBSET (1..n + 1)
    OBVIOUS
  <2> HIDE DEF A, B
  <2> QED
    BY <2>1, <2>2
<1>6. A \cap B = {}
  OBVIOUS
<1>7. IsFiniteSet(B) /\ Cardinality(B) = Cardinality(A)
  <2> DEFINE f == [a \in A |-> With1(a)]
  <2>1. f \in [A -> B] /\ \A b \in B : \E a \in A : f[a] = b
    OBVIOUS
  <2>2. ASSUME NEW a \in A, NEW b \in A, f[a] = f[b] PROVE a = b
    <3>1. a \cup {n + 1} = b \cup {n + 1}
      BY <2>2
    <3>2. n + 1 \notin a /\ n + 1 \notin b
      OBVIOUS
    <3> QED
      BY <3>1, <3>2
  <2> HIDE DEF f, A, B
  <2>3. f \in Bijection(A, B)
    BY <2>1, <2>2 DEF Bijection, Injection, Surjection, IsInjective
  <2>4. ExistsBijection(A, B)
    BY <2>3 DEF ExistsBijection
  <2> QED
    BY <1>3, <2>4, FS_SameCardinalityBij, FS_Bijection
<1> HIDE DEF A, B
<1>8. Cardinality(A \cup B) = Cardinality(A) + Cardinality(B) - Cardinality({})
  BY <1>3, <1>6, <1>7, FS_Union
<1>9. Cardinality(A) \in Nat
  BY <1>3, FS_CardinalityType
<1>10. Cardinality({}) = 0
  BY FS_EmptySet
<1>11. 2 ^ (n + 1) = Cardinality(A \cup B)
  BY <1>4, <1>5
<1>12. Cardinality(A) = 2 ^ n /\ Cardinality(B) = 2 ^ n /\ 2 ^ n \in Nat
  BY <1>3, <1>7, <1>9
<1> QED
  BY <1>8, <1>10, <1>11, <1>12

-----------------------------------------------------------------------------
(* The number that a sequence of digits is, and the sum of one.               *)

(* v[i] is the value of the first i.                                          *)
Values(v, s, base) ==
  /\ v \in [0..Len(s) -> Int]
  /\ v[0] = 0
  /\ \A i \in 1..Len(s) : v[i] = base * v[i - 1] + s[i]

LEMMA ValuesExist ==
  ASSUME NEW base \in Int, NEW S \in SUBSET Int, NEW s \in Seq(S)
  PROVE  \E v : Values(v, s, base) /\ ValueOf(s, base) = v[Len(s)]
<1>1. Len(s) \in Nat /\ \A i \in 1..Len(s) : s[i] \in Int
  <2>1. Len(s) \in Nat /\ \A i \in 1..Len(s) : s[i] \in S
    OBVIOUS
  <2> QED
    BY <2>1
<1> DEFINE at(i) == IF i \in 1..Len(s) THEN s[i] ELSE 0
           step == [p \in Nat \X Int |-> base * p[2] + at(p[1])]
           f == CHOOSE v : v = [i \in 0..Len(s) |-> IF i = 0 THEN 0 ELSE base * v[i - 1] + s[i]]
<1>2. step \in [Nat \X Int -> Int]
  <2>1. \A i \in Nat : at(i) \in Int
    BY <1>1
  <2> HIDE DEF at
  <2>2. ASSUME NEW p \in Nat \X Int PROVE base * p[2] + at(p[1]) \in Int
    <3>1. p[2] \in Int /\ at(p[1]) \in Int
      BY <2>1
    <3> QED
      BY <3>1
  <2> QED
    BY <2>2
<1>3. PICK v : Steps(v, Int, 0, step, Len(s))
  <2> HIDE DEF step
  <2>1. 0 \in Int
    OBVIOUS
  <2> QED
    BY <1>1, <1>2, <2>1, Recursion, Zenon
<1>4. v \in [0..Len(s) -> Int] /\ v[0] = 0 /\ \A i \in 1..Len(s) : v[i] = step[<<i, v[i - 1]>>]
  BY <1>3 DEF Steps
<1>5. ASSUME NEW i \in 1..Len(s) PROVE v[i] = base * v[i - 1] + s[i]
  <2>1. i \in Nat /\ i - 1 \in 0..Len(s)
    BY <1>1
  <2>2. v[i - 1] \in Int
    BY <1>4, <2>1
  <2>3. step[<<i, v[i - 1]>>] = base * v[i - 1] + at(i)
    BY <2>1, <2>2
  <2> QED
    BY <1>4, <2>3
<1>6. v = [i \in 0..Len(s) |-> IF i = 0 THEN 0 ELSE base * v[i - 1] + s[i]]
  <2>1. \A i \in 0..Len(s) : v[i] = IF i = 0 THEN 0 ELSE base * v[i - 1] + s[i]
    BY <1>1, <1>4, <1>5
  <2> QED
    BY <1>4, <2>1
<1>7. f = [i \in 0..Len(s) |-> IF i = 0 THEN 0 ELSE base * f[i - 1] + s[i]]
  BY <1>6
<1>8. ValueOf(s, base) = f[Len(s)]
  BY Zenon DEF ValueOf
<1> HIDE DEF f
<1>9. f[0] = 0 /\ \A i \in 1..Len(s) : f[i] = base * f[i - 1] + s[i]
  BY <1>1, <1>7
<1>10. \A i \in 0..Len(s) : f[i] \in Int
  <2> DEFINE N == {i \in Nat : i <= Len(s) => f[i] \in Int}
  <2>1. 0 \in N
    BY <1>9
  <2>2. ASSUME NEW i \in N PROVE i + 1 \in N
    <3>1. CASE i + 1 <= Len(s)
      <4>1. i + 1 \in 1..Len(s) /\ (i + 1) - 1 = i /\ i \in Nat /\ i <= Len(s)
        BY <1>1, <3>1
      <4>2. f[i] \in Int /\ s[i + 1] \in Int
        BY <1>1, <4>1
      <4>3. f[i + 1] = base * f[i] + s[i + 1]
        BY <1>9, <4>1
      <4> QED
        BY <4>1, <4>2, <4>3
    <3> QED
      BY <3>1
  <2>3. N \in SUBSET Nat
    OBVIOUS
  <2> HIDE DEF N
  <2>4. N = Nat
    BY <2>1, <2>2, <2>3, Induction
  <2> QED
    BY <1>1, <2>4 DEF N
<1>11. Values(f, s, base)
  BY <1>7, <1>9, <1>10 DEF Values
<1> QED
  BY <1>8, <1>11

LEMMA ValueOfPrefix ==
  ASSUME NEW base \in Int, NEW S \in SUBSET Int, NEW s \in Seq(S), NEW t \in Seq(S),
         Len(t) <= Len(s), \A i \in 1..Len(t) : s[i] = t[i],
         NEW v, Values(v, s, base)
  PROVE  ValueOf(t, base) = v[Len(t)]
<1>1. Len(s) \in Nat /\ Len(t) \in Nat
  OBVIOUS
<1>2. PICK w : Values(w, t, base) /\ ValueOf(t, base) = w[Len(t)]
  BY ValuesExist
<1>3. v[0] = 0 /\ \A i \in 1..Len(s) : v[i] = base * v[i - 1] + s[i]
  BY DEF Values
<1>4. w[0] = 0 /\ \A i \in 1..Len(t) : w[i] = base * w[i - 1] + t[i]
  BY <1>2 DEF Values
<1> DEFINE N == {i \in Nat : i <= Len(t) => v[i] = w[i]}
<1>5. 0 \in N
  BY <1>3, <1>4
<1>6. ASSUME NEW i \in N PROVE i + 1 \in N
  <2>1. CASE i + 1 <= Len(t)
    <3>1. /\ i + 1 \in 1..Len(t) /\ i + 1 \in 1..Len(s) /\ (i + 1) - 1 = i
          /\ v[i] = w[i]
      BY <1>1, <2>1
    <3>2. v[i + 1] = base * v[i] + s[i + 1]
      BY <1>3, <3>1
    <3>3. w[i + 1] = base * w[i] + t[i + 1]
      BY <1>4, <3>1
    <3>4. v[i + 1] = w[i + 1]
      BY <3>1, <3>2, <3>3
    <3> QED
      BY <3>4
  <2> QED
    BY <2>1
<1>7. N \in SUBSET Nat
  OBVIOUS
<1> HIDE DEF N
<1>8. N = Nat
  BY <1>5, <1>6, <1>7, Induction
<1> QED
  BY <1>1, <1>2, <1>8 DEF N

LEMMA ValueIs ==
  ASSUME NEW base \in Int, NEW S \in SUBSET Int, NEW s \in Seq(S), NEW v, Values(v, s, base)
  PROVE  ValueOf(s, base) = v[Len(s)] /\ ValueOf(s, base) \in Int
<1>1. Len(s) \in Nat
  OBVIOUS
<1>2. ValueOf(s, base) = v[Len(s)]
  BY <1>1, ValueOfPrefix
<1> QED
  BY <1>1, <1>2 DEF Values

LEMMA ValueOfPair ==
  ASSUME NEW base \in Int, NEW S \in SUBSET Int, NEW s \in Seq(S), NEW x \in S, NEW y \in S
  PROVE  /\ s \o <<x, y>> \in Seq(S) /\ Len(s \o <<x, y>>) = Len(s) + 2
         /\ \A i \in 1..Len(s) : (s \o <<x, y>>)[i] = s[i]
         /\ (s \o <<x, y>>)[Len(s) + 1] = x /\ (s \o <<x, y>>)[Len(s) + 2] = y
         /\ ValueOf(s, base) \in Int
         /\ ValueOf(s \o <<x, y>>, base) = base * (base * ValueOf(s, base) + x) + y
<1> DEFINE p == <<x, y>>
           t == s \o p
<1>1. p \in Seq(S) /\ Len(p) = 2 /\ p[1] = x /\ p[2] = y /\ Len(s) \in Nat
  OBVIOUS
<1> HIDE DEF p
<1>2. /\ t \in Seq(S) /\ Len(t) = Len(s) + Len(p)
      /\ \A i \in 1..Len(s) + Len(p) : t[i] = IF i <= Len(s) THEN s[i] ELSE p[i - Len(s)]
  BY <1>1, ConcatProperties
<1> HIDE DEF t
<1>3. Len(t) = Len(s) + 2
  BY <1>1, <1>2
<1>4. \A i \in 1..Len(s) : t[i] = s[i]
  BY <1>1, <1>2
<1>5. t[Len(s) + 1] = x
  <2>1. Len(s) + 1 \in 1..Len(s) + Len(p) /\ ~(Len(s) + 1 <= Len(s)) /\ (Len(s) + 1) - Len(s) = 1
    BY <1>1
  <2> QED
    BY <1>1, <1>2, <2>1
<1>6. t[Len(s) + 2] = y
  <2>1. Len(s) + 2 \in 1..Len(s) + Len(p) /\ ~(Len(s) + 2 <= Len(s)) /\ (Len(s) + 2) - Len(s) = 2
    BY <1>1
  <2> QED
    BY <1>1, <1>2, <2>1
<1>7. PICK v : Values(v, t, base) /\ ValueOf(t, base) = v[Len(t)]
  BY <1>2, ValuesExist
<1>8. v[Len(s)] = ValueOf(s, base)
  BY <1>1, <1>2, <1>3, <1>4, <1>7, ValueOfPrefix
<1>9. /\ Len(s) + 1 \in 1..Len(t) /\ (Len(s) + 1) - 1 = Len(s)
      /\ Len(s) + 2 \in 1..Len(t) /\ (Len(s) + 2) - 1 = Len(s) + 1
      /\ Len(s) \in 0..Len(t)
  BY <1>1, <1>3
<1>10. v[Len(s) + 1] = base * v[Len(s)] + x
  BY <1>5, <1>7, <1>9 DEF Values
<1>11. v[Len(s) + 2] = base * v[Len(s) + 1] + y
  BY <1>6, <1>7, <1>9 DEF Values
<1>12. v[Len(s)] \in Int
  BY <1>7, <1>9 DEF Values
<1>13. ValueOf(t, base) = base * (base * ValueOf(s, base) + x) + y /\ ValueOf(s, base) \in Int
  BY <1>3, <1>7, <1>8, <1>10, <1>11, <1>12
<1>14. /\ t \in Seq(S) /\ Len(t) = Len(s) + 2
       /\ \A i \in 1..Len(s) : t[i] = s[i]
       /\ t[Len(s) + 1] = x /\ t[Len(s) + 2] = y
  BY <1>2, <1>3, <1>4, <1>5, <1>6
<1> QED
  BY <1>13, <1>14 DEF t, p

(* The sum of sequences behind each other.                                    *)
LEMMA SumOfBoth ==
  ASSUME NEW S \in SUBSET Int, NEW s \in Seq(S), NEW t \in Seq(S)
  PROVE  /\ s \o t \in Seq(S)
         /\ ValueOf(s, 1) \in Int /\ ValueOf(t, 1) \in Int
         /\ ValueOf(s \o t, 1) = ValueOf(s, 1) + ValueOf(t, 1)
<1> DEFINE u == s \o t
<1>1. Len(s) \in Nat /\ Len(t) \in Nat /\ 1 \in Int
  OBVIOUS
<1>2. /\ u \in Seq(S) /\ Len(u) = Len(s) + Len(t)
      /\ \A i \in 1..Len(s) + Len(t) : u[i] = IF i <= Len(s) THEN s[i] ELSE t[i - Len(s)]
  BY ConcatProperties
<1> HIDE DEF u
<1>3. PICK v : Values(v, u, 1) /\ ValueOf(u, 1) = v[Len(u)]
  BY <1>1, <1>2, ValuesExist
<1>4. PICK w : Values(w, t, 1) /\ ValueOf(t, 1) = w[Len(t)]
  BY <1>1, ValuesExist
<1>5. v[Len(s)] = ValueOf(s, 1)
  <2>1. Len(s) <= Len(u) /\ \A i \in 1..Len(s) : u[i] = s[i]
    BY <1>1, <1>2
  <2> QED
    BY <1>1, <1>2, <1>3, <2>1, ValueOfPrefix
<1>6. ValueOf(s, 1) \in Int /\ ValueOf(t, 1) \in Int
  <2>1. PICK x : Values(x, s, 1) /\ ValueOf(s, 1) = x[Len(s)]
    BY <1>1, ValuesExist
  <2> QED
    BY <1>1, <1>4, <2>1 DEF Values
<1>7. \A i \in 1..Len(t) : w[i] = w[i - 1] + t[i]
  <2> SUFFICES ASSUME NEW i \in 1..Len(t) PROVE w[i] = w[i - 1] + t[i]
    OBVIOUS
  <2>1. w[i] = 1 * w[i - 1] + t[i] /\ w[i - 1] \in Int
    <3>1. i - 1 \in 0..Len(t) /\ w \in [0..Len(t) -> Int]
      BY <1>1, <1>4 DEF Values
    <3>2. w[i] = 1 * w[i - 1] + t[i]
      BY <1>4 DEF Values
    <3> QED
      BY <3>1, <3>2
  <2>2. t[i] \in S
    OBVIOUS
  <2>3. t[i] \in Int
    BY <2>2
  <2> QED
    BY <2>1, <2>3
<1>8. \A i \in 1..Len(t) : v[Len(s) + i] = v[Len(s) + i - 1] + t[i]
  <2> SUFFICES ASSUME NEW i \in 1..Len(t) PROVE v[Len(s) + i] = v[Len(s) + i - 1] + t[i]
    OBVIOUS
  <2>1. /\ Len(s) + i \in 1..Len(u) /\ Len(s) + i - 1 \in 0..Len(u) /\ ~(Len(s) + i <= Len(s))
        /\ (Len(s) + i) - Len(s) = i /\ (Len(s) + i) - 1 = Len(s) + i - 1
    BY <1>1, <1>2
  <2>2. u[Len(s) + i] = t[i]
    BY <1>2, <2>1
  <2>3. v[Len(s) + i] = 1 * v[Len(s) + i - 1] + u[Len(s) + i] /\ v[Len(s) + i - 1] \in Int
    BY <1>3, <2>1 DEF Values
  <2> QED
    BY <2>2, <2>3
<1>9. \A i \in 0..Len(t) : v[Len(s) + i] = v[Len(s)] + w[i]
  <2> DEFINE N == {i \in Nat : i <= Len(t) => v[Len(s) + i] = v[Len(s)] + w[i]}
  <2>1. 0 \in N
    <3>1. w[0] = 0 /\ v[Len(s)] \in Int
      BY <1>4, <1>5, <1>6 DEF Values
    <3> QED
      BY <1>1, <3>1
  <2>2. ASSUME NEW i \in N PROVE i + 1 \in N
    <3>1. CASE i + 1 <= Len(t)
      <4>1. /\ i + 1 \in 1..Len(t) /\ i \in 0..Len(t) /\ (i + 1) - 1 = i
            /\ Len(s) + (i + 1) - 1 = Len(s) + i
            /\ v[Len(s) + i] = v[Len(s)] + w[i]
        BY <1>1, <3>1
      <4>2. w[i + 1] = w[i] + t[i + 1]
        BY <1>7, <4>1
      <4>3. v[Len(s) + (i + 1)] = v[Len(s) + i] + t[i + 1]
        BY <1>8, <4>1
      <4>4. v[Len(s)] \in Int /\ w[i] \in Int /\ t[i + 1] \in Int
        <5>1. t[i + 1] \in S
          BY <4>1
        <5> QED
          BY <1>4, <1>5, <1>6, <4>1, <5>1 DEF Values
      <4>5. v[Len(s) + (i + 1)] = v[Len(s)] + w[i + 1]
        BY <4>1, <4>2, <4>3, <4>4
      <4> QED
        BY <4>5
    <3> QED
      BY <3>1
  <2>3. N \in SUBSET Nat
    OBVIOUS
  <2> HIDE DEF N
  <2>4. N = Nat
    BY <2>1, <2>2, <2>3, Induction
  <2> QED
    BY <1>1, <2>4 DEF N
<1>10. ValueOf(u, 1) = ValueOf(s, 1) + ValueOf(t, 1)
  BY <1>1, <1>2, <1>3, <1>4, <1>5, <1>9
<1> QED
  BY <1>2, <1>6, <1>10 DEF u

-----------------------------------------------------------------------------
(* Writer: the digits of a number.                                            *)

FewDigits(n) == IF n < 10 THEN <<n>> ELSE Pair(n)
Digits4(n) == IF n >= 100 THEN FewDigits(n \div 100) \o Pair(n % 100) ELSE FewDigits(n)
Digits6(n) == IF n >= 100 THEN Digits4(n \div 100) \o Pair(n % 100) ELSE FewDigits(n)
Digits8(n) == IF n >= 100 THEN Digits6(n \div 100) \o Pair(n % 100) ELSE FewDigits(n)
Digits10(n) == IF n >= 100 THEN Digits8(n \div 100) \o Pair(n % 100) ELSE FewDigits(n)

LEMMA MaxBodyIs == MaxBody \in Nat /\ MaxBody <= 2147483647 /\ MaxBody >= 2147483647
BY SMT DEF MaxBody

(* The loop ends after at most four pairs of digits.                          *)
LEMMA SprintIs ==
  ASSUME NEW n \in 0..MaxBody
  PROVE  utility_u32_sprint[n] =
           IF n >= 100 THEN utility_u32_sprint[n \div 100] \o Pair(n % 100)
           ELSE IF n < 10 THEN <<n>> ELSE Pair(n)
<1>1. ASSUME NEW m \in Nat
      PROVE  /\ m \div 100 \in Nat
             /\ m < 10000 => m \div 100 < 100
             /\ m < 1000000 => m \div 100 < 10000
             /\ m < 100000000 => m \div 100 < 1000000
             /\ m <= 2147483647 => m \div 100 < 100000000
  BY SMT
<1>2. ASSUME NEW m \in Nat, m < 10000 PROVE Digits6(m) = Digits4(m)
  <2>1. m \div 100 \in Nat /\ m \div 100 < 100
    BY <1>1, <1>2, SMT
  <2>2. Digits4(m \div 100) = FewDigits(m \div 100)
    BY <2>1, SMT DEF Digits4
  <2> QED
    BY <2>2, Zenon DEF Digits6, Digits4
<1>3. ASSUME NEW m \in Nat, m < 1000000 PROVE Digits8(m) = Digits6(m)
  <2>1. m \div 100 \in Nat /\ m \div 100 < 10000
    BY <1>1, <1>3, SMT
  <2>2. Digits6(m \div 100) = Digits4(m \div 100)
    BY <1>2, <2>1, SMT
  <2> QED
    BY <2>2, SMT DEF Digits8, Digits6
<1>4. ASSUME NEW m \in Nat, m < 100000000 PROVE Digits10(m) = Digits8(m)
  <2>1. m \div 100 \in Nat /\ m \div 100 < 1000000
    BY <1>1, <1>4, SMT
  <2>2. Digits8(m \div 100) = Digits6(m \div 100)
    BY <1>3, <2>1, SMT
  <2> QED
    BY <2>2, SMT DEF Digits10, Digits8
<1> DEFINE f == [m \in 0..MaxBody |-> Digits10(m)]
<1>5. ASSUME NEW m \in 0..MaxBody
      PROVE  f[m] = IF m >= 100 THEN f[m \div 100] \o Pair(m % 100)
                    ELSE IF m < 10 THEN <<m>> ELSE Pair(m)
  <2>1. m \in Nat /\ m <= 2147483647
    BY MaxBodyIs, SMT
  <2>2. m \div 100 \in Nat /\ m \div 100 < 100000000
    BY <1>1, <2>1, SMT
  <2>3. m \div 100 \in 0..MaxBody
    BY <2>2, MaxBodyIs, SMT
  <2>4. f[m] = Digits10(m) /\ f[m \div 100] = Digits10(m \div 100)
    BY <2>3, SMT
  <2> HIDE DEF f
  <2>5. Digits10(m \div 100) = Digits8(m \div 100)
    BY <1>4, <2>2, SMT
  <2> QED
    BY <2>4, <2>5, SMT DEF Digits10, FewDigits
<1>6. f = [m \in 0..MaxBody |->
             IF m >= 100 THEN f[m \div 100] \o Pair(m % 100)
             ELSE IF m < 10 THEN <<m>> ELSE Pair(m)]
  <2>1. f = [m \in 0..MaxBody |-> f[m]]
    BY SMT
  <2>2. [m \in 0..MaxBody |-> f[m]]
          = [m \in 0..MaxBody |->
               IF m >= 100 THEN f[m \div 100] \o Pair(m % 100)
               ELSE IF m < 10 THEN <<m>> ELSE Pair(m)]
    <3> HIDE DEF f
    <3> QED
      BY <1>5, Zenon
  <2> HIDE DEF f
  <2> QED
    BY <2>1, <2>2, Zenon
<1> HIDE DEF f
<1>7. utility_u32_sprint =
        [m \in 0..MaxBody |->
           IF m >= 100 THEN utility_u32_sprint[m \div 100] \o Pair(m % 100)
           ELSE IF m < 10 THEN <<m>> ELSE Pair(m)]
  BY <1>6, Zenon DEF utility_u32_sprint
<1> DEFINE Of(m) == IF m >= 100 THEN utility_u32_sprint[m \div 100] \o Pair(m % 100)
                    ELSE IF m < 10 THEN <<m>> ELSE Pair(m)
<1>8. utility_u32_sprint = [m \in 0..MaxBody |-> Of(m)]
  BY <1>7, Zenon
<1>9. utility_u32_sprint[n] = Of(n)
  <2> HIDE DEF Of
  <2> QED
    BY <1>8, Zenon
<1> QED
  BY <1>9, Zenon

Digit == 0..9

(* Digits of a number that begin with no zero.                                *)
IsWritten(n, k) ==
  /\ utility_u32_sprint[n] \in Seq(Digit) /\ Len(utility_u32_sprint[n]) = k
  /\ ValueOf(utility_u32_sprint[n], 10) = n
  /\ n > 0 => utility_u32_sprint[n][1] # 0

LEMMA OneDigit ==
  ASSUME NEW n \in 0..MaxBody, n < 10
  PROVE  IsWritten(n, 1)
<1>1. n \in 0..9 /\ ~(n >= 100)
  BY MaxBodyIs, SMT
<1>2. utility_u32_sprint[n] = <<n>>
  BY <1>1, SprintIs, Zenon
<1>3. Digit \in SUBSET Int /\ 10 \in Int
  BY DEF Digit
<1> DEFINE s == <<n>>
<1>7. s \in Seq(Digit) /\ Len(s) = 1 /\ s[1] = n
  BY <1>1 DEF Digit
<1> HIDE DEF s
<1>4. PICK v : Values(v, s, 10) /\ ValueOf(s, 10) = v[Len(s)]
  BY <1>3, <1>7, ValuesExist
<1>5. v[1] = 10 * v[0] + s[1] /\ v[0] = 0
  BY <1>4, <1>7 DEF Values
<1>6. ValueOf(s, 10) = n
  BY <1>1, <1>4, <1>5, <1>7
<1>8. utility_u32_sprint[n] = s
  BY <1>2 DEF s
<1> QED
  BY <1>6, <1>7, <1>8 DEF IsWritten

LEMMA TwoDigits ==
  ASSUME NEW n \in 0..MaxBody, n >= 10, n < 100
  PROVE  IsWritten(n, 2)
<1> DEFINE x == n \div 10
           y == n % 10
           s == <<x, y>>
<1>1. utility_u32_sprint[n] = s
  <2>1. ~(n >= 100) /\ ~(n < 10)
    BY MaxBodyIs, SMT
  <2> QED
    BY <2>1, SprintIs, Zenon DEF Pair
<1>2. n \in Nat
  BY MaxBodyIs
<1>3. x \in 0..9 /\ y \in 0..9 /\ 10 * x + y = n /\ x # 0
  BY <1>2
<1> HIDE DEF x, y
<1>4. s \in Seq(Digit) /\ Len(s) = 2 /\ s[1] = x /\ s[2] = y
  BY <1>3 DEF Digit
<1> HIDE DEF s
<1>5. Digit \in SUBSET Int /\ 10 \in Int
  BY DEF Digit
<1>6. PICK v : Values(v, s, 10) /\ ValueOf(s, 10) = v[Len(s)]
  BY <1>4, <1>5, ValuesExist
<1>7. v[0] = 0 /\ v[1] = 10 * v[0] + s[1] /\ v[2] = 10 * v[1] + s[2]
  BY <1>4, <1>6 DEF Values
<1>8. ValueOf(s, 10) = n
  BY <1>3, <1>4, <1>6, <1>7
<1> QED
  BY <1>1, <1>3, <1>4, <1>8 DEF IsWritten

LEMMA MoreDigits ==
  ASSUME NEW n \in 0..MaxBody, n >= 100, NEW k \in Nat \ {0}, IsWritten(n \div 100, k)
  PROVE  IsWritten(n, k + 2)
<1> DEFINE m == n \div 100
           x == (n % 100) \div 10
           y == (n % 100) % 10
           s == utility_u32_sprint[m]
<1>1. n \in Nat
  BY MaxBodyIs
<1>2. m \in Nat /\ m > 0 /\ x \in 0..9 /\ y \in 0..9 /\ 10 * (10 * m + x) + y = n
  BY <1>1
<1>3. utility_u32_sprint[n] = s \o <<x, y>>
  BY SprintIs, Zenon DEF Pair
<1> HIDE DEF x, y
<1>9. x \in Digit /\ y \in Digit
  BY <1>2 DEF Digit
<1>4. s \in Seq(Digit) /\ Len(s) = k /\ ValueOf(s, 10) = m /\ s[1] # 0
  BY <1>2 DEF IsWritten
<1> HIDE DEF s, m
<1>5. Digit \in SUBSET Int /\ 10 \in Int
  BY DEF Digit
<1> DEFINE t == s \o <<x, y>>
<1>6. /\ t \in Seq(Digit) /\ Len(t) = Len(s) + 2
      /\ \A i \in 1..Len(s) : t[i] = s[i]
      /\ ValueOf(t, 10) = 10 * (10 * ValueOf(s, 10) + x) + y
  BY <1>4, <1>5, <1>9, ValueOfPair
<1> HIDE DEF t
<1>7. Len(t) = k + 2 /\ ValueOf(t, 10) = n /\ t[1] # 0
  BY <1>2, <1>4, <1>6
<1>8. utility_u32_sprint[n] = t
  BY <1>3 DEF t
<1> QED
  BY <1>6, <1>7, <1>8 DEF IsWritten

(* How many digits a number has.                                              *)
Digits(n) ==
  IF n < 10 THEN 1
  ELSE IF n < 100 THEN 2
  ELSE IF n < 1000 THEN 3
  ELSE IF n < 10000 THEN 4
  ELSE IF n < 100000 THEN 5
  ELSE IF n < 1000000 THEN 6
  ELSE IF n < 10000000 THEN 7
  ELSE IF n < 100000000 THEN 8
  ELSE IF n < 1000000000 THEN 9
  ELSE 10

LEMMA DigitsAreWritten ==
  ASSUME NEW n \in 0..MaxBody
  PROVE  IsWritten(n, Digits(n)) /\ Digits(n) \in 1..10
<1>1. \A m \in 0..MaxBody : m < 100 => IsWritten(m, Digits(m))
  <2> SUFFICES ASSUME NEW m \in 0..MaxBody, m < 100 PROVE IsWritten(m, Digits(m))
    BY SMT
  <2>1. CASE m < 10
    <3>1. Digits(m) = 1
      BY <2>1, SMT DEF Digits
    <3> QED
      BY <2>1, <3>1, OneDigit, SMT
  <2>2. CASE ~(m < 10)
    <3>1. Digits(m) = 2 /\ m >= 10
      BY <2>2, MaxBodyIs, SMT DEF Digits
    <3> QED
      BY <3>1, TwoDigits, SMT
  <2> QED
    BY <2>1, <2>2, SMT
<1>2. \A m \in 0..MaxBody : m < 10000 => IsWritten(m, Digits(m))
  <2> SUFFICES ASSUME NEW m \in 0..MaxBody, m < 10000 PROVE IsWritten(m, Digits(m))
    BY SMT
  <2>1. CASE m < 100
    BY <1>1, <2>1, SMT
  <2>2. CASE ~(m < 100)
    <3>1. m \in Nat /\ m <= 2147483647 /\ m >= 100
      BY <2>2, MaxBodyIs, SMT
    <3>2. m \div 100 \in Nat /\ m \div 100 < 100 /\ m \div 100 >= 1 /\ m \div 100 <= m
      BY <2>2, <3>1, SMT
    <3>3. m \div 100 \in 0..MaxBody
      BY <3>1, <3>2, MaxBodyIs, SMT
    <3>4. IsWritten(m \div 100, Digits(m \div 100))
      BY <1>1, <3>2, <3>3, SMT
    <3>5. m \div 100 < 10 <=> m < 1000
      BY <3>1, SMT
    <3>6. Digits(m \div 100) = IF m \div 100 < 10 THEN 1 ELSE 2
      BY <3>2, SMT DEF Digits
    <3>7. Digits(m) = IF m < 1000 THEN 3 ELSE 4
      BY <2>2, <3>1, SMT DEF Digits
    <3>8. Digits(m) = Digits(m \div 100) + 2 /\ Digits(m \div 100) \in Nat \ {0}
      BY <3>5, <3>6, <3>7, SMT
    <3> QED
      BY <3>1, <3>4, <3>8, MoreDigits, SMT
  <2> QED
    BY <2>1, <2>2, SMT
<1>3. \A m \in 0..MaxBody : m < 1000000 => IsWritten(m, Digits(m))
  <2> SUFFICES ASSUME NEW m \in 0..MaxBody, m < 1000000 PROVE IsWritten(m, Digits(m))
    BY SMT
  <2>1. CASE m < 10000
    BY <1>2, <2>1, SMT
  <2>2. CASE ~(m < 10000)
    <3>1. m \in Nat /\ m <= 2147483647 /\ m >= 100
      BY <2>2, MaxBodyIs, SMT
    <3>2. m \div 100 \in Nat /\ m \div 100 < 10000 /\ m \div 100 >= 100 /\ m \div 100 <= m
      BY <2>2, <3>1, SMT
    <3>3. m \div 100 \in 0..MaxBody
      BY <3>1, <3>2, MaxBodyIs, SMT
    <3>4. IsWritten(m \div 100, Digits(m \div 100))
      BY <1>2, <3>2, <3>3, SMT
    <3>5. m \div 100 < 1000 <=> m < 100000
      BY <3>1, SMT
    <3>6. Digits(m \div 100) = IF m \div 100 < 1000 THEN 3 ELSE 4
      BY <3>2, SMT DEF Digits
    <3>7. Digits(m) = IF m < 100000 THEN 5 ELSE 6
      BY <2>2, <3>1, SMT DEF Digits
    <3>8. Digits(m) = Digits(m \div 100) + 2 /\ Digits(m \div 100) \in Nat \ {0}
      BY <3>5, <3>6, <3>7, SMT
    <3> QED
      BY <3>1, <3>4, <3>8, MoreDigits, SMT
  <2> QED
    BY <2>1, <2>2, SMT
<1>4. \A m \in 0..MaxBody : m < 100000000 => IsWritten(m, Digits(m))
  <2> SUFFICES ASSUME NEW m \in 0..MaxBody, m < 100000000 PROVE IsWritten(m, Digits(m))
    BY SMT
  <2>1. CASE m < 1000000
    BY <1>3, <2>1, SMT
  <2>2. CASE ~(m < 1000000)
    <3>1. m \in Nat /\ m <= 2147483647 /\ m >= 100
      BY <2>2, MaxBodyIs, SMT
    <3>2. m \div 100 \in Nat /\ m \div 100 < 1000000 /\ m \div 100 >= 10000 /\ m \div 100 <= m
      BY <2>2, <3>1, SMT
    <3>3. m \div 100 \in 0..MaxBody
      BY <3>1, <3>2, MaxBodyIs, SMT
    <3>4. IsWritten(m \div 100, Digits(m \div 100))
      BY <1>3, <3>2, <3>3, SMT
    <3>5. m \div 100 < 100000 <=> m < 10000000
      BY <3>1, SMT
    <3>6. Digits(m \div 100) = IF m \div 100 < 100000 THEN 5 ELSE 6
      BY <3>2, SMT DEF Digits
    <3>7. Digits(m) = IF m < 10000000 THEN 7 ELSE 8
      BY <2>2, <3>1, SMT DEF Digits
    <3>8. Digits(m) = Digits(m \div 100) + 2 /\ Digits(m \div 100) \in Nat \ {0}
      BY <3>5, <3>6, <3>7, SMT
    <3> QED
      BY <3>1, <3>4, <3>8, MoreDigits, SMT
  <2> QED
    BY <2>1, <2>2, SMT
<1>5. \A m \in 0..MaxBody : IsWritten(m, Digits(m))
  <2> SUFFICES ASSUME NEW m \in 0..MaxBody PROVE IsWritten(m, Digits(m))
    BY SMT
  <2>1. CASE m < 100000000
    BY <1>4, <2>1, SMT
  <2>2. CASE ~(m < 100000000)
    <3>1. m \in Nat /\ m <= 2147483647 /\ m >= 100
      BY <2>2, MaxBodyIs, SMT
    <3>2. m \div 100 \in Nat /\ m \div 100 < 100000000 /\ m \div 100 >= 1000000 /\ m \div 100 <= m
      BY <2>2, <3>1, SMT
    <3>3. m \div 100 \in 0..MaxBody
      BY <3>1, <3>2, MaxBodyIs, SMT
    <3>4. IsWritten(m \div 100, Digits(m \div 100))
      BY <1>4, <3>2, <3>3, SMT
    <3>5. m \div 100 < 10000000 <=> m < 1000000000
      BY <3>1, SMT
    <3>6. Digits(m \div 100) = IF m \div 100 < 10000000 THEN 7 ELSE 8
      BY <3>2, SMT DEF Digits
    <3>7. Digits(m) = IF m < 1000000000 THEN 9 ELSE 10
      BY <2>2, <3>1, SMT DEF Digits
    <3>8. Digits(m) = Digits(m \div 100) + 2 /\ Digits(m \div 100) \in Nat \ {0}
      BY <3>5, <3>6, <3>7, SMT
    <3> QED
      BY <3>1, <3>4, <3>8, MoreDigits, SMT
  <2> QED
    BY <2>1, <2>2, SMT
<1>6. Digits(n) \in 1..10
  BY SMT DEF Digits
<1> QED
  BY <1>5, <1>6, SMT

(* Their number is counted from the bits of the number.                       *)
LEMMA PowersOfTwo ==
  /\ 2 ^ 0 = 1 /\ 2 ^ 3 = 8 /\ 2 ^ 6 = 64 /\ 2 ^ 9 = 512 /\ 2 ^ 13 = 8192 /\ 2 ^ 16 = 65536
  /\ 2 ^ 19 = 524288 /\ 2 ^ 23 = 8388608 /\ 2 ^ 26 = 67108864 /\ 2 ^ 29 = 536870912
BY SMT

LEMMA PowersGrow ==
  ASSUME NEW k \in Nat, NEW n \in Nat, k <= n
  PROVE  2 ^ k \in Nat /\ 2 ^ n \in Nat /\ 2 ^ k <= 2 ^ n
<1> DEFINE N == {i \in Nat : 2 ^ k <= 2 ^ (k + i)}
<1>1. \A i \in Nat : 2 ^ i \in Nat /\ 2 ^ (i + 1) = 2 * 2 ^ i
  BY Doubled
<1>2. 0 \in N
  BY <1>1
<1>3. ASSUME NEW i \in N PROVE i + 1 \in N
  <2>1. i \in Nat /\ 2 ^ k <= 2 ^ (k + i)
    OBVIOUS
  <2>2. 2 ^ ((k + i) + 1) = 2 * 2 ^ (k + i) /\ 2 ^ (k + i) \in Nat /\ 2 ^ k \in Nat
    BY <1>1, <2>1
  <2>3. (k + i) + 1 = k + (i + 1)
    BY <2>1
  <2>4. 2 ^ k <= 2 ^ (k + (i + 1))
    BY <2>1, <2>2, <2>3
  <2> QED
    BY <2>1, <2>4
<1>4. N \in SUBSET Nat
  OBVIOUS
<1> HIDE DEF N
<1>5. n - k \in N
  BY <1>2, <1>3, <1>4, Induction
<1>6. k + (n - k) = n
  OBVIOUS
<1>7. 2 ^ k <= 2 ^ n
  BY <1>5, <1>6 DEF N
<1> QED
  BY <1>1, <1>7

LEMMA BitsAre ==
  ASSUME NEW n \in Nat, n >= 1, NEW k \in 1..30
  PROVE  Bits(n) \in 1..31 /\ (Bits(n) <= k <=> n < 2 ^ k)
<1> DEFINE S == {j \in 1..31 : j = 1 \/ n >= 2 ^ (j - 1)}
<1>1. S \in SUBSET Int /\ 1 \in S
  OBVIOUS
<1>2. \E x \in S : \A y \in S : x >= y
  <2> DEFINE R == {i \in Nat : 31 - i \in S}
  <2>1. R \in SUBSET Nat /\ 30 \in R
    OBVIOUS
  <2>2. PICK i \in R : \A j \in R : i <= j
    <3> HIDE DEF R
    <3> QED
      BY <2>1, LeastOf
  <2>3. 31 - i \in S /\ i \in Nat
    OBVIOUS
  <2>4. ASSUME NEW y \in S PROVE 31 - i >= y
    <3>1. y \in 1..31 /\ 31 - y \in Nat /\ 31 - (31 - y) = y
      OBVIOUS
    <3>2. 31 - y \in R
      BY <3>1
    <3>3. i <= 31 - y
      BY <2>2, <3>2
    <3> QED
      BY <2>3, <3>1, <3>3
  <2> QED
    BY <2>3, <2>4
<1>3. Bits(n) = CHOOSE x \in S : \A y \in S : x >= y
  BY DEF Bits, Max
<1>4. Bits(n) \in S /\ \A y \in S : Bits(n) >= y
  BY <1>2, <1>3, Zenon
<1> DEFINE b == Bits(n)
<1>5. b \in 1..31 /\ (b = 1 \/ n >= 2 ^ (b - 1)) /\ \A y \in S : b >= y
  BY <1>4
<1> HIDE DEF b
<1>6. ASSUME n < 2 ^ k, b > k PROVE FALSE
  <2>1. b # 1 /\ b - 1 \in Nat /\ k \in Nat /\ k <= b - 1
    BY <1>5, <1>6
  <2>2. 2 ^ k <= 2 ^ (b - 1) /\ 2 ^ k \in Nat /\ 2 ^ (b - 1) \in Nat
    BY <2>1, PowersGrow
  <2> QED
    BY <1>5, <1>6, <2>1, <2>2
<1>7. ASSUME ~(n < 2 ^ k), b <= k PROVE FALSE
  <2>1. k \in Nat /\ k + 1 \in 1..31 /\ (k + 1) - 1 = k
    OBVIOUS
  <2>2. 2 ^ k \in Nat
    BY <2>1, Doubled
  <2>3. n >= 2 ^ k
    BY <1>7, <2>2
  <2>4. k + 1 \in S
    BY <2>1, <2>3
  <2>5. b >= k + 1 /\ b \in Int /\ k \in Int
    BY <1>5, <2>1, <2>4
  <2> QED
    BY <1>7, <2>5
<1>8. b \in Int /\ k \in Int
  BY <1>5
<1> QED
  BY <1>5, <1>6, <1>7, <1>8 DEF b

LEMMA PowersOfTen ==
  /\ Pow10[1] = 0 /\ Pow10[2] = 10 /\ Pow10[3] = 100 /\ Pow10[4] = 1000
  /\ Pow10[5] = 10000 /\ Pow10[6] = 100000 /\ Pow10[7] = 1000000
  /\ Pow10[8] = 10000000 /\ Pow10[9] = 100000000 /\ Pow10[10] = 1000000000
BY SMT DEF Pow10


LEMMA BitsOfZero == Bits(0) = 1
<1> DEFINE S == {j \in 1..31 : j = 1 \/ 0 >= 2 ^ (j - 1)}
<1>1. S = {1}
  <2>1. ASSUME NEW j \in 1..31, 0 >= 2 ^ (j - 1) PROVE j = 1
    <3>1. j - 1 \in Nat /\ 0 \in Nat /\ 0 <= j - 1
      OBVIOUS
    <3>2. 2 ^ 0 <= 2 ^ (j - 1) /\ 2 ^ (j - 1) \in Nat
      BY <3>1, PowersGrow
    <3>3. 2 ^ 0 = 1
      BY PowersOfTwo
    <3> QED
      BY <2>1, <3>2, <3>3
  <2>2. \A j \in S : j = 1
    BY <2>1
  <2>3. 1 \in S
    OBVIOUS
  <2> HIDE DEF S
  <2> QED
    BY <2>2, <2>3
<1>2. Bits(0) = CHOOSE x \in S : \A y \in S : x >= y
  BY DEF Bits, Max
<1> HIDE DEF S
<1> QED
  BY <1>1, <1>2


(* As many as are written.                                                    *)
LEMMA LengthIs ==
  ASSUME NEW n \in 0..MaxBody
  PROVE  utility_u32_len(n) = Digits(n)
<1> DEFINE b == Bits(n)
           t == (b * 1233) \div 4096
<1>1. n \in Nat /\ n <= 2147483647
  BY MaxBodyIs, SMT
<1>2. utility_u32_len(n) = IF n < Pow10[t + 1] THEN t ELSE t + 1
  BY SMTT(20), ZenonT(60) DEF utility_u32_len
<1>3. CASE n = 0
  <2>1. b = 1
    BY <1>3, BitsOfZero, Zenon
  <2> HIDE DEF b
  <2>2. t = 0
    BY <2>1
  <2> HIDE DEF t
  <2> QED
    BY <1>2, <1>3, <2>2, PowersOfTen, SMT DEF Digits
<1>4. CASE n >= 1
  <2>0. n \in Nat
    BY <1>1, SMT
  <2>1. \A k \in 1..30 : b \in 1..31 /\ (b <= k <=> n < 2 ^ k)
    BY <1>4, <2>0, BitsAre
  <2> HIDE DEF b
  <2>2. /\ b \in Nat /\ b >= 1 /\ b <= 31
        /\ b <= 3 <=> n < 8
        /\ b <= 6 <=> n < 64
        /\ b <= 9 <=> n < 512
        /\ b <= 13 <=> n < 8192
        /\ b <= 16 <=> n < 65536
        /\ b <= 19 <=> n < 524288
        /\ b <= 23 <=> n < 8388608
        /\ b <= 26 <=> n < 67108864
        /\ b <= 29 <=> n < 536870912
    <3>1. b \in 1..31
      BY <2>1
    <3>2. b <= 3 <=> n < 8
      BY <2>1, PowersOfTwo, SMT
    <3>3. b <= 6 <=> n < 64
      BY <2>1, PowersOfTwo, SMT
    <3>4. b <= 9 <=> n < 512
      BY <2>1, PowersOfTwo, SMT
    <3>5. b <= 13 <=> n < 8192
      BY <2>1, PowersOfTwo, SMT
    <3>6. b <= 16 <=> n < 65536
      BY <2>1, PowersOfTwo, SMT
    <3>7. b <= 19 <=> n < 524288
      BY <2>1, PowersOfTwo, SMT
    <3>8. b <= 23 <=> n < 8388608
      BY <2>1, PowersOfTwo, SMT
    <3>9. b <= 26 <=> n < 67108864
      BY <2>1, PowersOfTwo, SMT
    <3>10. b <= 29 <=> n < 536870912
      BY <2>1, PowersOfTwo, SMT
    <3> QED
      BY <3>1, <3>2, <3>3, <3>4, <3>5, <3>6, <3>7, <3>8, <3>9, <3>10, SMT
  <2>3. CASE n < 8
    <3>1. b >= 1 /\ b <= 3
      BY <1>1, <2>2, <2>3, SMT
    <3>2. t = 0
      BY <2>2, <3>1, SMT
    <3> HIDE DEF t
    <3>3. Pow10[t + 1] = 0
      BY <3>2, PowersOfTen, SMT
    <3> QED
      BY <1>1, <1>2, <1>4, <2>3, <3>2, <3>3, SMT DEF Digits
  <2>4. CASE n >= 8 /\ n < 64
    <3>1. b >= 4 /\ b <= 6
      BY <1>1, <2>2, <2>4, SMT
    <3>2. t = 1
      BY <2>2, <3>1, SMT
    <3> HIDE DEF t
    <3>3. Pow10[t + 1] = 10
      BY <3>2, PowersOfTen, SMT
    <3> QED
      BY <1>1, <1>2, <1>4, <2>4, <3>2, <3>3, SMT DEF Digits
  <2>5. CASE n >= 64 /\ n < 512
    <3>1. b >= 7 /\ b <= 9
      BY <1>1, <2>2, <2>5, SMT
    <3>2. t = 2
      BY <2>2, <3>1, SMT
    <3> HIDE DEF t
    <3>3. Pow10[t + 1] = 100
      BY <3>2, PowersOfTen, SMT
    <3> QED
      BY <1>1, <1>2, <1>4, <2>5, <3>2, <3>3, SMT DEF Digits
  <2>6. CASE n >= 512 /\ n < 8192
    <3>1. b >= 10 /\ b <= 13
      BY <1>1, <2>2, <2>6, SMT
    <3>2. t = 3
      BY <2>2, <3>1, SMT
    <3> HIDE DEF t
    <3>3. Pow10[t + 1] = 1000
      BY <3>2, PowersOfTen, SMT
    <3> QED
      BY <1>1, <1>2, <1>4, <2>6, <3>2, <3>3, SMT DEF Digits
  <2>7. CASE n >= 8192 /\ n < 65536
    <3>1. b >= 14 /\ b <= 16
      BY <1>1, <2>2, <2>7, SMT
    <3>2. t = 4
      BY <2>2, <3>1, SMT
    <3> HIDE DEF t
    <3>3. Pow10[t + 1] = 10000
      BY <3>2, PowersOfTen, SMT
    <3> QED
      BY <1>1, <1>2, <1>4, <2>7, <3>2, <3>3, SMT DEF Digits
  <2>8. CASE n >= 65536 /\ n < 524288
    <3>1. b >= 17 /\ b <= 19
      BY <1>1, <2>2, <2>8, SMT
    <3>2. t = 5
      BY <2>2, <3>1, SMT
    <3> HIDE DEF t
    <3>3. Pow10[t + 1] = 100000
      BY <3>2, PowersOfTen, SMT
    <3> QED
      BY <1>1, <1>2, <1>4, <2>8, <3>2, <3>3, SMT DEF Digits
  <2>9. CASE n >= 524288 /\ n < 8388608
    <3>1. b >= 20 /\ b <= 23
      BY <1>1, <2>2, <2>9, SMT
    <3>2. t = 6
      BY <2>2, <3>1, SMT
    <3> HIDE DEF t
    <3>3. Pow10[t + 1] = 1000000
      BY <3>2, PowersOfTen, SMT
    <3> QED
      BY <1>1, <1>2, <1>4, <2>9, <3>2, <3>3, SMT DEF Digits
  <2>10. CASE n >= 8388608 /\ n < 67108864
    <3>1. b >= 24 /\ b <= 26
      BY <1>1, <2>2, <2>10, SMT
    <3>2. t = 7
      BY <2>2, <3>1, SMT
    <3> HIDE DEF t
    <3>3. Pow10[t + 1] = 10000000
      BY <3>2, PowersOfTen, SMT
    <3> QED
      BY <1>1, <1>2, <1>4, <2>10, <3>2, <3>3, SMT DEF Digits
  <2>11. CASE n >= 67108864 /\ n < 536870912
    <3>1. b >= 27 /\ b <= 29
      BY <1>1, <2>2, <2>11, SMT
    <3>2. t = 8
      BY <2>2, <3>1, SMT
    <3> HIDE DEF t
    <3>3. Pow10[t + 1] = 100000000
      BY <3>2, PowersOfTen, SMT
    <3> QED
      BY <1>1, <1>2, <1>4, <2>11, <3>2, <3>3, SMT DEF Digits
  <2>12. CASE n >= 536870912
    <3>1. b >= 30 /\ b <= 31
      BY <1>1, <2>2, <2>12, SMT
    <3>2. t = 9
      BY <2>2, <3>1, SMT
    <3> HIDE DEF t
    <3>3. Pow10[t + 1] = 1000000000
      BY <3>2, PowersOfTen, SMT
    <3> QED
      BY <1>1, <1>2, <1>4, <2>12, <3>2, <3>3, SMT DEF Digits
  <2> QED
    BY <1>1, <2>3, <2>4, <2>5, <2>6, <2>7, <2>8, <2>9, <2>10, <2>11, <2>12, SMT
<1> QED
  BY <1>1, <1>3, <1>4, SMT

-----------------------------------------------------------------------------
(* Writer: the parts of a message, and their sum.                             *)

Size == Nat

LEMMA SizesAre == Size \in SUBSET Int /\ 1 \in Int /\ \A n : n \in Nat <=> n \in Size
BY DEF Size

LEMMA SumOfNone == <<>> \in Seq(Size) /\ ValueOf(<<>>, 1) = 0
<1> DEFINE s == <<>>
<1>1. s \in Seq(Size) /\ Len(s) = 0
  OBVIOUS
<1> HIDE DEF s
<1>2. PICK v : Values(v, s, 1) /\ ValueOf(s, 1) = v[Len(s)]
  BY <1>1, SizesAre, ValuesExist
<1>3. ValueOf(s, 1) = 0
  BY <1>1, <1>2 DEF Values
<1> QED
  BY <1>1, <1>3 DEF s

LEMMA SumOfTwo ==
  ASSUME NEW a1 \in Size, NEW a2 \in Size
  PROVE  <<a1, a2>> \in Seq(Size) /\ ValueOf(<<a1, a2>>, 1) = a1 + a2
<1> DEFINE s == <<a1, a2>>
<1>1. s \in Seq(Size) /\ Len(s) = 2 /\ s[1] = a1 /\ s[2] = a2
  OBVIOUS
<1> HIDE DEF s
<1>2. PICK v : Values(v, s, 1) /\ ValueOf(s, 1) = v[Len(s)]
  BY <1>1, SizesAre, ValuesExist
<1>3. v[0] = 0 /\ \A i \in 1..Len(s) : v[i] = 1 * v[i - 1] + s[i]
  BY <1>2 DEF Values
<1>0. a1 \in Int /\ a2 \in Int
  BY DEF Size
<1>4. v[1] = a1
  <2>1. 1 \in 1..Len(s) /\ 1 - 1 = 0
    BY <1>1
  <2> QED
    BY <1>0, <1>1, <1>3, <2>1
<1>5. v[2] = a1 + a2
  <2>1. 2 \in 1..Len(s) /\ 2 - 1 = 1
    BY <1>1
  <2> QED
    BY <1>0, <1>1, <1>3, <2>1, <1>4
<1>6. ValueOf(s, 1) = a1 + a2
  BY <1>1, <1>2, <1>5
<1> QED
  BY <1>1, <1>6 DEF s

LEMMA SumOfThree ==
  ASSUME NEW a1 \in Size, NEW a2 \in Size, NEW a3 \in Size
  PROVE  <<a1, a2, a3>> \in Seq(Size) /\ ValueOf(<<a1, a2, a3>>, 1) = a1 + a2 + a3
<1> DEFINE s == <<a1, a2, a3>>
<1>1. s \in Seq(Size) /\ Len(s) = 3 /\ s[1] = a1 /\ s[2] = a2 /\ s[3] = a3
  OBVIOUS
<1> HIDE DEF s
<1>2. PICK v : Values(v, s, 1) /\ ValueOf(s, 1) = v[Len(s)]
  BY <1>1, SizesAre, ValuesExist
<1>3. v[0] = 0 /\ \A i \in 1..Len(s) : v[i] = 1 * v[i - 1] + s[i]
  BY <1>2 DEF Values
<1>0. a1 \in Int /\ a2 \in Int /\ a3 \in Int
  BY DEF Size
<1>4. v[1] = a1
  <2>1. 1 \in 1..Len(s) /\ 1 - 1 = 0
    BY <1>1
  <2> QED
    BY <1>0, <1>1, <1>3, <2>1
<1>5. v[2] = a1 + a2
  <2>1. 2 \in 1..Len(s) /\ 2 - 1 = 1
    BY <1>1
  <2> QED
    BY <1>0, <1>1, <1>3, <2>1, <1>4
<1>6. v[3] = a1 + a2 + a3
  <2>1. 3 \in 1..Len(s) /\ 3 - 1 = 2
    BY <1>1
  <2> QED
    BY <1>0, <1>1, <1>3, <2>1, <1>5
<1>7. ValueOf(s, 1) = a1 + a2 + a3
  BY <1>1, <1>2, <1>6
<1> QED
  BY <1>1, <1>7 DEF s

LEMMA SumOfFour ==
  ASSUME NEW a1 \in Size, NEW a2 \in Size, NEW a3 \in Size, NEW a4 \in Size
  PROVE  <<a1, a2, a3, a4>> \in Seq(Size) /\ ValueOf(<<a1, a2, a3, a4>>, 1) = a1 + a2 + a3 + a4
<1> DEFINE s == <<a1, a2, a3, a4>>
<1>1. s \in Seq(Size) /\ Len(s) = 4 /\ s[1] = a1 /\ s[2] = a2 /\ s[3] = a3 /\ s[4] = a4
  OBVIOUS
<1> HIDE DEF s
<1>2. PICK v : Values(v, s, 1) /\ ValueOf(s, 1) = v[Len(s)]
  BY <1>1, SizesAre, ValuesExist
<1>3. v[0] = 0 /\ \A i \in 1..Len(s) : v[i] = 1 * v[i - 1] + s[i]
  BY <1>2 DEF Values
<1>0. a1 \in Int /\ a2 \in Int /\ a3 \in Int /\ a4 \in Int
  BY DEF Size
<1>4. v[1] = a1
  <2>1. 1 \in 1..Len(s) /\ 1 - 1 = 0
    BY <1>1
  <2> QED
    BY <1>0, <1>1, <1>3, <2>1
<1>5. v[2] = a1 + a2
  <2>1. 2 \in 1..Len(s) /\ 2 - 1 = 1
    BY <1>1
  <2> QED
    BY <1>0, <1>1, <1>3, <2>1, <1>4
<1>6. v[3] = a1 + a2 + a3
  <2>1. 3 \in 1..Len(s) /\ 3 - 1 = 2
    BY <1>1
  <2> QED
    BY <1>0, <1>1, <1>3, <2>1, <1>5
<1>7. v[4] = a1 + a2 + a3 + a4
  <2>1. 4 \in 1..Len(s) /\ 4 - 1 = 3
    BY <1>1
  <2> QED
    BY <1>0, <1>1, <1>3, <2>1, <1>6
<1>8. ValueOf(s, 1) = a1 + a2 + a3 + a4
  BY <1>1, <1>2, <1>7
<1> QED
  BY <1>1, <1>8 DEF s

LEMMA SumOfField ==
  ASSUME NEW name \in Size, NEW value \in Size
  PROVE  Field(name, value) \in Seq(Size) /\ ValueOf(Field(name, value), 1) = name + value + 4
<1> DEFINE s == Field(name, value)
<1>0. 1 \in Size /\ name \in Int /\ value \in Int
  BY DEF Size
<1>1. s \in Seq(Size) /\ Len(s) = 6 /\ s[1] = name /\ s[2] = 1 /\ s[3] = 1 /\ s[4] = value /\ s[5] = 1 /\ s[6] = 1
  BY <1>0 DEF Field
<1> HIDE DEF s
<1>2. PICK v : Values(v, s, 1) /\ ValueOf(s, 1) = v[Len(s)]
  BY <1>1, SizesAre, ValuesExist
<1>3. v[0] = 0 /\ \A i \in 1..Len(s) : v[i] = 1 * v[i - 1] + s[i]
  BY <1>2 DEF Values
<1>4. v[1] = name
  <2>1. 1 \in 1..Len(s) /\ 1 - 1 = 0
    BY <1>1
  <2> QED
    BY <1>0, <1>1, <1>3, <2>1
<1>5. v[2] = name + 1
  <2>1. 2 \in 1..Len(s) /\ 2 - 1 = 1
    BY <1>1
  <2> QED
    BY <1>0, <1>1, <1>3, <2>1, <1>4
<1>6. v[3] = name + 2
  <2>1. 3 \in 1..Len(s) /\ 3 - 1 = 2
    BY <1>1
  <2> QED
    BY <1>0, <1>1, <1>3, <2>1, <1>5
<1>7. v[4] = name + value + 2
  <2>1. 4 \in 1..Len(s) /\ 4 - 1 = 3
    BY <1>1
  <2> QED
    BY <1>0, <1>1, <1>3, <2>1, <1>6
<1>8. v[5] = name + value + 3
  <2>1. 5 \in 1..Len(s) /\ 5 - 1 = 4
    BY <1>1
  <2> QED
    BY <1>0, <1>1, <1>3, <2>1, <1>7
<1>9. v[6] = name + value + 4
  <2>1. 6 \in 1..Len(s) /\ 6 - 1 = 5
    BY <1>1
  <2> QED
    BY <1>0, <1>1, <1>3, <2>1, <1>8
<1>10. ValueOf(s, 1) = name + value + 4
  BY <1>1, <1>2, <1>9
<1> QED
  BY <1>1, <1>10 DEF s

LEMMA SumOfJoined ==
  ASSUME NEW s \in Seq(Size), NEW t \in Seq(Size)
  PROVE  /\ s \o t \in Seq(Size)
         /\ ValueOf(s, 1) \in Int /\ ValueOf(t, 1) \in Int
         /\ ValueOf(s \o t, 1) = ValueOf(s, 1) + ValueOf(t, 1)
BY SizesAre, SumOfBoth, Zenon

LEMMA BodyLength ==
  ASSUME NEW n \in BodySizes
  PROVE  n \in Nat /\ utility_u32_len(n) \in Nat
<1>1. n \in 0..MaxBody
  BY SizesOK, SMT
<1>2. n \in Nat
  BY <1>1, MaxBodyIs, SMT
<1>3. Digits(n) \in 1..10
  BY <1>1, DigitsAreWritten, Zenon DEF IsWritten
<1>4. utility_u32_len(n) = Digits(n)
  BY <1>1, LengthIs, Zenon
<1>5. Digits(n) \in Nat
  BY <1>3, SMT
<1> QED
  BY <1>2, <1>4, <1>5, Zenon

LEMMA RequestIsFilled ==
  ASSUME NEW r \in Requests
  PROVE  ValueOf(RequestParts(r), 1) = RequestSpace(r)
<1>1. r.method \in TextSizes /\ r.target \in TextSizes /\ r.host \in TextSizes /\ r.type \in TextSizes
      /\ r.body \in BodySizes
  BY DEF Requests
<1> DEFINE length == utility_u32_len(r.body)
<1>2. r.method \in Size /\ r.target \in Size /\ r.host \in Size /\ r.type \in Size /\ r.body \in Size
      /\ length \in Size /\ utility_u32_len(r.body) = length
  BY <1>1, BodyLength, SizesOK DEF Size
<1>3. 1 \in Size /\ 2 \in Size /\ 4 \in Size /\ 11 \in Size /\ 12 \in Size /\ 14 \in Size
  BY DEF Size
<1> HIDE DEF length
<1> DEFINE line == <<r.method, 1, r.target, 11>>
           content == IF r.body > 0 THEN Field(12, r.type) \o Field(14, length) ELSE <<>>
           end == <<2, r.body>>
<1>4. line \in Seq(Size) /\ ValueOf(line, 1) = r.method + 1 + r.target + 11
  BY <1>2, <1>3, SumOfFour
<1>5. Field(4, r.host) \in Seq(Size) /\ ValueOf(Field(4, r.host), 1) = 4 + r.host + 4
  BY <1>2, <1>3, SumOfField
<1>6. /\ content \in Seq(Size)
      /\ ValueOf(content, 1) = IF r.body > 0 THEN (12 + r.type + 4) + (14 + length + 4) ELSE 0
  <2>1. Field(12, r.type) \in Seq(Size) /\ ValueOf(Field(12, r.type), 1) = 12 + r.type + 4
    BY <1>2, <1>3, SumOfField
  <2>2. Field(14, length) \in Seq(Size) /\ ValueOf(Field(14, length), 1) = 14 + length + 4
    BY <1>2, <1>3, SumOfField
  <2>3. /\ Field(12, r.type) \o Field(14, length) \in Seq(Size)
        /\ ValueOf(Field(12, r.type) \o Field(14, length), 1)
             = (12 + r.type + 4) + (14 + length + 4)
    BY <2>1, <2>2, SumOfJoined
  <2> QED
    BY <2>3, SumOfNone
<1>7. end \in Seq(Size) /\ ValueOf(end, 1) = 2 + r.body
  BY <1>2, <1>3, SumOfTwo
<1> HIDE DEF line, content, end
<1>8. /\ line \o Field(4, r.host) \in Seq(Size)
      /\ ValueOf(line \o Field(4, r.host), 1) = ValueOf(line, 1) + ValueOf(Field(4, r.host), 1)
  BY <1>4, <1>5, SumOfJoined
<1>9. /\ (line \o Field(4, r.host)) \o content \in Seq(Size)
      /\ ValueOf((line \o Field(4, r.host)) \o content, 1)
           = ValueOf(line \o Field(4, r.host), 1) + ValueOf(content, 1)
  BY <1>6, <1>8, SumOfJoined
<1>10. ValueOf(((line \o Field(4, r.host)) \o content) \o end, 1)
         = ValueOf((line \o Field(4, r.host)) \o content, 1) + ValueOf(end, 1)
  BY <1>7, <1>9, SumOfJoined
<1>11. RequestParts(r) = ((line \o Field(4, r.host)) \o content) \o end
  BY Zenon DEF RequestParts, line, content, end, length
<1>12. r.method \in Int /\ r.target \in Int /\ r.host \in Int /\ r.type \in Int /\ r.body \in Int
       /\ length \in Int
  BY <1>2 DEF Size
<1>13. ValueOf(RequestParts(r), 1)
         = (r.method + 1 + r.target + 11) + (4 + r.host + 4)
           + (IF r.body > 0 THEN (12 + r.type + 4) + (14 + length + 4) ELSE 0) + (2 + r.body)
  BY <1>4, <1>5, <1>6, <1>7, <1>8, <1>9, <1>10, <1>11
<1> QED
  BY <1>2, <1>12, <1>13 DEF RequestSpace

LEMMA ResponseIsFilled ==
  ASSUME NEW r \in Responses
  PROVE  ValueOf(ResponseParts(r), 1) = ResponseSpace(r)
<1>1. r.status \in TextSizes /\ r.type \in TextSizes /\ r.body \in BodySizes
  BY DEF Responses
<1> DEFINE length == utility_u32_len(r.body)
<1>2. r.status \in Size /\ r.type \in Size /\ r.body \in Size
      /\ length \in Size /\ utility_u32_len(r.body) = length
  BY <1>1, BodyLength, SizesOK DEF Size
<1>3. 2 \in Size /\ 4 \in Size /\ 6 \in Size /\ 7 \in Size /\ 9 \in Size /\ 12 \in Size /\ 14 \in Size
      /\ DateSize \in Size /\ DateSize = 29
  BY DEF Size, DateSize
<1> HIDE DEF length
<1> DEFINE line == <<9, r.status, 2>>
           type == IF r.type = 0 THEN <<>> ELSE Field(12, r.type)
           end == <<2, r.body>>
<1>4. line \in Seq(Size) /\ ValueOf(line, 1) = 9 + r.status + 2
  <2>1. 9 \in Size /\ r.status \in Size /\ 2 \in Size
    BY <1>2, <1>3
  <2> QED
    BY <2>1, SumOfThree, Zenon
<1>5. Field(6, 7) \in Seq(Size) /\ ValueOf(Field(6, 7), 1) = 17
  <2>1. Field(6, 7) \in Seq(Size) /\ ValueOf(Field(6, 7), 1) = 6 + 7 + 4
    BY <1>3, SumOfField
  <2> QED
    BY <2>1
<1>6. Field(4, DateSize) \in Seq(Size) /\ ValueOf(Field(4, DateSize), 1) = 37
  <2>1. Field(4, DateSize) \in Seq(Size) /\ ValueOf(Field(4, DateSize), 1) = 4 + DateSize + 4
    BY <1>3, SumOfField
  <2> QED
    BY <1>3, <2>1
<1>7. /\ type \in Seq(Size)
      /\ ValueOf(type, 1) = IF r.type = 0 THEN 0 ELSE 12 + r.type + 4
  <2>1. Field(12, r.type) \in Seq(Size) /\ ValueOf(Field(12, r.type), 1) = 12 + r.type + 4
    BY <1>2, <1>3, SumOfField
  <2> QED
    BY <2>1, SumOfNone
<1>8. Field(14, length) \in Seq(Size) /\ ValueOf(Field(14, length), 1) = 14 + length + 4
  BY <1>2, <1>3, SumOfField
<1>9. end \in Seq(Size) /\ ValueOf(end, 1) = 2 + r.body
  BY <1>2, <1>3, SumOfTwo
<1> HIDE DEF line, type, end
<1> DEFINE s1 == line \o Field(6, 7)
           s2 == s1 \o Field(4, DateSize)
           s3 == s2 \o type
           s4 == s3 \o Field(14, length)
           s5 == s4 \o end
<1>10. s1 \in Seq(Size) /\ ValueOf(s1, 1) = ValueOf(line, 1) + 17
  BY <1>4, <1>5, SumOfJoined
<1> HIDE DEF s1
<1>11. s2 \in Seq(Size) /\ ValueOf(s2, 1) = ValueOf(s1, 1) + 37
  BY <1>6, <1>10, SumOfJoined
<1> HIDE DEF s2
<1>12. s3 \in Seq(Size) /\ ValueOf(s3, 1) = ValueOf(s2, 1) + ValueOf(type, 1)
  BY <1>7, <1>11, SumOfJoined
<1> HIDE DEF s3
<1>13. s4 \in Seq(Size) /\ ValueOf(s4, 1) = ValueOf(s3, 1) + ValueOf(Field(14, length), 1)
  BY <1>8, <1>12, SumOfJoined
<1> HIDE DEF s4
<1>14. ValueOf(s5, 1) = ValueOf(s4, 1) + ValueOf(end, 1)
  BY <1>9, <1>13, SumOfJoined
<1>15. ResponseParts(r) = s5
  BY Zenon DEF ResponseParts, line, type, end, length, s1, s2, s3, s4
<1> HIDE DEF s5
<1>16. r.status \in Int /\ r.type \in Int /\ r.body \in Int /\ length \in Int
  BY <1>2 DEF Size
<1>17. ValueOf(ResponseParts(r), 1)
         = (9 + r.status + 2) + 17 + 37 + (IF r.type = 0 THEN 0 ELSE 12 + r.type + 4)
           + (14 + length + 4) + (2 + r.body)
  BY <1>4, <1>7, <1>8, <1>9, <1>10, <1>11, <1>12, <1>13, <1>14, <1>15
<1> QED
  BY <1>2, <1>16, <1>17 DEF ResponseSpace

(* The arguments stay; the space is theirs, and the parts that are in it.     *)
SpaceOf(m) == IF "status" \in DOMAIN m THEN ResponseSpace(m) ELSE RequestSpace(m)
PartsOf(m) == IF "status" \in DOMAIN m THEN ResponseParts(m) ELSE RequestParts(m)

WriterInv ==
  /\ message \in Requests \cup Responses
  /\ space = 0 \/ space = SpaceOf(message)
  /\ parts # <<>> => parts = PartsOf(message) /\ space = SpaceOf(message)

LEMMA WriterInvInvariant == WriterSpec => []WriterInv
<1>1. WriterInit => WriterInv
  BY DEF WriterInit, WriterInv
<1>2. WriterInv /\ [WriterNext]_writer_vars => WriterInv'
  <2> SUFFICES ASSUME WriterInv, [WriterNext]_writer_vars PROVE WriterInv'
    OBVIOUS
  <2>1. CASE AllocateSpace
    <3>1. message' = message /\ parts' = parts /\ space' = SpaceOf(message)
      BY <2>1 DEF AllocateSpace, SpaceOf
    <3> QED
      BY <3>1 DEF WriterInv
  <2>2. CASE Push
    <3>1. message' = message /\ space' = space /\ parts' = PartsOf(message) /\ space > 0
      BY <2>2 DEF Push, PartsOf
    <3>2. space = SpaceOf(message)
      BY <3>1 DEF WriterInv
    <3> QED
      BY <3>1, <3>2, Zenon DEF WriterInv
  <2>3. CASE UNCHANGED writer_vars
    BY <2>3 DEF WriterInv, writer_vars
  <2> QED
    BY <2>1, <2>2, <2>3 DEF WriterNext
<1> QED
  BY <1>1, <1>2, PTL DEF WriterSpec

(* What is written of a request or a response fills the space that            *)
(* http_write_request or http_write_response asked stream_allocate for, to    *)
(* the byte, and its length field is the size of the body in decimal, for     *)
(* texts of any size and bodies up to MaxBody: the digits that                *)
(* utility_u32_len foresees are those that utility_u32_sprint writes.         *)
THEOREM MessagesWrittenExactly == WriterSpec => []WrittenExactly
<1>1. ASSUME WriterInv PROVE WrittenExactly
  <2>1. message \in Requests => "status" \notin DOMAIN message
    BY DEF Requests
  <2>2. message \in Responses => "status" \in DOMAIN message
    BY DEF Responses
  <2>3. message \in Requests \cup Responses
    BY <1>1 DEF WriterInv
  <2>4. ValueOf(PartsOf(message), 1) = SpaceOf(message)
    BY <2>1, <2>2, <2>3, RequestIsFilled, ResponseIsFilled, Zenon DEF PartsOf, SpaceOf
  <2>5. SpaceIsFilled
    BY <1>1, <2>4, Zenon DEF SpaceIsFilled, WriterInv
  <2>6. message.body \in BodySizes
    BY <2>3 DEF Requests, Responses
  <2>7. message.body \in 0..MaxBody
    <3>1. \A n \in BodySizes : n \in 0..MaxBody
      BY SizesOK, Zenon
    <3> QED
      BY <2>6, <3>1, Zenon
  <2>8. IsWritten(message.body, Digits(message.body))
    BY <2>7, DigitsAreWritten, Zenon
  <2> DEFINE digits == utility_u32_sprint[message.body]
  <2>9. digits \in Seq(Digit) /\ ValueOf(digits, 10) = message.body
        /\ (message.body > 0 => digits[1] # 0) /\ Len(digits) = Digits(message.body)
    BY <2>8, Zenon DEF IsWritten
  <2> HIDE DEF digits
  <2>10. \A i \in DOMAIN digits : digits[i] \in 0..9
    BY <2>9 DEF Digit
  <2>11. Len(digits) = utility_u32_len(message.body)
    BY <2>7, <2>9, LengthIs, Zenon
  <2>12. LengthIsExact
    BY <2>9, <2>10, <2>11, Zenon DEF LengthIsExact, digits
  <2> QED
    BY <2>5, <2>12, Zenon DEF WrittenExactly
<1> QED
  BY <1>1, WriterInvInvariant, PTL

-----------------------------------------------------------------------------
(* String: blocks of memory.                                                  *)

LEMMA IsSequence ==
  ASSUME NEW S, NEW n \in Nat, NEW f \in [1..n -> S]
  PROVE  f \in Seq(S) /\ Len(f) = n
OBVIOUS

LEMMA SameSequence ==
  ASSUME NEW S, NEW s \in Seq(S), NEW t \in Seq(S), Len(s) = Len(t),
         \A i \in 1..Len(s) : s[i] = t[i]
  PROVE  s = t
BY SeqEqual

(* What a byte of memory can be, in a string or in a vector.                  *)
Octets == Chars \cup {Nul, Junk} \cup (Objects \X Nat)

LEMMA AtIs ==
  ASSUME NEW mem \in Seq(Octets), NEW i \in Nat
  PROVE  At(mem, i) \in Octets /\ (i < Len(mem) => At(mem, i) = mem[i + 1])
<1>1. DOMAIN mem = 1..Len(mem) /\ Len(mem) \in Nat /\ \A j \in 1..Len(mem) : mem[j] \in Octets
  OBVIOUS
<1>2. Junk \in Octets
  BY DEF Octets
<1>3. CASE i + 1 \in DOMAIN mem
  BY <1>1, <1>3 DEF At
<1>4. CASE i + 1 \notin DOMAIN mem
  BY <1>1, <1>2, <1>4 DEF At
<1> QED
  BY <1>3, <1>4

LEMMA ReadIs ==
  ASSUME NEW mem \in Seq(Octets), NEW from \in Nat, NEW n \in Nat
  PROVE  /\ Read(mem, from, n) \in Seq(Octets) /\ Len(Read(mem, from, n)) = n
         /\ \A i \in 1..n : Read(mem, from, n)[i] = At(mem, from + i - 1)
         /\ \A i \in 1..n : from + i <= Len(mem) => Read(mem, from, n)[i] = mem[from + i]
<1> DEFINE f == [i \in 1..n |-> At(mem, from + i - 1)]
<1>1. ASSUME NEW i \in 1..n
      PROVE  At(mem, from + i - 1) \in Octets
             /\ (from + i <= Len(mem) => At(mem, from + i - 1) = mem[from + i])
  <2>1. from + i - 1 \in Nat /\ (from + i - 1) + 1 = from + i
    OBVIOUS
  <2>2. Len(mem) \in Nat
    OBVIOUS
  <2> QED
    BY <2>1, <2>2, AtIs
<1>2. f \in [1..n -> Octets] /\ \A i \in 1..n : f[i] = At(mem, from + i - 1)
  BY <1>1
<1> HIDE DEF f
<1>3. f \in Seq(Octets) /\ Len(f) = n
  BY <1>2, IsSequence
<1>4. Read(mem, from, n) = f
  BY DEF Read, f
<1> QED
  BY <1>1, <1>2, <1>3, <1>4

LEMMA ReallocIs ==
  ASSUME NEW mem \in Seq(Octets), NEW n \in Nat
  PROVE  /\ realloc(mem, n) \in Seq(Octets) /\ Len(realloc(mem, n)) = n
         /\ \A i \in 1..n : i <= Len(mem) => realloc(mem, n)[i] = mem[i]
<1> DEFINE f == [i \in 1..n |-> At(mem, i - 1)]
<1>1. ASSUME NEW i \in 1..n
      PROVE  At(mem, i - 1) \in Octets /\ (i <= Len(mem) => At(mem, i - 1) = mem[i])
  <2>1. i - 1 \in Nat /\ (i - 1) + 1 = i /\ Len(mem) \in Nat
    OBVIOUS
  <2> QED
    BY <2>1, AtIs
<1>2. f \in [1..n -> Octets] /\ \A i \in 1..n : f[i] = At(mem, i - 1)
  BY <1>1
<1> HIDE DEF f
<1>3. f \in Seq(Octets) /\ Len(f) = n
  BY <1>2, IsSequence
<1>4. realloc(mem, n) = f
  BY DEF realloc, f
<1> QED
  BY <1>1, <1>2, <1>3, <1>4

(* What memmove leaves behind.                                                *)
Moved(mem, to, from, n) ==
  /\ memmove(mem, to, from, n) \in Seq(Octets)
  /\ Len(memmove(mem, to, from, n)) = Len(mem)
  /\ \A i \in 1..Len(mem) :
       memmove(mem, to, from, n)[i]
         = IF i \in to + 1..to + n THEN At(mem, i - 1 - to + from) ELSE mem[i]

LEMMA MoveIs ==
  ASSUME NEW mem \in Seq(Octets), NEW to \in Nat, NEW from \in Nat, NEW n \in Nat
  PROVE  /\ memmove(mem, to, from, n) \in Seq(Octets)
         /\ Len(memmove(mem, to, from, n)) = Len(mem)
         /\ \A i \in 1..Len(mem) :
              memmove(mem, to, from, n)[i]
                = IF i \in to + 1..to + n THEN At(mem, i - 1 - to + from) ELSE mem[i]
<1> DEFINE e(i) == IF i \in to + 1..to + n THEN At(mem, i - 1 - to + from) ELSE mem[i]
           f == [i \in 1..Len(mem) |-> e(i)]
<1>1. DOMAIN mem = 1..Len(mem) /\ Len(mem) \in Nat
  OBVIOUS
<1>2. ASSUME NEW i \in 1..Len(mem) PROVE e(i) \in Octets
  <2>1. CASE i \in to + 1..to + n
    <3>1. i - 1 - to + from \in Nat
      BY <2>1
    <3>2. At(mem, i - 1 - to + from) \in Octets
      BY <3>1, AtIs
    <3> QED
      BY <2>1, <3>2
  <2>2. CASE i \notin to + 1..to + n
    BY <2>2
  <2> QED
    BY <2>1, <2>2
<1> HIDE DEF e
<1>3. f \in [1..Len(mem) -> Octets] /\ \A i \in 1..Len(mem) : f[i] = e(i)
  BY <1>2
<1> HIDE DEF f
<1>4. f \in Seq(Octets) /\ Len(f) = Len(mem)
  BY <1>1, <1>3, IsSequence
<1>5. memmove(mem, to, from, n) = f
  BY <1>1, Zenon DEF memmove, f, e
<1> QED
  BY <1>3, <1>4, <1>5, Zenon DEF e

LEMMA MovedRight ==
  ASSUME NEW mem \in Seq(Octets), NEW to \in Nat, NEW from \in Nat, NEW n \in Nat
  PROVE  Moved(mem, to, from, n)
BY MoveIs DEF Moved

LEMMA CopyIs ==
  ASSUME NEW mem \in Seq(Octets), NEW to \in Nat, NEW block \in Seq(Octets)
  PROVE  /\ memcpy(mem, to, block) \in Seq(Octets) /\ Len(memcpy(mem, to, block)) = Len(mem)
         /\ \A i \in 1..Len(mem) :
              memcpy(mem, to, block)[i]
                = IF i \in to + 1..to + Len(block) THEN block[i - to] ELSE mem[i]
<1> DEFINE e(i) == IF i \in to + 1..to + Len(block) THEN block[i - to] ELSE mem[i]
           f == [i \in 1..Len(mem) |-> e(i)]
<1>1. DOMAIN mem = 1..Len(mem) /\ Len(mem) \in Nat /\ Len(block) \in Nat
  OBVIOUS
<1>2. ASSUME NEW i \in 1..Len(mem) PROVE e(i) \in Octets
  <2>1. CASE i \in to + 1..to + Len(block)
    <3>1. i - to \in 1..Len(block)
      BY <1>1, <2>1
    <3>2. block[i - to] \in Octets
      BY <3>1
    <3> QED
      BY <2>1, <3>2
  <2>2. CASE i \notin to + 1..to + Len(block)
    BY <2>2
  <2> QED
    BY <2>1, <2>2
<1> HIDE DEF e
<1>3. f \in [1..Len(mem) -> Octets] /\ \A i \in 1..Len(mem) : f[i] = e(i)
  BY <1>2
<1> HIDE DEF f
<1>4. f \in Seq(Octets) /\ Len(f) = Len(mem)
  BY <1>1, <1>3, IsSequence
<1>5. memcpy(mem, to, block) = f
  BY <1>1, Zenon DEF memcpy, f, e
<1> QED
  BY <1>3, <1>4, <1>5, Zenon DEF e

-----------------------------------------------------------------------------
(* String: its operations.                                                    *)

(* A NUL behind the characters, and the null object has none.                 *)
Strings ==
  {s \in [null : BOOLEAN, mem : Seq(Octets), size : Nat] :
     s.size < Len(s.mem) /\ s.mem[s.size + 1] = Nul /\ (s.null => Len(s.mem) = 1)}

LEMMA StringsAre ==
  ASSUME NEW s \in Strings
  PROVE  /\ s \in [null : BOOLEAN, mem : Seq(Octets), size : Nat]
         /\ s.mem \in Seq(Octets) /\ s.size \in Nat /\ Len(s.mem) \in Nat /\ s.size < Len(s.mem)
         /\ s.mem[s.size + 1] = Nul /\ (s.null => Len(s.mem) = 1 /\ s.size = 0)
BY DEF Strings

LEMMA NullIsString == NullObject \in Strings
<1>1. Nul \in Octets
  BY DEF Octets
<1>2. <<Nul>> \in Seq(Octets) /\ Len(<<Nul>>) = 1 /\ <<Nul>>[1] = Nul
  BY <1>1
<1> QED
  BY <1>2 DEF NullObject, Strings

LEMMA AllocateIs ==
  ASSUME NEW s \in Strings, NEW n \in Nat
  PROVE  LET r == string_allocate(s, n)
         IN  /\ r \in Strings /\ r.size = s.size /\ n < Len(r.mem)
             /\ (n > 0 => ~r.null \/ n <= capacity(s))
             /\ \A i \in 1..s.size + 1 : r.mem[i] = s.mem[i]
<1> DEFINE r == string_allocate(s, n)
<1>1. /\ s \in [null : BOOLEAN, mem : Seq(Octets), size : Nat]
      /\ s.mem \in Seq(Octets) /\ s.size \in Nat /\ Len(s.mem) \in Nat /\ s.size < Len(s.mem)
      /\ s.mem[s.size + 1] = Nul /\ (s.null => Len(s.mem) = 1 /\ s.size = 0)
  BY StringsAre
<1>2. CASE n > capacity(s)
  <2> DEFINE zero == [i \in 1..n + 1 |-> Nul]
             mem == IF s.null THEN zero ELSE realloc(s.mem, n + 1)
  <2>1. r = [s EXCEPT !.null = FALSE, !.mem = mem]
    BY <1>2 DEF string_allocate
  <2>2. n + 1 \in Nat /\ n + 1 > s.size + 1 /\ n + 1 > Len(s.mem)
    BY <1>1, <1>2 DEF capacity
  <2>3. zero \in Seq(Octets) /\ Len(zero) = n + 1 /\ \A i \in 1..n + 1 : zero[i] = Nul
    <3>1. Nul \in Octets
      BY DEF Octets
    <3>2. zero \in [1..n + 1 -> Octets]
      BY <3>1
    <3>3. \A i \in 1..n + 1 : zero[i] = Nul
      OBVIOUS
    <3> HIDE DEF zero
    <3> QED
      BY <2>2, <3>2, <3>3, IsSequence
  <2> HIDE DEF zero
  <2>4. mem \in Seq(Octets) /\ Len(mem) = n + 1
    BY <1>1, <2>2, <2>3, ReallocIs
  <2>5. ASSUME NEW i \in 1..s.size + 1 PROVE mem[i] = s.mem[i]
    <3>1. CASE s.null
      <4>1. i = 1 /\ s.mem[1] = Nul /\ 1 \in 1..n + 1
        BY <1>1, <3>1
      <4> QED
        BY <2>3, <3>1, <4>1
    <3>2. CASE ~s.null
      <4>1. i \in 1..n + 1 /\ i <= Len(s.mem)
        BY <1>1, <2>2
      <4> QED
        BY <1>1, <2>2, <3>2, <4>1, ReallocIs
    <3> QED
      BY <3>1, <3>2
  <2> HIDE DEF mem, r
  <2>6. r.null = FALSE /\ r.mem = mem /\ r.size = s.size
        /\ r \in [null : BOOLEAN, mem : Seq(Octets), size : Nat]
    BY <1>1, <2>1, <2>4
  <2>7. mem[s.size + 1] = Nul
    <3>1. s.size + 1 \in 1..s.size + 1
      BY <1>1
    <3> QED
      BY <1>1, <2>5, <3>1
  <2>8. r \in Strings
    BY <1>1, <2>2, <2>4, <2>6, <2>7 DEF Strings
  <2>9. n < Len(r.mem) /\ \A i \in 1..s.size + 1 : r.mem[i] = s.mem[i]
    BY <2>4, <2>5, <2>6
  <2> QED
    BY <2>6, <2>8, <2>9 DEF r
<1>3. CASE ~(n > capacity(s))
  <2>1. r = s
    BY <1>3 DEF string_allocate
  <2>2. n < Len(s.mem) /\ n <= capacity(s)
    BY <1>1, <1>3 DEF capacity
  <2> QED
    BY <2>1, <2>2
<1> QED
  BY <1>2, <1>3

LEMMA ResizeIs ==
  ASSUME NEW s \in Strings, NEW n \in Nat
  PROVE  LET r == string_resize(s, n)
         IN  /\ r \in Strings /\ r.size = n
             /\ \A i \in 1..s.size : i <= n => r.mem[i] = s.mem[i]
<1> DEFINE a == string_allocate(s, n)
           r == string_resize(s, n)
<1>1. /\ a \in Strings /\ a.size = s.size /\ n < Len(a.mem)
      /\ \A i \in 1..s.size + 1 : a.mem[i] = s.mem[i]
  BY AllocateIs
<1>2. r = [a EXCEPT !.size = n, !.mem = [@ EXCEPT ![n + 1] = Nul]]
  BY DEF string_resize
<1> HIDE DEF a, r
<1>3. /\ a \in [null : BOOLEAN, mem : Seq(Octets), size : Nat]
      /\ a.mem \in Seq(Octets) /\ Len(a.mem) \in Nat /\ (a.null => Len(a.mem) = 1)
  BY <1>1, StringsAre
<1> DEFINE mem == [a.mem EXCEPT ![n + 1] = Nul]
<1>4. n + 1 \in 1..Len(a.mem) /\ Nul \in Octets
  BY <1>1, <1>3 DEF Octets
<1>5. /\ mem \in Seq(Octets) /\ Len(mem) = Len(a.mem) /\ mem[n + 1] = Nul
      /\ \A i \in 1..Len(a.mem) : i # n + 1 => mem[i] = a.mem[i]
  BY <1>3, <1>4
<1> HIDE DEF mem
<1>6. /\ r.null = a.null /\ r.mem = mem /\ r.size = n
      /\ r \in [null : BOOLEAN, mem : Seq(Octets), size : Nat]
  BY <1>2, <1>3, <1>5 DEF mem
<1>7. r \in Strings
  BY <1>1, <1>3, <1>5, <1>6 DEF Strings
<1>8. ASSUME NEW i \in 1..s.size, i <= n PROVE r.mem[i] = s.mem[i]
  <2>1. s.size \in Nat /\ s.size < Len(a.mem)
    BY <1>1, StringsAre
  <2>2. i \in 1..Len(a.mem) /\ i # n + 1 /\ i \in 1..s.size + 1
    BY <1>3, <1>8, <2>1
  <2> QED
    BY <1>1, <1>5, <1>6, <2>2
<1> QED
  BY <1>6, <1>7, <1>8 DEF r

LEMMA InsertIs ==
  ASSUME NEW s \in Strings, NEW at \in 0..s.size, NEW block \in Seq(Octets)
  PROVE  LET r == string_insert_data(s, at, block)
         IN  /\ r \in Strings /\ r.size = s.size + Len(block)
             /\ \A i \in 1..s.size + Len(block) :
                  r.mem[i] = IF i <= at THEN s.mem[i]
                             ELSE IF i <= at + Len(block) THEN block[i - at]
                             ELSE s.mem[i - Len(block)]
<1> DEFINE l == Len(block)
           a == string_resize(s, s.size + l)
           moved == memmove(a.mem, at + l, at, s.size - at)
           mem == memcpy(moved, at, block)
           r == string_insert_data(s, at, block)
<1>1. s.size \in Nat /\ l \in Nat /\ s.size + l \in Nat /\ at \in Nat /\ at <= s.size
      /\ at + l \in Nat /\ s.size - at \in Nat
  BY StringsAre
<1>2. /\ a \in Strings /\ a.size = s.size + l
      /\ \A i \in 1..s.size : i <= s.size + l => a.mem[i] = s.mem[i]
  BY <1>1, ResizeIs
<1>3. r = [a EXCEPT !.mem = mem]
  BY DEF string_insert_data
<1>4. block \in Seq(Octets)
  OBVIOUS
<1> HIDE DEF a, r
<1>5. /\ a \in [null : BOOLEAN, mem : Seq(Octets), size : Nat]
      /\ a.mem \in Seq(Octets) /\ Len(a.mem) \in Nat /\ a.size < Len(a.mem)
      /\ a.mem[a.size + 1] = Nul /\ (a.null => Len(a.mem) = 1)
  BY <1>2, StringsAre
<1>6. /\ moved \in Seq(Octets) /\ Len(moved) = Len(a.mem)
      /\ \A i \in 1..Len(a.mem) :
           moved[i] = IF i \in at + l + 1..at + l + (s.size - at)
                      THEN At(a.mem, i - 1 - (at + l) + at) ELSE a.mem[i]
  <2>1. a.mem \in Seq(Octets) /\ at + l \in Nat /\ at \in Nat /\ s.size - at \in Nat
    BY <1>1, <1>5
  <2>2. \A m \in Seq(Octets) : \A to, from, n \in Nat :
          /\ memmove(m, to, from, n) \in Seq(Octets)
          /\ Len(memmove(m, to, from, n)) = Len(m)
          /\ \A i \in 1..Len(m) :
               memmove(m, to, from, n)[i]
                 = IF i \in to + 1..to + n THEN At(m, i - 1 - to + from) ELSE m[i]
    BY MoveIs
  <2> DEFINE m == a.mem
  <2>3. m \in Seq(Octets) /\ moved = memmove(m, at + l, at, s.size - at)
    BY <2>1
  <2> HIDE DEF m, moved, l
  <2>4. /\ moved \in Seq(Octets) /\ Len(moved) = Len(m)
        /\ \A i \in 1..Len(m) :
             moved[i] = IF i \in (at + l) + 1..(at + l) + (s.size - at)
                        THEN At(m, i - 1 - (at + l) + at) ELSE m[i]
    <3> DEFINE to == at + l
               n == s.size - at
    <3>1. to \in Nat /\ at \in Nat /\ n \in Nat /\ moved = memmove(m, to, at, n)
      BY <2>1, <2>3, Zenon
    <3> HIDE DEF to, n
    <3>2. moved \in Seq(Octets) /\ Len(moved) = Len(m)
      BY <2>2, <2>3, <3>1
    <3>3. ASSUME NEW i \in 1..Len(m)
          PROVE  moved[i] = IF i \in to + 1..to + n THEN At(m, i - 1 - to + at) ELSE m[i]
      BY <2>2, <2>3, <3>1
    <3> QED
      BY <3>2, <3>3, Zenon DEF to, n
  <2> QED
    BY <2>4 DEF m
<1> HIDE DEF moved
<1>7. /\ mem \in Seq(Octets) /\ Len(mem) = Len(moved)
      /\ \A i \in 1..Len(moved) :
           mem[i] = IF i \in at + 1..at + l THEN block[i - at] ELSE moved[i]
  <2>1. moved \in Seq(Octets) /\ at \in Nat
    BY <1>1, <1>6
  <2> QED
    BY <1>4, <2>1, CopyIs, Zenon
<1> HIDE DEF mem
<1>8. ASSUME NEW i \in 1..s.size + l
      PROVE  mem[i] = IF i <= at THEN s.mem[i]
                      ELSE IF i <= at + l THEN block[i - at] ELSE s.mem[i - l]
  <2>1. i \in 1..Len(a.mem) /\ i \in 1..Len(moved)
    BY <1>1, <1>2, <1>5, <1>6
  <2>2. CASE i <= at
    <3>1. i \notin at + 1..at + l /\ i \notin at + l + 1..at + l + (s.size - at)
          /\ i \in 1..s.size /\ i <= s.size + l
      BY <1>1, <2>2
    <3> QED
      BY <1>2, <1>6, <1>7, <2>1, <2>2, <3>1
  <2>3. CASE ~(i <= at) /\ i <= at + l
    <3>1. i \in at + 1..at + l
      BY <1>1, <2>3
    <3> QED
      BY <1>7, <2>1, <2>3, <3>1
  <2>4. CASE ~(i <= at) /\ ~(i <= at + l)
    <3>1. i \notin at + 1..at + l /\ i \in at + l + 1..at + l + (s.size - at)
      BY <1>1, <2>4
    <3>2. mem[i] = At(a.mem, i - 1 - (at + l) + at)
      BY <1>6, <1>7, <2>1, <3>1
    <3>3. /\ i - 1 - (at + l) + at = i - l - 1 /\ i - l - 1 \in Nat /\ (i - l - 1) + 1 = i - l
          /\ i - l - 1 < Len(a.mem) /\ i - l \in 1..s.size /\ i - l <= s.size + l
      BY <1>1, <1>2, <1>5, <2>4
    <3>4. At(a.mem, i - l - 1) = a.mem[i - l]
      BY <1>5, <3>3, AtIs
    <3>5. a.mem[i - l] = s.mem[i - l]
      BY <1>2, <3>3
    <3> QED
      BY <2>4, <3>2, <3>3, <3>4, <3>5
  <2> QED
    BY <2>2, <2>3, <2>4
<1>9. mem[a.size + 1] = Nul
  <2>1. /\ a.size + 1 \in 1..Len(a.mem) /\ a.size + 1 \notin at + 1..at + l
        /\ a.size + 1 \notin at + l + 1..at + l + (s.size - at)
    BY <1>1, <1>2, <1>5, SMTT(60)
  <2> QED
    BY <1>5, <1>6, <1>7, <2>1
<1>10. /\ r.null = a.null /\ r.mem = mem /\ r.size = a.size
       /\ r \in [null : BOOLEAN, mem : Seq(Octets), size : Nat]
  BY <1>3, <1>5, <1>7
<1>11. r \in Strings
  BY <1>5, <1>6, <1>7, <1>9, <1>10 DEF Strings
<1> QED
  BY <1>2, <1>8, <1>10, <1>11 DEF r

LEMMA EraseIs ==
  ASSUME NEW s \in Strings, NEW at \in 0..s.size, NEW n \in 0..s.size, at + n <= s.size
  PROVE  LET r == string_erase_data(s, at, n)
         IN  /\ r \in Strings /\ r.size = s.size - n
             /\ \A i \in 1..s.size - n :
                  r.mem[i] = IF i <= at THEN s.mem[i] ELSE s.mem[i + n]
<1> DEFINE r == string_erase_data(s, at, n)
           mem == memmove(s.mem, at, at + n, s.size - at - n)
           moved == [s EXCEPT !.mem = mem]
<1>1. /\ s \in [null : BOOLEAN, mem : Seq(Octets), size : Nat]
      /\ s.mem \in Seq(Octets) /\ s.size \in Nat /\ Len(s.mem) \in Nat /\ s.size < Len(s.mem)
      /\ s.mem[s.size + 1] = Nul /\ (s.null => Len(s.mem) = 1 /\ s.size = 0)
  BY StringsAre
<1>2. at \in Nat /\ n \in Nat /\ at + n \in Nat /\ s.size - at - n \in Nat /\ s.size - n \in Nat
  BY <1>1
<1>3. CASE n = 0
  <2>1. r = s
    BY <1>3 DEF string_erase_data
  <2>2. s.size - n = s.size /\ \A i \in 1..s.size : i + n = i
    BY <1>1, <1>3
  <2> HIDE DEF r
  <2>3. \A i \in 1..s.size - n : r.mem[i] = IF i <= at THEN s.mem[i] ELSE s.mem[i + n]
    BY <2>1, <2>2
  <2> QED
    BY <2>1, <2>2, <2>3 DEF r
<1>4. CASE n # 0
  <2>1. r = string_resize(moved, s.size - n)
    BY <1>4 DEF string_erase_data
  <2>2. /\ mem \in Seq(Octets) /\ Len(mem) = Len(s.mem)
        /\ \A i \in 1..Len(s.mem) :
             mem[i] = IF i \in at + 1..at + (s.size - at - n)
                      THEN At(s.mem, i - 1 - at + (at + n)) ELSE s.mem[i]
    BY <1>1, <1>2, MoveIs, SMTT(60)
  <2> HIDE DEF mem, r
  <2>3. mem[s.size + 1] = Nul
    <3>1. s.size + 1 \in 1..Len(s.mem) /\ s.size + 1 \notin at + 1..at + (s.size - at - n)
      BY <1>1, <1>2
    <3> QED
      BY <1>1, <2>2, <3>1
  <2>4. /\ moved.null = s.null /\ moved.mem = mem /\ moved.size = s.size
        /\ moved \in [null : BOOLEAN, mem : Seq(Octets), size : Nat]
    BY <1>1, <2>2
  <2> HIDE DEF moved
  <2>5. moved \in Strings
    BY <1>1, <2>2, <2>3, <2>4 DEF Strings
  <2>6. /\ r \in Strings /\ r.size = s.size - n
        /\ \A i \in 1..moved.size : i <= s.size - n => r.mem[i] = moved.mem[i]
    BY <1>2, <2>1, <2>5, ResizeIs
  <2>7. ASSUME NEW i \in 1..s.size - n
        PROVE  r.mem[i] = IF i <= at THEN s.mem[i] ELSE s.mem[i + n]
    <3>1. i \in 1..s.size /\ i <= s.size - n /\ i \in 1..Len(s.mem)
      BY <1>1, <1>2
    <3>2. r.mem[i] = mem[i]
      BY <2>4, <2>6, <3>1
    <3>3. CASE i <= at
      <4>1. i \notin at + 1..at + (s.size - at - n)
        BY <1>2, <3>3
      <4> QED
        BY <2>2, <3>1, <3>2, <3>3, <4>1
    <3>4. CASE ~(i <= at)
      <4>1. i \in at + 1..at + (s.size - at - n)
        BY <1>1, <1>2, <3>4
      <4>2. /\ i - 1 - at + (at + n) = i + n - 1 /\ i + n - 1 \in Nat
            /\ (i + n - 1) + 1 = i + n /\ i + n - 1 < Len(s.mem)
        BY <1>1, <1>2
      <4>3. At(s.mem, i + n - 1) = s.mem[i + n]
        BY <1>1, <4>2, AtIs
      <4>4. mem[i] = At(s.mem, i - 1 - at + (at + n))
        BY <2>2, <3>1, <4>1
      <4> QED
        BY <3>2, <3>4, <4>2, <4>3, <4>4
    <3> QED
      BY <3>3, <3>4
  <2> QED
    BY <2>6, <2>7 DEF r
<1> QED
  BY <1>3, <1>4

LEMMA ReplacedIs ==
  ASSUME NEW s \in Strings, NEW at \in Nat, NEW match \in Seq(Octets), NEW new \in Seq(Octets),
         at + Len(match) <= s.size
  PROVE  Replaced(s, at, match, new) \in Strings
<1> DEFINE r == string_erase_data(s, at, Len(match))
<1>1. s.size \in Nat /\ Len(match) \in Nat
  BY StringsAre
<1>2. at \in 0..s.size /\ Len(match) \in 0..s.size
  BY <1>1
<1>3. r \in Strings /\ r.size = s.size - Len(match)
  BY <1>2, EraseIs
<1>4. at \in 0..r.size
  BY <1>1, <1>2, <1>3
<1> HIDE DEF r
<1>5. string_insert_data(r, at, new) \in Strings
  BY <1>3, <1>4, InsertIs
<1> QED
  BY <1>5 DEF Replaced, r

LEMMA LeastFound ==
  ASSUME NEW F \in SUBSET Nat, F # {}
  PROVE  Min(F) \in F /\ \A y \in F : Min(F) <= y
<1>1. \E x \in F : \A y \in F : x <= y
  BY LeastOf
<1> QED
  BY <1>1, Zenon DEF Min

LEMMA FirstFound ==
  ASSUME NEW s \in Strings, NEW at \in Nat, NEW match \in Seq(Octets), Found(s, at, match) # {}
  PROVE  Min(Found(s, at, match)) \in Nat /\ Min(Found(s, at, match)) + Len(match) <= s.size
<1> DEFINE F == Found(s, at, match)
<1>1. s.size \in Nat /\ Len(match) \in Nat
  BY StringsAre
<1>2. \A i \in F : i \in Nat /\ i + Len(match) <= s.size
  BY <1>1 DEF Found
<1> HIDE DEF F
<1>3. F \in SUBSET Nat /\ F # {}
  BY <1>2 DEF F
<1>4. Min(F) \in F
  BY <1>3, LeastFound
<1> QED
  BY <1>2, <1>4 DEF F

LEMMA ReplaceIs ==
  ASSUME NEW s \in Strings, NEW match \in Seq(Octets), NEW new \in Seq(Octets)
  PROVE  string_replace_data(s, match, new) \in Strings
<1>1. CASE Found(s, 0, match) = {}
  BY <1>1 DEF string_replace_data
<1>2. CASE Found(s, 0, match) # {}
  <2>1. 0 \in Nat
    OBVIOUS
  <2>2. Replaced(s, Min(Found(s, 0, match)), match, new) \in Strings
    BY <1>2, <2>1, FirstFound, ReplacedIs
  <2> QED
    BY <1>2, <2>2 DEF string_replace_data
<1> QED
  BY <1>1, <1>2

Searches == [string : Strings, at : Nat]

LEMMA ReplaceNextIs ==
  ASSUME NEW search \in Searches, NEW match \in Seq(Octets), NEW new \in Seq(Octets)
  PROVE  ReplaceNext(search, match, new) \in Searches
<1> DEFINE s == search.string
           f == Found(s, search.at, match)
<1>1. s \in Strings /\ search.at \in Nat
  BY DEF Searches
<1>2. CASE search.at >= s.size \/ f = {}
  BY <1>2, Zenon DEF ReplaceNext
<1>3. CASE ~(search.at >= s.size \/ f = {})
  <2>1. Min(f) \in Nat /\ Min(f) + Len(match) <= s.size
    BY <1>1, <1>3, FirstFound
  <2>2. Replaced(s, Min(f), match, new) \in Strings
    BY <1>1, <2>1, ReplacedIs
  <2>3. ReplaceNext(search, match, new)
          = [string |-> Replaced(s, Min(f), match, new), at |-> Min(f) + Len(new)]
    BY <1>3, Zenon DEF ReplaceNext
  <2>4. Min(f) + Len(new) \in Nat
    <3>1. Len(new) \in Nat
      OBVIOUS
    <3> HIDE DEF f
    <3> QED
      BY <2>1, <3>1
  <2> HIDE DEF f, s
  <2> QED
    BY <2>2, <2>3, <2>4 DEF Searches
<1> QED
  BY <1>2, <1>3

(* The search of string_replace_all_data, after as many rounds.               *)
LEMMA SearchIs ==
  ASSUME NEW s \in Strings, NEW match \in Seq(Octets), NEW new \in Seq(Octets)
  PROVE  \E f : /\ string_replace_all_data(s, match, new) = f[s.size].string
                /\ f[0] = [string |-> s, at |-> 0]
                /\ \A n \in 1..s.size : f[n] = ReplaceNext(f[n - 1], match, new)
<1> DEFINE first == [string |-> s, at |-> 0]
           next(x) == ReplaceNext(x, match, new)
           step == [p \in Nat \X Searches |-> next(p[2])]
           f == CHOOSE g : g = [n \in 0..s.size |-> IF n = 0 THEN first ELSE next(g[n - 1])]
<1>1. s.size \in Nat
  BY StringsAre
<1>2. first \in Searches
  BY DEF Searches
<1>3. \A x \in Searches : next(x) \in Searches
  BY ReplaceNextIs
<1>4. string_replace_all_data(s, match, new) = f[s.size].string
  BY Zenon DEF string_replace_all_data
<1> HIDE DEF first, next
<1>5. step \in [Nat \X Searches -> Searches]
  <2>1. \A p \in Nat \X Searches : p[2] \in Searches
    OBVIOUS
  <2> QED
    BY <1>3, <2>1
<1>6. PICK g : Steps(g, Searches, first, step, s.size)
  <2> HIDE DEF step
  <2> QED
    BY <1>1, <1>2, <1>5, Recursion
<1>7. /\ g \in [0..s.size -> Searches] /\ g[0] = first
      /\ \A n \in 1..s.size : g[n] = step[<<n, g[n - 1]>>]
  BY <1>6 DEF Steps
<1>8. ASSUME NEW n \in 1..s.size PROVE g[n] = next(g[n - 1])
  <2>1. n \in Nat /\ n - 1 \in 0..s.size
    BY <1>1
  <2>2. g[n - 1] \in Searches
    BY <1>7, <2>1
  <2>3. step[<<n, g[n - 1]>>] = next(g[n - 1])
    BY <2>1, <2>2
  <2> QED
    BY <1>7, <2>3
<1>9. g = [n \in 0..s.size |-> IF n = 0 THEN first ELSE next(g[n - 1])]
  <2>1. \A n \in 0..s.size : g[n] = IF n = 0 THEN first ELSE next(g[n - 1])
    BY <1>1, <1>7, <1>8
  <2> QED
    BY <1>7, <2>1
<1>10. f = [n \in 0..s.size |-> IF n = 0 THEN first ELSE next(f[n - 1])]
  BY <1>9
<1> HIDE DEF f
<1>11. f[0] = first /\ \A n \in 1..s.size : f[n] = next(f[n - 1])
  BY <1>1, <1>10
<1> QED
  BY <1>4, <1>11 DEF first, next

LEMMA ReplaceAllIs ==
  ASSUME NEW s \in Strings, NEW match \in Seq(Octets), NEW new \in Seq(Octets)
  PROVE  string_replace_all_data(s, match, new) \in Strings
<1>1. s.size \in Nat
  BY StringsAre
<1>2. PICK f : /\ string_replace_all_data(s, match, new) = f[s.size].string
               /\ f[0] = [string |-> s, at |-> 0]
               /\ \A n \in 1..s.size : f[n] = ReplaceNext(f[n - 1], match, new)
  BY SearchIs, Zenon
<1>3. f[0] \in Searches
  BY <1>2 DEF Searches
<1> DEFINE N == {n \in Nat : n <= s.size => f[n] \in Searches}
<1>4. 0 \in N
  BY <1>3
<1>5. ASSUME NEW n \in N PROVE n + 1 \in N
  <2>1. CASE n + 1 <= s.size
    <3>1. n \in Nat /\ n + 1 \in 1..s.size /\ (n + 1) - 1 = n /\ n <= s.size
      BY <1>1, <2>1
    <3>2. f[n] \in Searches
      BY <3>1
    <3>3. f[n + 1] = ReplaceNext(f[n], match, new)
      BY <1>2, <3>1
    <3> QED
      BY <3>1, <3>2, <3>3, ReplaceNextIs
  <2> QED
    BY <2>1
<1>6. N \in SUBSET Nat
  OBVIOUS
<1> HIDE DEF N
<1>7. N = Nat
  BY <1>4, <1>5, <1>6, Induction
<1>8. f[s.size] \in Searches
  BY <1>1, <1>7 DEF N
<1> QED
  BY <1>2, <1>8 DEF Searches

LEMMA LoadedIs ==
  ASSUME NEW pieces \in Seq(Seq(Octets))
  PROVE  Loaded(pieces) \in Strings
<1> DEFINE next(i, s) == string_insert_data(s, s.size, pieces[i])
           at(i) == IF i \in 1..Len(pieces) THEN pieces[i] ELSE <<>>
           step == [p \in Nat \X Strings |-> string_insert_data(p[2], p[2].size, at(p[1]))]
           f == CHOOSE g : g = [i \in 0..Len(pieces) |->
                                  IF i = 0 THEN NullObject ELSE next(i, g[i - 1])]
<1>1. Len(pieces) \in Nat
  OBVIOUS
<1>2. \A i \in Nat : at(i) \in Seq(Octets)
  OBVIOUS
<1>3. ASSUME NEW s \in Strings, NEW block \in Seq(Octets)
      PROVE  string_insert_data(s, s.size, block) \in Strings
  <2>1. s.size \in 0..s.size
    <3>1. s.size \in Nat
      BY StringsAre
    <3> QED
      BY <3>1
  <2> QED
    BY <2>1, InsertIs
<1>4. Loaded(pieces) = f[Len(pieces)]
  BY Zenon DEF Loaded
<1>5. step \in [Nat \X Strings -> Strings]
  <2> HIDE DEF at
  <2>1. ASSUME NEW p \in Nat \X Strings
        PROVE  string_insert_data(p[2], p[2].size, at(p[1])) \in Strings
    <3>1. p[1] \in Nat /\ p[2] \in Strings
      OBVIOUS
    <3> QED
      BY <1>2, <1>3, <3>1
  <2> QED
    BY <2>1
<1>6. PICK g : Steps(g, Strings, NullObject, step, Len(pieces))
  <2> HIDE DEF step
  <2> QED
    BY <1>1, <1>5, NullIsString, Recursion
<1>7. /\ g \in [0..Len(pieces) -> Strings] /\ g[0] = NullObject
      /\ \A i \in 1..Len(pieces) : g[i] = step[<<i, g[i - 1]>>]
  BY <1>6 DEF Steps
<1>8. ASSUME NEW i \in 1..Len(pieces) PROVE g[i] = next(i, g[i - 1])
  <2>1. i \in Nat /\ i - 1 \in 0..Len(pieces) /\ at(i) = pieces[i]
    BY <1>1
  <2> HIDE DEF at
  <2>2. g[i - 1] \in Strings
    BY <1>7, <2>1
  <2>3. step[<<i, g[i - 1]>>] = string_insert_data(g[i - 1], g[i - 1].size, at(i))
    BY <2>1, <2>2
  <2> QED
    BY <1>7, <2>1, <2>3
<1> HIDE DEF next
<1>9. g = [i \in 0..Len(pieces) |-> IF i = 0 THEN NullObject ELSE next(i, g[i - 1])]
  <2>1. ASSUME NEW i \in 0..Len(pieces)
        PROVE  g[i] = IF i = 0 THEN NullObject ELSE next(i, g[i - 1])
    <3>1. i = 0 \/ (i # 0 /\ i \in 1..Len(pieces))
      BY <1>1
    <3>2. g[0] = NullObject
      BY <1>7
    <3> QED
      BY <1>8, <3>1, <3>2, Zenon
  <2> QED
    BY <1>7, <2>1
<1>10. f = [i \in 0..Len(pieces) |-> IF i = 0 THEN NullObject ELSE next(i, f[i - 1])]
  BY <1>9
<1> HIDE DEF f
<1>11. f[0] = NullObject /\ \A i \in 1..Len(pieces) : f[i] = next(i, f[i - 1])
  <2>1. 0 \in 0..Len(pieces) /\ \A i \in 1..Len(pieces) : i \in 0..Len(pieces) /\ i # 0
    BY <1>1
  <2> DEFINE e(i) == IF i = 0 THEN NullObject ELSE next(i, f[i - 1])
  <2>2. \A i \in 0..Len(pieces) : f[i] = e(i)
    BY <1>10, Zenon
  <2> QED
    BY <2>1, <2>2, Zenon
<1>12. ASSUME NEW i \in 1..Len(pieces), NEW s \in Strings PROVE next(i, s) \in Strings
  <2>1. pieces[i] \in Seq(Octets)
    OBVIOUS
  <2> QED
    BY <1>3, <2>1 DEF next
<1> DEFINE N == {i \in Nat : i <= Len(pieces) => f[i] \in Strings}
<1>13. 0 \in N
  BY <1>11, NullIsString
<1>14. ASSUME NEW i \in N PROVE i + 1 \in N
  <2>1. CASE i + 1 <= Len(pieces)
    <3>1. i \in Nat /\ i + 1 \in 1..Len(pieces) /\ (i + 1) - 1 = i /\ i <= Len(pieces)
      BY <1>1, <2>1
    <3>2. f[i] \in Strings
      BY <3>1
    <3>3. f[i + 1] = next(i + 1, f[i])
      BY <1>11, <3>1
    <3> QED
      BY <1>12, <3>1, <3>2, <3>3
  <2> QED
    BY <2>1
<1>15. N \in SUBSET Nat
  OBVIOUS
<1> HIDE DEF N
<1>16. N = Nat
  BY <1>13, <1>14, <1>15, Induction
<1> QED
  BY <1>1, <1>4, <1>16 DEF N

LEMMA TextIs ==
  ASSUME NEW s \in Strings
  PROVE  /\ Text(s) \in Seq(Octets) /\ Len(Text(s)) = s.size
         /\ \A i \in 1..s.size : Text(s)[i] = s.mem[i]
<1>1. s.mem \in Seq(Octets) /\ s.size \in Nat /\ Len(s.mem) \in Nat /\ s.size < Len(s.mem)
  BY StringsAre
<1>2. 0 \in Nat /\ \A i \in 1..s.size : 0 + i = i /\ i <= Len(s.mem)
  BY <1>1
<1>3. /\ Read(s.mem, 0, s.size) \in Seq(Octets) /\ Len(Read(s.mem, 0, s.size)) = s.size
      /\ \A i \in 1..s.size : 0 + i <= Len(s.mem) => Read(s.mem, 0, s.size)[i] = s.mem[0 + i]
  BY <1>1, <1>2, ReadIs
<1> DEFINE t == Read(s.mem, 0, s.size)
<1> HIDE DEF t
<1>4. \A i \in 1..s.size : t[i] = s.mem[i]
  BY <1>2, <1>3 DEF t
<1> QED
  BY <1>3, <1>4 DEF Text, t

LEMMA SequencesOf ==
  ASSUME NEW S, NEW n, NEW s \in BoundedSeq(S, n)
  PROVE  s \in Seq(S)
<1>1. PICK m \in 0..n : s \in [1..m -> S]
  BY DEF BoundedSeq, SeqOf
<1>2. m \in Nat
  OBVIOUS
<1> QED
  BY <1>1, <1>2, IsSequence

LEMMA DataAre == Data \subseteq Seq(Octets)
<1> SUFFICES ASSUME NEW s \in Data PROVE s \in Seq(Octets)
  OBVIOUS
<1>1. s \in Seq(Chars)
  BY SequencesOf DEF Data
<1> QED
  BY <1>1 DEF Octets

(* No size is that of a string that is written: none is half of those there   *)
(* are.                                                                       *)
StringInv ==
  /\ string \in Strings /\ string.size <= MaxSize
  /\ \/ Idle /\ file = <<>>
     \/ offset = 0 /\ file = <<>>
     \/ /\ ~Idle /\ offset \in Nat /\ offset >= string.size
        /\ IsPrefix(file, Text(string))
        /\ file = Text(string) \/ short

LEMMA WidthIs == NotWriting \in Nat /\ NotWriting > 0 /\ 2 * MaxSize <= NotWriting
<1>1. SizeWidth \in Nat /\ 2 * MaxSize <= 2 ^ SizeWidth /\ 0 \in Nat
  BY SizesFit
<1>2. 2 ^ 0 <= 2 ^ SizeWidth /\ 2 ^ SizeWidth \in Nat
  <2>1. 0 \in Nat /\ SizeWidth \in Nat /\ 0 <= SizeWidth
    BY <1>1, SMT
  <2> QED
    BY <2>1, PowersGrow, Zenon
<1>3. 2 ^ 0 = 1
  BY PowersOfTwo
<1> DEFINE w == 2 ^ SizeWidth
<1> HIDE DEF w
<1>4. 1 <= w /\ w \in Nat /\ 2 * MaxSize <= w
  BY <1>1, <1>2, <1>3 DEF w
<1>5. NotWriting = w
  BY DEF NotWriting, w
<1> QED
  BY <1>4, <1>5

LEMMA BecomesAString ==
  ASSUME StringInv, NEW s \in Strings, Becomes(s)
  PROVE  StringInv'
<1>1. offset = NotWriting /\ 0 # NotWriting
  BY WidthIs DEF Becomes, Idle
<1>2. file = <<>>
  BY <1>1 DEF StringInv, Idle
<1>3. string' = s /\ offset' = offset /\ file' = file /\ s.size <= MaxSize
  BY DEF Becomes
<1>4. Idle' /\ file' = <<>>
  BY <1>1, <1>2, <1>3 DEF Idle, NotWriting
<1> QED
  BY <1>3, <1>4 DEF StringInv

LEMMA StringInvInvariant == StringSpec => []StringInv
<1>1. StringInit => StringInv
  <2> SUFFICES ASSUME StringInit PROVE StringInv
    OBVIOUS
  <2>1. string = NullObject /\ offset = NotWriting /\ file = <<>>
    BY DEF StringInit
  <2>2. NullObject.size = 0 /\ 0 <= MaxSize
    BY SizesFit DEF NullObject
  <2> QED
    BY <2>1, <2>2, NullIsString DEF StringInv, Idle
<1>2. StringInv /\ [StringNext]_string_vars => StringInv'
  <2> SUFFICES ASSUME StringInv, [StringNext]_string_vars PROVE StringInv'
    OBVIOUS
  <2>1. string \in Strings /\ string.size \in Nat /\ string.size <= MaxSize /\ MaxSize \in Nat
    BY StringsAre, SizesFit DEF StringInv
  <2>2. ASSUME NEW at \in 0..string.size, NEW block \in Data, Insert(at, block)
        PROVE  StringInv'
    <3>1. string_insert_data(string, at, block) \in Strings
      BY <2>1, DataAre, InsertIs
    <3> QED
      BY <2>2, <3>1, BecomesAString DEF Insert
  <2>3. ASSUME NEW at \in 0..string.size, NEW n \in 0..string.size, Erase(at, n)
        PROVE  StringInv'
    <3>1. at + n <= string.size /\ Becomes(string_erase_data(string, at, n))
      BY <2>3 DEF Erase
    <3>2. string_erase_data(string, at, n) \in Strings
      BY <2>1, <3>1, EraseIs
    <3> QED
      BY <3>1, <3>2, BecomesAString
  <2>4. ASSUME NEW n \in 0..MaxSize, Resize(n) PROVE StringInv'
    <3>1. string_resize(string, n) \in Strings
      BY <2>1, ResizeIs
    <3> QED
      BY <2>4, <3>1, BecomesAString DEF Resize
  <2>5. ASSUME NEW n \in 0..MaxSize, Reserve(n) PROVE StringInv'
    <3>1. string_allocate(string, n) \in Strings
      BY <2>1, AllocateIs
    <3> QED
      BY <2>5, <3>1, BecomesAString DEF Reserve
  <2>6. ASSUME NEW match \in Data, NEW replace \in Data, Replace(match, replace) PROVE StringInv'
    <3>1. string_replace_data(string, match, replace) \in Strings
      BY <2>1, DataAre, ReplaceIs
    <3> QED
      BY <2>6, <3>1, BecomesAString DEF Replace
  <2>7. ASSUME NEW match \in Data, NEW replace \in Data, ReplaceAllIn(match, replace)
        PROVE  StringInv'
    <3>1. string_replace_all_data(string, match, replace) \in Strings
      BY <2>1, DataAre, ReplaceAllIs
    <3> QED
      BY <2>7, <3>1, BecomesAString DEF ReplaceAllIn
  <2>8. CASE Copy
    <3> DEFINE copy == IF string.size = 0 THEN NullObject
                       ELSE string_insert_data(NullObject, 0, Read(string.mem, 0, string.size))
    <3>1. Text(string) \in Seq(Octets) /\ Text(string) = Read(string.mem, 0, string.size)
      BY <2>1, TextIs, Zenon DEF Text
    <3>2. 0 \in 0..NullObject.size
      BY DEF NullObject
    <3>3. string_insert_data(NullObject, 0, Read(string.mem, 0, string.size)) \in Strings
      BY <3>1, <3>2, NullIsString, InsertIs
    <3>4. copy \in Strings
      BY <3>3, NullIsString
    <3>5. Becomes(copy)
      BY <2>8 DEF Copy
    <3> HIDE DEF copy
    <3> QED
      BY <3>4, <3>5, BecomesAString
  <2>9. ASSUME NEW pieces \in BoundedSeq(Data, 2), Load(pieces) PROVE StringInv'
    <3>1. pieces \in Seq(Seq(Octets))
      <4>1. pieces \in Seq(Data)
        BY SequencesOf
      <4> QED
        BY <4>1, DataAre
    <3>2. Loaded(pieces) \in Strings
      BY <3>1, LoadedIs
    <3> QED
      BY <2>9, <3>2, BecomesAString DEF Load
  <2>10. CASE string_write
    <3>1. offset = NotWriting /\ 0 # NotWriting /\ offset' = 0 /\ string' = string /\ file' = file
      BY <2>10, WidthIs DEF string_write, Idle
    <3>2. file = <<>>
      BY <3>1 DEF StringInv, Idle
    <3>3. offset' = 0 /\ file' = <<>>
      BY <3>1, <3>2
    <3> QED
      BY <3>1, <3>3 DEF StringInv
  <2>11. ASSUME NEW n \in 1..MaxSize, Write(n) PROVE StringInv'
    <3>1. /\ offset < string.size /\ n \in 1..string.size - offset
          /\ file' = file \o Read(string.mem, offset, n)
          /\ offset' = (offset - n) % NotWriting
          /\ short' = (short \/ n < string.size - offset)
          /\ string' = string
      BY <2>11 DEF Write, Advance, NotWriting
    <3>2. NotWriting \in Nat /\ NotWriting > 0 /\ 2 * MaxSize <= NotWriting
      BY WidthIs
    <3> HIDE DEF NotWriting
    <3>3. offset = 0 /\ file = <<>>
      <4>1. ~Idle
        BY <2>1, <3>1, <3>2 DEF Idle
      <4>2. CASE offset \in Nat /\ offset >= string.size
        BY <2>1, <3>1, <4>2
      <4> QED
        BY <4>1, <4>2 DEF StringInv
    <3>4. n \in Nat /\ n >= 1 /\ n <= string.size
      BY <2>1, <3>1, <3>3
    <3>5. offset' = NotWriting - n
      <4>1. (0 - n) % NotWriting = NotWriting - n
        BY <2>1, <3>2, <3>4
      <4> QED
        BY <3>1, <3>3, <4>1
    <3>6. NotWriting - n \in Nat /\ NotWriting - n >= string.size /\ NotWriting - n # NotWriting
      BY <2>1, <3>2, <3>4
    <3> DEFINE t == Text(string)
               w == Read(string.mem, 0, n)
    <3>7. /\ t \in Seq(Octets) /\ Len(t) = string.size
          /\ \A i \in 1..string.size : t[i] = string.mem[i]
      BY <2>1, TextIs
    <3>8. /\ w \in Seq(Octets) /\ Len(w) = n
          /\ \A i \in 1..n : w[i] = string.mem[i]
      <4>1. /\ string.mem \in Seq(Octets) /\ 0 \in Nat
            /\ \A i \in 1..n : 0 + i = i /\ i <= Len(string.mem)
        BY <2>1, <3>4, StringsAre
      <4>2. /\ w \in Seq(Octets) /\ Len(w) = n
            /\ \A i \in 1..n : 0 + i <= Len(string.mem) => w[i] = string.mem[0 + i]
        BY <3>4, <4>1, ReadIs
      <4> HIDE DEF w
      <4> QED
        BY <4>1, <4>2
    <3>9. file' = w
      <4>1. file' = <<>> \o w
        BY <3>1, <3>3
      <4> HIDE DEF w
      <4> QED
        BY <3>8, <4>1
    <3> HIDE DEF t, w
    <3>10. IsPrefix(w, t)
      <4>1. n <= Len(t) /\ 1 <= n /\ 1 \in Int /\ n \in Int
        BY <2>1, <3>4, <3>7
      <4>2. SubSeq(w, 1, n) \in Seq(Octets) /\ Len(SubSeq(w, 1, n)) = n
            /\ \A i \in 1..n : SubSeq(w, 1, n)[i] = w[i]
        <5>1. \A i \in 1..n : SubSeq(w, 1, n)[i] = w[1 + i - 1]
          BY <3>4, <3>8
        <5> QED
          BY <3>4, <3>8, <5>1
      <4>3. SubSeq(t, 1, n) \in Seq(Octets) /\ Len(SubSeq(t, 1, n)) = n
            /\ \A i \in 1..n : SubSeq(t, 1, n)[i] = t[i]
        BY <3>4, <3>7, <4>1
      <4>4. \A i \in 1..n : w[i] = t[i]
        BY <2>1, <3>4, <3>7, <3>8
      <4>5. SubSeq(w, 1, n) = SubSeq(t, 1, n)
        BY <4>2, <4>3, <4>4, SameSequence
      <4> QED
        BY <3>8, <4>1, <4>5 DEF IsPrefix
    <3>11. w = t \/ n < string.size
      <4>1. CASE n = string.size
        BY <2>1, <3>7, <3>8, <4>1, SameSequence
      <4> QED
        BY <2>1, <3>4, <4>1
    <3>12. Text(string)' = t
      BY <3>1 DEF Text, t
    <3>13. (file = Text(string) \/ short)'
      <4>1. n < string.size => short'
        <5>1. string.size - offset = string.size
          BY <2>1, <3>3
        <5>2. short' = (short \/ n < string.size - offset)
          BY <3>1, Zenon
        <5> QED
          BY <5>1, <5>2, Zenon
      <4> QED
        BY <3>9, <3>11, <3>12, <4>1
    <3>14. IsPrefix(file, Text(string))'
      <4>1. IsPrefix(file', Text(string)')
        BY <3>9, <3>10, <3>12
      <4> QED
        BY <4>1 DEF IsPrefix
    <3>15. (offset \in Nat /\ offset >= string.size /\ ~Idle)'
      BY <3>1, <3>5, <3>6 DEF Idle, NotWriting
    <3> QED
      BY <2>1, <3>1, <3>13, <3>14, <3>15 DEF StringInv
  <2>12. CASE Written
    <3>1. string' = string /\ file' = <<>> /\ Idle'
      BY <2>12 DEF Written, Idle, NotWriting
    <3> QED
      BY <2>1, <3>1 DEF StringInv
  <2>13. CASE UNCHANGED string_vars
    BY <2>13 DEF StringInv, string_vars, Idle, NotWriting, Text, IsPrefix
  <2> QED
    BY <2>2, <2>3, <2>4, <2>5, <2>6, <2>7, <2>8, <2>9, <2>10, <2>11, <2>12, <2>13 DEF StringNext
<1> QED
  BY <1>1, <1>2, PTL DEF StringSpec

LEMMA FrontIs ==
  ASSUME NEW S, NEW t \in Seq(S), NEW n \in 0..Len(t)
  PROVE  /\ SubSeq(t, 1, n) \in Seq(S) /\ Len(SubSeq(t, 1, n)) = n
         /\ \A i \in 1..n : SubSeq(t, 1, n)[i] = t[i]
<1>1. Len(t) \in Nat /\ 1 \in Int /\ n \in Int
  OBVIOUS
<1>2. \A i \in 1..n : 1 + i - 1 = i
  OBVIOUS
<1>3. /\ SubSeq(t, 1, n) \in Seq(S) /\ Len(SubSeq(t, 1, n)) = IF 1 <= n THEN n - 1 + 1 ELSE 0
      /\ \A i \in 1..n - 1 + 1 : SubSeq(t, 1, n)[i] = t[1 + i - 1]
  <2>1. \A i \in 1..n : i \in 1..Len(t)
    BY <1>1
  <2> QED
    BY <1>1, <2>1, SubSeqProperties
<1> QED
  BY <1>1, <1>2, <1>3

LEMMA BackIs ==
  ASSUME NEW S, NEW t \in Seq(S), NEW n \in 0..Len(t)
  PROVE  /\ SubSeq(t, n + 1, Len(t)) \in Seq(S) /\ Len(SubSeq(t, n + 1, Len(t))) = Len(t) - n
         /\ \A i \in 1..Len(t) - n : SubSeq(t, n + 1, Len(t))[i] = t[n + i]
<1>1. Len(t) \in Nat /\ n + 1 \in Int /\ Len(t) \in Int /\ n \in Int
  OBVIOUS
<1>2. Len(t) - (n + 1) + 1 = Len(t) - n /\ \A i \in 1..Len(t) - n : (n + 1) + i - 1 = n + i
  BY <1>1
<1>3. /\ SubSeq(t, n + 1, Len(t)) \in Seq(S)
      /\ Len(SubSeq(t, n + 1, Len(t))) = IF n + 1 <= Len(t) THEN Len(t) - (n + 1) + 1 ELSE 0
      /\ \A i \in 1..Len(t) - (n + 1) + 1 : SubSeq(t, n + 1, Len(t))[i] = t[(n + 1) + i - 1]
  <2>1. \A i \in n + 1..Len(t) : i \in 1..Len(t)
    BY <1>1
  <2> QED
    BY <1>1, <2>1, SubSeqProperties
<1> DEFINE b == SubSeq(t, n + 1, Len(t))
<1> HIDE DEF b
<1>4. b \in Seq(S) /\ Len(b) = Len(t) - n
  <2>1. CASE n + 1 <= Len(t)
    BY <1>1, <1>2, <1>3, <2>1 DEF b
  <2>2. CASE ~(n + 1 <= Len(t))
    <3>1. Len(t) - n = 0
      BY <1>1, <2>2
    <3> QED
      BY <1>3, <2>2, <3>1 DEF b
  <2> QED
    BY <2>1, <2>2
<1>5. ASSUME NEW i \in 1..Len(t) - n PROVE b[i] = t[n + i]
  BY <1>1, <1>2, <1>3 DEF b
<1> QED
  BY <1>4, <1>5 DEF b

LEMMA JoinIs ==
  ASSUME NEW S, NEW s \in Seq(S), NEW t \in Seq(S)
  PROVE  /\ s \o t \in Seq(S) /\ Len(s \o t) = Len(s) + Len(t)
         /\ \A i \in 1..Len(s) + Len(t) :
              (s \o t)[i] = IF i <= Len(s) THEN s[i] ELSE t[i - Len(s)]
BY ConcatProperties

-----------------------------------------------------------------------------
(* String: matches and what is put in their place.                            *)

(* Sequences that are joined one behind the other.                            *)
LEMMA FlattenIs ==
  ASSUME NEW S, NEW n \in Nat \ {0}, NEW ss \in [1..n -> Seq(S)]
  PROVE  \E f \in [1..n -> Seq(S)] :
           /\ FlattenSeq(ss) = f[n] /\ f[1] = ss[1]
           /\ \A i \in 1..n : i # 1 => f[i] = f[i - 1] \o ss[i]
<1> DEFINE e(g, i) == IF i = 1 THEN ss[i] ELSE g[i - 1] \o ss[i]
           f == CHOOSE g : g = [i \in 1..Len(ss) |-> e(g, i)]
           none == <<>>
           at(i) == IF i \in 1..n THEN ss[i] ELSE none
           step == [p \in Nat \X Seq(S) |-> p[2] \o at(p[1])]
<1>1. Len(ss) = n /\ n \in Nat /\ none \in Seq(S) /\ \A i \in 1..n : ss[i] \in Seq(S)
  OBVIOUS
<1>2. \A t \in Seq(S) : none \o t = t
  BY ConcatEmptySeq
<1> HIDE DEF none
<1>3. FlattenSeq(ss) = f[n]
  BY <1>1, Zenon DEF FlattenSeq
<1>4. step \in [Nat \X Seq(S) -> Seq(S)]
  <2>1. \A i \in Nat : at(i) \in Seq(S)
    BY <1>1
  <2> HIDE DEF at
  <2>2. ASSUME NEW p \in Nat \X Seq(S) PROVE p[2] \o at(p[1]) \in Seq(S)
    <3>1. p[1] \in Nat /\ p[2] \in Seq(S)
      OBVIOUS
    <3>2. at(p[1]) \in Seq(S)
      BY <2>1, <3>1
    <3> QED
      BY <3>1, <3>2, JoinIs
  <2> QED
    BY <2>2
<1>5. PICK g : Steps(g, Seq(S), none, step, n)
  <2> HIDE DEF step
  <2> QED
    BY <1>1, <1>4, Recursion
<1>6. /\ g \in [0..n -> Seq(S)] /\ g[0] = none
      /\ \A i \in 1..n : g[i] = step[<<i, g[i - 1]>>]
  BY <1>5 DEF Steps
<1>7. ASSUME NEW i \in 1..n PROVE g[i] = g[i - 1] \o ss[i]
  <2>1. i \in Nat /\ i - 1 \in 0..n /\ at(i) = ss[i]
    BY <1>1
  <2> HIDE DEF at
  <2>2. g[i - 1] \in Seq(S)
    BY <1>6, <2>1
  <2>3. step[<<i, g[i - 1]>>] = g[i - 1] \o at(i)
    BY <2>1, <2>2
  <2> QED
    BY <1>6, <2>1, <2>3
<1> DEFINE h == [i \in 1..n |-> g[i]]
<1>8. h \in [1..n -> Seq(S)] /\ \A i \in 1..n : h[i] = g[i]
  <2>1. \A i \in 1..n : i \in 0..n
    OBVIOUS
  <2> QED
    BY <1>6, <2>1
<1> HIDE DEF h
<1>9. h[1] = ss[1]
  <2>1. 1 \in 1..n /\ 1 - 1 = 0
    BY <1>1
  <2>2. g[1] = g[1 - 1] \o ss[1]
    BY <1>7, <2>1
  <2> QED
    <3>1. g[1 - 1] = none
      BY <1>6, <2>1
    <3>2. ss[1] \in Seq(S) /\ h[1] = g[1]
      BY <1>1, <1>8, <2>1
    <3>3. none \o ss[1] = ss[1]
      BY <1>2, <3>2
    <3> QED
      BY <2>2, <3>1, <3>2, <3>3
<1>10. ASSUME NEW i \in 1..n, i # 1 PROVE h[i] = h[i - 1] \o ss[i]
  <2>1. i - 1 \in 1..n
    BY <1>1, <1>10
  <2> QED
    BY <1>7, <1>8, <2>1
<1>11. h = [i \in 1..Len(ss) |-> e(h, i)]
  <2>1. \A i \in 1..n : h[i] = e(h, i)
    BY <1>9, <1>10
  <2> HIDE DEF e
  <2> QED
    BY <1>1, <1>8, <2>1
<1>12. f = [i \in 1..Len(ss) |-> e(f, i)]
  <2> HIDE DEF e
  <2> QED
    BY <1>11
<1> HIDE DEF f
<1>13. \A i \in 1..n : f[i] = e(f, i)
  <2> HIDE DEF e
  <2> QED
    BY <1>1, <1>12
<1>14. f[1] = ss[1] /\ \A i \in 1..n : i # 1 => f[i] = f[i - 1] \o ss[i]
  <2>1. 1 \in 1..n
    BY <1>1
  <2> QED
    BY <1>13, <2>1
<1> DEFINE N == {i \in Nat : i + 1 <= n => f[i + 1] = h[i + 1]}
<1>15. 0 \in N
  BY <1>9, <1>14
<1>16. ASSUME NEW i \in N PROVE i + 1 \in N
  <2>1. CASE (i + 1) + 1 <= n
    <3>1. /\ i \in Nat /\ (i + 1) + 1 \in 1..n /\ ((i + 1) + 1) - 1 = i + 1 /\ i + 1 <= n
          /\ (i + 1) + 1 # 1
      BY <1>1, <2>1
    <3>2. f[i + 1] = h[i + 1]
      BY <3>1
    <3>3. f[(i + 1) + 1] = f[i + 1] \o ss[(i + 1) + 1]
      BY <1>14, <3>1
    <3>4. h[(i + 1) + 1] = h[i + 1] \o ss[(i + 1) + 1]
      BY <1>10, <3>1
    <3>5. f[(i + 1) + 1] = h[(i + 1) + 1]
      BY <3>2, <3>3, <3>4
    <3> QED
      BY <3>1, <3>5
  <2> QED
    BY <2>1
<1>17. N \in SUBSET Nat
  OBVIOUS
<1> HIDE DEF N
<1>18. N = Nat
  BY <1>15, <1>16, <1>17, Induction
<1>19. f[n] = h[n]
  <2>1. n - 1 \in Nat /\ (n - 1) + 1 = n
    BY <1>1
  <2> QED
    <3>1. n - 1 \in N /\ n <= n
      BY <1>1, <1>18, <2>1
    <3>2. (n - 1) + 1 <= n => f[(n - 1) + 1] = h[(n - 1) + 1]
      BY <3>1 DEF N
    <3> QED
      BY <2>1, <3>1, <3>2
<1> QED
  BY <1>3, <1>8, <1>9, <1>10, <1>19

(* A match begins behind the first i characters of t.                         *)
Begins(t, match, i) ==
  /\ match # <<>> /\ i + Len(match) <= Len(t)
  /\ \A j \in 1..Len(match) : t[i + j] = match[j]

LEMMA FoundIs ==
  ASSUME NEW s \in Strings, NEW at \in Nat, NEW match \in Seq(Octets)
  PROVE  /\ Found(s, at, match) \in SUBSET Nat
         /\ \A i \in Nat : i \in Found(s, at, match) <=> i >= at /\ Begins(Text(s), match, i)
<1> DEFINE l == Len(match)
           t == Text(s)
           read(i) == Read(s.mem, i, l)
<1>1. /\ s.size \in Nat /\ l \in Nat /\ s.mem \in Seq(Octets) /\ Len(s.mem) \in Nat
      /\ s.size < Len(s.mem)
  BY StringsAre
<1>2. t \in Seq(Octets) /\ Len(t) = s.size /\ \A i \in 1..s.size : t[i] = s.mem[i]
  BY TextIs
<1> HIDE DEF t
<1>3. ASSUME NEW i \in Nat, i + l <= s.size
      PROVE  read(i) = match <=> \A j \in 1..l : t[i + j] = match[j]
  <2>1. /\ read(i) \in Seq(Octets) /\ Len(read(i)) = l
        /\ \A j \in 1..l : i + j <= Len(s.mem) => read(i)[j] = s.mem[i + j]
    BY <1>1, ReadIs
  <2>2. ASSUME NEW j \in 1..l PROVE read(i)[j] = t[i + j]
    <3>1. i + j \in 1..s.size /\ i + j <= Len(s.mem)
      BY <1>1, <1>3
    <3> QED
      BY <1>2, <2>1, <3>1
  <2> HIDE DEF read
  <2>3. ASSUME \A j \in 1..l : t[i + j] = match[j] PROVE read(i) = match
    <3>1. \A j \in 1..Len(read(i)) : read(i)[j] = match[j]
      BY <2>1, <2>2, <2>3
    <3> QED
      BY <2>1, <3>1, SameSequence
  <2> QED
    BY <2>2, <2>3
<1>4. Found(s, at, match) = {i \in at..s.size - l : match # <<>> /\ read(i) = match}
  BY DEF Found
<1> HIDE DEF read
<1>5. \A i \in Nat : Begins(t, match, i)
        <=> match # <<>> /\ i + l <= s.size /\ \A j \in 1..l : t[i + j] = match[j]
  BY <1>2 DEF Begins
<1> HIDE DEF l
<1>6. ASSUME NEW i \in Nat PROVE i \in Found(s, at, match) <=> i >= at /\ Begins(t, match, i)
  <2>1. i \in at..s.size - l <=> i >= at /\ i + l <= s.size
    BY <1>1
  <2> QED
    BY <1>3, <1>4, <1>5, <2>1
<1>7. Found(s, at, match) \in SUBSET Nat
  BY <1>1, <1>4
<1> QED
  BY <1>6, <1>7 DEF t

(* The character of s in which a replacement has left its i-th one.           *)
ReplacedChar(s, at, n, new, i) ==
  IF i <= at THEN Text(s)[i]
  ELSE IF i <= at + Len(new) THEN new[i - at] ELSE Text(s)[i - Len(new) + n]

LEMMA ReplacedText ==
  ASSUME NEW s \in Strings, NEW at \in Nat, NEW match \in Seq(Octets), NEW new \in Seq(Octets),
         at + Len(match) <= s.size
  PROVE  LET r == Replaced(s, at, match, new)
         IN  /\ r \in Strings /\ r.size = s.size - Len(match) + Len(new)
             /\ \A i \in 1..s.size - Len(match) + Len(new) :
                  Text(r)[i] = ReplacedChar(s, at, Len(match), new, i)
<1> DEFINE n == Len(match)
           l == Len(new)
           e == string_erase_data(s, at, n)
           r == string_insert_data(e, at, new)
<1>1. s.size \in Nat /\ n \in Nat /\ l \in Nat
  BY StringsAre
<1>2. at \in 0..s.size /\ n \in 0..s.size /\ at + n <= s.size
  BY <1>1
<1>3. /\ e \in Strings /\ e.size = s.size - n
      /\ \A i \in 1..s.size - n : e.mem[i] = IF i <= at THEN s.mem[i] ELSE s.mem[i + n]
  BY <1>2, EraseIs
<1>4. at \in 0..e.size
  BY <1>1, <1>2, <1>3
<1> HIDE DEF e
<1>5. /\ r \in Strings /\ r.size = e.size + l
      /\ \A i \in 1..e.size + l :
           r.mem[i] = IF i <= at THEN e.mem[i] ELSE IF i <= at + l THEN new[i - at]
                      ELSE e.mem[i - l]
  BY <1>3, <1>4, InsertIs
<1>6. \A i \in 1..s.size : Text(s)[i] = s.mem[i]
  BY TextIs
<1>7. Replaced(s, at, match, new) = r
  BY DEF Replaced, e
<1> HIDE DEF r
<1>8. \A i \in 1..r.size : Text(r)[i] = r.mem[i]
  BY <1>5, TextIs
<1> HIDE DEF n, l
<1>9. ASSUME NEW i \in 1..s.size - n + l
      PROVE  Text(r)[i] = IF i <= at THEN Text(s)[i]
                          ELSE IF i <= at + l THEN new[i - at] ELSE Text(s)[i - l + n]
  <2>1. i \in 1..r.size /\ i \in 1..e.size + l
    BY <1>1, <1>3, <1>5
  <2>2. Text(r)[i] = IF i <= at THEN e.mem[i] ELSE IF i <= at + l THEN new[i - at]
                     ELSE e.mem[i - l]
    BY <1>5, <1>8, <2>1
  <2>3. CASE i <= at
    <3>1. i \in 1..s.size - n /\ i \in 1..s.size
      BY <1>1, <1>2, <2>3
    <3> QED
      BY <1>3, <1>6, <2>2, <2>3, <3>1
  <2>4. CASE ~(i <= at) /\ i <= at + l
    BY <2>2, <2>4
  <2>5. CASE ~(i <= at) /\ ~(i <= at + l)
    <3>1. /\ i - l \in 1..s.size - n /\ ~(i - l <= at) /\ i - l + n \in 1..s.size
      BY <1>1, <1>2, <2>5
    <3> QED
      BY <1>3, <1>6, <2>2, <2>5, <3>1
  <2> QED
    BY <2>3, <2>4, <2>5
<1>10. r.size = s.size - n + l
  BY <1>1, <1>3, <1>5
<1> QED
  BY <1>5, <1>7, <1>9, <1>10 DEF ReplacedChar, n, l

(* The string s is the text w with what is behind the first p characters of   *)
(* the text t.                                                                *)
Continues(s, w, t, p) ==
  /\ s \in Strings /\ w \in Seq(Octets) /\ t \in Seq(Octets) /\ p \in 0..Len(t)
  /\ s.size = Len(w) + (Len(t) - p)
  /\ \A i \in 1..Len(w) : Text(s)[i] = w[i]
  /\ \A i \in 1..Len(t) - p : Text(s)[Len(w) + i] = t[p + i]

LEMMA BeginsBehind ==
  ASSUME NEW s, NEW w, NEW t, NEW p, Continues(s, w, t, p), NEW match \in Seq(Octets),
         NEW i \in Nat
  PROVE  Begins(Text(s), match, Len(w) + i) <=> Begins(t, match, p + i)
<1> DEFINE l == Len(match)
           u == Text(s)
           k == Len(w)
<1>0. s \in Strings /\ w \in Seq(Octets) /\ t \in Seq(Octets) /\ p \in 0..Len(t)
  BY DEF Continues
<1>1. /\ s \in Strings /\ k \in Nat /\ Len(t) \in Nat /\ p \in Nat /\ p <= Len(t) /\ l \in Nat
      /\ s.size = k + (Len(t) - p)
      /\ \A x \in 1..Len(t) - p : u[k + x] = t[p + x]
  <2>1. k \in Nat /\ Len(t) \in Nat /\ l \in Nat
    BY <1>0
  <2>2. s.size = k + (Len(t) - p) /\ \A x \in 1..Len(t) - p : u[k + x] = t[p + x]
    BY Zenon DEF Continues
  <2> QED
    BY <1>0, <2>1, <2>2
<1>2. Len(u) = k + (Len(t) - p)
  BY <1>1, TextIs
<1> HIDE DEF u, k
<1>3. (k + i) + l <= Len(u) <=> (p + i) + l <= Len(t)
  BY <1>1, <1>2
<1>4. ASSUME (p + i) + l <= Len(t), NEW j \in 1..l PROVE u[(k + i) + j] = t[(p + i) + j]
  <2>1. i + j \in 1..Len(t) - p /\ (k + i) + j = k + (i + j) /\ (p + i) + j = p + (i + j)
    BY <1>1, <1>4
  <2> QED
    BY <1>1, <2>1
<1> QED
  BY <1>3, <1>4 DEF Begins, u, k, l

(* The text w is v with the characters of t between p and q behind it.        *)
Grows(v, w, t, p, q) ==
  /\ v \in Seq(Octets) /\ w \in Seq(Octets)
  /\ Len(w) = Len(v) + (q - p)
  /\ \A i \in 1..Len(v) : w[i] = v[i]
  /\ \A i \in 1..q - p : w[Len(v) + i] = t[p + i]

LEMMA GrowsByNone == ASSUME NEW v \in Seq(Octets), NEW t, NEW p \in Nat PROVE Grows(v, v, t, p, p)
BY DEF Grows

LEMMA GrowsByOne ==
  ASSUME NEW v, NEW w, NEW t \in Seq(Octets), NEW p \in Nat, NEW q \in Nat, p <= q, q < Len(t),
         Grows(v, w, t, p, q)
  PROVE  Grows(v, w \o <<t[q + 1]>>, t, p, q + 1)
<1> DEFINE c == <<t[q + 1]>>
           x == w \o c
<1>1. c \in Seq(Octets) /\ Len(c) = 1 /\ c[1] = t[q + 1]
  OBVIOUS
<1> HIDE DEF c
<1>2. v \in Seq(Octets) /\ w \in Seq(Octets)
  BY DEF Grows
<1>3. /\ x \in Seq(Octets) /\ Len(x) = Len(w) + 1
      /\ \A i \in 1..Len(w) + 1 : x[i] = IF i <= Len(w) THEN w[i] ELSE c[i - Len(w)]
  <2>1. /\ x \in Seq(Octets) /\ Len(x) = Len(w) + Len(c)
        /\ \A i \in 1..Len(w) + Len(c) : x[i] = IF i <= Len(w) THEN w[i] ELSE c[i - Len(w)]
    BY <1>1, <1>2, JoinIs
  <2> QED
    BY <1>1, <2>1
<1> HIDE DEF x
<1> DEFINE k == Len(v)
           l == Len(w)
<1>4. k \in Nat /\ l \in Nat
  BY <1>2
<1>5. /\ l = k + (q - p) /\ \A i \in 1..k : w[i] = v[i]
      /\ \A i \in 1..q - p : w[k + i] = t[p + i]
  BY DEF Grows
<1> HIDE DEF k, l
<1>6. \A i \in 1..k : x[i] = v[i]
  BY <1>3, <1>4, <1>5 DEF l
<1>7. ASSUME NEW i \in 1..(q + 1) - p PROVE x[k + i] = t[p + i]
  <2>1. CASE i \in 1..q - p
    <3>1. k + i \in 1..l + 1 /\ k + i <= l
      BY <1>4, <1>5, <2>1
    <3> QED
      BY <1>3, <1>5, <2>1, <3>1 DEF l
  <2>2. CASE i = (q + 1) - p
    <3>1. k + i = l + 1 /\ p + i = q + 1 /\ (l + 1) - l = 1 /\ l + 1 \in 1..l + 1 /\ ~(l + 1 <= l)
      BY <1>4, <1>5, <2>2
    <3>2. x[l + 1] = c[1]
      BY <1>3, <3>1 DEF l
    <3> QED
      BY <1>1, <3>1, <3>2
  <2> QED
    BY <2>1, <2>2
<1>8. Len(x) = k + ((q + 1) - p)
  BY <1>3, <1>4, <1>5 DEF l
<1>9. Grows(v, x, t, p, q + 1)
  BY <1>2, <1>3, <1>6, <1>7, <1>8 DEF Grows, k
<1> QED
  BY <1>9 DEF x, c

(* What With puts in the place of the i-th character.                         *)
Piece(t, P, n, new, i) ==
  IF i - 1 \in P THEN new
  ELSE IF \E p \in P : p < i - 1 /\ i - 1 < p + n THEN <<>> ELSE <<t[i]>>

Builds(w, t, P, n, new) ==
  /\ w \in [0..Len(t) -> Seq(Octets)] /\ w[0] = <<>>
  /\ \A i \in 1..Len(t) : w[i] = w[i - 1] \o Piece(t, P, n, new, i)

LEMMA WithIs ==
  ASSUME NEW t \in Seq(Octets), NEW P \in SUBSET Nat, NEW n \in Nat, NEW new \in Seq(Octets)
  PROVE  \E w : Builds(w, t, P, n, new) /\ With(t, P, n, new) = w[Len(t)]
<1> DEFINE l == Len(t)
           none == <<>>
           piece(i) == Piece(t, P, n, new, i)
           ss == [i \in 1..l |-> piece(i)]
<1>1. l \in Nat /\ none \in Seq(Octets)
  OBVIOUS
<1>2. \A i \in 1..l : piece(i) \in Seq(Octets)
  <2> SUFFICES ASSUME NEW i \in 1..l PROVE piece(i) \in Seq(Octets)
    OBVIOUS
  <2>1. <<t[i]>> \in Seq(Octets)
    OBVIOUS
  <2> QED
    BY <1>1, <2>1 DEF Piece
<1>3. With(t, P, n, new) = FlattenSeq(ss)
  BY DEF With, Piece
<1> HIDE DEF piece
<1>4. Len(ss) = l
  BY <1>1
<1>5. CASE l = 0
  <2> DEFINE w == [i \in 0..0 |-> none]
  <2>1. w \in [0..0 -> Seq(Octets)] /\ w[0] = none
    BY <1>1
  <2>2. ss = none
    BY <1>5
  <2>3. FlattenSeq(ss) = ss
    BY <1>4, <1>5, Zenon DEF FlattenSeq
  <2> HIDE DEF w, ss
  <2>4. Builds(w, t, P, n, new)
    BY <1>5, <2>1 DEF Builds
  <2> QED
    BY <1>3, <1>5, <2>1, <2>2, <2>3, <2>4
<1>6. CASE l # 0
  <2>1. l \in Nat \ {0} /\ ss \in [1..l -> Seq(Octets)] /\ \A i \in 1..l : ss[i] = piece(i)
    BY <1>1, <1>2, <1>6
  <2> HIDE DEF ss
  <2>2. PICK f \in [1..l -> Seq(Octets)] :
           /\ FlattenSeq(ss) = f[l] /\ f[1] = ss[1]
           /\ \A i \in 1..l : i # 1 => f[i] = f[i - 1] \o ss[i]
    <3>1. \A m \in Nat \ {0} : \A tt \in [1..m -> Seq(Octets)] :
            \E f \in [1..m -> Seq(Octets)] :
              /\ FlattenSeq(tt) = f[m] /\ f[1] = tt[1]
              /\ \A i \in 1..m : i # 1 => f[i] = f[i - 1] \o tt[i]
      BY FlattenIs
    <3> HIDE DEF l
    <3> QED
      BY <2>1, <3>1
  <2> DEFINE w == [i \in 0..l |-> IF i = 0 THEN none ELSE f[i]]
  <2>3. \A i \in 0..l : i # 0 => i \in 1..l
    BY <1>1
  <2>4. w \in [0..l -> Seq(Octets)] /\ w[0] = none /\ \A i \in 1..l : w[i] = f[i]
    BY <1>1, <2>3
  <2> HIDE DEF w
  <2>5. ASSUME NEW i \in 1..l PROVE w[i] = w[i - 1] \o piece(i)
    <3>1. CASE i = 1
      <4>1. 1 \in 1..l /\ 1 - 1 = 0
        BY <2>1
      <4>2. w[1] = piece(1) /\ w[1 - 1] = none
        BY <2>1, <2>2, <2>4, <4>1
      <4>3. piece(1) \in Seq(Octets)
        BY <1>2, <4>1
      <4>4. none \o piece(1) = piece(1)
        BY <4>3, ConcatEmptySeq
      <4> QED
        BY <3>1, <4>2, <4>4
    <3>2. CASE i # 1
      <4>1. i - 1 \in 1..l
        BY <2>1, <3>2
      <4> QED
        BY <2>1, <2>2, <2>4, <3>2, <4>1
    <3> QED
      BY <3>1, <3>2
  <2>6. Builds(w, t, P, n, new)
    BY <2>4, <2>5 DEF Builds, piece, none
  <2>7. l \in 1..l
    BY <2>1
  <2> QED
    BY <1>3, <2>2, <2>4, <2>6, <2>7
<1> QED
  BY <1>5, <1>6

(* Where no match of P is, the text is copied.                                *)
Untouched(P, n, i) == i - 1 \notin P /\ \A p \in P : ~(p < i - 1 /\ i - 1 < p + n)

LEMMA Copied ==
  ASSUME NEW t \in Seq(Octets), NEW P \in SUBSET Nat, NEW n \in Nat, NEW new \in Seq(Octets),
         NEW w, Builds(w, t, P, n, new), NEW p \in 0..Len(t), NEW q \in p..Len(t),
         \A i \in p + 1..q : Untouched(P, n, i)
  PROVE  Grows(w[p], w[q], t, p, q)
<1> DEFINE N == {d \in Nat : p + d <= q => Grows(w[p], w[p + d], t, p, p + d)}
<1>1. /\ p \in Nat /\ q \in Nat /\ p <= q /\ q <= Len(t) /\ Len(t) \in Nat
      /\ p \in 0..Len(t) /\ w[p] \in Seq(Octets)
  <2>1. w \in [0..Len(t) -> Seq(Octets)]
    BY DEF Builds
  <2>2. Len(t) \in Nat
    OBVIOUS
  <2> QED
    BY <2>1, <2>2
<1>2. 0 \in N
  <2>1. p + 0 = p
    BY <1>1
  <2> QED
    BY <1>1, <2>1, GrowsByNone
<1>3. ASSUME NEW d \in N PROVE d + 1 \in N
  <2> SUFFICES ASSUME p + (d + 1) <= q
               PROVE  Grows(w[p], w[p + (d + 1)], t, p, p + (d + 1))
    OBVIOUS
  <2> DEFINE i == p + d
  <2>1. /\ d \in Nat /\ i \in Nat /\ i + 1 \in 1..Len(t) /\ (i + 1) - 1 = i /\ p + (d + 1) = i + 1
        /\ i <= q /\ p <= i /\ i < Len(t) /\ i + 1 \in p + 1..q
    BY <1>1
  <2>2. Grows(w[p], w[i], t, p, i)
    BY <2>1
  <2> HIDE DEF i
  <2>3. Piece(t, P, n, new, i + 1) = <<t[i + 1]>>
    BY <2>1, Zenon DEF Piece, Untouched
  <2>4. w[i + 1] = w[i] \o <<t[i + 1]>>
    BY <2>1, <2>3 DEF Builds
  <2>5. Grows(w[p], w[i] \o <<t[i + 1]>>, t, p, i + 1)
    BY <1>1, <2>1, <2>2, GrowsByOne
  <2> QED
    BY <2>1, <2>4, <2>5
<1>4. N \in SUBSET Nat
  OBVIOUS
<1> HIDE DEF N
<1>5. N = Nat
  BY <1>2, <1>3, <1>4, Induction
<1>6. q - p \in N /\ p + (q - p) = q
  BY <1>1, <1>5
<1> QED
  BY <1>1, <1>6 DEF N

(* What w has at q is what it has at p, with new behind it.                   *)
Joined(w, p, q, new) ==
  w[p] \in Seq(Octets) /\ w[q] \in Seq(Octets) /\ w[q] = w[p] \o new

(* A match of P, which no other overlaps, is replaced.                        *)
LEMMA PutInPlace ==
  ASSUME NEW t \in Seq(Octets), NEW P \in SUBSET Nat, NEW n \in Nat \ {0}, NEW new \in Seq(Octets),
         NEW w, Builds(w, t, P, n, new), NEW p \in P, p + n <= Len(t),
         \A x \in P : ~(p < x /\ x < p + n)
  PROVE  Joined(w, p, p + n, new)
<1> DEFINE N == {d \in Nat : d < n => w[p + 1 + d] = w[p] \o new}
           none == <<>>
<1>1. p \in Nat /\ n \in Nat /\ n > 0 /\ Len(t) \in Nat /\ p \in 0..Len(t) /\ p + n \in 0..Len(t)
  OBVIOUS
<1>2. /\ w \in [0..Len(t) -> Seq(Octets)]
      /\ \A i \in 1..Len(t) : w[i] = w[i - 1] \o Piece(t, P, n, new, i)
  BY DEF Builds
<1>3. w[p] \in Seq(Octets) /\ w[p + n] \in Seq(Octets)
  BY <1>1, <1>2
<1>4. w[p] \o new \in Seq(Octets)
  BY <1>3, JoinIs
<1> DEFINE u == w[p] \o new
<1> HIDE DEF u
<1>5. 0 \in N
  <2>1. p + 1 + 0 \in 1..Len(t) /\ (p + 1 + 0) - 1 = p
    BY <1>1
  <2>2. Piece(t, P, n, new, p + 1 + 0) = new
    BY <2>1 DEF Piece
  <2>3. w[p + 1 + 0] = w[(p + 1 + 0) - 1] \o Piece(t, P, n, new, p + 1 + 0)
    BY <1>2, <2>1
  <2>4. w[p + 1 + 0] = w[p] \o new
    BY <2>1, <2>2, <2>3
  <2> QED
    BY <2>4
<1>6. ASSUME NEW d \in N PROVE d + 1 \in N
  <2> SUFFICES ASSUME d + 1 < n PROVE w[p + 1 + (d + 1)] = u
    BY DEF u
  <2> DEFINE i == p + 1 + d
  <2>1. /\ d \in Nat /\ d < n /\ i + 1 \in 1..Len(t) /\ (i + 1) - 1 = i /\ p + 1 + (d + 1) = i + 1
        /\ p < i /\ i < p + n
    BY <1>1
  <2>2. w[i] = u
    BY <2>1 DEF u
  <2> HIDE DEF i
  <2>3. i \notin P /\ p < i /\ i < p + n
    BY <2>1
  <2>4. Piece(t, P, n, new, i + 1) = none
    BY <2>1, <2>3, Zenon DEF Piece
  <2>5. w[i + 1] = u \o none
    BY <1>2, <2>1, <2>2, <2>4
  <2>6. u \o none = u
    BY <1>4, ConcatEmptySeq DEF u
  <2> QED
    BY <2>1, <2>5, <2>6
<1>7. N \in SUBSET Nat
  OBVIOUS
<1> HIDE DEF N
<1>8. N = Nat
  BY <1>5, <1>6, <1>7, Induction
<1>9. n - 1 \in N /\ n - 1 < n /\ p + 1 + (n - 1) = p + n
  BY <1>1, <1>8
<1>10. w[p + n] = w[p] \o new
  BY <1>9 DEF N
<1> QED
  BY <1>3, <1>10 DEF Joined

LEMMA BuildsTexts ==
  ASSUME NEW t \in Seq(Octets), NEW P, NEW n, NEW new, NEW w, Builds(w, t, P, n, new)
  PROVE  \A i \in 0..Len(t) : w[i] \in Seq(Octets)
BY DEF Builds

(* The string s continues v with t behind p.  A match behind q is replaced:   *)
(* the result continues w, which is v and what of t is before the match, and  *)
(* the replacement.                                                           *)
Fits(s, v, w, t, p, q, match, new) ==
  LET at == Len(v) + (q - p)
  IN  /\ at \in Nat /\ at + Len(match) <= s.size
      /\ Continues(Replaced(s, at, match, new), w \o new, t, q + Len(match))
      /\ at + Len(new) = Len(w \o new)

LEMMA ReplacedContinues ==
  ASSUME NEW s, NEW v, NEW w, NEW t, NEW p, NEW q \in Nat, p <= q, Continues(s, v, t, p),
         Grows(v, w, t, p, q), NEW match \in Seq(Octets), NEW new \in Seq(Octets),
         Begins(t, match, q)
  PROVE  Fits(s, v, w, t, p, q, match, new)
<1> DEFINE k == Len(v)
           m == Len(match)
           l == Len(new)
           at == k + (q - p)
           r == Replaced(s, at, match, new)
           x == w \o new
<1>1. s \in Strings /\ v \in Seq(Octets) /\ w \in Seq(Octets) /\ t \in Seq(Octets) /\ p \in 0..Len(t)
  BY DEF Continues, Grows
<1>2. k \in Nat /\ m \in Nat /\ l \in Nat /\ Len(t) \in Nat /\ p \in Nat /\ s.size \in Nat
  BY <1>1, StringsAre
<1>3. /\ s.size = k + (Len(t) - p)
      /\ \A i \in 1..k : Text(s)[i] = v[i]
      /\ \A i \in 1..Len(t) - p : Text(s)[k + i] = t[p + i]
  BY Zenon DEF Continues
<1>4. /\ Len(w) = k + (q - p)
      /\ \A i \in 1..k : w[i] = v[i]
      /\ \A i \in 1..q - p : w[k + i] = t[p + i]
  BY Zenon DEF Grows
<1>5. q + m <= Len(t)
  BY DEF Begins
<1>6. /\ x \in Seq(Octets) /\ Len(x) = Len(w) + l
      /\ \A i \in 1..Len(w) + l : x[i] = IF i <= Len(w) THEN w[i] ELSE new[i - Len(w)]
  BY <1>1, JoinIs
<1> HIDE DEF k, m, l, x
<1>7. at \in Nat /\ at + m <= s.size
  BY <1>2, <1>3, <1>5
<1>8. /\ r \in Strings /\ r.size = s.size - m + l
      /\ \A i \in 1..s.size - m + l : Text(r)[i] = ReplacedChar(s, at, m, new, i)
  <2>1. at + Len(match) <= s.size
    BY <1>7 DEF m
  <2> HIDE DEF at
  <2> QED
    BY <1>1, <1>7, <2>1, ReplacedText DEF m, l
<1> HIDE DEF r
<1>9. \A i \in 1..s.size - m + l :
        Text(r)[i] = IF i <= at THEN Text(s)[i]
                     ELSE IF i <= at + l THEN new[i - at] ELSE Text(s)[i - l + m]
  BY <1>8 DEF ReplacedChar, l
<1>10. Len(x) = at + l /\ r.size = (at + l) + (Len(t) - (q + m)) /\ q + m \in 0..Len(t)
  BY <1>2, <1>3, <1>4, <1>5, <1>6, <1>8, SMTT(60)
<1>11. ASSUME NEW i \in 1..at + l PROVE Text(r)[i] = x[i]
  <2>1. i \in 1..s.size - m + l /\ i \in 1..Len(w) + l
    BY <1>2, <1>3, <1>4, <1>5
  <2>2. CASE i <= at
    <3>1. x[i] = w[i] /\ Text(r)[i] = Text(s)[i]
      BY <1>4, <1>6, <1>9, <2>1, <2>2
    <3>2. CASE i <= k
      <4>1. i \in 1..k
        BY <1>2, <3>2
      <4> QED
        BY <1>3, <1>4, <3>1, <4>1
    <3>3. CASE ~(i <= k)
      <4>1. i - k \in 1..q - p /\ i - k \in 1..Len(t) - p /\ k + (i - k) = i
        BY <1>2, <1>5, <2>2, <3>3
      <4> QED
        BY <1>3, <1>4, <3>1, <4>1
    <3> QED
      BY <3>2, <3>3
  <2>3. CASE ~(i <= at)
    BY <1>4, <1>6, <1>9, <2>1, <2>3
  <2> QED
    BY <2>2, <2>3
<1>12. ASSUME NEW i \in 1..Len(t) - (q + m) PROVE Text(r)[(at + l) + i] = t[(q + m) + i]
  <2> DEFINE y == (at + l) + i
             z == (q - p) + m + i
  <2>0. at \in Nat /\ at = k + (q - p) /\ i \in Nat /\ i >= 1
    BY <1>7
  <2> HIDE DEF at
  <2>1. y \in 1..s.size - m + l
    <3>0. s.size = k + (Len(t) - p)
      BY <1>3, Zenon
    <3>1. s.size - m + l = ((k + (Len(t) - p)) - m) + l
      BY <3>0, Zenon
    <3>2. y >= 1 /\ y \in Nat /\ y <= ((k + (Len(t) - p)) - m) + l
      BY <1>2, <1>5, <2>0
    <3> QED
      BY <1>2, <3>1, <3>2
  <2>2. ~(y <= at) /\ ~(y <= at + l)
    BY <1>2, <2>0
  <2>3. y - l + m = k + z
    BY <1>2, <2>0
  <2>4. z \in 1..Len(t) - p /\ p + z = (q + m) + i
    BY <1>2, <1>5, <2>0
  <2> HIDE DEF y, z
  <2>5. Text(r)[y] = Text(s)[y - l + m]
    BY <1>9, <2>1, <2>2
  <2>6. Text(s)[k + z] = t[p + z]
    BY <1>3, <2>4
  <2> QED
    BY <2>3, <2>4, <2>5, <2>6 DEF y
<1>13. Continues(r, x, t, q + m)
  BY <1>1, <1>6, <1>8, <1>10, <1>11, <1>12 DEF Continues
<1> QED
  BY <1>7, <1>10, <1>13 DEF Fits, r, x, k, m, l

(* Where the matches are that With and Matches are about: e[i] is the end of  *)
(* the last one that begins before i.                                         *)
Ends(e, t, match) ==
  /\ e \in [0..Len(t) -> Nat] /\ e[0] = 0
  /\ \A i \in 1..Len(t) :
       e[i] = IF Begins(t, match, i - 1) /\ e[i - 1] < i THEN i - 1 + Len(match) ELSE e[i - 1]

LEMMA PrefixBegins ==
  ASSUME NEW t \in Seq(Octets), NEW match \in Seq(Octets), NEW i \in 0..Len(t)
  PROVE  match # <<>> /\ IsPrefix(match, SubSeq(t, i + 1, Len(t))) <=> Begins(t, match, i)
<1> DEFINE l == Len(match)
           b == SubSeq(t, i + 1, Len(t))
<1>1. b \in Seq(Octets) /\ Len(b) = Len(t) - i /\ \A j \in 1..Len(t) - i : b[j] = t[i + j]
  BY BackIs
<1>2. l \in Nat /\ Len(t) \in Nat /\ i \in Nat
  OBVIOUS
<1> HIDE DEF b
<1>3. l <= Len(b) <=> i + l <= Len(t)
  BY <1>1, <1>2
<1>4. ASSUME l <= Len(b)
      PROVE  SubSeq(match, 1, l) = SubSeq(b, 1, l) <=> \A j \in 1..l : t[i + j] = match[j]
  <2> DEFINE f == SubSeq(match, 1, l)
             g == SubSeq(b, 1, l)
  <2>1. l \in 0..Len(match) /\ l \in 0..Len(b)
    BY <1>1, <1>2, <1>4
  <2>2. f \in Seq(Octets) /\ Len(f) = l /\ \A j \in 1..l : f[j] = match[j]
    BY <2>1, FrontIs
  <2>3. g \in Seq(Octets) /\ Len(g) = l /\ \A j \in 1..l : g[j] = b[j]
    BY <1>1, <2>1, FrontIs
  <2> HIDE DEF f, g
  <2>4. \A j \in 1..l : g[j] = t[i + j]
    BY <1>1, <1>2, <1>4, <2>3
  <2> HIDE DEF l
  <2>5. ASSUME \A j \in 1..l : t[i + j] = match[j] PROVE f = g
    <3>1. \A j \in 1..Len(f) : f[j] = g[j]
      BY <2>2, <2>4, <2>5
    <3> QED
      BY <2>2, <2>3, <3>1, SameSequence
  <2>6. ASSUME f = g PROVE \A j \in 1..l : t[i + j] = match[j]
    BY <2>2, <2>4, <2>6
  <2> QED
    BY <2>5, <2>6 DEF f, g
<1> QED
  BY <1>3, <1>4 DEF IsPrefix, Begins, b, l

LEMMA MatchesAre ==
  ASSUME NEW t \in Seq(Octets), NEW match \in Seq(Octets)
  PROVE  \E e : /\ Ends(e, t, match)
                /\ Matches(t, match) = {i \in 0..Len(t) : Begins(t, match, i) /\ e[i] <= i}
<1> DEFINE l == Len(match)
           n == Len(t)
           Is(i) == match # <<>> /\ IsPrefix(match, SubSeq(t, i + 1, Len(t)))
           next(i, x) == IF Is(i - 1) /\ x < i THEN i - 1 + l ELSE x
           step == [p \in Nat \X Nat |-> next(p[1], p[2])]
           f == CHOOSE g : g = [i \in 0..n |-> IF i = 0 THEN 0 ELSE next(i, g[i - 1])]
<1>1. l \in Nat /\ n \in Nat
  OBVIOUS
<1>2. Matches(t, match) = {i \in 0..n : Is(i) /\ f[i] <= i}
  BY Zenon DEF Matches
<1>3. \A i \in 0..n : Is(i) <=> Begins(t, match, i)
  BY PrefixBegins
<1> HIDE DEF Is
<1>4. ASSUME NEW i \in Nat, NEW x \in Nat PROVE next(i, x) \in Nat
  BY <1>1
<1>5. step \in [Nat \X Nat -> Nat]
  <2> HIDE DEF next
  <2>1. ASSUME NEW p \in Nat \X Nat PROVE next(p[1], p[2]) \in Nat
    BY <1>4
  <2> QED
    BY <2>1
<1>6. PICK g : Steps(g, Nat, 0, step, n)
  <2> HIDE DEF step
  <2>1. 0 \in Nat
    OBVIOUS
  <2> QED
    BY <1>1, <1>5, <2>1, Recursion
<1> HIDE DEF next
<1>7. /\ g \in [0..n -> Nat] /\ g[0] = 0
      /\ \A i \in 1..n : g[i] = next(i, g[i - 1])
  <2>1. /\ g \in [0..n -> Nat] /\ g[0] = 0
        /\ \A i \in 1..n : g[i] = step[<<i, g[i - 1]>>]
    BY <1>6 DEF Steps
  <2>2. ASSUME NEW i \in 1..n PROVE g[i] = next(i, g[i - 1])
    <3>1. i \in Nat /\ i - 1 \in 0..n
      BY <1>1
    <3>2. g[i - 1] \in Nat
      BY <2>1, <3>1
    <3>3. step[<<i, g[i - 1]>>] = next(i, g[i - 1])
      BY <3>1, <3>2
    <3> QED
      BY <2>1, <3>3
  <2> QED
    BY <2>1, <2>2
<1>8. g = [i \in 0..n |-> IF i = 0 THEN 0 ELSE next(i, g[i - 1])]
  <2>1. \A i \in 0..n : i = 0 \/ (i # 0 /\ i \in 1..n)
    BY <1>1
  <2>2. \A i \in 0..n : g[i] = IF i = 0 THEN 0 ELSE next(i, g[i - 1])
    BY <1>7, <2>1, Zenon
  <2> QED
    BY <1>7, <2>2
<1>9. f = [i \in 0..n |-> IF i = 0 THEN 0 ELSE next(i, f[i - 1])]
  BY <1>8
<1> HIDE DEF f
<1>10. f[0] = 0 /\ \A i \in 1..n : f[i] = next(i, f[i - 1])
  <2>1. 0 \in 0..n /\ \A i \in 1..n : i \in 0..n /\ i # 0
    BY <1>1
  <2> DEFINE x(i) == IF i = 0 THEN 0 ELSE next(i, f[i - 1])
  <2>2. \A i \in 0..n : f[i] = x(i)
    BY <1>9, Zenon
  <2> QED
    BY <2>1, <2>2, Zenon
<1> DEFINE N == {i \in Nat : i <= n => f[i] = g[i]}
<1>11. 0 \in N
  BY <1>7, <1>10
<1>12. ASSUME NEW i \in N PROVE i + 1 \in N
  <2>1. CASE i + 1 <= n
    <3>1. i \in Nat /\ i + 1 \in 1..n /\ (i + 1) - 1 = i /\ i <= n
      BY <1>1, <2>1
    <3>2. f[i] = g[i]
      BY <3>1
    <3> QED
      BY <1>7, <1>10, <3>1, <3>2
  <2> QED
    BY <2>1
<1>13. N \in SUBSET Nat
  OBVIOUS
<1> HIDE DEF N
<1>14. N = Nat
  BY <1>11, <1>12, <1>13, Induction
<1>15. \A i \in 0..n : f[i] = g[i]
  BY <1>1, <1>14 DEF N
<1>16. Matches(t, match) = {i \in 0..n : Begins(t, match, i) /\ g[i] <= i}
  BY <1>2, <1>3, <1>15
<1>17. ASSUME NEW i \in 1..n
       PROVE  g[i] = IF Begins(t, match, i - 1) /\ g[i - 1] < i THEN i - 1 + l ELSE g[i - 1]
  <2>1. i - 1 \in 0..n
    BY <1>1
  <2> QED
    BY <1>3, <1>7, <2>1 DEF next
<1>18. Ends(g, t, match)
  BY <1>7, <1>17 DEF Ends
<1> QED
  BY <1>16, <1>18

(* The first match behind p is one of those, and the next one can begin only  *)
(* where it ends.                                                             *)
LEMMA NextMatch ==
  ASSUME NEW t \in Seq(Octets), NEW match \in Seq(Octets), NEW e, Ends(e, t, match),
         NEW p \in 0..Len(t), e[p] <= p, NEW j \in p..Len(t), Begins(t, match, j),
         \A i \in p..j - 1 : ~Begins(t, match, i)
  PROVE  /\ e[j] <= j
         /\ \A i \in j + 1..j + Len(match) : e[i] = j + Len(match)
<1> DEFINE l == Len(match)
           n == Len(t)
<1>1. p \in Nat /\ j \in Nat /\ l \in Nat /\ n \in Nat /\ p <= j /\ j + l <= n /\ l > 0
  <2>1. match # <<>> /\ j + l <= n
    BY DEF Begins
  <2>2. l # 0
    BY <2>1
  <2> QED
    BY <2>1, <2>2
<1>2. /\ e \in [0..n -> Nat]
      /\ \A i \in 1..n :
           e[i] = IF Begins(t, match, i - 1) /\ e[i - 1] < i THEN i - 1 + l ELSE e[i - 1]
  BY DEF Ends
<1> HIDE DEF l, n
<1> DEFINE N == {d \in Nat : p + d <= j => e[p + d] = e[p]}
<1>3. 0 \in N
  BY <1>1
<1>4. ASSUME NEW d \in N PROVE d + 1 \in N
  <2> SUFFICES ASSUME p + (d + 1) <= j PROVE e[p + (d + 1)] = e[p]
    OBVIOUS
  <2>1. /\ d \in Nat /\ p + d <= j /\ p + (d + 1) \in 1..n /\ (p + (d + 1)) - 1 = p + d
        /\ p + d \in p..j - 1
    BY <1>1
  <2>2. ~Begins(t, match, p + d)
    BY <2>1
  <2>3. e[p + d] = e[p]
    BY <2>1
  <2> QED
    BY <1>2, <2>1, <2>2, <2>3
<1>5. N \in SUBSET Nat
  OBVIOUS
<1> HIDE DEF N
<1>6. N = Nat
  BY <1>3, <1>4, <1>5, Induction
<1>7. e[j] = e[p] /\ e[p] \in Nat /\ e[j] <= j
  <2>1. j - p \in N /\ p + (j - p) = j
    BY <1>1, <1>6
  <2>2. e[j] = e[p]
    BY <1>1, <2>1 DEF N
  <2>3. p \in 0..n
    BY <1>1, <1>2 DEF n
  <2>4. e[p] \in Nat
    BY <1>2, <2>3
  <2> QED
    BY <1>1, <2>2, <2>4
<1> DEFINE M == {d \in Nat : d < l => e[j + 1 + d] = j + l}
<1>8. 0 \in M
  <2>1. j + 1 + 0 \in 1..n /\ (j + 1 + 0) - 1 = j /\ e[j] < j + 1 + 0
    BY <1>1, <1>7
  <2>2. e[j + 1 + 0] = j + l
    BY <1>2, <2>1
  <2> QED
    BY <2>2
<1>9. ASSUME NEW d \in M PROVE d + 1 \in M
  <2> SUFFICES ASSUME d + 1 < l PROVE e[j + 1 + (d + 1)] = j + l
    OBVIOUS
  <2> DEFINE i == j + 1 + (d + 1)
  <2>1. /\ d \in Nat /\ d < l /\ i \in 1..n /\ i - 1 = j + 1 + d /\ ~(j + l < i)
    BY <1>1
  <2>2. e[i - 1] = j + l
    BY <2>1
  <2> HIDE DEF i
  <2>3. e[i] = j + l
    BY <1>2, <2>1, <2>2
  <2> QED
    BY <2>3 DEF i
<1>10. M \in SUBSET Nat
  OBVIOUS
<1> HIDE DEF M
<1>11. M = Nat
  BY <1>8, <1>9, <1>10, Induction
<1>12. ASSUME NEW i \in j + 1..j + l PROVE e[i] = j + l
  <2>1. i - (j + 1) \in M /\ i - (j + 1) < l /\ j + 1 + (i - (j + 1)) = i
    BY <1>1, <1>11
  <2> QED
    BY <2>1 DEF M
<1> QED
  BY <1>7, <1>12 DEF l

(* Where a search for match behind w in s, which is there as t is behind p,   *)
(* finds the first one.                                                       *)
Finds(s, w, t, p, match) ==
  LET found == Found(s, Len(w), match)
  IN  /\ found = {} => \A i \in p..Len(t) : ~Begins(t, match, i)
      /\ found # {} =>
           \E j \in p..Len(t) :
             /\ Min(found) = Len(w) + (j - p)
             /\ Begins(t, match, j) /\ \A i \in p..j - 1 : ~Begins(t, match, i)

LEMMA FindsFirst ==
  ASSUME NEW s, NEW w, NEW t, NEW p, Continues(s, w, t, p), NEW match \in Seq(Octets)
  PROVE  Finds(s, w, t, p, match)
<1> DEFINE k == Len(w)
           F == Found(s, k, match)
<1>1. s \in Strings /\ w \in Seq(Octets) /\ t \in Seq(Octets) /\ p \in 0..Len(t)
  BY DEF Continues
<1>2. k \in Nat /\ p \in Nat /\ Len(t) \in Nat /\ p <= Len(t)
  BY <1>1
<1>3. /\ F \in SUBSET Nat
      /\ \A i \in Nat : i \in F <=> i >= k /\ Begins(Text(s), match, i)
  <2> HIDE DEF k
  <2> QED
    BY <1>1, <1>2, FoundIs
<1>4. \A i \in Nat : Begins(Text(s), match, k + i) <=> Begins(t, match, p + i)
  BY BeginsBehind
<1> HIDE DEF F, k
<1>5. ASSUME NEW i \in Nat, i >= p PROVE k + (i - p) \in F <=> Begins(t, match, i)
  <2>1. i - p \in Nat /\ p + (i - p) = i /\ k + (i - p) \in Nat /\ k + (i - p) >= k
    BY <1>2, <1>5
  <2> QED
    BY <1>3, <1>4, <2>1
<1>6. ASSUME F = {} PROVE \A i \in p..Len(t) : ~Begins(t, match, i)
  <2> SUFFICES ASSUME NEW i \in p..Len(t) PROVE ~Begins(t, match, i)
    OBVIOUS
  <2>1. i \in Nat /\ i >= p
    BY <1>2
  <2> QED
    BY <1>5, <1>6, <2>1
<1>7. ASSUME F # {}
      PROVE  \E j \in p..Len(t) :
               /\ Min(F) = k + (j - p)
               /\ Begins(t, match, j) /\ \A i \in p..j - 1 : ~Begins(t, match, i)
  <2>1. Min(F) \in F /\ \A y \in F : Min(F) <= y
    BY <1>3, <1>7, LeastFound
  <2> DEFINE x == Min(F)
  <2> HIDE DEF x
  <2>2. x \in Nat /\ x >= k /\ x \in F /\ \A y \in F : x <= y
    BY <1>3, <2>1 DEF x
  <2> DEFINE j == p + (x - k)
  <2>3. j \in Nat /\ j >= p /\ k + (j - p) = x
    BY <1>2, <2>2
  <2> HIDE DEF j
  <2>4. Begins(t, match, j)
    BY <1>5, <2>2, <2>3
  <2>5. j \in p..Len(t)
    <3>1. j + Len(match) <= Len(t) /\ Len(match) \in Nat
      BY <2>4 DEF Begins
    <3> QED
      BY <1>2, <2>3, <3>1
  <2>6. ASSUME NEW i \in p..j - 1 PROVE ~Begins(t, match, i)
    <3>1. i \in Nat /\ i >= p /\ ~(x <= k + (i - p))
      BY <1>2, <2>2, <2>3
    <3> QED
      BY <1>5, <2>2, <3>1
  <2> QED
    BY <2>3, <2>4, <2>5, <2>6 DEF x
<1> QED
  BY <1>6, <1>7, Zenon DEF Finds, F, k

(* No match begins behind the first p characters of t, or later.              *)
NoMore(t, match, p) == \A i \in p..Len(t) : ~Begins(t, match, i)

(* The search x has got past the first p characters of t, and past each match *)
(* that begins there; what it has left in their place is w[p].                *)
Searched(x, p, t, match, w, e) ==
  /\ Continues(x.string, w[p], t, p) /\ x.at = Len(w[p])
  /\ p \in 0..Len(t) /\ e[p] <= p
  /\ \A q \in 0..Len(t) :
       q < p /\ Begins(t, match, q) /\ e[q] <= q => q + Len(match) <= p

LEMMA TextIsContinued ==
  ASSUME NEW s, NEW v, NEW w, NEW t, NEW p, Continues(s, v, t, p), Grows(v, w, t, p, Len(t))
  PROVE  s \in Strings /\ Text(s) = w
<1> DEFINE k == Len(v)
           u == Text(s)
<1>1. s \in Strings /\ v \in Seq(Octets) /\ w \in Seq(Octets) /\ t \in Seq(Octets) /\ p \in 0..Len(t)
  BY DEF Continues, Grows
<1>2. k \in Nat /\ Len(t) \in Nat /\ p \in Nat /\ p <= Len(t) /\ s.size \in Nat
  BY <1>1, StringsAre
<1>3. /\ s.size = k + (Len(t) - p)
      /\ \A i \in 1..k : u[i] = v[i]
      /\ \A i \in 1..Len(t) - p : u[k + i] = t[p + i]
  BY Zenon DEF Continues
<1>4. /\ Len(w) = k + (Len(t) - p)
      /\ \A i \in 1..k : w[i] = v[i]
      /\ \A i \in 1..Len(t) - p : w[k + i] = t[p + i]
  BY Zenon DEF Grows
<1>5. u \in Seq(Octets) /\ Len(u) = s.size
  BY <1>1, TextIs
<1> HIDE DEF k, u
<1>6. Len(u) = Len(w)
  BY <1>3, <1>4, <1>5
<1>7. ASSUME NEW i \in 1..Len(u) PROVE u[i] = w[i]
  <2>0. i \in 1..k + (Len(t) - p)
    BY <1>4, <1>6
  <2>1. CASE i <= k
    <3>1. i \in 1..k
      BY <1>2, <2>0, <2>1
    <3> QED
      BY <1>3, <1>4, <3>1
  <2>2. CASE ~(i <= k)
    <3> DEFINE d == i - k
    <3>1. d \in 1..Len(t) - p /\ k + d = i
      BY <1>2, <2>0, <2>2
    <3> HIDE DEF d
    <3>2. u[k + d] = w[k + d]
      BY <1>3, <1>4, <3>1
    <3> QED
      BY <3>1, <3>2
  <2> QED
    BY <2>1, <2>2
<1>8. u = w
  BY <1>1, <1>5, <1>6, <1>7, SameSequence
<1> QED
  BY <1>1, <1>8 DEF u

(* The matches that are replaced.                                             *)
Taken(t, match, e) == {i \in 0..Len(t) : Begins(t, match, i) /\ e[i] <= i}

LEMMA NothingBetween ==
  ASSUME NEW t \in Seq(Octets), NEW match \in Seq(Octets), NEW e, NEW p \in 0..Len(t),
         \A q \in 0..Len(t) : q < p /\ Begins(t, match, q) /\ e[q] <= q => q + Len(match) <= p,
         NEW j \in p..Len(t), \A i \in p..j - 1 : ~Begins(t, match, i)
  PROVE  \A i \in p + 1..j : Untouched(Taken(t, match, e), Len(match), i)
<1> DEFINE l == Len(match)
           n == Len(t)
           M == Taken(t, match, e)
<1>1. p \in Nat /\ j \in Nat /\ l \in Nat /\ n \in Nat /\ p <= j /\ j <= n
  OBVIOUS
<1>2. \A q \in M : q \in 0..n /\ Begins(t, match, q) /\ e[q] <= q
  BY DEF Taken
<1>3. \A q \in M : q < p => q + l <= p
  BY <1>2
<1>4. \A q \in M : ~(q >= p /\ q < j)
  <2>1. \A q \in 0..n : q >= p /\ q < j => q \in p..j - 1
    BY <1>1
  <2> QED
    BY <1>2, <2>1
<1> HIDE DEF M, l, n
<1>5. ASSUME NEW i \in p + 1..j PROVE Untouched(M, l, i)
  <2>1. i - 1 \in Nat /\ i - 1 >= p /\ i - 1 < j
    BY <1>1
  <2>2. i - 1 \notin M
    BY <1>4, <2>1
  <2>3. ASSUME NEW q \in M PROVE ~(q < i - 1 /\ i - 1 < q + l)
    <3>1. q \in Nat
      BY <1>2 DEF n
    <3>2. q < p => q + l <= p
      BY <1>3
    <3>3. ~(q >= p /\ q < j)
      BY <1>4
    <3> QED
      BY <1>1, <2>1, <3>1, <3>2, <3>3
  <2> QED
    BY <2>2, <2>3 DEF Untouched
<1> QED
  BY <1>5 DEF M, l

LEMMA SearchGoesOn ==
  ASSUME NEW t \in Seq(Octets), NEW match \in Seq(Octets), NEW new \in Seq(Octets),
         NEW e, Ends(e, t, match),
         NEW w, Builds(w, t, Taken(t, match, e), Len(match), new),
         NEW x, NEW p, Searched(x, p, t, match, w, e)
  PROVE  LET y == ReplaceNext(x, match, new)
         IN  \/ y = x /\ NoMore(t, match, p)
             \/ \E q \in p + 1..Len(t) : Searched(y, q, t, match, w, e)
<1> DEFINE s == x.string
           found == Found(s, x.at, match)
           y == ReplaceNext(x, match, new)
           l == Len(match)
           n == Len(t)
           M == Taken(t, match, e)
<1>1. /\ Continues(s, w[p], t, p) /\ x.at = Len(w[p]) /\ p \in 0..n /\ e[p] <= p
      /\ \A q \in 0..n : q < p /\ Begins(t, match, q) /\ e[q] <= q => q + l <= p
  BY Zenon DEF Searched
<1>2. l \in Nat /\ n \in Nat /\ p \in Nat /\ p <= n
  BY <1>1
<1>3. w[p] \in Seq(Octets) /\ Len(w[p]) \in Nat /\ s.size = Len(w[p]) + (n - p)
  BY <1>1 DEF Continues
<1>4. CASE x.at >= s.size
  <2>1. y = x
    BY <1>4, Zenon DEF ReplaceNext
  <2>2. p = n
    BY <1>1, <1>2, <1>3, <1>4
  <2>3. ~Begins(t, match, n)
    <3> SUFFICES ASSUME Begins(t, match, n) PROVE FALSE
      OBVIOUS
    <3>1. match # <<>> /\ n + l <= n
      BY DEF Begins
    <3>2. l = 0
      BY <1>2, <3>1
    <3> QED
      BY <3>1, <3>2
  <2>4. NoMore(t, match, p)
    <3>1. \A i \in n..n : i = n
      BY <1>2
    <3> QED
      BY <2>2, <2>3, <3>1 DEF NoMore
  <2> QED
    BY <2>1, <2>4
<1>5. CASE found = {}
  <2>1. y = x
    BY <1>5, Zenon DEF ReplaceNext
  <2>2. NoMore(t, match, p)
    <3>1. Finds(s, w[p], t, p, match)
      BY <1>1, FindsFirst, Zenon
    <3>2. Found(s, Len(w[p]), match) = {}
      BY <1>1, <1>5
    <3> QED
      BY <3>1, <3>2, Zenon DEF Finds, NoMore
  <2> QED
    BY <2>1, <2>2
<1>6. CASE ~(x.at >= s.size \/ found = {})
  <2> DEFINE at == Min(found)
             r == Replaced(s, at, match, new)
  <2>1. PICK j \in p..n : /\ at = Len(w[p]) + (j - p)
                          /\ Begins(t, match, j) /\ \A i \in p..j - 1 : ~Begins(t, match, i)
    <3>1. Found(s, Len(w[p]), match) # {} =>
            \E j \in p..Len(t) :
              /\ Min(Found(s, Len(w[p]), match)) = Len(w[p]) + (j - p)
              /\ Begins(t, match, j) /\ \A i \in p..j - 1 : ~Begins(t, match, i)
      <4>1. Finds(s, w[p], t, p, match)
        BY <1>1, FindsFirst, Zenon
      <4> QED
        BY <4>1, Zenon DEF Finds
    <3>2. found = Found(s, Len(w[p]), match)
      BY <1>1
    <3> QED
      BY <1>6, <3>1, <3>2, Zenon
  <2>2. y = [string |-> r, at |-> at + Len(new)]
    BY <1>6, Zenon DEF ReplaceNext
  <2> HIDE DEF found, at
  <2> DEFINE q == j + l
  <2>3. j \in Nat /\ p <= j /\ j <= n /\ q <= n /\ l > 0 /\ q \in p + 1..n /\ j \in 0..n
        /\ q \in j + 1..q
    <3>1. match # <<>> /\ j + l <= n
      BY <2>1 DEF Begins
    <3>2. l # 0
      BY <3>1
    <3> QED
      BY <1>2, <3>1, <3>2
  <2>4. e[j] <= j /\ \A i \in j + 1..q : e[i] = q
    BY <1>1, <2>1, NextMatch
  <2>5. j \in M
    BY <2>1, <2>3, <2>4 DEF Taken
  <2>6. M \in SUBSET Nat /\ \A i \in M : i \in 0..n /\ Begins(t, match, i) /\ e[i] <= i
    BY DEF Taken
  <2> HIDE DEF M, q, l
  <2>7. \A i \in M : ~(j < i /\ i < q)
    <3> SUFFICES ASSUME NEW i \in M, j < i, i < q PROVE FALSE
      OBVIOUS
    <3>1. i \in Nat /\ i \in j + 1..q /\ e[i] <= i
      BY <2>3, <2>6
    <3>2. e[i] = q
      BY <2>4, <3>1
    <3> QED
      BY <1>2, <2>3, <3>1, <3>2 DEF q
  <2>8. Builds(w, t, M, l, new)
    BY DEF M, l
  <2>9. \A i \in p + 1..j : Untouched(M, l, i)
    BY <1>1, <2>1, NothingBetween DEF M, l
  <2>10. Grows(w[p], w[j], t, p, j)
    <3>1. \A pp \in 0..n : \A qq \in pp..n : (\A i \in pp + 1..qq : Untouched(M, l, i))
            => Grows(w[pp], w[qq], t, pp, qq)
      BY <1>2, <2>6, <2>8, Copied
    <3> QED
      BY <1>1, <2>1, <2>9, <3>1
  <2>11. w[q] = w[j] \o new
    <3>1. l \in Nat \ {0} /\ j + l <= n
      BY <1>2, <2>3 DEF q
    <3>2. \A i \in M : ~(j < i /\ i < j + l)
      BY <2>7 DEF q
    <3>3. Joined(w, j, j + l, new)
      BY <2>5, <2>6, <2>8, <3>1, <3>2, PutInPlace, Zenon
    <3>4. w[j + l] = w[j] \o new
      BY <3>3 DEF Joined
    <3> QED
      BY <3>4 DEF q
  <2>12. /\ Continues(Replaced(s, Len(w[p]) + (j - p), match, new), w[j] \o new, t, j + l)
         /\ Len(w[p]) + (j - p) + Len(new) = Len(w[j] \o new)
    <3>1. Fits(s, w[p], w[j], t, p, j, match, new)
      BY <1>1, <2>1, <2>3, <2>10, ReplacedContinues, Zenon
    <3> QED
      BY <3>1 DEF Fits, l
  <2>13. Continues(r, w[q], t, q) /\ at + Len(new) = Len(w[q])
    BY <2>1, <2>11, <2>12, Zenon DEF q
  <2>14. e[q] <= q
    BY <2>3, <2>4
  <2>15. ASSUME NEW i \in 0..n, i < q, Begins(t, match, i), e[i] <= i PROVE i + l <= q
    <3>1. i \in M
      BY <2>15 DEF M, Taken
    <3>2. i \in Nat
      OBVIOUS
    <3>3. CASE i < p
      BY <1>1, <1>2, <2>3, <2>15, <3>2, <3>3 DEF q, l
    <3>4. CASE i >= p /\ i < j
      <4>1. i \in p..j - 1
        BY <1>2, <2>3, <3>2, <3>4
      <4> QED
        BY <2>1, <2>15, <4>1
    <3>5. CASE i = j
      BY <1>2, <2>3, <3>5 DEF q
    <3>6. CASE i > j
      BY <2>3, <2>7, <2>15, <3>1, <3>2, <3>6
    <3> QED
      BY <1>2, <2>3, <3>2, <3>3, <3>4, <3>5, <3>6
  <2>16. y.string = r /\ y.at = at + Len(new)
    BY <2>2
  <2> HIDE DEF y, r
  <2>17. q \in 0..n
    BY <1>2, <2>3
  <2>18. Searched(y, q, t, match, w, e)
    BY <2>13, <2>14, <2>15, <2>16, <2>17 DEF Searched, l
  <2> QED
    BY <2>3, <2>18 DEF y
<1> QED
  BY <1>4, <1>5, <1>6

LEMMA StartsWhole ==
  ASSUME NEW s \in Strings
  PROVE  /\ Continues(s, <<>>, Text(s), 0)
         /\ Text(s) \in Seq(Octets) /\ Len(Text(s)) = s.size /\ s.size \in Nat
<1> DEFINE none == <<>>
           t == Text(s)
<1>1. none \in Seq(Octets) /\ Len(none) = 0
  OBVIOUS
<1>2. t \in Seq(Octets) /\ Len(t) = s.size /\ s.size \in Nat
  BY TextIs, StringsAre
<1> HIDE DEF none, t
<1>3. 0 \in 0..Len(t) /\ s.size = Len(none) + (Len(t) - 0) /\ 1..Len(none) = {}
  BY <1>1, <1>2
<1>4. \A i \in 1..Len(t) - 0 : t[Len(none) + i] = t[0 + i]
  <2>1. \A i \in 1..Len(t) - 0 : Len(none) + i = 0 + i
    BY <1>1, <1>2
  <2> QED
    BY <2>1
<1>5. Continues(s, none, t, 0)
  BY <1>1, <1>2, <1>3, <1>4 DEF Continues, t
<1> QED
  BY <1>2, <1>5 DEF none, t

LEMMA LastIsReached ==
  ASSUME NEW t \in Seq(Octets), NEW match \in Seq(Octets), NEW new \in Seq(Octets), NEW e,
         NEW w, Builds(w, t, Taken(t, match, e), Len(match), new),
         NEW x, NEW p, Searched(x, p, t, match, w, e), p >= Len(t) \/ NoMore(t, match, p)
  PROVE  x.string \in Strings /\ Text(x.string) = w[Len(t)]
<1> DEFINE n == Len(t)
           M == Taken(t, match, e)
<1>1. /\ Continues(x.string, w[p], t, p) /\ p \in 0..n
      /\ \A q \in 0..n : q < p /\ Begins(t, match, q) /\ e[q] <= q => q + Len(match) <= p
  BY Zenon DEF Searched
<1>2. n \in Nat /\ p \in Nat /\ p <= n /\ n \in p..n
  BY <1>1
<1>3. \A i \in p..n - 1 : ~Begins(t, match, i)
  <2>1. \A i \in p..n - 1 : i \in p..n /\ ~(p >= n)
    BY <1>2
  <2> QED
    BY <2>1 DEF NoMore
<1>4. \A i \in p + 1..n : Untouched(M, Len(match), i)
  BY <1>1, <1>2, <1>3, NothingBetween
<1>5. M \in SUBSET Nat /\ Len(match) \in Nat
  BY DEF Taken
<1>6. Builds(w, t, M, Len(match), new)
  OBVIOUS
<1> HIDE DEF M
<1>7. Grows(w[p], w[n], t, p, n)
  BY <1>1, <1>2, <1>4, <1>5, <1>6, Copied, Zenon
<1>8. x.string \in Strings /\ Text(x.string) = w[n]
  BY <1>1, <1>7, TextIsContinued, Zenon
<1> QED
  BY <1>8

(* All matches are replaced.                                                  *)
LEMMA ReplacesEach ==
  ASSUME NEW s \in Strings, NEW match \in Seq(Octets), NEW new \in Seq(Octets)
  PROVE  LET r == string_replace_all_data(s, match, new)
         IN  /\ r \in Strings
             /\ Text(r) = With(Text(s), Matches(Text(s), match), Len(match), new)
<1> DEFINE t == Text(s)
           none == <<>>
           r == string_replace_all_data(s, match, new)
<1>1. /\ Continues(s, none, t, 0)
      /\ t \in Seq(Octets) /\ Len(t) = s.size /\ s.size \in Nat
  BY StartsWhole
<1> HIDE DEF t
<1>2. PICK f : /\ r = f[s.size].string
               /\ f[0] = [string |-> s, at |-> 0]
               /\ \A n \in 1..s.size : f[n] = ReplaceNext(f[n - 1], match, new)
  BY SearchIs, Zenon
<1> HIDE DEF r
<1>3. PICK e : Ends(e, t, match) /\ Matches(t, match) = Taken(t, match, e)
  BY <1>1, MatchesAre DEF Taken
<1> DEFINE M == Taken(t, match, e)
<1>4. M \in SUBSET Nat /\ Len(match) \in Nat
  BY DEF Taken
<1> HIDE DEF M
<1>5. PICK w : /\ Builds(w, t, M, Len(match), new)
               /\ With(t, M, Len(match), new) = w[Len(t)]
  BY <1>1, <1>4, WithIs
<1> DEFINE Stays(x, n) == \E p \in 0..Len(t) : /\ Searched(x, p, t, match, w, e)
                                               /\ p >= n \/ NoMore(t, match, p)
           N == {n \in Nat : n <= s.size => Stays(f[n], n)}
<1>6. 0 \in N
  <2>1. w[0] = none /\ e[0] = 0
    BY <1>3, <1>5 DEF Builds, Ends
  <2>2. Len(none) = 0
    OBVIOUS
  <2> HIDE DEF none
  <2> DEFINE x == [string |-> s, at |-> 0]
  <2>3. x.string = s /\ x.at = 0
    OBVIOUS
  <2> HIDE DEF x
  <2>4. 0 \in 0..Len(t) /\ 0 <= 0 /\ \A q \in 0..Len(t) : ~(q < 0)
    BY <1>1
  <2>5. Searched(x, 0, t, match, w, e)
    BY <1>1, <2>1, <2>2, <2>3, <2>4 DEF Searched
  <2>6. f[0] = x
    BY <1>2 DEF x
  <2>7. Stays(f[0], 0)
    BY <2>4, <2>5, <2>6
  <2> HIDE DEF Stays
  <2> QED
    BY <2>7
<1>7. ASSUME NEW n \in N PROVE n + 1 \in N
  <2> SUFFICES ASSUME n + 1 <= s.size PROVE Stays(f[n + 1], n + 1)
    OBVIOUS
  <2>1. n \in Nat /\ n + 1 \in 1..s.size /\ (n + 1) - 1 = n /\ n <= s.size
    BY <1>1
  <2>2. PICK p \in 0..Len(t) : /\ Searched(f[n], p, t, match, w, e)
                               /\ p >= n \/ NoMore(t, match, p)
    BY <2>1
  <2>3. f[n + 1] = ReplaceNext(f[n], match, new)
    BY <1>2, <2>1
  <2>4. Builds(w, t, Taken(t, match, e), Len(match), new)
    BY <1>5 DEF M
  <2>5. \/ ReplaceNext(f[n], match, new) = f[n] /\ NoMore(t, match, p)
        \/ \E q \in p + 1..Len(t) : Searched(ReplaceNext(f[n], match, new), q, t, match, w, e)
    BY <1>1, <1>3, <2>2, <2>4, SearchGoesOn, Zenon
  <2>6. CASE f[n + 1] = f[n] /\ NoMore(t, match, p)
    BY <2>2, <2>6
  <2>7. CASE \E q \in p + 1..Len(t) : Searched(f[n + 1], q, t, match, w, e)
    <3>1. PICK q \in p + 1..Len(t) : Searched(f[n + 1], q, t, match, w, e)
      BY <2>7
    <3>2. p \in Nat /\ q \in Nat /\ q \in 0..Len(t) /\ q >= p + 1 /\ Len(t) \in Nat
      BY <1>1
    <3>3. CASE p >= n
      <4>1. q >= n + 1
        BY <2>1, <3>2, <3>3
      <4> QED
        BY <3>1, <3>2, <4>1
    <3>4. CASE NoMore(t, match, p)
      <4>1. \A i \in q..Len(t) : i \in p..Len(t)
        BY <3>2
      <4>2. NoMore(t, match, q)
        BY <3>4, <4>1 DEF NoMore
      <4> QED
        BY <3>1, <3>2, <4>2
    <3> QED
      BY <2>2, <3>3, <3>4
  <2> QED
    BY <2>3, <2>5, <2>6, <2>7
<1>8. N \in SUBSET Nat
  OBVIOUS
<1> HIDE DEF N
<1>9. N = Nat
  BY <1>6, <1>7, <1>8, Induction
<1>10. Stays(f[s.size], s.size)
  <2> HIDE DEF Stays
  <2>1. s.size \in N /\ s.size <= s.size
    BY <1>1, <1>9
  <2> QED
    BY <2>1 DEF N
<1>11. PICK p \in 0..Len(t) : /\ Searched(f[s.size], p, t, match, w, e)
                              /\ p >= Len(t) \/ NoMore(t, match, p)
  BY <1>1, <1>10
<1>12. f[s.size].string \in Strings /\ Text(f[s.size].string) = w[Len(t)]
  <2>1. Builds(w, t, Taken(t, match, e), Len(match), new)
    BY <1>5 DEF M
  <2>2. \A x : Searched(x, p, t, match, w, e)
                => x.string \in Strings /\ Text(x.string) = w[Len(t)]
    BY <1>1, <1>11, <2>1, LastIsReached
  <2> QED
    BY <1>11, <2>2
<1>13. r \in Strings /\ Text(r) = With(t, Matches(t, match), Len(match), new)
  <2>1. With(t, Matches(t, match), Len(match), new) = w[Len(t)]
    BY <1>3, <1>5 DEF M
  <2> QED
    BY <1>2, <1>12, <2>1
<1> QED
  BY <1>13 DEF r, t

(* One match, and nothing else, is replaced.                                  *)
LEMMA ReplacesAt ==
  ASSUME NEW s \in Strings, NEW match \in Seq(Octets), NEW new \in Seq(Octets), NEW j \in Nat,
         Begins(Text(s), match, j)
  PROVE  LET r == Replaced(s, j, match, new)
         IN  r \in Strings /\ Text(r) = With(Text(s), {j}, Len(match), new)
<1> DEFINE t == Text(s)
           none == <<>>
           l == Len(match)
           P == {j}
           r == Replaced(s, j, match, new)
           q == j + l
<1>1. /\ Continues(s, none, t, 0)
      /\ t \in Seq(Octets) /\ Len(t) = s.size /\ s.size \in Nat
  BY StartsWhole
<1>2. Begins(t, match, j)
  OBVIOUS
<1> HIDE DEF t
<1>3. l \in Nat \ {0} /\ q <= Len(t) /\ Len(t) \in Nat /\ j \in 0..Len(t) /\ q \in 0..Len(t)
      /\ 0 \in 0..Len(t) /\ Len(t) \in q..Len(t) /\ q \in Nat
  <2>1. match # <<>> /\ j + l <= Len(t)
    BY <1>2 DEF Begins
  <2>2. l # 0 /\ l \in Nat
    BY <2>1
  <2> QED
    BY <1>1, <2>1, <2>2
<1>4. P \in SUBSET Nat /\ \A i \in P : i = j
  OBVIOUS
<1>5. j \in P
  OBVIOUS
<1> HIDE DEF P, l, q
<1>6. PICK w : Builds(w, t, P, l, new) /\ With(t, P, l, new) = w[Len(t)]
  BY <1>1, <1>3, <1>4, WithIs
<1>7. Grows(w[0], w[j], t, 0, j)
  <2>1. \A i \in 0 + 1..j : Untouched(P, l, i)
    <3> SUFFICES ASSUME NEW i \in 0 + 1..j PROVE Untouched(P, l, i)
      OBVIOUS
    <3>1. i - 1 # j /\ ~(j < i - 1)
      OBVIOUS
    <3> QED
      BY <1>4, <3>1 DEF Untouched
  <2>2. l \in Nat /\ j \in 0..Len(t)
    BY <1>3
  <2> QED
    BY <1>1, <1>3, <1>4, <1>6, <2>1, <2>2, Copied, Zenon
<1>8. Grows(w[q], w[Len(t)], t, q, Len(t))
  <2>1. \A i \in q + 1..Len(t) : Untouched(P, l, i)
    <3> SUFFICES ASSUME NEW i \in q + 1..Len(t) PROVE Untouched(P, l, i)
      OBVIOUS
    <3>1. i - 1 # j /\ ~(i - 1 < j + l)
      BY <1>3 DEF q
    <3> QED
      BY <1>4, <3>1 DEF Untouched
  <2>2. l \in Nat
    BY <1>3
  <2> QED
    BY <1>1, <1>3, <1>4, <1>6, <2>1, <2>2, Copied, Zenon
<1>9. Joined(w, j, j + l, new)
  <2>1. \A i \in P : ~(j < i /\ i < j + l)
    BY <1>4
  <2>2. j + l <= Len(t)
    BY <1>3 DEF q
  <2> QED
    BY <1>1, <1>3, <1>4, <1>5, <1>6, <2>1, <2>2, PutInPlace, Zenon
<1>10. w[0] = none
  BY <1>6 DEF Builds
<1>11. Continues(r, w[q], t, q)
  <2>1. Continues(s, w[0], t, 0) /\ 0 <= j
    BY <1>1, <1>10
  <2>2. Fits(s, w[0], w[j], t, 0, j, match, new)
    BY <1>2, <1>7, <2>1, ReplacedContinues, Zenon
  <2>3. Len(w[0]) = 0
    BY <1>10
  <2>4. Len(w[0]) + (j - 0) = j
    BY <2>3
  <2>5. Continues(Replaced(s, Len(w[0]) + (j - 0), match, new), w[j] \o new, t, q)
    BY <2>2 DEF Fits, q, l
  <2> QED
    BY <1>9, <2>4, <2>5 DEF Joined, q
<1>12. r \in Strings /\ Text(r) = w[Len(t)]
  BY <1>8, <1>11, TextIsContinued, Zenon
<1> QED
  BY <1>6, <1>12 DEF t, l, P

(* The first match is replaced, if there is one.                              *)
LEMMA ReplacesFirst ==
  ASSUME NEW s \in Strings, NEW match \in Seq(Octets), NEW new \in Seq(Octets)
  PROVE  LET r == string_replace_data(s, match, new)
             found == Matches(Text(s), match)
         IN  /\ r \in Strings
             /\ Text(r) = With(Text(s), IF found = {} THEN {} ELSE {Min(found)}, Len(match), new)
<1> DEFINE t == Text(s)
           none == <<>>
           r == string_replace_data(s, match, new)
           found == Matches(t, match)
           F == Found(s, 0, match)
           first == IF found = {} THEN {} ELSE {Min(found)}
<1>1. /\ Continues(s, none, t, 0)
      /\ t \in Seq(Octets) /\ Len(t) = s.size /\ s.size \in Nat
  BY StartsWhole
<1> HIDE DEF t
<1>2. PICK e : Ends(e, t, match) /\ found = Taken(t, match, e)
  BY <1>1, MatchesAre DEF Taken
<1>3. found \in SUBSET Nat /\ \A i \in found : i \in 0..Len(t) /\ Begins(t, match, i)
  BY <1>2 DEF Taken
<1> HIDE DEF found
<1>4. /\ F = {} => \A i \in 0..Len(t) : ~Begins(t, match, i)
      /\ F # {} => \E j \in 0..Len(t) :
                     /\ Min(F) = j
                     /\ Begins(t, match, j) /\ \A i \in 0..j - 1 : ~Begins(t, match, i)
  <2>1. Finds(s, none, t, 0, match)
    BY <1>1, FindsFirst, Zenon
  <2>2. Len(none) = 0 /\ \A j \in 0..Len(t) : 0 + (j - 0) = j
    OBVIOUS
  <2> HIDE DEF none
  <2> QED
    BY <2>1, <2>2 DEF Finds
<1> HIDE DEF F
<1>5. CASE F = {}
  <2>1. r = s
    BY <1>5, Zenon DEF string_replace_data, F
  <2>2. found = {}
    BY <1>3, <1>4, <1>5
  <2> DEFINE P == {}
             l == Len(match)
  <2>3. P \in SUBSET Nat /\ l \in Nat /\ \A i : i \notin P
    OBVIOUS
  <2> HIDE DEF P
  <2>4. PICK w : Builds(w, t, P, l, new) /\ With(t, P, l, new) = w[Len(t)]
    <3> HIDE DEF l
    <3> QED
      BY <1>1, <2>3, WithIs
  <2>5. \A i \in 0 + 1..Len(t) : Untouched(P, l, i)
    BY <2>3 DEF Untouched
  <2>6. 0 \in 0..Len(t) /\ Len(t) \in 0..Len(t)
    BY <1>1
  <2>7. Grows(w[0], w[Len(t)], t, 0, Len(t))
    BY <1>1, <2>3, <2>4, <2>5, <2>6, Copied, Zenon
  <2>8. w[0] = none
    BY <2>4 DEF Builds
  <2>9. Continues(s, w[0], t, 0)
    BY <1>1, <2>8
  <2>10. Text(s) = w[Len(t)]
    BY <2>7, <2>9, TextIsContinued, Zenon
  <2>11. first = P
    BY <2>2 DEF P
  <2>12. r \in Strings /\ Text(r) = With(t, P, l, new)
    BY <2>1, <2>4, <2>10
  <2> QED
    BY <2>11, <2>12 DEF t, found
<1>6. CASE F # {}
  <2>1. PICK j \in 0..Len(t) : /\ Min(F) = j
                               /\ Begins(t, match, j) /\ \A i \in 0..j - 1 : ~Begins(t, match, i)
    BY <1>4, <1>6
  <2>2. r = Replaced(s, j, match, new)
    BY <1>6, <2>1, Zenon DEF string_replace_data, F
  <2>3. e[0] = 0 /\ 0 \in 0..Len(t) /\ 0 <= 0
    BY <1>1, <1>2 DEF Ends
  <2>4. e[0] <= 0
    BY <2>3
  <2>5. e[j] <= j
    BY <1>1, <1>2, <2>1, <2>3, <2>4, NextMatch
  <2>6. j \in found
    BY <1>2, <2>1, <2>5 DEF Taken
  <2>7. Min(found) \in found /\ Min(found) <= j
    BY <1>3, <2>6, LeastFound
  <2>8. Min(found) = j
    <3> DEFINE x == Min(found)
    <3>1. x \in 0..Len(t) /\ Begins(t, match, x) /\ x <= j
      BY <1>3, <2>7
    <3> HIDE DEF x
    <3>2. x \in Nat /\ j \in Nat
      BY <3>1
    <3>3. ~(x \in 0..j - 1)
      BY <2>1, <3>1
    <3>4. x = j
      BY <3>1, <3>2, <3>3
    <3> QED
      BY <3>4 DEF x
  <2>9. first = {j}
    BY <2>6, <2>8
  <2>10. Replaced(s, j, match, new) \in Strings
         /\ Text(Replaced(s, j, match, new)) = With(t, {j}, Len(match), new)
    <3>1. j \in Nat /\ Begins(Text(s), match, j)
      BY <2>1 DEF t
    <3> QED
      BY <3>1, ReplacesAt DEF t
  <2>11. r \in Strings /\ Text(r) = With(t, first, Len(match), new)
    BY <2>2, <2>9, <2>10
  <2> QED
    BY <2>11 DEF t, found
<1> QED
  BY <1>5, <1>6

LEMMA ReplacementsAreExact == ASSUME StringInv PROVE ReplacesExactly
<1> DEFINE t == Text(string)
<1>1. string \in Strings
  BY DEF StringInv
<1>2. ASSUME NEW s \in Strings, NEW u, Text(s) = u PROVE Holds(s, u)
  BY <1>2, StringsAre DEF Holds
<1>3. ASSUME NEW match \in Data, NEW new \in Data
      PROVE  LET found == Matches(t, match)
             IN  /\ Holds(string_replace_data(string, match, new),
                          With(t, IF found = {} THEN {} ELSE {Min(found)}, Len(match), new))
                 /\ Holds(string_replace_all_data(string, match, new),
                          With(t, found, Len(match), new))
  <2> DEFINE one == string_replace_data(string, match, new)
             all == string_replace_all_data(string, match, new)
             found == Matches(t, match)
  <2>1. match \in Seq(Octets) /\ new \in Seq(Octets)
    BY DataAre
  <2>2. /\ one \in Strings
        /\ Text(one) = With(t, IF found = {} THEN {} ELSE {Min(found)}, Len(match), new)
    BY <1>1, <2>1, ReplacesFirst
  <2>3. all \in Strings /\ Text(all) = With(t, found, Len(match), new)
    BY <1>1, <2>1, ReplacesEach
  <2> HIDE DEF one, all, found, t
  <2>4. Holds(one, With(t, IF found = {} THEN {} ELSE {Min(found)}, Len(match), new))
    BY <1>2, <2>2
  <2>5. Holds(all, With(t, found, Len(match), new))
    BY <1>2, <2>3
  <2> QED
    BY <2>4, <2>5 DEF one, all, found
<1> QED
  BY <1>3, Zenon DEF ReplacesExactly

-----------------------------------------------------------------------------
(* String: the theorems.                                                      *)

(* string_insert_data, string_erase_data and string_allocate change of a      *)
(* string what they name and nothing else, across reallocations of any        *)
(* length, string_replace_data and string_replace_all_data replace the        *)
(* matches that a search of the text as it was would find, and all leave a    *)
(* NUL behind it, for a string of any size and whatever came before: copies,  *)
(* loads, or characters that were made room for and never written.            *)
THEOREM StringEditsAreExact == StringSpec => []EditsAreExact
<1>1. ASSUME StringInv PROVE EditsExactly
  <2> DEFINE t == Text(string)
  <2>1. string \in Strings /\ string.size \in Nat
    BY <1>1, StringsAre DEF StringInv
  <2>2. /\ t \in Seq(Octets) /\ Len(t) = string.size
        /\ \A i \in 1..string.size : t[i] = string.mem[i]
    BY <2>1, TextIs
  <2> HIDE DEF t
  <2>3. ASSUME NEW s \in Strings, NEW u \in Seq(Octets), s.size = Len(u),
               \A i \in 1..Len(u) : s.mem[i] = u[i]
        PROVE  Holds(s, u)
    <3>1. s.mem[s.size + 1] = Nul
      BY StringsAre
    <3>2. /\ Text(s) \in Seq(Octets) /\ Len(Text(s)) = s.size
          /\ \A i \in 1..s.size : Text(s)[i] = s.mem[i]
      BY TextIs
    <3>3. Text(s) = u
      BY <2>3, <3>2, SameSequence
    <3> QED
      BY <3>1, <3>3 DEF Holds
  <2>4. ASSUME NEW at \in 0..Len(t), NEW block \in Data
        PROVE  Holds(string_insert_data(string, at, block),
                     SubSeq(t, 1, at) \o block \o SubSeq(t, at + 1, Len(t)))
    <3> DEFINE r == string_insert_data(string, at, block)
               l == Len(block)
               f == SubSeq(t, 1, at)
               b == SubSeq(t, at + 1, Len(t))
               fl == f \o block
               u == fl \o b
    <3>1. block \in Seq(Octets) /\ l \in Nat /\ at \in 0..string.size /\ at \in Nat
      BY <2>1, <2>2, DataAre
    <3>2. /\ r \in Strings /\ r.size = string.size + l
          /\ \A i \in 1..string.size + l :
               r.mem[i] = IF i <= at THEN string.mem[i]
                          ELSE IF i <= at + l THEN block[i - at] ELSE string.mem[i - l]
      BY <2>1, <3>1, InsertIs
    <3>3. f \in Seq(Octets) /\ Len(f) = at /\ \A i \in 1..at : f[i] = t[i]
      BY <2>2, FrontIs
    <3>4. b \in Seq(Octets) /\ Len(b) = Len(t) - at /\ \A i \in 1..Len(t) - at : b[i] = t[at + i]
      BY <2>2, BackIs
    <3> HIDE DEF r, f, b
    <3>5. /\ fl \in Seq(Octets) /\ Len(fl) = at + l
          /\ \A i \in 1..at + l : fl[i] = IF i <= at THEN f[i] ELSE block[i - at]
      BY <3>1, <3>3, JoinIs
    <3> HIDE DEF fl
    <3>6. /\ u \in Seq(Octets) /\ Len(u) = (at + l) + (Len(t) - at)
          /\ \A i \in 1..(at + l) + (Len(t) - at) :
               u[i] = IF i <= at + l THEN fl[i] ELSE b[i - (at + l)]
      <4>1. /\ u \in Seq(Octets) /\ Len(u) = Len(fl) + Len(b)
            /\ \A i \in 1..Len(fl) + Len(b) :
                 u[i] = IF i <= Len(fl) THEN fl[i] ELSE b[i - Len(fl)]
        BY <3>4, <3>5, JoinIs, Zenon
      <4>2. Len(fl) = at + l /\ Len(b) = Len(t) - at
        BY <3>4, <3>5
      <4> HIDE DEF u
      <4> QED
        BY <4>1, <4>2
    <3> HIDE DEF u, l
    <3>7. Len(u) = string.size + l
      BY <2>1, <2>2, <3>1, <3>6
    <3>8. ASSUME NEW i \in 1..Len(u) PROVE r.mem[i] = u[i]
      <4>1. i \in 1..string.size + l /\ i \in 1..(at + l) + (Len(t) - at)
        BY <3>6, <3>7
      <4>2. CASE i <= at
        <5>1. i \in 1..at /\ i <= at + l /\ i \in 1..at + l /\ i \in 1..string.size
          BY <2>1, <2>2, <3>1, <4>1, <4>2
        <5>2. u[i] = t[i]
          BY <3>3, <3>5, <3>6, <4>1, <4>2, <5>1
        <5> QED
          BY <2>2, <3>2, <4>1, <4>2, <5>1, <5>2
      <4>3. CASE ~(i <= at) /\ i <= at + l
        <5>1. i \in 1..at + l
          BY <3>1, <4>3
        <5>2. u[i] = block[i - at]
          BY <3>5, <3>6, <4>1, <4>3, <5>1
        <5> QED
          BY <3>2, <4>1, <4>3, <5>2
      <4>4. CASE ~(i <= at) /\ ~(i <= at + l)
        <5>1. /\ i - (at + l) \in 1..Len(t) - at /\ at + (i - (at + l)) = i - l
              /\ i - l \in 1..string.size
          BY <2>1, <2>2, <3>1, <3>7, <4>4, SMTT(60)
        <5>2. u[i] = t[i - l]
          BY <3>4, <3>6, <4>1, <4>4, <5>1
        <5> QED
          BY <2>2, <3>2, <4>1, <4>4, <5>1, <5>2
      <4> QED
        BY <4>2, <4>3, <4>4
    <3>9. Holds(r, u)
      BY <2>3, <3>2, <3>6, <3>7, <3>8
    <3> QED
      BY <3>9 DEF r, u, fl, f, b
  <2>5. ASSUME NEW at \in 0..Len(t), NEW n \in 0..Len(t) - at
        PROVE  Holds(string_erase_data(string, at, n),
                     SubSeq(t, 1, at) \o SubSeq(t, at + n + 1, Len(t)))
    <3> DEFINE r == string_erase_data(string, at, n)
               f == SubSeq(t, 1, at)
               b == SubSeq(t, (at + n) + 1, Len(t))
               u == f \o b
    <3>1. /\ at \in 0..string.size /\ n \in 0..string.size /\ at + n <= string.size
          /\ at \in Nat /\ n \in Nat /\ at + n \in 0..Len(t)
      BY <2>1, <2>2
    <3>2. /\ r \in Strings /\ r.size = string.size - n
          /\ \A i \in 1..string.size - n :
               r.mem[i] = IF i <= at THEN string.mem[i] ELSE string.mem[i + n]
      BY <2>1, <3>1, EraseIs
    <3>3. f \in Seq(Octets) /\ Len(f) = at /\ \A i \in 1..at : f[i] = t[i]
      BY <2>2, FrontIs
    <3>4. /\ b \in Seq(Octets) /\ Len(b) = Len(t) - (at + n)
          /\ \A i \in 1..Len(t) - (at + n) : b[i] = t[(at + n) + i]
      BY <2>2, <3>1, BackIs
    <3> HIDE DEF r, f, b
    <3>5. /\ u \in Seq(Octets) /\ Len(u) = at + (Len(t) - (at + n))
          /\ \A i \in 1..at + (Len(t) - (at + n)) :
               u[i] = IF i <= at THEN f[i] ELSE b[i - at]
      BY <3>3, <3>4, JoinIs
    <3> HIDE DEF u
    <3>6. Len(u) = string.size - n
      BY <2>1, <2>2, <3>1, <3>5
    <3>7. ASSUME NEW i \in 1..Len(u) PROVE r.mem[i] = u[i]
      <4>1. i \in 1..string.size - n /\ i \in 1..at + (Len(t) - (at + n))
        BY <3>5, <3>6
      <4>2. CASE i <= at
        <5>1. i \in 1..at /\ i \in 1..string.size
          BY <2>1, <2>2, <3>1, <4>1, <4>2
        <5>2. u[i] = t[i]
          BY <3>3, <3>5, <4>1, <4>2, <5>1
        <5> QED
          BY <2>2, <3>2, <4>1, <4>2, <5>1, <5>2
      <4>3. CASE ~(i <= at)
        <5>1. /\ i - at \in 1..Len(t) - (at + n) /\ (at + n) + (i - at) = i + n
              /\ i + n \in 1..string.size
          BY <2>1, <2>2, <3>1, <3>6, <4>3
        <5>2. u[i] = t[i + n]
          BY <3>4, <3>5, <4>1, <4>3, <5>1
        <5> QED
          BY <2>2, <3>2, <4>1, <4>3, <5>1, <5>2
      <4> QED
        BY <4>2, <4>3
    <3>8. Holds(r, u)
      BY <2>3, <3>2, <3>5, <3>6, <3>7
    <3> QED
      BY <3>8 DEF r, u, f, b
  <2>6. ASSUME NEW n \in 0..MaxSize PROVE Holds(string_allocate(string, n), t)
    <3> DEFINE r == string_allocate(string, n)
    <3>1. n \in Nat
      BY SizesFit
    <3>2. /\ r \in Strings /\ r.size = string.size
          /\ \A i \in 1..string.size + 1 : r.mem[i] = string.mem[i]
      BY <2>1, <3>1, AllocateIs
    <3> HIDE DEF r
    <3>3. \A i \in 1..Len(t) : r.mem[i] = t[i]
      BY <2>1, <2>2, <3>2
    <3>4. Holds(r, t)
      BY <2>2, <2>3, <3>2, <3>3
    <3> QED
      BY <3>4 DEF r
  <2> QED
    BY <2>4, <2>5, <2>6, Zenon DEF EditsExactly, t
<1>2. ASSUME StringInv PROVE EditsAreExact
  BY <1>1, <1>2, ReplacementsAreExact DEF EditsAreExact
<1> QED
  BY <1>2, StringInvInvariant, PTL

(* What string_save has written is what the string begins with, whatever its  *)
(* size and the parts that the writes take: as string_write subtracts them    *)
(* from its offset, it ends after the first one, and what that did not take   *)
(* is not written.                                                            *)
THEOREM StringSavedInOrder == StringSpec => []SavedInOrder
<1>1. ASSUME StringInv PROVE SavedInOrder
  <2> SUFFICES ASSUME ~Idle
               PROVE  /\ IsPrefix(file, Text(string))
                      /\ offset >= string.size => file = Text(string) \/ short
    BY DEF SavedInOrder
  <2> DEFINE t == Text(string)
  <2>1. string.size \in Nat /\ t \in Seq(Octets) /\ Len(t) = string.size
    BY <1>1, StringsAre, TextIs DEF StringInv
  <2>2. CASE offset = 0 /\ file = <<>>
    <3> DEFINE none == <<>>
    <3>1. none \in Seq(Octets) /\ Len(none) = 0
      OBVIOUS
    <3> HIDE DEF none, t
    <3>2. 0 \in 0..Len(none) /\ 0 \in 0..Len(t)
      BY <2>1, <3>1
    <3>3. SubSeq(none, 1, 0) \in Seq(Octets) /\ Len(SubSeq(none, 1, 0)) = 0
      BY <3>1, <3>2, FrontIs
    <3>4. SubSeq(t, 1, 0) \in Seq(Octets) /\ Len(SubSeq(t, 1, 0)) = 0
      BY <2>1, <3>2, FrontIs
    <3>5. SubSeq(none, 1, 0) = SubSeq(t, 1, 0)
      BY <3>3, <3>4, SameSequence
    <3>6. IsPrefix(none, t)
      BY <2>1, <3>1, <3>5 DEF IsPrefix
    <3>7. offset >= string.size => none = t
      <4> SUFFICES ASSUME offset >= string.size PROVE none = t
        OBVIOUS
      <4>1. Len(t) = 0
        BY <2>1, <2>2
      <4> QED
        BY <2>1, <3>1, <4>1, SameSequence
    <3>8. file = none
      BY <2>2 DEF none
    <3> QED
      BY <3>6, <3>7, <3>8, Zenon DEF t
  <2> QED
    BY <1>1, <2>2, Zenon DEF StringInv
<1> QED
  BY <1>1, StringInvInvariant, PTL

-----------------------------------------------------------------------------
(* Vector: objects and their bytes.                                           *)

LEMMA Scaled ==
  ASSUME NEW s \in Nat, NEW k \in Nat, NEW n \in Nat
  PROVE  /\ k * s \in Nat /\ (k + n) * s = k * s + n * s
         /\ k <= n => k * s <= n * s
         /\ s > 0 => (k * s) \div s = k
         /\ s > 0 /\ k < n => k * s + s <= n * s
         /\ k <= n => (n - k) * s = n * s - k * s
OBVIOUS

(* Where the bytes of an object are.                                          *)
LEMMA Place ==
  ASSUME NEW s \in Nat \ {0}, NEW k \in Nat \ {0}, NEW i \in 1..s
  PROVE  /\ (k - 1) * s + i \in Nat \ {0} /\ (k - 1) * s \in Nat
         /\ (k - 1) * s + s = k * s
         /\ (k - 1) * s + i > (k - 1) * s /\ (k - 1) * s + i <= k * s
         /\ \A n \in Nat : /\ k <= n => (k - 1) * s + i <= n * s
                           /\ k > n => (k - 1) * s + i > n * s
                           /\ k > n => (k - 1) * s + i - n * s = ((k - n) - 1) * s + i
<1> DEFINE m == k - 1
<1>1. m \in Nat /\ k = m + 1 /\ s \in Nat
  OBVIOUS
<1>2. m * s \in Nat /\ 1 * s = s /\ (m + 1) * s = m * s + 1 * s
  BY <1>1, Scaled
<1>3. \A n \in Nat : /\ k <= n => k * s <= n * s
                     /\ n <= m => n * s <= m * s
                     /\ n <= m => (m - n) * s = m * s - n * s
                     /\ n * s \in Nat
  BY <1>1, Scaled
<1> DEFINE ms == m * s
           ks == k * s
<1>4. ms \in Nat /\ ks = ms + s /\ ks \in Nat
  BY <1>1, <1>2
<1>5. ASSUME NEW n \in Nat
      PROVE  /\ k <= n => ms + i <= n * s
             /\ k > n => ms + i > n * s
             /\ k > n => ms + i - n * s = ((k - n) - 1) * s + i
  <2>1. n * s \in Nat /\ (k <= n => ks <= n * s) /\ (n <= m => n * s <= ms)
        /\ (n <= m => (m - n) * s = ms - n * s)
    BY <1>3
  <2>2. k > n => n <= m /\ (k - n) - 1 = m - n
    BY <1>1
  <2>3. k <= n \/ k > n
    BY <1>1
  <2> DEFINE ns == n * s
             x == (m - n) * s
             y == ((k - n) - 1) * s
  <2>4. k > n => y = x
    BY <2>2
  <2> HIDE DEF ms, ks, m, ns, x, y
  <2>5. ns \in Nat /\ (k <= n => ks <= ns) /\ (n <= m => ns <= ms) /\ (n <= m => x = ms - ns)
    BY <2>1 DEF ns, x
  <2>6. k <= n => ms + i <= ns
    BY <1>4, <2>5
  <2>7. k > n => ms + i > ns
    BY <1>4, <2>2, <2>5
  <2>8. k > n => ms + i - ns = y + i
    BY <1>4, <2>2, <2>4, <2>5
  <2> QED
    BY <2>6, <2>7, <2>8 DEF ns, y
<1> HIDE DEF ms, ks
<1>6. ms + i \in Nat \ {0} /\ ms + s = ks /\ ms + i > ms /\ ms + i <= ks
  BY <1>4
<1> QED
  BY <1>4, <1>5, <1>6 DEF ms, ks, m

(* Bytes that are those of the objects in a row.                              *)
Packs(mem, s, row) ==
  \A k \in 1..Len(row) : \A i \in 1..s : mem[(k - 1) * s + i] = <<row[k], i>>

Represents(b, s, row) ==
  /\ b \in [data : Seq(Octets), size : Nat]
  /\ row \in Seq(Objects)
  /\ b.size = Len(row) * s /\ b.size <= Len(b.data)
  /\ Packs(b.data, s, row)

ObjectBytes(o, s) == [i \in 1..s |-> <<o, i>>]

ObjectAt(b, s, position) ==
  LET bytes == Read(b.data, position * s, s)
  IN  IF \E o \in Objects : bytes = ObjectBytes(o, s)
      THEN CHOOSE o \in Objects : bytes = ObjectBytes(o, s) ELSE Junk

RowFrom(b, s, first, last) == [i \in 1..last - first |-> ObjectAt(b, s, first + i - 1)]

LEMMA ObjectIs ==
  ASSUME NEW s \in Nat \ {0}, NEW o \in Objects
  PROVE  /\ ObjectBytes(o, s) \in Seq(Octets) /\ Len(ObjectBytes(o, s)) = s
         /\ \A i \in 1..s : ObjectBytes(o, s)[i] = <<o, i>>
<1>1. ObjectBytes(o, s) \in [1..s -> Octets]
  BY DEF ObjectBytes, Octets
<1>2. \A i \in 1..s : ObjectBytes(o, s)[i] = <<o, i>>
  BY DEF ObjectBytes
<1> QED
  BY <1>1, <1>2, IsSequence

LEMMA ObjectAtIs ==
  ASSUME NEW b, NEW s \in Nat \ {0}, NEW row, Represents(b, s, row), NEW k \in 1..Len(row)
  PROVE  ObjectAt(b, s, k - 1) = row[k]
<1>1. /\ b.data \in Seq(Octets) /\ row \in Seq(Objects) /\ Len(row) \in Nat
      /\ Len(row) * s <= Len(b.data) /\ Len(b.data) \in Nat
      /\ \A i \in 1..s : b.data[(k - 1) * s + i] = <<row[k], i>>
  <2>1. /\ b \in [data : Seq(Octets), size : Nat] /\ row \in Seq(Objects)
        /\ b.size = Len(row) * s /\ b.size <= Len(b.data)
    BY Zenon DEF Represents
  <2>2. b.data \in Seq(Octets) /\ Len(row) \in Nat
    BY <2>1
  <2>3. Len(b.data) \in Nat
    BY <2>2
  <2>4. \A i \in 1..s : b.data[(k - 1) * s + i] = <<row[k], i>>
    BY Zenon DEF Represents, Packs
  <2> QED
    BY <2>1, <2>2, <2>3, <2>4, Zenon
<1>2. row[k] \in Objects
  BY <1>1
<1> DEFINE o == row[k]
           from == (k - 1) * s
           bytes == Read(b.data, from, s)
<1>3. from \in Nat /\ from + s <= Len(b.data)
  <2>1. k \in Nat \ {0} /\ k <= Len(row) /\ s \in 1..s
    BY <1>1
  <2>2. (k - 1) * s \in Nat /\ (k - 1) * s + s <= Len(row) * s
    BY <1>1, <2>1, Place
  <2>3. Len(row) * s \in Nat
    BY <1>1, Scaled
  <2> DEFINE n == Len(row) * s
  <2> HIDE DEF from, n
  <2>4. from \in Nat /\ from + s <= n /\ n <= Len(b.data) /\ n \in Nat
    BY <1>1, <2>2, <2>3 DEF from, n
  <2> QED
    BY <1>1, <2>4
<1>4. \A i \in 1..s : b.data[from + i] = <<o, i>>
  BY <1>1
<1> HIDE DEF from, o
<1>5. /\ bytes \in Seq(Octets) /\ Len(bytes) = s
      /\ \A i \in 1..s : from + i <= Len(b.data) => bytes[i] = b.data[from + i]
  BY <1>1, <1>3, ReadIs
<1> HIDE DEF bytes
<1>6. \A i \in 1..s : from + i <= Len(b.data)
  BY <1>1, <1>3
<1>7. /\ ObjectBytes(o, s) \in Seq(Octets) /\ Len(ObjectBytes(o, s)) = s
      /\ \A i \in 1..s : ObjectBytes(o, s)[i] = <<o, i>>
  BY <1>2, ObjectIs DEF o
<1>8. bytes = ObjectBytes(o, s)
  <2>1. \A i \in 1..s : bytes[i] = ObjectBytes(o, s)[i]
    BY <1>4, <1>5, <1>6, <1>7
  <2> QED
    BY <1>5, <1>7, <2>1, SameSequence
<1>9. ASSUME NEW q \in Objects, bytes = ObjectBytes(q, s) PROVE q = o
  <2>1. 1 \in 1..s
    OBVIOUS
  <2>2. ObjectBytes(q, s)[1] = <<q, 1>> /\ ObjectBytes(o, s)[1] = <<o, 1>>
    BY <1>2, <2>1, ObjectIs DEF o
  <2>3. <<q, 1>> = <<o, 1>>
    BY <1>8, <1>9, <2>2
  <2> QED
    BY <2>3
<1>10. o \in Objects
  BY <1>2 DEF o
<1>11. (CHOOSE q \in Objects : bytes = ObjectBytes(q, s)) = o
  BY <1>8, <1>9, <1>10, Zenon
<1>12. \E q \in Objects : bytes = ObjectBytes(q, s)
  BY <1>8, <1>10
<1>13. ObjectAt(b, s, k - 1) = o
  BY <1>11, <1>12, Zenon DEF ObjectAt, bytes, from
<1> QED
  BY <1>13 DEF o

Reads(b, s, first, last, part) == RowFrom(b, s, first, last) = part

LEMMA RowFromIs ==
  ASSUME NEW b, NEW s \in Nat \ {0}, NEW row, Represents(b, s, row),
         NEW first \in Nat, NEW last \in Nat, first <= last, last <= Len(row)
  PROVE  Reads(b, s, first, last, SubSeq(row, first + 1, last))
<1>1. row \in Seq(Objects) /\ Len(row) \in Nat
  BY DEF Represents
<1> DEFINE r == RowFrom(b, s, first, last)
           p == SubSeq(row, first + 1, last)
<1>2. /\ p \in Seq(Objects) /\ Len(p) = last - first
      /\ \A i \in 1..last - first : p[i] = row[first + i]
  <2>1. \A i \in first + 1..last : i \in 1..Len(row)
    BY <1>1
  <2>2. first + 1 \in Int /\ last \in Int
    OBVIOUS
  <2>3. /\ p \in Seq(Objects) /\ Len(p) = IF first + 1 <= last THEN last - (first + 1) + 1 ELSE 0
        /\ \A i \in 1..last - (first + 1) + 1 : p[i] = row[(first + 1) + i - 1]
    BY <1>1, <2>1, <2>2, SubSeqProperties
  <2>4. /\ last - (first + 1) + 1 = last - first
        /\ (~(first + 1 <= last) => last - first = 0)
        /\ \A i \in 1..last - first : (first + 1) + i - 1 = first + i
    OBVIOUS
  <2> HIDE DEF p
  <2>5. Len(p) = last - first
    BY <2>3, <2>4
  <2>6. ASSUME NEW i \in 1..last - first PROVE p[i] = row[first + i]
    BY <2>3, <2>4
  <2> QED
    BY <2>3, <2>5, <2>6
<1> HIDE DEF p
<1>3. ASSUME NEW i \in 1..last - first PROVE ObjectAt(b, s, first + i - 1) = row[first + i]
  <2>1. first + i \in 1..Len(row) /\ (first + i) - 1 = first + i - 1
    BY <1>1
  <2>2. ObjectAt(b, s, (first + i) - 1) = row[first + i]
    BY <2>1, ObjectAtIs
  <2> QED
    BY <2>1, <2>2
<1>4. \A i \in 1..last - first : row[first + i] \in Objects
  <2>1. \A i \in 1..last - first : first + i \in 1..Len(row)
    BY <1>1
  <2> QED
    BY <1>1, <2>1
<1>5. r \in [1..last - first -> Objects] /\ \A i \in 1..last - first : r[i] = row[first + i]
  BY <1>3, <1>4 DEF RowFrom
<1> HIDE DEF r
<1>6. last - first \in Nat
  OBVIOUS
<1>7. r \in Seq(Objects) /\ Len(r) = last - first
  BY <1>5, <1>6, IsSequence
<1>8. \A i \in 1..Len(r) : r[i] = p[i]
  BY <1>2, <1>5, <1>7
<1>9. r = p
  BY <1>2, <1>7, <1>8, SameSequence
<1> QED
  BY <1>9 DEF Reads, r, p

LEMMA RepresentsIs ==
  ASSUME NEW b, NEW s \in Nat \ {0}, NEW row, Represents(b, s, row)
  PROVE  /\ b \in [data : Seq(Octets), size : Nat]
         /\ b.data \in Seq(Octets) /\ Len(b.data) \in Nat /\ b.size \in Nat
         /\ row \in Seq(Objects) /\ Len(row) \in Nat
         /\ b.size = Len(row) * s /\ b.size <= Len(b.data)
<1>1. /\ b \in [data : Seq(Octets), size : Nat] /\ row \in Seq(Objects)
      /\ b.size = Len(row) * s /\ b.size <= Len(b.data)
  BY Zenon DEF Represents
<1>2. b.data \in Seq(Octets) /\ Len(row) \in Nat /\ b.size \in Nat
  BY <1>1
<1>3. Len(b.data) \in Nat
  BY <1>2
<1> QED
  BY <1>1, <1>2, <1>3, Zenon

(* Those bytes in other memory.                                               *)
LEMMA RepresentsToo ==
  ASSUME NEW b, NEW s \in Nat \ {0}, NEW row, Represents(b, s, row),
         NEW mem \in Seq(Octets), b.size <= Len(mem),
         \A j \in 1..b.size : mem[j] = b.data[j]
  PROVE  Represents([b EXCEPT !.data = mem], s, row)
<1> DEFINE r == [b EXCEPT !.data = mem]
<1>1. /\ b \in [data : Seq(Octets), size : Nat]
      /\ row \in Seq(Objects) /\ Len(row) \in Nat /\ b.size = Len(row) * s /\ b.size \in Nat
  BY RepresentsIs
<1>2. r \in [data : Seq(Octets), size : Nat] /\ r.data = mem /\ r.size = b.size
  BY <1>1
<1> HIDE DEF r
<1>3. ASSUME NEW k \in 1..Len(row), NEW i \in 1..s
      PROVE  mem[(k - 1) * s + i] = <<row[k], i>>
  <2>1. k \in Nat \ {0} /\ k <= Len(row)
    BY <1>1
  <2>2. (k - 1) * s + i \in Nat \ {0} /\ (k - 1) * s + i <= Len(row) * s
    BY <1>1, <2>1, Place
  <2>3. (k - 1) * s + i \in 1..b.size
    BY <1>1, <2>2
  <2>4. b.data[(k - 1) * s + i] = <<row[k], i>>
    BY Zenon DEF Represents, Packs
  <2> QED
    BY <2>3, <2>4
<1>4. Packs(mem, s, row)
  BY <1>3, Zenon DEF Packs
<1>5. Represents(r, s, row)
  BY <1>1, <1>2, <1>4 DEF Represents
<1> QED
  BY <1>5 DEF r

LEMMA BufferRoundupIs ==
  ASSUME NEW size \in Nat
  PROVE  buffer_roundup(size) \in Nat /\ buffer_roundup(size) >= size
<1> DEFINE K == {k \in 0..size : 2 ^ k >= size}
           P == {2 ^ k : k \in K}
<1>1. \A k \in Nat : 2 ^ k \in Nat /\ 2 ^ (k + 1) = 2 * 2 ^ k
  BY Doubled
<1>2. \A k \in Nat : 2 ^ k >= k + 1
  <2> DEFINE N == {k \in Nat : 2 ^ k >= k + 1}
  <2>1. 0 \in N
    BY PowersOfTwo
  <2>2. ASSUME NEW k \in N PROVE k + 1 \in N
    <3>1. k \in Nat /\ 2 ^ k >= k + 1 /\ 2 ^ k \in Nat /\ 2 ^ (k + 1) = 2 * 2 ^ k
      BY <1>1
    <3> QED
      BY <3>1
  <2>3. N \in SUBSET Nat
    OBVIOUS
  <2> HIDE DEF N
  <2>4. N = Nat
    BY <2>1, <2>2, <2>3, Induction
  <2> QED
    BY <2>4 DEF N
<1>3. size \in K
  BY <1>1, <1>2
<1>4. 2 ^ size \in P
  BY <1>3
<1>5. \A x \in P : x \in Nat /\ x >= size
  BY <1>1
<1>6. buffer_roundup(size) = CHOOSE x \in P : \A y \in P : x =< y
  BY Zenon DEF buffer_roundup, Min
<1> HIDE DEF K, P
<1>7. P \in SUBSET Nat /\ P # {}
  BY <1>4, <1>5
<1>8. \E x \in P : \A y \in P : x =< y
  BY <1>7, LeastOf
<1>9. buffer_roundup(size) \in P
  BY <1>6, <1>8, Zenon
<1> QED
  BY <1>5, <1>9

LEMMA ReserveIs ==
  ASSUME NEW b, NEW s \in Nat \ {0}, NEW row, Represents(b, s, row), NEW n \in Nat
  PROVE  LET r == buffer_reserve(b, n)
         IN  Represents(r, s, row) /\ n <= Len(r.data) /\ r.size = b.size
<1> DEFINE r == buffer_reserve(b, n)
<1>1. /\ b \in [data : Seq(Octets), size : Nat]
      /\ b.data \in Seq(Octets) /\ Len(b.data) \in Nat /\ b.size \in Nat /\ b.size <= Len(b.data)
  BY RepresentsIs
<1>2. CASE n > Len(b.data)
  <2> DEFINE m == buffer_roundup(n)
             mem == realloc(b.data, m)
  <2>1. m \in Nat /\ m >= n
    BY BufferRoundupIs
  <2>2. r = [b EXCEPT !.data = mem]
    BY <1>2 DEF buffer_reserve, buffer_capacity
  <2> HIDE DEF m
  <2>3. mem \in Seq(Octets) /\ Len(mem) = m /\ \A i \in 1..m : i <= Len(b.data) => mem[i] = b.data[i]
    BY <1>1, <2>1, ReallocIs
  <2> HIDE DEF mem, r
  <2>4. b.size <= Len(mem) /\ \A j \in 1..b.size : mem[j] = b.data[j]
    BY <1>1, <1>2, <2>1, <2>3
  <2>5. Represents(r, s, row)
    BY <2>2, <2>3, <2>4, RepresentsToo
  <2>6. r.data = mem /\ r.size = b.size
    BY <1>1, <2>2
  <2> QED
    BY <2>1, <2>3, <2>5, <2>6 DEF r
<1>3. CASE ~(n > Len(b.data))
  <2>1. r = b
    BY <1>3 DEF buffer_reserve, buffer_capacity
  <2> QED
    BY <1>1, <1>3, <2>1
<1> QED
  BY <1>2, <1>3

LEMMA CompactIs ==
  ASSUME NEW b, NEW s \in Nat \ {0}, NEW row, Represents(b, s, row)
  PROVE  Represents(buffer_compact(b), s, row)
<1>1. /\ b \in [data : Seq(Octets), size : Nat]
      /\ b.data \in Seq(Octets) /\ Len(b.data) \in Nat /\ b.size \in Nat /\ b.size <= Len(b.data)
  BY RepresentsIs
<1> DEFINE mem == realloc(b.data, b.size)
<1>2. /\ mem \in Seq(Octets) /\ Len(mem) = b.size
      /\ \A i \in 1..b.size : i <= Len(b.data) => mem[i] = b.data[i]
  BY <1>1, ReallocIs
<1> HIDE DEF mem
<1>3. b.size <= Len(mem) /\ \A j \in 1..b.size : mem[j] = b.data[j]
  BY <1>1, <1>2
<1>4. Represents([b EXCEPT !.data = mem], s, row)
  BY <1>2, <1>3, RepresentsToo
<1> QED
  BY <1>4 DEF buffer_compact, mem

(* The bytes of objects, one object behind the other.                         *)
LEMMA FlatIs ==
  ASSUME NEW s \in Nat \ {0}, NEW row \in Seq(Objects),
         NEW ss, ss = [i \in 1..Len(row) |-> ObjectBytes(row[i], s)]
  PROVE  /\ FlattenSeq(ss) \in Seq(Octets) /\ Len(FlattenSeq(ss)) = Len(row) * s
         /\ Packs(FlattenSeq(ss), s, row)
<1> DEFINE n == Len(row)
<1>1. n \in Nat /\ \A i \in 1..n : row[i] \in Objects
  OBVIOUS
<1>2. ASSUME NEW i \in 1..n
      PROVE  /\ ss[i] \in Seq(Octets) /\ Len(ss[i]) = s
             /\ \A j \in 1..s : ss[i][j] = <<row[i], j>>
  <2>1. ss[i] = ObjectBytes(row[i], s)
    OBVIOUS
  <2> QED
    BY <1>1, <2>1, ObjectIs
<1>3. ss = [i \in 1..n |-> ss[i]]
  OBVIOUS
<1> HIDE DEF n
<1>4. ss \in [1..n -> Seq(Octets)]
  BY <1>2, <1>3
<1>5. CASE n = 0
  <2>1. Len(ss) = 0 /\ ss \in Seq(Octets)
    BY <1>4, <1>5
  <2>2. FlattenSeq(ss) = ss
    BY <2>1, Zenon DEF FlattenSeq
  <2>3. n * s = 0
    BY <1>5
  <2>4. Packs(ss, s, row)
    BY <1>5 DEF Packs, n
  <2> QED
    BY <2>1, <2>2, <2>3, <2>4 DEF n
<1>6. CASE n # 0
  <2>1. n \in Nat \ {0}
    BY <1>1, <1>6
  <2>2. PICK f \in [1..n -> Seq(Octets)] :
          /\ FlattenSeq(ss) = f[n] /\ f[1] = ss[1]
          /\ \A i \in 1..n : i # 1 => f[i] = f[i - 1] \o ss[i]
    <3>1. \A m \in Nat \ {0} : \A tt \in [1..m -> Seq(Octets)] :
            \E f \in [1..m -> Seq(Octets)] :
              /\ FlattenSeq(tt) = f[m] /\ f[1] = tt[1]
              /\ \A i \in 1..m : i # 1 => f[i] = f[i - 1] \o tt[i]
      BY FlattenIs
    <3> QED
      BY <1>4, <2>1, <3>1, Zenon
  <2> DEFINE Good(m) == /\ Len(f[m]) = m * s
                        /\ \A k \in 1..m : \A i \in 1..s : f[m][(k - 1) * s + i] = <<row[k], i>>
             N == {m \in Nat : m + 1 <= n => Good(m + 1)}
  <2>3. 0 \in N
    <3>1. 1 \in 1..n /\ 0 + 1 = 1 /\ 1 * s = s /\ s \in Nat
      BY <2>1
    <3>2. Len(f[1]) = 1 * s /\ \A i \in 1..s : f[1][i] = <<row[1], i>>
      BY <1>2, <2>2, <3>1
    <3>3. \A i \in 1..s : (1 - 1) * s + i = i
      OBVIOUS
    <3>4. Good(1)
      <4>1. \A k \in 1..1 : k = 1
        OBVIOUS
      <4> QED
        BY <3>2, <3>3, <4>1
    <3> HIDE DEF Good
    <3> QED
      BY <3>1, <3>4
  <2>4. ASSUME NEW m \in N PROVE m + 1 \in N
    <3>0. m \in Nat
      OBVIOUS
    <3>1. CASE (m + 1) + 1 <= n
      <4> DEFINE l == m + 1
      <4>1. /\ l \in Nat \ {0} /\ l + 1 \in 1..n /\ l \in 1..n /\ (l + 1) - 1 = l /\ l <= n
            /\ l + 1 # 1
        BY <1>1, <3>0, <3>1
      <4>2. Good(l)
        BY <4>1
      <4> HIDE DEF l
      <4>3. f[l + 1] = f[l] \o ss[l + 1]
        BY <2>2, <4>1
      <4>4. /\ f[l] \in Seq(Octets) /\ Len(f[l]) = l * s
            /\ ss[l + 1] \in Seq(Octets) /\ Len(ss[l + 1]) = s
            /\ \A j \in 1..s : ss[l + 1][j] = <<row[l + 1], j>>
        BY <1>2, <4>1, <4>2
      <4> DEFINE u == f[l + 1]
                 ls == l * s
      <4>5. /\ u \in Seq(Octets) /\ Len(u) = ls + s
            /\ \A i \in 1..ls + s : u[i] = IF i <= ls THEN f[l][i] ELSE ss[l + 1][i - ls]
        <5> DEFINE x == f[l]
                   y == ss[l + 1]
        <5>1. x \in Seq(Octets) /\ Len(x) = ls /\ y \in Seq(Octets) /\ Len(y) = s /\ u = x \o y
          BY <4>3, <4>4
        <5> HIDE DEF x, y, u, ls
        <5>2. /\ u \in Seq(Octets) /\ Len(u) = Len(x) + Len(y)
              /\ \A i \in 1..Len(x) + Len(y) :
                   u[i] = IF i <= Len(x) THEN x[i] ELSE y[i - Len(x)]
          BY <5>1, JoinIs, ZenonT(60)
        <5>3. /\ u \in Seq(Octets) /\ Len(u) = ls + s
              /\ \A i \in 1..ls + s : u[i] = IF i <= ls THEN x[i] ELSE y[i - ls]
          BY <5>1, <5>2
        <5> QED
          BY <5>3 DEF x, y
      <4> HIDE DEF u
      <4>6. (l + 1) * s = ls + s /\ ls \in Nat
        BY <4>1, Scaled
      <4>7. ASSUME NEW k \in 1..l + 1, NEW i \in 1..s
            PROVE  u[(k - 1) * s + i] = <<row[k], i>>
        <5> DEFINE j == (k - 1) * s + i
        <5>1. k \in Nat \ {0} /\ l \in Nat /\ l + 1 \in Nat /\ k <= l + 1
          BY <4>1
        <5>2. j \in Nat \ {0} /\ j <= (l + 1) * s /\ (k <= l => j <= l * s)
              /\ (k > l => j > l * s)
              /\ (k > l => j - l * s = ((k - l) - 1) * s + i)
          BY <5>1, Place
        <5>3. CASE k <= l
          <6>1. k \in 1..l
            BY <5>1, <5>3
          <6>2. f[l][j] = <<row[k], i>>
            BY <4>2, <6>1
          <6> HIDE DEF j, ls
          <6>3. j \in 1..ls + s /\ j <= ls
            BY <4>6, <5>2, <5>3 DEF ls
          <6> QED
            BY <4>5, <6>2, <6>3 DEF j
        <5>4. CASE k > l
          <6>1. k = l + 1 /\ ((k - l) - 1) * s + i = i
            <7>1. k = l + 1 /\ (k - l) - 1 = 0
              BY <5>1, <5>4
            <7> QED
              BY <7>1
          <6> HIDE DEF j, ls
          <6>2. j \in 1..ls + s /\ ~(j <= ls) /\ j - ls = i
            BY <4>6, <5>2, <5>4, <6>1 DEF ls
          <6>3. u[j] = ss[l + 1][i]
            BY <4>5, <6>2
          <6> QED
            BY <4>4, <6>1, <6>3 DEF j
        <5> QED
          BY <5>1, <5>3, <5>4
      <4>8. Good(l + 1)
        <5>1. Len(u) = (l + 1) * s
          BY <4>5, <4>6
        <5> QED
          BY <4>7, <5>1, Zenon DEF u
      <4> HIDE DEF Good
      <4> QED
        BY <3>0, <4>8 DEF l
    <3>2. CASE ~((m + 1) + 1 <= n)
      BY <3>0, <3>2
    <3> QED
      BY <3>1, <3>2
  <2>5. N \in SUBSET Nat
    OBVIOUS
  <2> HIDE DEF N
  <2>6. N = Nat
    BY <2>3, <2>4, <2>5, Induction
  <2>7. Good(n)
    <3> HIDE DEF Good
    <3>1. n - 1 \in N /\ (n - 1) + 1 = n /\ n <= n
      BY <2>1, <2>6
    <3> QED
      BY <3>1 DEF N
  <2>8. f[n] \in Seq(Octets)
    BY <2>1, <2>2
  <2>9. Packs(FlattenSeq(ss), s, row)
    BY <2>2, <2>7, Zenon DEF Packs, n
  <2> QED
    BY <2>2, <2>7, <2>8, <2>9, Zenon DEF n
<1> QED
  BY <1>5, <1>6

(* A row of which q - p values behind the first p are replaced.               *)
Spliced(row, p, q, new) == SubSeq(row, 1, p) \o new \o SubSeq(row, q + 1, Len(row))

SplicedItem(row, p, q, new, k) ==
  IF k <= p THEN row[k] ELSE IF k <= p + Len(new) THEN new[k - p]
  ELSE row[q + (k - (p + Len(new)))]

LEMMA SplicedIs ==
  ASSUME NEW S, NEW row \in Seq(S), NEW new \in Seq(S),
         NEW p \in 0..Len(row), NEW q \in 0..Len(row), p <= q
  PROVE  /\ Spliced(row, p, q, new) \in Seq(S)
         /\ Len(Spliced(row, p, q, new)) = p + Len(new) + (Len(row) - q)
         /\ \A k \in 1..p + Len(new) + (Len(row) - q) :
              Spliced(row, p, q, new)[k] = SplicedItem(row, p, q, new, k)
<1> DEFINE l == Len(new)
           f == SubSeq(row, 1, p)
           b == SubSeq(row, q + 1, Len(row))
           fl == f \o new
           u == fl \o b
<1>1. l \in Nat /\ Len(row) \in Nat /\ p \in Nat /\ q \in Nat /\ p <= Len(row) /\ q <= Len(row)
  OBVIOUS
<1>2. f \in Seq(S) /\ Len(f) = p /\ \A i \in 1..p : f[i] = row[i]
  BY FrontIs
<1>3. /\ b \in Seq(S) /\ Len(b) = Len(row) - q
      /\ \A i \in 1..Len(row) - q : b[i] = row[q + i]
  BY BackIs
<1> HIDE DEF f, b
<1>4. /\ fl \in Seq(S) /\ Len(fl) = Len(f) + Len(new)
      /\ \A i \in 1..Len(f) + Len(new) : fl[i] = IF i <= Len(f) THEN f[i] ELSE new[i - Len(f)]
  BY <1>2, JoinIs, Zenon
<1> HIDE DEF fl
<1>5. /\ u \in Seq(S) /\ Len(u) = Len(fl) + Len(b)
      /\ \A i \in 1..Len(fl) + Len(b) : u[i] = IF i <= Len(fl) THEN fl[i] ELSE b[i - Len(fl)]
  <2>1. fl \in Seq(S) /\ b \in Seq(S)
    BY <1>3, <1>4
  <2> QED
    BY <2>1, JoinIs, Zenon
<1>6. Len(fl) = p + l /\ Len(b) = Len(row) - q
  BY <1>2, <1>3, <1>4
<1> HIDE DEF u, l
<1>7. Len(u) = p + l + (Len(row) - q)
  BY <1>1, <1>5, <1>6
<1>8. ASSUME NEW i \in 1..p + l + (Len(row) - q)
      PROVE  u[i] = IF i <= p THEN row[i] ELSE IF i <= p + l THEN new[i - p]
                    ELSE row[q + (i - (p + l))]
  <2>1. u[i] = IF i <= p + l THEN fl[i] ELSE b[i - (p + l)]
    BY <1>1, <1>5, <1>6
  <2>2. CASE i <= p
    <3>1. i \in 1..p /\ i <= p + l /\ i \in 1..p + l
      BY <1>1, <2>2
    <3>2. fl[i] = f[i]
      BY <1>2, <1>4, <2>2, <3>1 DEF l
    <3> QED
      BY <1>2, <2>1, <2>2, <3>1, <3>2
  <2>3. CASE ~(i <= p) /\ i <= p + l
    <3>1. i \in 1..p + l
      BY <1>1, <2>3
    <3>2. fl[i] = new[i - p]
      BY <1>2, <1>4, <2>3, <3>1 DEF l
    <3> QED
      BY <2>1, <2>3, <3>2
  <2>4. CASE ~(i <= p) /\ ~(i <= p + l)
    <3>1. i - (p + l) \in 1..Len(row) - q
      BY <1>1, <2>4
    <3> QED
      BY <1>3, <2>1, <2>4, <3>1
  <2> QED
    BY <2>2, <2>3, <2>4
<1> QED
  BY <1>5, <1>7, <1>8 DEF Spliced, SplicedItem, u, fl, f, b, l

LEMMA PutInIs ==
  ASSUME NEW S, NEW row \in Seq(S), NEW new \in Seq(S), NEW p \in 0..Len(row)
  PROVE  LET u == Spliced(row, p, p, new)
             l == Len(new)
         IN  /\ u \in Seq(S) /\ Len(u) = Len(row) + l
             /\ \A k \in 1..Len(row) + l :
                  u[k] = IF k <= p THEN row[k] ELSE IF k <= p + l THEN new[k - p]
                         ELSE row[k - l]
<1> DEFINE u == Spliced(row, p, p, new)
           l == Len(new)
           n == Len(row)
<1>1. l \in Nat /\ n \in Nat /\ p \in Nat /\ p <= n /\ p <= p
  OBVIOUS
<1>2. /\ u \in Seq(S) /\ Len(u) = p + l + (n - p)
      /\ \A k \in 1..p + l + (n - p) :
           u[k] = IF k <= p THEN row[k] ELSE IF k <= p + l THEN new[k - p]
                  ELSE row[p + (k - (p + l))]
  <2> HIDE DEF u, l, n
  <2>1. /\ Spliced(row, p, p, new) \in Seq(S)
        /\ Len(Spliced(row, p, p, new)) = p + Len(new) + (Len(row) - p)
        /\ \A k \in 1..p + Len(new) + (Len(row) - p) :
             Spliced(row, p, p, new)[k] = SplicedItem(row, p, p, new, k)
    BY <1>1, SplicedIs, Zenon
  <2> QED
    BY <2>1, Zenon DEF u, l, n, SplicedItem
<1> HIDE DEF u, l, n
<1>3. p + l + (n - p) = n + l /\ \A k \in 1..n + l : p + (k - (p + l)) = k - l
  BY <1>1
<1>4. /\ u \in Seq(S) /\ Len(u) = n + l
      /\ \A k \in 1..n + l :
           u[k] = IF k <= p THEN row[k] ELSE IF k <= p + l THEN new[k - p] ELSE row[k - l]
  BY <1>2, <1>3
<1> QED
  BY <1>4 DEF u, l, n

(* The gap that is made behind the first ps of ns bytes.                      *)
Gap(m, ps, ls, ns) == IF ps < ns THEN memmove(m, ps + ls, ps, ns - ps) ELSE m

LEMMA GapIs ==
  ASSUME NEW m \in Seq(Octets), NEW ps \in Nat, NEW ls \in Nat, NEW ns \in Nat,
         ps <= ns, ns + ls <= Len(m)
  PROVE  LET g == Gap(m, ps, ls, ns)
         IN  /\ g \in Seq(Octets) /\ Len(g) = Len(m)
             /\ \A j \in 1..Len(m) :
                  /\ j <= ps => g[j] = m[j]
                  /\ j > ps + ls /\ j <= ns + ls => g[j] = m[j - ls]
<1> DEFINE g == Gap(m, ps, ls, ns)
<1>1. Len(m) \in Nat
  OBVIOUS
<1>2. CASE ps < ns
  <2> DEFINE to == ps + ls
             c == ns - ps
  <2>1. to \in Nat /\ c \in Nat /\ to + c = ns + ls
    BY <1>2
  <2>2. g = memmove(m, to, ps, c)
    BY <1>2, Zenon DEF Gap
  <2> HIDE DEF g, to, c
  <2>3. /\ memmove(m, to, ps, c) \in Seq(Octets) /\ Len(memmove(m, to, ps, c)) = Len(m)
        /\ \A j \in 1..Len(m) :
             memmove(m, to, ps, c)[j]
               = IF j \in to + 1..to + c THEN At(m, j - 1 - to + ps) ELSE m[j]
    <3>1. Moved(m, to, ps, c)
      BY <2>1, MovedRight, Zenon
    <3> QED
      BY <3>1, Zenon DEF Moved
  <2>4. ASSUME NEW j \in 1..Len(m), j <= ps PROVE g[j] = m[j]
    <3>1. j \notin to + 1..to + c
      BY <1>1, <2>1, <2>4 DEF to
    <3> QED
      BY <2>2, <2>3, <3>1
  <2>5. ASSUME NEW j \in 1..Len(m), j > ps + ls, j <= ns + ls PROVE g[j] = m[j - ls]
    <3> DEFINE x == j - ls - 1
    <3>1. j \in to + 1..to + c
      BY <1>1, <2>1, <2>5 DEF to
    <3>2. j - 1 - to + ps = x
      BY <1>1 DEF to
    <3>3. x \in Nat /\ x + 1 = j - ls /\ x < Len(m)
      BY <1>1, <2>5
    <3> HIDE DEF x
    <3>4. g[j] = At(m, x)
      BY <2>2, <2>3, <3>1, <3>2
    <3> QED
      BY <3>3, <3>4, AtIs
  <2>6. g \in Seq(Octets) /\ Len(g) = Len(m)
    BY <2>2, <2>3
  <2> QED
    BY <2>4, <2>5, <2>6, Zenon DEF g
<1>3. CASE ~(ps < ns)
  <2>1. g = m
    BY <1>3, Zenon DEF Gap
  <2>2. \A j \in 1..Len(m) : ~(j > ps + ls /\ j <= ns + ls)
    BY <1>1, <1>3
  <2> HIDE DEF g
  <2>3. g \in Seq(Octets) /\ Len(g) = Len(m)
    BY <2>1
  <2>4. \A j \in 1..Len(m) : j <= ps => g[j] = m[j]
    BY <2>1
  <2>5. \A j \in 1..Len(m) : j > ps + ls /\ j <= ns + ls => g[j] = m[j - ls]
    BY <2>2, Zenon
  <2> QED
    BY <2>3, <2>4, <2>5, Zenon DEF g
<1> QED
  BY <1>2, <1>3

(* buffer_insert, of the bytes of objects, behind p of them.                  *)
LEMMA InsertedIs ==
  ASSUME NEW b, NEW s \in Nat \ {0}, NEW row, Represents(b, s, row), NEW p \in 0..Len(row),
         NEW new \in Seq(Objects), NEW block \in Seq(Octets),
         Len(block) = Len(new) * s, Packs(block, s, new)
  PROVE  Represents(buffer_insert(b, p * s, block), s,
                    Spliced(row, p, p, new))
<1> DEFINE n == Len(row)
           l == Len(new)
           ps == p * s
           ls == l * s
           ns == n * s
           r == buffer_reserve(b, b.size + Len(block))
           opened == IF ps < b.size THEN memmove(r.data, ps + Len(block), ps, b.size - ps)
                     ELSE r.data
           mem == memcpy(opened, ps, block)
           u == Spliced(row, p, p, new)
           i == buffer_insert(b, p * s, block)
<1>1. /\ b.size = ns /\ b.size \in Nat /\ row \in Seq(Objects) /\ n \in Nat
      /\ \A k \in 1..n : \A j \in 1..s : b.data[(k - 1) * s + j] = <<row[k], j>>
  <2>1. \A k \in 1..n : \A j \in 1..s : b.data[(k - 1) * s + j] = <<row[k], j>>
    BY Zenon DEF Represents, Packs
  <2>2. b.size = ns /\ b.size \in Nat /\ row \in Seq(Objects) /\ n \in Nat
    BY RepresentsIs
  <2> QED
    BY <2>1, <2>2, Zenon
<1>2. l \in Nat /\ p \in Nat /\ p <= n /\ s \in Nat /\ Len(block) = ls
  BY <1>1
<1>3. /\ ps \in Nat /\ ls \in Nat /\ ns \in Nat /\ ps <= ns
  <2> HIDE DEF n, l
  <2>1. ps \in Nat /\ ls \in Nat /\ ns \in Nat
    BY <1>1, <1>2, Scaled
  <2>2. ps <= ns
    BY <1>1, <1>2, Scaled
  <2> QED
    BY <2>1, <2>2
<1>4. (n + l) * s = ns + ls /\ (p + l) * s = ps + ls
  <2> HIDE DEF n, l
  <2>1. (n + l) * s = ns + ls
    BY <1>1, <1>2, Scaled
  <2>2. (p + l) * s = ps + ls
    BY <1>1, <1>2, Scaled
  <2> QED
    BY <2>1, <2>2
<1>5. n + l \in Nat /\ p + l \in Nat
  BY <1>1, <1>2
<1>6. /\ Represents(r, s, row) /\ ns + ls <= Len(r.data) /\ r.size = b.size
  <2>1. b.size + Len(block) \in Nat /\ b.size + Len(block) = ns + ls
    BY <1>1, <1>2, <1>3
  <2> QED
    BY <2>1, ReserveIs
<1> HIDE DEF r
<1>7. /\ r.data \in Seq(Octets) /\ Len(r.data) \in Nat
      /\ \A k \in 1..n : \A j \in 1..s : r.data[(k - 1) * s + j] = <<row[k], j>>
  <2>1. r.data \in Seq(Octets) /\ Len(r.data) \in Nat
    BY <1>6, RepresentsIs
  <2>2. \A k \in 1..n : \A j \in 1..s : r.data[(k - 1) * s + j] = <<row[k], j>>
    BY <1>6, Zenon DEF Represents, Packs
  <2> QED
    BY <2>1, <2>2, Zenon
<1> HIDE DEF ps, ls, ns
<1>8. i = [data |-> mem, size |-> b.size + Len(block)]
  <2> DEFINE o == [data |-> opened, size |-> b.size + Len(block)]
  <2>1. Opened(b, p * s, Len(block)) = o
    BY Zenon DEF Opened, r, ps
  <2>2. i = [o EXCEPT !.data = memcpy(@, p * s, block)]
    BY <2>1, Zenon DEF buffer_insert
  <2> HIDE DEF opened
  <2> QED
    BY <2>2 DEF ps
<1> HIDE DEF i
<1>9. /\ opened \in Seq(Octets) /\ Len(opened) = Len(r.data)
      /\ \A j \in 1..Len(r.data) :
           /\ j <= ps => opened[j] = r.data[j]
           /\ j > ps + ls /\ j <= ns + ls => opened[j] = r.data[j - ls]
  <2>1. /\ b.size = ns /\ Len(block) = ls /\ r.data \in Seq(Octets) /\ ns + ls <= Len(r.data)
        /\ ps \in Nat /\ ls \in Nat /\ ns \in Nat /\ ps <= ns
    BY <1>1, <1>2, <1>3, <1>6, <1>7
  <2>2. opened = Gap(r.data, ps, ls, ns)
    BY <2>1, Zenon DEF Gap
  <2> HIDE DEF opened
  <2> QED
    BY <2>1, <2>2, GapIs
<1> HIDE DEF opened
<1>10. /\ mem \in Seq(Octets) /\ Len(mem) = Len(opened)
       /\ \A j \in 1..Len(opened) :
            mem[j] = IF j \in ps + 1..ps + Len(block) THEN block[j - ps] ELSE opened[j]
  BY <1>3, <1>9, CopyIs
<1> HIDE DEF mem
<1>11. /\ u \in Seq(Objects) /\ Len(u) = n + l
       /\ \A k \in 1..n + l : u[k] = IF k <= p THEN row[k] ELSE IF k <= p + l THEN new[k - p]
                                     ELSE row[k - l]
  BY <1>1, <1>2, PutInIs
<1> HIDE DEF u
<1>12. ASSUME NEW k \in 1..n + l, NEW j \in 1..s
       PROVE  mem[(k - 1) * s + j] = <<u[k], j>>
  <2> DEFINE x == (k - 1) * s + j
  <2>1. k \in Nat \ {0} /\ k <= n + l
    BY <1>5
  <2>2. /\ x \in Nat \ {0} /\ x <= (n + l) * s
        /\ (k <= p => x <= p * s) /\ (k > p => x > p * s)
        /\ (k > p => x - p * s = ((k - p) - 1) * s + j)
        /\ (k <= p + l => x <= (p + l) * s) /\ (k > p + l => x > (p + l) * s)
        /\ (k > l => x - l * s = ((k - l) - 1) * s + j)
    <3> HIDE DEF n, l
    <3>1. \A m \in Nat : /\ k <= m => x <= m * s
                         /\ k > m => x > m * s
                         /\ k > m => x - m * s = ((k - m) - 1) * s + j
      BY <2>1, Place
    <3>2. x \in Nat \ {0}
      BY <2>1, Place
    <3> HIDE DEF x
    <3>3. x <= (n + l) * s
      BY <1>5, <2>1, <3>1
    <3> QED
      BY <1>2, <1>5, <3>1, <3>2, <3>3
  <2> DEFINE y == ((k - p) - 1) * s + j
             z == ((k - l) - 1) * s + j
  <2>3. /\ x \in Nat \ {0} /\ x <= ns + ls
        /\ (k <= p => x <= ps) /\ (k > p => x > ps /\ x - ps = y)
        /\ (k <= p + l => x <= ps + ls) /\ (k > p + l => x > ps + ls)
        /\ (k > l => x - ls = z)
    BY <1>4, <2>2 DEF ps, ls
  <2>9. /\ k <= p => r.data[x] = <<row[k], j>>
        /\ k > p /\ k <= p + l => block[y] = <<new[k - p], j>>
        /\ k > p + l => r.data[z] = <<row[k - l], j>>
    <3>1. k <= p => k \in 1..n
      BY <1>1, <1>2, <2>1
    <3>2. k > p /\ k <= p + l => k - p \in 1..Len(new)
      BY <1>2, <2>1
    <3>3. k > p + l => k - l \in 1..n
      BY <1>1, <1>2, <2>1
    <3>4. \A kk \in 1..Len(new) : \A jj \in 1..s : block[(kk - 1) * s + jj] = <<new[kk], jj>>
      BY Zenon DEF Packs
    <3>5. k <= p => r.data[x] = <<row[k], j>>
      BY <1>7, <3>1, Zenon
    <3>6. k > p /\ k <= p + l => block[y] = <<new[k - p], j>>
      BY <3>2, <3>4, Zenon
    <3>7. k > p + l => r.data[z] = <<row[k - l], j>>
      BY <1>7, <3>3, Zenon
    <3> QED
      BY <3>5, <3>6, <3>7, Zenon
  <2> HIDE DEF x, y, z, l, n
  <2>4. x \in 1..Len(r.data) /\ x \in 1..Len(opened)
    BY <1>3, <1>6, <1>7, <1>9, <2>3
  <2>5. CASE k <= p
    <3>1. x <= ps /\ x \notin ps + 1..ps + Len(block)
      BY <1>2, <1>3, <2>3, <2>5
    <3>2. mem[x] = r.data[x]
      BY <1>9, <1>10, <2>4, <3>1
    <3>3. u[k] = row[k]
      BY <1>11, <2>5
    <3> QED
      BY <2>5, <2>9, <3>2, <3>3 DEF x
  <2>6. CASE ~(k <= p) /\ k <= p + l
    <3>1. k > p
      BY <1>2, <2>1, <2>6
    <3>2. x \in ps + 1..ps + Len(block) /\ x - ps = y
      BY <1>2, <1>3, <2>3, <2>6, <3>1
    <3>3. mem[x] = block[y]
      BY <1>10, <2>4, <3>2
    <3>4. u[k] = new[k - p]
      BY <1>11, <2>6
    <3> QED
      BY <2>6, <2>9, <3>1, <3>3, <3>4 DEF x
  <2>7. CASE ~(k <= p) /\ ~(k <= p + l)
    <3>1. k > p + l /\ k > l
      BY <1>2, <2>1, <2>7
    <3>2. x > ps + ls /\ x <= ns + ls /\ x \notin ps + 1..ps + Len(block) /\ x - ls = z
      BY <1>2, <1>3, <2>3, <3>1
    <3>3. mem[x] = r.data[z]
      BY <1>9, <1>10, <2>4, <3>2
    <3>4. u[k] = row[k - l]
      BY <1>11, <2>7
    <3> QED
      BY <2>9, <3>1, <3>3, <3>4 DEF x
  <2> QED
    BY <2>5, <2>6, <2>7
<1>13. Packs(mem, s, u)
  BY <1>11, <1>12, Zenon DEF Packs
<1>14. i.data = mem /\ i.size = ns + ls /\ i \in [data : Seq(Octets), size : Nat]
  BY <1>1, <1>2, <1>3, <1>8, <1>10
<1>15. i.size <= Len(i.data) /\ i.size = Len(u) * s
  BY <1>4, <1>6, <1>9, <1>10, <1>11, <1>14
<1>16. Represents(i, s, u)
  BY <1>11, <1>13, <1>14, <1>15, Zenon DEF Represents
<1> QED
  BY <1>16 DEF i, u

LEMMA TakenOutIs ==
  ASSUME NEW S, NEW row \in Seq(S), NEW f \in 0..Len(row), NEW l \in 0..Len(row), f <= l
  PROVE  LET u == Spliced(row, f, l, <<>>)
         IN  /\ u \in Seq(S) /\ Len(u) = Len(row) - (l - f)
             /\ \A k \in 1..Len(row) - (l - f) :
                  u[k] = IF k <= f THEN row[k] ELSE row[k + (l - f)]
<1> DEFINE none == <<>>
           u == Spliced(row, f, l, none)
           n == Len(row)
<1>0. none \in Seq(S)
  OBVIOUS
<1>1. Len(none) = 0
  OBVIOUS
<1>2. n \in Nat /\ f \in Nat /\ l \in Nat /\ f <= n /\ l <= n
  OBVIOUS
<1> HIDE DEF none
<1>3. /\ u \in Seq(S) /\ Len(u) = f + Len(none) + (Len(row) - l)
      /\ \A k \in 1..f + Len(none) + (Len(row) - l) : u[k] = SplicedItem(row, f, l, none, k)
  <2> HIDE DEF n, u
  <2>1. /\ Spliced(row, f, l, none) \in Seq(S)
        /\ Len(Spliced(row, f, l, none)) = f + Len(none) + (Len(row) - l)
        /\ \A k \in 1..f + Len(none) + (Len(row) - l) :
             Spliced(row, f, l, none)[k] = SplicedItem(row, f, l, none, k)
    BY <1>0, SplicedIs, Zenon
  <2> QED
    BY <2>1, Zenon DEF u
<1> HIDE DEF u, n
<1>4. f + Len(none) + (Len(row) - l) = n - (l - f)
  BY <1>1, <1>2 DEF n
<1>5. ASSUME NEW k \in 1..n - (l - f)
      PROVE  u[k] = IF k <= f THEN row[k] ELSE row[k + (l - f)]
  <2>1. u[k] = SplicedItem(row, f, l, none, k)
    BY <1>3, <1>4
  <2>2. CASE k <= f
    BY <2>1, <2>2, Zenon DEF SplicedItem
  <2>3. CASE ~(k <= f)
    <3>1. ~(k <= f + Len(none)) /\ l + (k - (f + Len(none))) = k + (l - f)
      BY <1>1, <1>2, <2>3
    <3> QED
      BY <2>1, <2>3, <3>1, Zenon DEF SplicedItem
  <2> QED
    BY <2>2, <2>3
<1>6. u \in Seq(S) /\ Len(u) = n - (l - f)
  BY <1>3, <1>4
<1> QED
  BY <1>5, <1>6, Zenon DEF u, n, none

(* buffer_erase, of the bytes of the objects from f to l.                     *)
LEMMA ErasedIs ==
  ASSUME NEW b, NEW s \in Nat \ {0}, NEW row, Represents(b, s, row),
         NEW f \in 0..Len(row), NEW l \in 0..Len(row), f <= l
  PROVE  Represents(buffer_erase(b, f * s, (l - f) * s), s, Spliced(row, f, l, <<>>))
<1> DEFINE n == Len(row)
           d == l - f
           fs == f * s
           ds == d * s
           ns == n * s
           c == b.size - fs - ds
           mem == memmove(b.data, fs, fs + ds, c)
           u == Spliced(row, f, l, <<>>)
           e == buffer_erase(b, fs, ds)
<1>1. /\ b.size = ns /\ b.size \in Nat /\ row \in Seq(Objects) /\ n \in Nat
      /\ b.data \in Seq(Octets) /\ Len(b.data) \in Nat /\ ns <= Len(b.data)
  BY RepresentsIs
<1>2. \A k \in 1..n : \A j \in 1..s : b.data[(k - 1) * s + j] = <<row[k], j>>
  BY Zenon DEF Represents, Packs
<1>3. /\ f \in Nat /\ l \in Nat /\ d \in Nat /\ f + d = l /\ f <= n /\ l <= n /\ d <= n
      /\ n - d \in Nat
  BY <1>1
<1>4. /\ u \in Seq(Objects) /\ Len(u) = n - d
      /\ \A k \in 1..n - d : u[k] = IF k <= f THEN row[k] ELSE row[k + d]
  <2>1. row \in Seq(Objects)
    BY <1>1
  <2> QED
    BY <2>1, TakenOutIs, Zenon
<1>5. \A k \in 1..n - d : u[k] = IF k <= f THEN row[k] ELSE row[k + d]
  BY <1>4, Zenon
<1> HIDE DEF n, d, u
<1>6. fs \in Nat /\ ds \in Nat /\ ns \in Nat
  BY <1>1, <1>3, Scaled
<1>7. fs + ds <= ns
  <2>1. l * s = fs + ds
    BY <1>3, Scaled
  <2>2. l * s <= ns
    BY <1>1, <1>3, Scaled
  <2> QED
    BY <2>1, <2>2
<1>8. (n - d) * s = ns - ds
  BY <1>1, <1>3, Scaled
<1>9. e = [data |-> mem, size |-> b.size - ds]
  BY Zenon DEF buffer_erase
<1> HIDE DEF fs, ds, ns, e
<1>10. c = ns - fs - ds /\ c \in Nat /\ fs + ds \in Nat
  BY <1>1, <1>6, <1>7
<1> HIDE DEF c
<1>11. /\ mem \in Seq(Octets) /\ Len(mem) = Len(b.data)
       /\ \A j \in 1..Len(b.data) :
            mem[j] = IF j \in fs + 1..fs + c THEN At(b.data, j - 1 - fs + (fs + ds)) ELSE b.data[j]
  <2> DEFINE from == fs + ds
  <2>1. b.data \in Seq(Octets) /\ fs \in Nat /\ from \in Nat /\ c \in Nat
    BY <1>1, <1>6, <1>10
  <2>2. mem = memmove(b.data, fs, from, c)
    BY Zenon
  <2> HIDE DEF from, mem
  <2>3. /\ memmove(b.data, fs, from, c) \in Seq(Octets)
        /\ Len(memmove(b.data, fs, from, c)) = Len(b.data)
    BY <2>1, MoveIs
  <2>4. \A j \in 1..Len(b.data) :
          memmove(b.data, fs, from, c)[j]
            = IF j \in fs + 1..fs + c THEN At(b.data, j - 1 - fs + from) ELSE b.data[j]
    BY <2>1, MoveIs
  <2> QED
    BY <2>2, <2>3, <2>4, Zenon DEF from
<1> HIDE DEF mem
<1>12. ASSUME NEW k \in 1..n - d, NEW j \in 1..s
       PROVE  mem[(k - 1) * s + j] = <<u[k], j>>
  <2> DEFINE x == (k - 1) * s + j
             y == ((k + d) - 1) * s + j
  <2>1. k \in Nat \ {0} /\ k + d \in Nat \ {0} /\ k + d > d /\ (k + d) - d = k /\ k <= n
    BY <1>1, <1>3
  <2>2. x \in Nat \ {0} /\ (k <= f => x <= fs) /\ (k > f => x > fs)
    BY <1>3, <2>1, Place DEF fs
  <2>3. x <= ns - ds
    BY <1>3, <1>8, <2>1, Place
  <2>4. y \in Nat /\ y - ds = x
    <3>1. y \in Nat \ {0}
      BY <2>1, Place
    <3>2. y - ds = x
      <4>1. k \in Int /\ d \in Int /\ s \in Int /\ j \in Int
        BY <1>3, <2>1
      <4> QED
        BY <4>1 DEF ds
    <3> HIDE DEF x, y
    <3> QED
      BY <3>1, <3>2
  <2>5. k <= f => b.data[x] = <<row[k], j>>
    <3>1. k \in 1..n
      BY <1>1, <2>1
    <3> QED
      BY <1>2, <3>1, Zenon
  <2>6. b.data[y] = <<row[k + d], j>>
    <3>1. k + d \in 1..n
      BY <1>1, <1>3, <2>1
    <3> QED
      BY <1>2, <3>1, Zenon
  <2> HIDE DEF x, y
  <2>7. x \in 1..Len(b.data)
    BY <1>1, <1>6, <2>2, <2>3
  <2>8. CASE k <= f
    <3>1. x \notin fs + 1..fs + c
      BY <1>6, <2>2, <2>8
    <3>2. mem[x] = b.data[x]
      BY <1>11, <2>7, <3>1
    <3>3. u[k] = row[k]
      BY <1>5, <2>8
    <3> QED
      BY <2>5, <2>8, <3>2, <3>3 DEF x
  <2>9. CASE ~(k <= f)
    <3> DEFINE w == y - 1
    <3>1. k > f
      BY <1>3, <2>1, <2>9
    <3>2. x \in fs + 1..fs + c
      BY <1>6, <1>10, <2>2, <2>3, <3>1
    <3>3. x - 1 - fs + (fs + ds) = w /\ w \in Nat /\ w + 1 = y /\ w < Len(b.data)
      BY <1>1, <1>6, <2>2, <2>3, <2>4
    <3> HIDE DEF w
    <3>4. mem[x] = At(b.data, w)
      BY <1>11, <2>7, <3>2, <3>3
    <3>5. At(b.data, w) = b.data[y]
      BY <1>1, <3>3, AtIs
    <3>6. u[k] = row[k + d]
      BY <1>5, <2>9
    <3> QED
      BY <2>6, <3>4, <3>5, <3>6 DEF x
  <2> QED
    BY <2>8, <2>9
<1>13. Packs(mem, s, u)
  BY <1>4, <1>12, Zenon DEF Packs
<1>14. e.data = mem /\ e.size = ns - ds /\ e.size \in Nat
  BY <1>1, <1>6, <1>7, <1>9
<1>15. e \in [data : Seq(Octets), size : Nat]
  BY <1>9, <1>11, <1>14
<1>16. e.size <= Len(e.data) /\ e.size = Len(u) * s
  BY <1>1, <1>4, <1>6, <1>8, <1>11, <1>14
<1>17. Represents(e, s, u)
  BY <1>4, <1>13, <1>14, <1>15, <1>16, Zenon DEF Represents
<1> QED
  BY <1>17 DEF e, u, fs, ds, d

LEMMA NewIs ==
  ASSUME NEW s \in Nat \ {0}
  PROVE  Represents(NewBuffer, s, <<>>)
<1> DEFINE none == <<>>
<1>1. none \in Seq(Octets) /\ none \in Seq(Objects) /\ Len(none) = 0 /\ 0 * s = 0
  OBVIOUS
<1>2. NewBuffer = [data |-> none, size |-> 0]
  BY Zenon DEF NewBuffer
<1> HIDE DEF none
<1>3. NewBuffer.data = none /\ NewBuffer.size = 0 /\ NewBuffer \in [data : Seq(Octets), size : Nat]
  BY <1>1, <1>2
<1>4. Packs(NewBuffer.data, s, none)
  BY <1>1 DEF Packs
<1>5. Represents(NewBuffer, s, none)
  BY <1>1, <1>3, <1>4 DEF Represents
<1> QED
  BY <1>5 DEF none

(* What is put in, as the operations name it: the bytes of objects.           *)
LEMMA PartIs ==
  ASSUME NEW s \in Nat \ {0}, NEW new \in Seq(Objects)
  PROVE  LET flat == FlattenSeq([i \in 1..Len(new) |-> ObjectBytes(new[i], s)])
         IN  flat \in Seq(Octets) /\ Len(flat) = Len(new) * s /\ Packs(flat, s, new)
BY FlatIs, Zenon

(* vector_insert_range                                                        *)
LEMMA RangeIs ==
  ASSUME NEW b, NEW s \in Nat \ {0}, NEW row, Represents(b, s, row), NEW p \in 0..Len(row),
         NEW new \in Seq(Objects)
  PROVE  Represents(buffer_insert(b, p * s,
                                  FlattenSeq([i \in 1..Len(new) |-> ObjectBytes(new[i], s)])),
                    s, Spliced(row, p, p, new))
<1> DEFINE flat == FlattenSeq([i \in 1..Len(new) |-> ObjectBytes(new[i], s)])
<1>1. flat \in Seq(Octets) /\ Len(flat) = Len(new) * s /\ Packs(flat, s, new)
  BY PartIs, Zenon
<1> HIDE DEF flat
<1>2. Represents(buffer_insert(b, p * s, flat), s, Spliced(row, p, p, new))
  BY <1>1, InsertedIs, Zenon
<1> QED
  BY <1>2 DEF flat

Repeated(o, count) == [i \in 1..count |-> o]

(* vector_insert_fill                                                         *)
LEMMA FillIs ==
  ASSUME NEW b, NEW s \in Nat \ {0}, NEW row, Represents(b, s, row), NEW p \in 0..Len(row),
         NEW count \in Nat, NEW o \in Objects
  PROVE  Represents(buffer_insert_fill(b, p * s, count, ObjectBytes(o, s)), s,
                    Spliced(row, p, p, Repeated(o, count)))
<1> DEFINE new == [i \in 1..count |-> o]
           flat == FlattenSeq([i \in 1..count |-> ObjectBytes(o, s)])
<1>1. new \in Seq(Objects) /\ Len(new) = count /\ \A i \in 1..count : new[i] = o
  <2>1. new \in [1..count -> Objects] /\ \A i \in 1..count : new[i] = o
    OBVIOUS
  <2> HIDE DEF new
  <2> QED
    BY <2>1, IsSequence
<1> HIDE DEF new
<1>2. [i \in 1..Len(new) |-> ObjectBytes(new[i], s)] = [i \in 1..count |-> ObjectBytes(o, s)]
  BY <1>1
<1>3. flat \in Seq(Octets) /\ Len(flat) = count * s /\ Packs(flat, s, new)
  BY <1>1, <1>2, PartIs, Zenon
<1>4. Len(ObjectBytes(o, s)) = s
  BY ObjectIs
<1>5. buffer_insert_fill(b, p * s, count, ObjectBytes(o, s))
        = [Opened(b, p * s, count * Len(ObjectBytes(o, s))) EXCEPT !.data = memcpy(@, p * s, flat)]
  BY Zenon DEF buffer_insert_fill
<1>6. buffer_insert(b, p * s, flat)
        = [Opened(b, p * s, Len(flat)) EXCEPT !.data = memcpy(@, p * s, flat)]
  BY Zenon DEF buffer_insert
<1> HIDE DEF flat
<1>7. Len(flat) = Len(new) * s
  BY <1>1, <1>3
<1>8. Represents(buffer_insert(b, p * s, flat), s, Spliced(row, p, p, new))
  BY <1>1, <1>3, <1>7, InsertedIs, Zenon
<1>9. buffer_insert_fill(b, p * s, count, ObjectBytes(o, s)) = buffer_insert(b, p * s, flat)
  BY <1>3, <1>4, <1>5, <1>6, Zenon
<1> QED
  BY <1>8, <1>9, Zenon DEF Repeated, new

(* stream_allocate, and the object that is written there                      *)
LEMMA AllocatedIs ==
  ASSUME NEW b, NEW s \in Nat \ {0}, NEW row, Represents(b, s, row), NEW o \in Objects
  PROVE  LET r == buffer_resize(b, b.size + s)
         IN  Represents([r EXCEPT !.data = memcpy(@, b.size, ObjectBytes(o, s))], s,
                        Spliced(row, Len(row), Len(row), <<o>>))
<1> DEFINE n == Len(row)
           block == ObjectBytes(o, s)
           new == <<o>>
           r == buffer_reserve(b, b.size + s)
           z == buffer_resize(b, b.size + s)
           result == [z EXCEPT !.data = memcpy(@, b.size, block)]
<1>1. /\ b.size = n * s /\ b.size \in Nat /\ n \in Nat /\ n \in 0..Len(row)
      /\ b.size + s \in Nat /\ ~(b.size < b.size)
  BY RepresentsIs
<1>2. /\ block \in Seq(Octets) /\ Len(block) = s
      /\ \A i \in 1..s : block[i] = <<o, i>>
  BY ObjectIs
<1>3. new \in Seq(Objects) /\ Len(new) = 1 /\ new[1] = o
  OBVIOUS
<1> HIDE DEF block, new
<1>4. Len(block) = Len(new) * s
  BY <1>2, <1>3
<1>5. Packs(block, s, new)
  <2>1. \A k \in 1..Len(new) : k = 1 /\ \A i \in 1..s : (k - 1) * s + i = i
    BY <1>3
  <2>2. ASSUME NEW k \in 1..Len(new), NEW i \in 1..s PROVE block[(k - 1) * s + i] = <<new[k], i>>
    BY <1>2, <1>3, <2>1
  <2> QED
    BY <2>2, Zenon DEF Packs
<1>6. Represents(r, s, row)
  BY <1>1, ReserveIs
<1> HIDE DEF r
<1>7. r \in [data : Seq(Octets), size : Nat]
  BY <1>6, RepresentsIs
<1>8. z = [r EXCEPT !.size = b.size + s]
  BY Zenon DEF buffer_resize, r
<1> HIDE DEF z
<1>9. result = [data |-> memcpy(r.data, b.size, block), size |-> b.size + s]
  <2> DEFINE m == memcpy(r.data, b.size, block)
             size == b.size + s
  <2>1. z = [data |-> r.data, size |-> size]
    BY <1>7, <1>8
  <2>2. z.data = r.data
    BY <2>1
  <2>3. result = [z EXCEPT !.data = m]
    BY <2>2, Zenon
  <2> HIDE DEF m, size, result
  <2>4. result = [data |-> m, size |-> size]
    BY <2>1, <2>3
  <2> QED
    BY <2>4 DEF m, size
<1>10. Opened(b, b.size, Len(block)) = [data |-> r.data, size |-> b.size + s]
  BY <1>1, <1>2, Zenon DEF Opened, r
<1>11. buffer_insert(b, b.size, block)
         = [Opened(b, b.size, Len(block)) EXCEPT !.data = memcpy(@, b.size, block)]
  BY Zenon DEF buffer_insert
<1>12. buffer_insert(b, b.size, block)
         = [data |-> memcpy(r.data, b.size, block), size |-> b.size + s]
  BY <1>10, <1>11
<1> HIDE DEF result
<1>13. result = buffer_insert(b, n * s, block)
  BY <1>1, <1>9, <1>12, Zenon
<1> HIDE DEF n
<1>14. Represents(buffer_insert(b, n * s, block), s, Spliced(row, n, n, new))
  BY <1>1, <1>2, <1>3, <1>4, <1>5, InsertedIs, Zenon
<1> QED
  BY <1>13, <1>14, Zenon DEF result, z, block, new, n

-----------------------------------------------------------------------------
(* Vector: its invariant, and what each operation does to the row it holds.   *)

(* The buffer is large enough for the bytes of the objects that the vector    *)
(* holds, begins with them, one object behind the other, and its size is      *)
(* theirs: no object is cut off, and none is at an offset between two.        *)
VectorInv ==
  /\ object_size \in ObjectSizes
  /\ Represents(buffer, object_size, Held)

LEMMA ObjectSizeIs == ASSUME VectorInv PROVE object_size \in Nat \ {0}
BY ObjectsOK DEF VectorInv

LEMMA WholeRow ==
  ASSUME NEW b, NEW s \in Nat \ {0}, NEW row, Represents(b, s, row)
  PROVE  b.size \div s = Len(row) /\ RowFrom(b, s, 0, b.size \div s) = row
<1> DEFINE n == Len(row)
<1>1. row \in Seq(Objects) /\ n \in Nat /\ b.size = n * s
  BY RepresentsIs
<1>2. b.size \div s = n
  <2>1. (n * s) \div s = n
    BY <1>1, Scaled
  <2> QED
    BY <1>1, <2>1, Zenon
<1>3. n \in 0..Len(row) /\ 0 <= n /\ n <= Len(row) /\ 0 + 1 = 1
  BY <1>1
<1>4. RowFrom(b, s, 0, n) = SubSeq(row, 1, n)
  <2>1. RowFrom(b, s, 0, n) = SubSeq(row, 0 + 1, n)
    <3>1. 0 \in Nat
      OBVIOUS
    <3>2. Reads(b, s, 0, n, SubSeq(row, 0 + 1, n))
      BY <1>1, <1>3, <3>1, RowFromIs, Zenon
    <3> QED
      BY <3>2, Zenon DEF Reads
  <2> QED
    BY <1>3, <2>1, Zenon
<1>5. /\ SubSeq(row, 1, n) \in Seq(Objects) /\ Len(SubSeq(row, 1, n)) = n
      /\ \A i \in 1..n : SubSeq(row, 1, n)[i] = row[i]
  BY <1>1, <1>3, FrontIs
<1>6. SubSeq(row, 1, n) = row
  BY <1>1, <1>5, SameSequence
<1> QED
  BY <1>2, <1>4, <1>6, Zenon

LEMMA HeldIs ==
  ASSUME NEW row, object_size \in Nat \ {0}, Represents(buffer, object_size, row)
  PROVE  Held = row /\ vector_size = Len(row)
<1>1. /\ buffer.size \div object_size = Len(row)
      /\ RowFrom(buffer, object_size, 0, buffer.size \div object_size) = row
  BY WholeRow, Zenon
<1>2. Held = RowFrom(buffer, object_size, 0, buffer.size \div object_size)
  BY Zenon DEF Held, Between, vector_at, vector_size, Bytes, RowFrom, ObjectAt, ObjectBytes
<1> QED
  BY <1>1, <1>2, Zenon DEF vector_size

LEMMA HeldNextIs ==
  ASSUME NEW row, object_size' \in Nat \ {0}, Represents(buffer', object_size', row)
  PROVE  Held' = row
<1>1. RowFrom(buffer', object_size', 0, buffer'.size \div object_size') = row
  BY WholeRow, Zenon
<1>2. Held' = RowFrom(buffer', object_size', 0, buffer'.size \div object_size')
  BY Zenon DEF Held, Between, vector_at, vector_size, Bytes, RowFrom, ObjectAt, ObjectBytes
<1> QED
  BY <1>1, <1>2, Zenon

LEMMA HeldAre ==
  ASSUME VectorInv
  PROVE  /\ object_size \in Nat \ {0} /\ Held \in Seq(Objects) /\ Len(Held) \in Nat
         /\ Represents(buffer, object_size, Held) /\ vector_size = Len(Held)
<1>1. object_size \in Nat \ {0} /\ Represents(buffer, object_size, Held)
  BY ObjectSizeIs DEF VectorInv
<1>2. vector_size = Len(Held)
  BY <1>1, HeldIs
<1>3. Held \in Seq(Objects) /\ Len(Held) \in Nat
  BY <1>1, RepresentsIs
<1> QED
  BY <1>1, <1>2, <1>3

(* A step after which the buffer represents a row.                            *)
LEMMA NextHolds ==
  ASSUME VectorInv, UNCHANGED object_size, NEW row, Represents(buffer', object_size, row)
  PROVE  VectorInv' /\ Held' = row
<1>1. object_size' \in Nat \ {0} /\ object_size' = object_size /\ object_size \in ObjectSizes
  BY ObjectSizeIs DEF VectorInv
<1>2. Represents(buffer', object_size', row)
  BY <1>1, Zenon
<1>3. Held' = row
  BY <1>1, <1>2, HeldNextIs, Zenon
<1>4. Represents(buffer', object_size', Held')
  BY <1>2, <1>3, Zenon
<1> QED
  BY <1>1, <1>3, <1>4, Zenon DEF VectorInv, Represents

LEMMA NoneTaken ==
  ASSUME NEW row \in Seq(Objects), NEW p \in 0..Len(row)
  PROVE  SubSeq(row, p + 1, p) = <<>>
<1>1. p + 1 \in Int /\ p \in Int /\ ~(p + 1 <= p)
  OBVIOUS
<1>2. \A i \in p + 1..p : row[i] \in Objects
  BY <1>1
<1>3. SubSeq(row, p + 1, p) \in Seq(Objects) /\ Len(SubSeq(row, p + 1, p)) = 0
  <2>1. \A i \in p + 1..p : i \in 1..Len(row)
    BY <1>1
  <2> QED
    BY <1>1, <2>1, SubSeqProperties
<1> QED
  BY <1>3

(* What is put in.                                                            *)
LEMMA PutsIn ==
  ASSUME VectorInv, UNCHANGED object_size, freed' = <<>>, NEW p \in 0..Len(Held), NEW new,
         Represents(buffer', object_size, Spliced(Held, p, p, new))
  PROVE  VectorInv' /\ RowOf!Splice(p, 0, new)
<1>1. VectorInv' /\ Held' = Spliced(Held, p, p, new)
  BY NextHolds, Zenon
<1>2. Held \in Seq(Objects) /\ Len(Held) \in Nat
  BY HeldAre
<1>3. p + 0 = p /\ p + 0 <= Len(Held)
  BY <1>2
<1>4. Held' = SubSeq(Held, 1, p) \o new \o SubSeq(Held, p + 0 + 1, Len(Held))
  BY <1>1, <1>3, Zenon DEF Spliced
<1>5. freed' = SubSeq(Held, p + 1, p + 0)
  BY <1>2, <1>3, NoneTaken, Zenon
<1> QED
  BY <1>1, <1>3, <1>4, <1>5, Zenon DEF RowOf!Splice

(* What is taken out.                                                         *)
LEMMA TakesOut ==
  ASSUME VectorInv, UNCHANGED object_size, NEW f \in 0..Len(Held), NEW l \in 0..Len(Held), f <= l,
         freed' = SubSeq(Held, f + 1, l),
         Represents(buffer', object_size, Spliced(Held, f, l, <<>>))
  PROVE  VectorInv' /\ RowOf!Splice(f, l - f, <<>>)
<1>1. VectorInv' /\ Held' = Spliced(Held, f, l, <<>>)
  BY NextHolds, Zenon
<1>2. Held \in Seq(Objects) /\ Len(Held) \in Nat
  BY HeldAre
<1>3. f + (l - f) = l /\ f + (l - f) <= Len(Held)
  BY <1>2
<1>4. Held' = SubSeq(Held, 1, f) \o <<>> \o SubSeq(Held, f + (l - f) + 1, Len(Held))
  BY <1>1, <1>3, Zenon DEF Spliced
<1>5. freed' = SubSeq(Held, f + 1, f + (l - f))
  BY <1>3, Zenon
<1> QED
  BY <1>1, <1>3, <1>4, <1>5, Zenon DEF RowOf!Splice

(* vector_reserve, vector_shrink_to_fit                                       *)
LEMMA Keeps ==
  ASSUME VectorInv, UNCHANGED object_size, freed' = <<>>,
         Represents(buffer', object_size, Held)
  PROVE  VectorInv' /\ RowOf!Keep
<1>1. VectorInv' /\ Held' = Held
  BY NextHolds, Zenon
<1> QED
  BY <1>1 DEF RowOf!Keep

LEMMA ReserveKeeps ==
  ASSUME VectorInv, NEW asked \in Nat, vector_reserve(asked)
  PROVE  VectorInv' /\ RowOf!Keep
<1> DEFINE bytes == asked * object_size
<1>1. object_size \in Nat \ {0} /\ Represents(buffer, object_size, Held)
  BY HeldAre
<1>2. bytes \in Nat
  BY <1>1, Scaled
<1>3. buffer' = buffer_reserve(buffer, bytes) /\ freed' = <<>> /\ UNCHANGED object_size
  BY DEF vector_reserve, Stores
<1> HIDE DEF bytes
<1>4. Represents(buffer_reserve(buffer, bytes), object_size, Held)
  BY <1>1, <1>2, ReserveIs
<1>5. Represents(buffer', object_size, Held)
  BY <1>3, <1>4, Zenon
<1> QED
  BY <1>3, <1>5, Keeps, Zenon

LEMMA ShrinkKeeps ==
  ASSUME VectorInv, vector_shrink_to_fit
  PROVE  VectorInv' /\ RowOf!Keep
<1>1. object_size \in Nat \ {0} /\ Represents(buffer, object_size, Held)
  BY HeldAre
<1>2. buffer' = buffer_compact(buffer) /\ freed' = <<>> /\ UNCHANGED object_size
  BY DEF vector_shrink_to_fit, Stores
<1>3. Represents(buffer_compact(buffer), object_size, Held)
  BY <1>1, CompactIs
<1>4. Represents(buffer', object_size, Held)
  BY <1>2, <1>3, Zenon
<1> QED
  BY <1>2, <1>4, Keeps, Zenon

LEMMA RangePutsIn ==
  ASSUME VectorInv, NEW p \in Nat, NEW new \in Seq(Objects), vector_insert_range(p, new)
  PROVE  VectorInv' /\ p \in 0..Len(Held) /\ RowOf!Splice(p, 0, new)
<1> DEFINE flat == FlattenSeq([i \in 1..Len(new) |-> ObjectBytes(new[i], object_size)])
<1>1. /\ object_size \in Nat \ {0} /\ Represents(buffer, object_size, Held)
      /\ vector_size = Len(Held) /\ Len(Held) \in Nat
  BY HeldAre
<1>2. p \in 0..Len(Held)
  BY <1>1 DEF vector_insert_range
<1>3. DOMAIN new = 1..Len(new)
  OBVIOUS
<1>4. /\ buffer' = buffer_insert(buffer, p * object_size,
                       FlattenSeq([i \in DOMAIN new |-> Bytes(new[i])]))
      /\ freed' = <<>> /\ UNCHANGED object_size
  BY Zenon DEF vector_insert_range, Stores
<1>5. [i \in DOMAIN new |-> Bytes(new[i])]
        = [i \in 1..Len(new) |-> ObjectBytes(new[i], object_size)]
  BY <1>3, Zenon DEF Bytes, ObjectBytes
<1>6. Represents(buffer_insert(buffer, p * object_size, flat), object_size,
                 Spliced(Held, p, p, new))
  BY <1>1, <1>2, RangeIs, Zenon
<1>7. Represents(buffer', object_size, Spliced(Held, p, p, new))
  BY <1>4, <1>5, <1>6, Zenon
<1> QED
  BY <1>2, <1>4, <1>7, PutsIn, Zenon

LEMMA FillPutsIn ==
  ASSUME VectorInv, NEW p \in Nat, NEW count \in Nat, NEW o \in Objects,
         vector_insert_fill(p, count, o)
  PROVE  VectorInv' /\ p \in 0..Len(Held) /\ RowOf!Splice(p, 0, Repeated(o, count))
<1>1. /\ object_size \in Nat \ {0} /\ Represents(buffer, object_size, Held)
      /\ vector_size = Len(Held) /\ Len(Held) \in Nat
  BY HeldAre
<1>2. p \in 0..Len(Held)
  BY <1>1 DEF vector_insert_fill
<1>3. /\ buffer' = buffer_insert_fill(buffer, p * object_size, count, ObjectBytes(o, object_size))
      /\ freed' = <<>> /\ UNCHANGED object_size
  BY Zenon DEF vector_insert_fill, Stores, Bytes, ObjectBytes
<1>4. Represents(buffer_insert_fill(buffer, p * object_size, count, ObjectBytes(o, object_size)),
                 object_size, Spliced(Held, p, p, Repeated(o, count)))
  BY <1>1, <1>2, FillIs, Zenon
<1>5. Represents(buffer', object_size, Spliced(Held, p, p, Repeated(o, count)))
  BY <1>3, <1>4, Zenon
<1> QED
  BY <1>2, <1>3, <1>5, PutsIn, Zenon

LEMMA AllocatePutsIn ==
  ASSUME VectorInv, NEW o \in Objects, AllocateObject(o)
  PROVE  VectorInv' /\ RowOf!Splice(Len(Held), 0, <<o>>)
<1> DEFINE n == Len(Held)
           z == buffer_resize(buffer, buffer.size + object_size)
           result == [z EXCEPT !.data = memcpy(@, buffer.size, ObjectBytes(o, object_size))]
<1>1. /\ object_size \in Nat \ {0} /\ Represents(buffer, object_size, Held)
      /\ Len(Held) \in Nat
  BY HeldAre
<1>2. Len(Held) \in 0..Len(Held)
  BY <1>1
<1>3. buffer' = result /\ freed' = <<>> /\ UNCHANGED object_size
  BY Zenon DEF AllocateObject, Stores, Bytes, ObjectBytes
<1>4. Represents(result, object_size, Spliced(Held, n, n, <<o>>))
  BY <1>1, AllocatedIs, Zenon
<1>5. Represents(buffer', object_size, Spliced(Held, n, n, <<o>>))
  BY <1>3, <1>4, Zenon
<1> QED
  BY <1>2, <1>3, <1>5, PutsIn, Zenon

LEMMA EraseTakesOut ==
  ASSUME VectorInv, NEW f \in Nat, NEW l \in Nat, vector_erase_range(f, l)
  PROVE  /\ VectorInv' /\ f \in 0..Len(Held) /\ l - f \in 0..Len(Held)
         /\ RowOf!Splice(f, l - f, <<>>)
<1> DEFINE result == buffer_erase(buffer, f * object_size, (l - f) * object_size)
<1>1. /\ object_size \in Nat \ {0} /\ Represents(buffer, object_size, Held)
      /\ vector_size = Len(Held) /\ Len(Held) \in Nat
  BY HeldAre
<1>2. f <= l /\ l <= Len(Held)
  BY <1>1 DEF vector_erase_range
<1>3. f \in 0..Len(Held) /\ l \in 0..Len(Held) /\ l - f \in 0..Len(Held)
  BY <1>1, <1>2
<1>4. buffer' = result /\ freed' = Between(f, l) /\ UNCHANGED object_size
  BY Zenon DEF vector_erase_range
<1>5. Between(f, l) = SubSeq(Held, f + 1, l)
  <2>1. RowFrom(buffer, object_size, f, l) = SubSeq(Held, f + 1, l)
    <3>1. Reads(buffer, object_size, f, l, SubSeq(Held, f + 1, l))
      BY <1>1, <1>2, RowFromIs, Zenon
    <3> QED
      BY <3>1, Zenon DEF Reads
  <2>2. Between(f, l) = RowFrom(buffer, object_size, f, l)
    BY Zenon DEF Between, vector_at, Bytes, RowFrom, ObjectAt, ObjectBytes
  <2> QED
    BY <2>1, <2>2, Zenon
<1>6. Represents(result, object_size, Spliced(Held, f, l, <<>>))
  BY <1>1, <1>2, <1>3, ErasedIs, Zenon
<1>7. Represents(buffer', object_size, Spliced(Held, f, l, <<>>))
  BY <1>4, <1>6, Zenon
<1>8. freed' = SubSeq(Held, f + 1, l)
  BY <1>4, <1>5, Zenon
<1>9. VectorInv' /\ RowOf!Splice(f, l - f, <<>>)
  BY <1>2, <1>3, <1>4, <1>7, <1>8, TakesOut, Zenon
<1> QED
  BY <1>3, <1>9, Zenon

LEMMA ClearTakesOut ==
  ASSUME VectorInv, vector_clear
  PROVE  VectorInv' /\ RowOf!Splice(0, Len(Held), <<>>)
<1> DEFINE n == Len(Held)
           u == Spliced(Held, 0, n, <<>>)
<1>1. object_size \in Nat \ {0} /\ Held \in Seq(Objects) /\ n \in Nat
  BY HeldAre
<1>2. buffer' = NewBuffer /\ freed' = Held /\ UNCHANGED object_size
  BY Zenon DEF vector_clear, buffer_clear
<1>3. 0 \in 0..n /\ n \in 0..n /\ 0 <= n /\ n - 0 = n /\ n - (n - 0) = 0 /\ 0 + 1 = 1
  BY <1>1
<1>4. u = <<>>
  <2>1. u \in Seq(Objects) /\ Len(u) = n - (n - 0)
    BY <1>1, <1>3, TakenOutIs
  <2> HIDE DEF u
  <2> QED
    BY <1>3, <2>1
<1>5. Represents(buffer', object_size, u)
  <2>1. Represents(NewBuffer, object_size, <<>>)
    BY <1>1, NewIs
  <2> QED
    BY <1>2, <1>4, <2>1, Zenon
<1>6. freed' = SubSeq(Held, 0 + 1, n)
  <2>1. /\ SubSeq(Held, 1, n) \in Seq(Objects) /\ Len(SubSeq(Held, 1, n)) = n
        /\ \A i \in 1..n : SubSeq(Held, 1, n)[i] = Held[i]
    BY <1>1, <1>3, FrontIs
  <2>2. SubSeq(Held, 1, n) = Held
    BY <1>1, <2>1, SameSequence
  <2> QED
    BY <1>2, <1>3, <2>2, Zenon
<1>7. VectorInv' /\ RowOf!Splice(0, n - 0, <<>>)
  BY <1>2, <1>3, <1>5, <1>6, TakesOut, Zenon
<1> QED
  BY <1>3, <1>7, Zenon

LEMMA PartsAre ==
  /\ <<>> \in BoundedSeq(Objects, 2)
  /\ \A a, b \in Objects : <<a, b>> \in BoundedSeq(Objects, 2) /\ <<a, b>> \in Seq(Objects)
  /\ \A o \in Objects : <<o>> \in BoundedSeq(Objects, 2)
  /\ \A count \in 0..2 : \A o \in Objects : Repeated(o, count) \in BoundedSeq(Objects, 2)
<1>1. ASSUME NEW m \in 0..2, NEW f \in [1..m -> Objects] PROVE f \in BoundedSeq(Objects, 2)
  BY DEF BoundedSeq, SeqOf
<1>2. <<>> \in [1..0 -> Objects] /\ 0 \in 0..2
  OBVIOUS
<1>3. ASSUME NEW a \in Objects, NEW b \in Objects
      PROVE  <<a, b>> \in [1..2 -> Objects] /\ <<a, b>> \in Seq(Objects) /\ 2 \in 0..2
  OBVIOUS
<1>4. ASSUME NEW o \in Objects PROVE <<o>> \in [1..1 -> Objects] /\ 1 \in 0..2
  OBVIOUS
<1>5. ASSUME NEW count \in 0..2, NEW o \in Objects
      PROVE  Repeated(o, count) \in [1..count -> Objects]
  BY DEF Repeated
<1>6. <<>> \in BoundedSeq(Objects, 2)
  BY <1>1, <1>2, Zenon
<1>7. \A a, b \in Objects : <<a, b>> \in BoundedSeq(Objects, 2) /\ <<a, b>> \in Seq(Objects)
  BY <1>1, <1>3, Zenon
<1>8. \A o \in Objects : <<o>> \in BoundedSeq(Objects, 2)
  BY <1>1, <1>4, Zenon
<1>9. \A count \in 0..2 : \A o \in Objects : Repeated(o, count) \in BoundedSeq(Objects, 2)
  BY <1>1, <1>5, Zenon
<1> QED
  BY <1>6, <1>7, <1>8, <1>9, Zenon

(* Every step keeps the invariant, and is a step of the row.                  *)
LEMMA VectorStep ==
  ASSUME VectorInv, VectorNext
  PROVE  VectorInv' /\ RowOf!Next
<1>1. object_size \in Nat \ {0} /\ Len(Held) \in Nat /\ vector_size = Len(Held)
  BY HeldAre
<1>2. ASSUME VectorInv' /\ RowOf!Keep PROVE VectorInv' /\ RowOf!Next
  BY <1>2, Zenon DEF RowOf!Next
<1>3. ASSUME NEW i \in 0..Len(Held), NEW n \in 0..Len(Held), NEW new \in BoundedSeq(Objects, 2),
             VectorInv', RowOf!Splice(i, n, new)
      PROVE  VectorInv' /\ RowOf!Next
  BY <1>3, Zenon DEF RowOf!Next
<1>4. 0 \in 0..Len(Held) /\ Len(Held) \in 0..Len(Held) /\ \A p \in 0..Len(Held) : p \in Nat
  BY <1>1
<1>5. ASSUME NEW asked \in 0..MaxReserved, vector_reserve(asked)
      PROVE  VectorInv' /\ RowOf!Next
  <2>1. asked \in Nat
    BY ObjectsOK
  <2> QED
    BY <1>2, <1>5, <2>1, ReserveKeeps, Zenon
<1>6. ASSUME vector_shrink_to_fit PROVE VectorInv' /\ RowOf!Next
  BY <1>2, <1>6, ShrinkKeeps, Zenon
<1>7. ASSUME vector_clear PROVE VectorInv' /\ RowOf!Next
  <2>1. VectorInv' /\ RowOf!Splice(0, Len(Held), <<>>)
    BY <1>7, ClearTakesOut, Zenon
  <2> QED
    BY <1>3, <1>4, <2>1, PartsAre, Zenon
<1>8. ASSUME NEW p \in 0..vector_size, NEW a \in Objects, NEW b \in Objects,
             vector_insert_range(p, <<a, b>>)
      PROVE  VectorInv' /\ RowOf!Next
  <2> DEFINE new == <<a, b>>
  <2>1. new \in BoundedSeq(Objects, 2) /\ new \in Seq(Objects)
    BY PartsAre, Zenon
  <2>2. p \in Nat /\ vector_insert_range(p, new)
    BY <1>1, <1>4, <1>8
  <2> HIDE DEF new
  <2>3. VectorInv' /\ p \in 0..Len(Held) /\ RowOf!Splice(p, 0, new)
    BY <2>1, <2>2, RangePutsIn, Zenon
  <2> QED
    BY <1>3, <1>4, <2>1, <2>3, Zenon
<1>9. ASSUME NEW p \in 0..vector_size, NEW count \in 0..2, NEW o \in Objects,
             vector_insert_fill(p, count, o)
      PROVE  VectorInv' /\ RowOf!Next
  <2>1. p \in Nat /\ count \in Nat
    BY <1>1, <1>4
  <2>2. VectorInv' /\ p \in 0..Len(Held) /\ RowOf!Splice(p, 0, Repeated(o, count))
    BY <1>9, <2>1, FillPutsIn, Zenon
  <2>3. Repeated(o, count) \in BoundedSeq(Objects, 2)
    BY PartsAre, Zenon
  <2> QED
    BY <1>3, <1>4, <2>2, <2>3, Zenon
<1>10. ASSUME NEW o \in Objects, AllocateObject(o) PROVE VectorInv' /\ RowOf!Next
  <2>1. VectorInv' /\ RowOf!Splice(Len(Held), 0, <<o>>)
    BY <1>10, AllocatePutsIn, Zenon
  <2>2. <<o>> \in BoundedSeq(Objects, 2)
    BY PartsAre, Zenon
  <2> QED
    BY <1>3, <1>4, <2>1, <2>2, Zenon
<1>11. ASSUME NEW f \in 0..vector_size, NEW l \in 0..vector_size, vector_erase_range(f, l)
       PROVE  VectorInv' /\ RowOf!Next
  <2>1. f \in Nat /\ l \in Nat
    BY <1>1, <1>4
  <2>2. /\ VectorInv' /\ f \in 0..Len(Held) /\ l - f \in 0..Len(Held)
        /\ RowOf!Splice(f, l - f, <<>>)
    BY <1>11, <2>1, EraseTakesOut, Zenon
  <2> QED
    BY <1>3, <2>2, PartsAre, Zenon
<1> QED
  BY <1>5, <1>6, <1>7, <1>8, <1>9, <1>10, <1>11, Zenon DEF VectorNext

LEMMA VectorInvInvariant == VectorSpec => []VectorInv
<1>1. ASSUME VectorInit PROVE VectorInv
  <2>1. buffer = NewBuffer /\ object_size \in ObjectSizes /\ object_size \in Nat \ {0}
    BY <1>1, ObjectsOK DEF VectorInit
  <2>2. Represents(buffer, object_size, <<>>)
    BY <2>1, NewIs, Zenon
  <2>3. Held = <<>>
    BY <2>1, <2>2, HeldIs, Zenon
  <2> QED
    BY <2>1, <2>2, <2>3, Zenon DEF VectorInv
<1>2. ASSUME VectorInv, [VectorNext]_vector_vars PROVE VectorInv'
  <2>1. CASE VectorNext
    BY <1>2, <2>1, VectorStep, Zenon
  <2>2. CASE UNCHANGED vector_vars
    <3>1. UNCHANGED object_size /\ buffer' = buffer
      BY <2>2, Zenon DEF vector_vars
    <3>2. Represents(buffer', object_size, Held)
      BY <1>2, <3>1, HeldAre, Zenon
    <3> QED
      BY <1>2, <3>1, <3>2, NextHolds, Zenon
  <2> QED
    BY <1>2, <2>1, <2>2, Zenon
<1> QED
  BY <1>1, <1>2, PTL DEF VectorSpec

(* Whatever the sizes of the objects and the bounds, a vector is a row of     *)
(* objects: vector_insert_range, vector_insert_fill, stream_allocate,         *)
(* vector_erase_range and vector_clear put in and take out whole objects, the *)
(* ones they name, and move the others as they are; what is taken out is      *)
(* handed to the release function in order; and the row is the same after any *)
(* reallocation.                                                              *)
THEOREM VectorImplementsRow == VectorSpec => VectorIsRow
<1>1. ASSUME VectorInit PROVE RowOf!Init
  <2>1. buffer = NewBuffer /\ freed = <<>> /\ object_size \in Nat \ {0}
    BY <1>1, ObjectsOK DEF VectorInit
  <2>2. Represents(buffer, object_size, <<>>)
    BY <2>1, NewIs, Zenon
  <2>3. Held = <<>>
    BY <2>1, <2>2, HeldIs, Zenon
  <2> QED
    BY <2>1, <2>3, Zenon DEF RowOf!Init
<1>2. ASSUME VectorInv, [VectorNext]_vector_vars PROVE [RowStep]_vector_vars
  <2>1. CASE UNCHANGED vector_vars
    BY <2>1, Zenon DEF RowStep
  <2>2. CASE VectorNext
    <3>1. RowOf!Next
      BY <1>2, <2>2, VectorStep, Zenon
    <3>2. \A n \in 0..MaxObjects : n \in Nat
      BY ObjectsOK
    <3>3. ASSUME NEW p \in 0..MaxObjects, NEW a \in Objects, NEW b \in Objects,
                 vector_insert_range(p, <<a, b>>)
          PROVE  RowOf!Splice(p, 0, <<a, b>>)
      <4> DEFINE new == <<a, b>>
      <4>1. p \in Nat /\ new \in Seq(Objects) /\ vector_insert_range(p, new)
        BY <3>2, <3>3, PartsAre, Zenon
      <4> HIDE DEF new
      <4>2. RowOf!Splice(p, 0, new)
        BY <1>2, <4>1, RangePutsIn, Zenon
      <4> QED
        BY <4>2, Zenon DEF new
    <3>4. ASSUME NEW p \in 0..MaxObjects, NEW count \in 0..MaxObjects, NEW o \in Objects,
                 vector_insert_fill(p, count, o)
          PROVE  RowOf!Splice(p, 0, [i \in 1..count |-> o])
      <4>1. RowOf!Splice(p, 0, Repeated(o, count))
        BY <1>2, <3>2, <3>4, FillPutsIn, Zenon
      <4> QED
        BY <4>1, Zenon DEF Repeated
    <3>5. ASSUME NEW o \in Objects, AllocateObject(o) PROVE RowOf!Splice(Len(Held), 0, <<o>>)
      BY <1>2, <3>5, AllocatePutsIn, Zenon
    <3>6. ASSUME NEW i \in 0..MaxObjects, NEW j \in 0..MaxObjects, vector_erase_range(i, j)
          PROVE  RowOf!Splice(i, j - i, <<>>)
      BY <1>2, <3>2, <3>6, EraseTakesOut, Zenon
    <3>7. vector_clear => RowOf!Splice(0, Len(Held), <<>>)
      BY <1>2, ClearTakesOut, Zenon
    <3> QED
      BY <3>1, <3>3, <3>4, <3>5, <3>6, <3>7, Zenon DEF RowStep
  <2> QED
    BY <1>2, <2>1, <2>2, Zenon
<1> QED
  BY <1>1, <1>2, VectorInvInvariant, PTL DEF VectorSpec, VectorIsRow
=============================================================================
