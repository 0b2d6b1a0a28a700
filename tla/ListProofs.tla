----------------------------- MODULE ListProofs -----------------------------
(***************************************************************************)
(* Proofs about List: the links of live nodes are always the inverse of    *)
(* each other, and each list is the sequence of items that its operations  *)
(* make, however many lists and items there are.                           *)
(***************************************************************************)
EXTENDS List, Integers, FiniteSetTheorems, SequenceTheorems, TLAPS

(* Each live node belongs to one list, and its links stay within that list:   *)
(* what list_clear finds behind the head of a list is never another head.     *)
Separate(k, live) ==
  \E owner \in [live -> Lists] :
    /\ \A l \in Lists : owner[l] = l
    /\ \A n \in live : owner[k.next[n]] = owner[n]

Whole(k, live) == Lists \subseteq live /\ Circular(k, live) /\ Separate(k, live)

IInv == TypeOK /\ Whole(link, Live)

Pairs == [next : Links, previous : Links]

(* Putting a node that is not live between two live ones keeps the circles    *)
(* whole.                                                                     *)
LEMMA LinkKeeps ==
  ASSUME NEW k \in Pairs, NEW live \in SUBSET Nodes, Whole(k, live),
         NEW to \in live, NEW x \in Nodes \ live
  PROVE  /\ LinkBefore(k, x, to) \in Pairs
         /\ Whole(LinkBefore(k, x, to), live \cup {x})
<1> DEFINE before == k.previous[to]
           new == LinkBefore(k, x, to)
<1>1. k.next \in Links /\ k.previous \in Links
  BY DEF Pairs
<1>2. before \in live /\ k.next[before] = to /\ before # x /\ to # x
  BY DEF Circular, Whole
<1>3. /\ new.next = [k.next EXCEPT ![x] = to, ![before] = x]
      /\ new.previous = [k.previous EXCEPT ![x] = before, ![to] = x]
  BY DEF LinkBefore
<1>4. new \in Pairs
  BY <1>1, <1>2 DEF LinkBefore, Pairs, Links
<1>5. /\ \A n \in live : new.next[n] = IF n = before THEN x ELSE k.next[n]
      /\ \A n \in live : new.previous[n] = IF n = to THEN x ELSE k.previous[n]
      /\ new.next[x] = to /\ new.previous[x] = before
  BY <1>1, <1>2, <1>3 DEF Links
<1>6. Circular(new, live \cup {x})
  BY <1>2, <1>5 DEF Circular, Whole
<1>7. Separate(new, live \cup {x})
  <2>1. PICK owner \in [live -> Lists] :
          /\ \A l \in Lists : owner[l] = l
          /\ \A n \in live : owner[k.next[n]] = owner[n]
    BY DEF Separate, Whole
  <2> DEFINE new_owner == [n \in live \cup {x} |-> IF n = x THEN owner[to] ELSE owner[n]]
  <2>2. new_owner \in [live \cup {x} -> Lists]
    BY <2>1
  <2>3. \A l \in Lists : new_owner[l] = l
    BY <2>1 DEF Whole
  <2>4. \A n \in live \cup {x} : new_owner[new.next[n]] = new_owner[n]
    <3>1. owner[to] = owner[before]
      BY <1>2, <2>1
    <3> QED BY <1>2, <1>5, <2>1, <3>1 DEF Circular, Whole
  <2> HIDE DEF new_owner
  <2> QED BY <2>2, <2>3, <2>4 DEF Separate
<1> QED BY <1>4, <1>6, <1>7 DEF Whole

(* Taking out a node keeps the circles of the others whole, whatever its own  *)
(* links are afterwards.                                                      *)
LEMMA UnlinkKeeps ==
  ASSUME NEW k \in Pairs, NEW live \in SUBSET Nodes, Whole(k, live),
         NEW x \in live \ Lists
  PROVE  /\ Unlink(k, x) \in Pairs
         /\ Whole(Unlink(k, x), live \ {x})
<1> DEFINE before == k.previous[x]
           after == k.next[x]
           new == Unlink(k, x)
<1>1. k.next \in Links /\ k.previous \in Links
  BY DEF Pairs
<1>2. /\ before \in live /\ after \in live
      /\ k.next[before] = x /\ k.previous[after] = x
  BY DEF Circular, Whole
<1>3. /\ new.next = [k.next EXCEPT ![before] = after]
      /\ new.previous = [k.previous EXCEPT ![after] = before]
  BY DEF Unlink
<1>4. new \in Pairs
  BY <1>1, <1>2 DEF Unlink, Pairs, Links
<1>5. /\ \A n \in live : new.next[n] = IF n = before THEN after ELSE k.next[n]
      /\ \A n \in live : new.previous[n] = IF n = after THEN before ELSE k.previous[n]
  BY <1>1, <1>2, <1>3 DEF Links
<1>6. Circular(new, live \ {x})
  <2>1. CASE after = x
    <3>1. before = x
      BY <1>2, <2>1
    <3> QED BY <1>2, <1>5, <2>1, <3>1 DEF Circular, Whole
  <2>2. CASE after # x
    BY <1>2, <1>5, <2>2 DEF Circular, Whole
  <2> QED BY <2>1, <2>2
<1>7. Separate(new, live \ {x})
  <2>1. PICK owner \in [live -> Lists] :
          /\ \A l \in Lists : owner[l] = l
          /\ \A n \in live : owner[k.next[n]] = owner[n]
    BY DEF Separate, Whole
  <2> DEFINE new_owner == [n \in live \ {x} |-> owner[n]]
  <2>2. new_owner \in [live \ {x} -> Lists] /\ \A l \in Lists : new_owner[l] = l
    BY <2>1 DEF Whole
  <2>3. \A n \in live \ {x} : new_owner[new.next[n]] = new_owner[n]
    <3>1. owner[after] = owner[x] /\ owner[x] = owner[before]
      BY <1>2, <2>1
    <3>2. \A n \in live \ {x} : new.next[n] \in live \ {x}
      BY <1>6 DEF Circular
    <3> QED BY <1>2, <1>5, <2>1, <3>1, <3>2
  <2> HIDE DEF new_owner
  <2> QED BY <2>2, <2>3 DEF Separate
<1> QED BY <1>4, <1>6, <1>7 DEF Whole

(* The memory of a node that is no longer live may be used for anything.      *)
LEMMA FreedKeeps ==
  ASSUME NEW k \in Pairs, NEW live \in SUBSET Nodes, Whole(k, live),
         NEW x \in Nodes \ live
  PROVE  Freed(k, x) \in Pairs /\ Whole(Freed(k, x), live)
<1>1. Freed(k, x) \in Pairs
  BY DEF Freed, Pairs, Links
<1>2. \A n \in live : Freed(k, x).next[n] = k.next[n] /\ Freed(k, x).previous[n] = k.previous[n]
  BY DEF Freed, Pairs, Links
<1>3. Circular(Freed(k, x), live)
  BY <1>2 DEF Circular, Whole
<1>4. Separate(Freed(k, x), live)
  BY <1>2 DEF Separate, Whole
<1> QED BY <1>1, <1>3, <1>4 DEF Whole

LEMMA EraseKeeps ==
  ASSUME IInv, NEW x \in allocated,
         link' = Freed(Unlink(link, x), x), allocated' = allocated \ {x}
  PROVE  link' \in Pairs /\ allocated' \subseteq Items /\ Whole(link', Live')
<1>1. /\ link \in Pairs /\ Whole(link, Live) /\ Live \in SUBSET Nodes
      /\ x \in Live \ Lists /\ x \in Nodes
  BY ConstantsOK DEF IInv, TypeOK, Live, Nodes, Pairs
<1>2. Unlink(link, x) \in Pairs /\ Whole(Unlink(link, x), Live \ {x})
  BY <1>1, UnlinkKeeps
<1>3. Live' = Live \ {x}
  BY ConstantsOK DEF Live, IInv, TypeOK
<1>4. link' \in Pairs /\ Whole(link', Live')
  BY <1>1, <1>2, <1>3, FreedKeeps
<1> QED BY <1>4 DEF IInv, TypeOK, Whole

LEMMA InitInv == Init => IInv
<1> SUFFICES ASSUME Init PROVE IInv
  OBVIOUS
<1> DEFINE self == [n \in Nodes |-> IF n \in Lists THEN n ELSE Null]
<1>1. self \in Links
  BY DEF Links, Nodes
<1>2. link = [next |-> self, previous |-> self] /\ Live = Lists
  BY DEF Init, Live
<1>3. TypeOK
  BY <1>1, <1>2 DEF Init, TypeOK
<1>4. \A n \in Lists : self[n] = n
  BY DEF Nodes
<1>5. Circular(link, Live)
  BY <1>2, <1>4 DEF Circular
<1>6. Separate(link, Live)
  <2> DEFINE owner == [l \in Lists |-> l]
  <2>1. /\ owner \in [Live -> Lists] /\ \A l \in Lists : owner[l] = l
        /\ \A n \in Live : owner[link.next[n]] = owner[n]
    BY <1>2, <1>4
  <2> HIDE DEF owner
  <2> QED BY <2>1 DEF Separate
<1> QED BY <1>2, <1>3, <1>5, <1>6 DEF IInv, Whole

(* What list_clear finds behind the head of a list is the head or an item.    *)
LEMMA FrontIsItem ==
  ASSUME IInv, clearing # Null
  PROVE  link.next[clearing] = clearing \/ link.next[clearing] \in allocated
<1> DEFINE front == link.next[clearing]
<1>1. PICK owner \in [Live -> Lists] :
        /\ \A l \in Lists : owner[l] = l
        /\ \A n \in Live : owner[link.next[n]] = owner[n]
  BY DEF IInv, Separate, Whole
<1>2. clearing \in Lists /\ clearing \in Live
  BY DEF IInv, TypeOK, Live
<1>3. front \in Live
  BY <1>2 DEF IInv, Whole, Circular
<1>4. front \in Lists => front = clearing
  BY <1>1, <1>2
<1> QED
  BY <1>3, <1>4 DEF Live

LEMMA StepInv == IInv /\ [Next]_vars => IInv'
<1> SUFFICES ASSUME IInv, [Next]_vars PROVE IInv'
  OBVIOUS
<1>0. /\ link \in Pairs /\ Whole(link, Live) /\ Live \in SUBSET Nodes
      /\ allocated \subseteq Items /\ clearing \in Lists \cup {Null}
  BY ConstantsOK DEF IInv, TypeOK, Live, Nodes, Pairs
<1>1. ASSUME NEW to \in Nodes, NEW x \in Items, list_insert(to, x) PROVE IInv'
  <2>1. to \in Live /\ x \in Nodes \ Live
    BY <1>1, ConstantsOK DEF list_insert, Live, Nodes
  <2>2. link' \in Pairs /\ Whole(link', Live \cup {x})
    BY <1>0, <1>1, <2>1, LinkKeeps DEF list_insert
  <2>3. Live' = Live \cup {x}
    BY <1>1 DEF list_insert, Live
  <2> QED BY <1>0, <1>1, <2>2, <2>3 DEF list_insert, IInv, TypeOK, Pairs
<1>2. ASSUME NEW to \in Nodes, NEW x \in Items, list_splice(to, x) PROVE IInv'
  <2>1. to \in Live /\ x \in Live \ Lists /\ Live' = Live
    BY <1>2, ConstantsOK, <1>0 DEF list_splice, Live
  <2>2. CASE to = x
    BY <1>0, <1>2, <2>1, <2>2 DEF list_splice, IInv, TypeOK, Pairs
  <2>3. CASE to # x
    <3>1. Unlink(link, x) \in Pairs /\ Whole(Unlink(link, x), Live \ {x})
      BY <1>0, <2>1, UnlinkKeeps
    <3>2. /\ Live \ {x} \in SUBSET Nodes /\ to \in Live \ {x}
          /\ x \in Nodes \ (Live \ {x}) /\ (Live \ {x}) \cup {x} = Live
      BY <1>0, <2>1, <2>3
    <3>3. link' = LinkBefore(Unlink(link, x), x, to)
      BY <1>2, <2>3 DEF list_splice
    <3>4. link' \in Pairs /\ Whole(link', (Live \ {x}) \cup {x})
      BY <3>1, <3>2, <3>3, LinkKeeps
    <3> QED BY <1>0, <1>2, <2>1, <3>2, <3>4
         DEF list_splice, IInv, TypeOK, Pairs
  <2> QED BY <2>2, <2>3
<1>3. ASSUME NEW x \in Items, list_erase(x) PROVE IInv'
  <2>1. link' \in Pairs /\ allocated' \subseteq Items /\ Whole(link', Live')
    BY <1>3, EraseKeeps DEF list_erase
  <2> QED BY <1>0, <1>3, <2>1 DEF list_erase, IInv, TypeOK, Pairs
<1>4. ASSUME NEW l \in Lists, list_clear(l) PROVE IInv'
  BY <1>0, <1>4 DEF list_clear, IInv, TypeOK, Live, Pairs
<1>5. ASSUME ClearFront PROVE IInv'
  <2> DEFINE front == link.next[clearing]
  <2>1. CASE front = clearing
    BY <1>0, <1>5, <2>1 DEF ClearFront, IInv, TypeOK, Live, Pairs
  <2>2. CASE front # clearing /\ front \in allocated
    <3>1. link' \in Pairs /\ allocated' \subseteq Items /\ Whole(link', Live')
      BY <1>5, <2>2, EraseKeeps DEF ClearFront
    <3> QED BY <1>0, <1>5, <2>2, <3>1 DEF ClearFront, IInv, TypeOK, Pairs
  <2>3. front = clearing \/ front \in allocated
    BY <1>5, FrontIsItem DEF ClearFront
  <2> QED BY <2>1, <2>2, <2>3
<1>6. CASE UNCHANGED vars
  BY <1>0, <1>6 DEF vars, IInv, TypeOK, Live, Pairs
<1> QED BY <1>1, <1>2, <1>3, <1>4, <1>5, <1>6 DEF Next

(* list_foreach and list_foreach_reverse see the same items, and none that    *)
(* was freed.                                                                 *)
THEOREM LinksInverse == Spec => []Linked
<1>1. Spec => []IInv
  BY InitInv, StepInv, PTL DEF Spec
<1>2. IInv => Linked
  BY DEF IInv, Whole, Linked
<1> QED BY <1>1, <1>2, PTL

-----------------------------------------------------------------------------
(* The sequences that the links lay out.                                      *)

(* The i-th node of the circle of list l, whose items are s.                  *)
Node(l, s, i) == IF i \in 1..Len(s) THEN s[i] ELSE l

Threads(k, l, s) == \A i \in 0..Len(s) : k.next[Node(l, s, i)] = Node(l, s, i + 1)

Laid(k, live, c) ==
  /\ c \in [Lists -> Seq(Items)]
  /\ \A l \in Lists : \A i \in 1..Len(c[l]) : c[l][i] \in live
  /\ \A x \in live \ Lists : \E l \in Lists : \E i \in 1..Len(c[l]) : c[l][i] = x
  /\ \A l1, l2 \in Lists : \A i \in 1..Len(c[l1]), j \in 1..Len(c[l2]) :
       c[l1][i] = c[l2][j] => l1 = l2 /\ i = j
  /\ \A l \in Lists : Threads(k, l, c[l])

LEMMA NodesApart ==
  ASSUME NEW k, NEW live \in SUBSET Nodes, NEW c, Laid(k, live, c), Lists \subseteq live
  PROVE  /\ \A l \in Lists : \A i \in Int : Node(l, c[l], i) \in live
         /\ \A l1, l2 \in Lists : \A i \in 0..Len(c[l1]), j \in 0..Len(c[l2]) :
              Node(l1, c[l1], i) = Node(l2, c[l2], j) => l1 = l2 /\ i = j
<1>1. \A l \in Lists : /\ Len(c[l]) \in Nat
                       /\ \A i \in 1..Len(c[l]) : c[l][i] \in Items /\ c[l][i] \notin Lists
  <2>1. ASSUME NEW s \in Seq(Items)
        PROVE  Len(s) \in Nat /\ \A i \in 1..Len(s) : s[i] \in Items /\ s[i] \notin Lists
    BY ConstantsOK
  <2> QED
    BY <2>1 DEF Laid
<1>2. \A l \in Lists : \A i \in Int : Node(l, c[l], i) \in live
  BY DEF Laid, Node
<1>3. ASSUME NEW l1 \in Lists, NEW l2 \in Lists, NEW i \in 0..Len(c[l1]), NEW j \in 0..Len(c[l2]),
             Node(l1, c[l1], i) = Node(l2, c[l2], j)
      PROVE  l1 = l2 /\ i = j
  <2>1. CASE i = 0
    BY <1>1, <1>3, <2>1 DEF Node
  <2>2. CASE j = 0
    BY <1>1, <1>3, <2>2 DEF Node
  <2>3. CASE i # 0 /\ j # 0
    <3>1. i \in 1..Len(c[l1]) /\ j \in 1..Len(c[l2])
      BY <1>1, <2>3
    <3>2. c[l1][i] = c[l2][j]
      BY <1>3, <3>1 DEF Node
    <3> QED
      BY <3>1, <3>2 DEF Laid
  <2> QED
    BY <2>1, <2>2, <2>3
<1> QED
  BY <1>2, <1>3

(* Every live node has a place, its successor's place is the next one.        *)
LEMMA PlaceOfNode ==
  ASSUME NEW k, NEW live \in SUBSET Nodes, NEW c, Laid(k, live, c), Whole(k, live),
         NEW n \in live
  PROVE  \E l \in Lists : \E p \in 1..Len(c[l]) + 1 :
           /\ n = Node(l, c[l], p)
           /\ n \in Lists => n = l /\ p = Len(c[l]) + 1
           /\ n \notin Lists => p \in 1..Len(c[l])
           /\ k.previous[n] = Node(l, c[l], p - 1)
<1>1. Lists \subseteq live /\ \A l \in Lists : Len(c[l]) \in Nat
  BY DEF Whole, Laid
<1>2. ASSUME NEW l \in Lists, NEW p \in 1..Len(c[l]) + 1, n = Node(l, c[l], p)
      PROVE  k.previous[n] = Node(l, c[l], p - 1)
  <2>1. p - 1 \in Int /\ p - 1 \in 0..Len(c[l]) /\ (p - 1) + 1 = p
    BY <1>1
  <2>2. k.next[Node(l, c[l], p - 1)] = n
    <3>1. Threads(k, l, c[l])
      BY DEF Laid
    <3>2. k.next[Node(l, c[l], p - 1)] = Node(l, c[l], (p - 1) + 1)
      BY <2>1, <3>1 DEF Threads
    <3> QED
      BY <1>2, <2>1, <3>2
  <2>3. Node(l, c[l], p - 1) \in live
    BY <1>1, <2>1, NodesApart
  <2> QED
    BY <2>2, <2>3 DEF Whole, Circular
<1>3. CASE n \in Lists
  <2>1. n = Node(n, c[n], Len(c[n]) + 1) /\ Len(c[n]) + 1 \in 1..Len(c[n]) + 1
    BY <1>1, <1>3 DEF Node
  <2> QED
    BY <1>2, <1>3, <2>1
<1>4. CASE n \notin Lists
  <2>1. PICK l \in Lists : \E i \in 1..Len(c[l]) : c[l][i] = n
    BY <1>4 DEF Laid
  <2>2. PICK i \in 1..Len(c[l]) : c[l][i] = n
    BY <2>1
  <2>3. n = Node(l, c[l], i) /\ i \in 1..Len(c[l]) + 1
    BY <1>1, <2>2 DEF Node
  <2> QED
    BY <1>2, <1>4, <2>3
<1> QED
  BY <1>3, <1>4

(* Sequence s with x put at place p, and without what is there.               *)
Inserted(s, p, x) ==
  [i \in 1..Len(s) + 1 |-> IF i < p THEN s[i] ELSE IF i = p THEN x ELSE s[i - 1]]

Removed(s, p) == [i \in 1..Len(s) - 1 |-> IF i < p THEN s[i] ELSE s[i + 1]]

LEMMA InsertedIs ==
  ASSUME NEW S, NEW s \in Seq(S), NEW x \in S, NEW p \in 1..Len(s) + 1
  PROVE  /\ Inserted(s, p, x) \in Seq(S)
         /\ Len(Inserted(s, p, x)) = Len(s) + 1
         /\ \A i \in 1..p - 1 : Inserted(s, p, x)[i] = s[i]
         /\ Inserted(s, p, x)[p] = x
         /\ \A i \in p..Len(s) : Inserted(s, p, x)[i + 1] = s[i]
<1>1. Len(s) \in Nat /\ \A i \in 1..Len(s) : s[i] \in S
  OBVIOUS
<1>2. Inserted(s, p, x) \in [1..Len(s) + 1 -> S]
  BY <1>1 DEF Inserted
<1>3. Inserted(s, p, x) \in Seq(S) /\ Len(Inserted(s, p, x)) = Len(s) + 1
  BY <1>1, <1>2
<1>4. \A i \in 1..Len(s) + 1 :
        Inserted(s, p, x)[i] = IF i < p THEN s[i] ELSE IF i = p THEN x ELSE s[i - 1]
  BY DEF Inserted
<1>5. \A i \in p..Len(s) : i + 1 \in 1..Len(s) + 1 /\ ~(i + 1 < p) /\ i + 1 # p /\ (i + 1) - 1 = i
  BY <1>1
<1>6. \A i \in p..Len(s) : Inserted(s, p, x)[i + 1] = s[i]
  BY <1>4, <1>5
<1>7. \A i \in 1..p - 1 : Inserted(s, p, x)[i] = s[i]
  BY <1>1, <1>4
<1>8. Inserted(s, p, x)[p] = x
  BY <1>1, <1>4
<1> QED
  BY <1>3, <1>6, <1>7, <1>8

LEMMA RemovedIs ==
  ASSUME NEW S, NEW s \in Seq(S), NEW p \in 1..Len(s)
  PROVE  /\ Removed(s, p) \in Seq(S)
         /\ Len(Removed(s, p)) = Len(s) - 1
         /\ \A i \in 1..p - 1 : Removed(s, p)[i] = s[i]
         /\ \A i \in p..Len(s) - 1 : Removed(s, p)[i] = s[i + 1]
<1>1. Len(s) \in Nat /\ \A i \in 1..Len(s) : s[i] \in S
  OBVIOUS
<1>2. Removed(s, p) \in [1..Len(s) - 1 -> S]
  BY <1>1 DEF Removed
<1>3. Removed(s, p) \in Seq(S) /\ Len(Removed(s, p)) = Len(s) - 1
  <2>1. Len(s) - 1 \in Nat
    BY <1>1
  <2> QED
    BY <1>2, <2>1
<1>4. \A i \in 1..Len(s) - 1 : Removed(s, p)[i] = IF i < p THEN s[i] ELSE s[i + 1]
  BY DEF Removed
<1> QED
  BY <1>1, <1>3, <1>4

(* A node put between two of a list becomes an item of it at that place.      *)
LEMMA LinkLays ==
  ASSUME NEW k \in Pairs, NEW live \in SUBSET Nodes, NEW c, Laid(k, live, c), Whole(k, live),
         NEW x \in Items \ live, NEW l \in Lists, NEW p \in 1..Len(c[l]) + 1,
         NEW to \in live, to = Node(l, c[l], p), k.previous[to] = Node(l, c[l], p - 1)
  PROVE  Laid(LinkBefore(k, x, to), live \cup {x}, [c EXCEPT ![l] = Inserted(c[l], p, x)])
<1> DEFINE before == k.previous[to]
           new == LinkBefore(k, x, to)
           s == Inserted(c[l], p, x)
           d == [c EXCEPT ![l] = s]
<1>1. /\ Lists \subseteq live /\ c \in [Lists -> Seq(Items)] /\ x \in Nodes \ live /\ x \notin Lists
      /\ \A i \in Lists : Len(c[i]) \in Nat
  BY ConstantsOK DEF Whole, Laid, Nodes
<1>2. /\ s \in Seq(Items) /\ Len(s) = Len(c[l]) + 1 /\ s[p] = x
      /\ \A i \in 1..p - 1 : s[i] = c[l][i]
      /\ \A i \in p..Len(c[l]) : s[i + 1] = c[l][i]
  BY <1>1, InsertedIs
<1>3. before \in live /\ \A n \in live : new.next[n] = IF n = before THEN x ELSE k.next[n]
  BY <1>1 DEF Whole, Circular, LinkBefore, Pairs, Links
<1>4. new.next[x] = to
  BY <1>1, <1>3 DEF LinkBefore, Pairs, Links
<1> HIDE DEF s, new
<1>5. d \in [Lists -> Seq(Items)] /\ d[l] = s /\ \A i \in Lists \ {l} : d[i] = c[i]
  BY <1>1, <1>2
<1> HIDE DEF d, before
<1>6. \A i \in 1..Len(s) : \/ i \in 1..p - 1 /\ i \in 1..Len(c[l]) /\ s[i] = c[l][i]
                           \/ i = p /\ s[i] = x
                           \/ i - 1 \in p..Len(c[l]) /\ i - 1 \in 1..Len(c[l]) /\ s[i] = c[l][i - 1]
  <2> SUFFICES ASSUME NEW i \in 1..Len(s)
               PROVE  \/ i \in 1..p - 1 /\ i \in 1..Len(c[l]) /\ s[i] = c[l][i]
                      \/ i = p /\ s[i] = x
                      \/ i - 1 \in p..Len(c[l]) /\ i - 1 \in 1..Len(c[l]) /\ s[i] = c[l][i - 1]
    OBVIOUS
  <2>1. CASE i > p
    <3>1. i - 1 \in p..Len(c[l]) /\ i - 1 \in 1..Len(c[l]) /\ (i - 1) + 1 = i
      BY <1>1, <1>2, <2>1
    <3> QED
      BY <1>2, <3>1
  <2>2. CASE i < p
    BY <1>1, <1>2, <2>2
  <2> QED
    BY <1>1, <1>2, <2>1, <2>2
<1>live. \A i \in Lists : \A j \in 1..Len(c[i]) : c[i][j] \in live
  BY DEF Laid
<1>apart. \A l1, l2 \in Lists : \A i \in 1..Len(c[l1]), j \in 1..Len(c[l2]) :
            c[l1][i] = c[l2][j] => l1 = l2 /\ i = j
  BY DEF Laid
<1>all. \A y \in live \ Lists : \E i \in Lists : \E j \in 1..Len(c[i]) : c[i][j] = y
  BY DEF Laid
<1>7. \A i \in 1..Len(s) : i # p =>
        \E a \in 1..Len(c[l]) : s[i] = c[l][a] /\ a = IF i < p THEN i ELSE i - 1
  <2> SUFFICES ASSUME NEW i \in 1..Len(s), i # p
               PROVE  \E a \in 1..Len(c[l]) : s[i] = c[l][a] /\ a = IF i < p THEN i ELSE i - 1
    OBVIOUS
  <2>1. CASE i < p
    BY <1>1, <1>6, <2>1
  <2>2. CASE ~(i < p)
    BY <1>1, <1>6, <2>2
  <2> QED
    BY <2>1, <2>2
<1>8. \A i \in 1..Len(s) : i # p => s[i] \in live
  BY <1>7, <1>live, Zenon
<1>9. ASSUME NEW i \in Lists, NEW j \in 1..Len(d[i]) PROVE d[i][j] \in live \cup {x}
  <2>1. CASE i = l
    <3>1. j \in 1..Len(s) /\ d[i][j] = s[j]
      BY <1>5, <2>1
    <3> QED
      BY <1>2, <1>8, <3>1
  <2>2. CASE i # l
    BY <1>5, <1>live, <2>2
  <2> QED
    BY <2>1, <2>2
<1>10. ASSUME NEW y \in (live \cup {x}) \ Lists
      PROVE  \E i \in Lists : \E j \in 1..Len(d[i]) : d[i][j] = y
  <2>1. CASE y = x
    <3>1. p \in 1..Len(d[l]) /\ d[l][p] = y
      BY <1>1, <1>2, <1>5, <2>1
    <3> QED
      BY <3>1
  <2>2. CASE y # x
    <3>1. PICK i \in Lists : \E j \in 1..Len(c[i]) : c[i][j] = y
      BY <1>all, <2>2
    <3>2. PICK j \in 1..Len(c[i]) : c[i][j] = y
      BY <3>1
    <3>3. CASE i # l
      BY <1>5, <3>2, <3>3
    <3>4. CASE i = l /\ j < p
      <4>1. j \in 1..Len(d[l]) /\ d[l][j] = y
        BY <1>1, <1>2, <1>5, <3>2, <3>4
      <4> QED
        BY <4>1
    <3>5. CASE i = l /\ j >= p
      <4>1. j + 1 \in 1..Len(d[l]) /\ j \in p..Len(c[l])
        BY <1>1, <1>2, <1>5, <3>2, <3>5
      <4>2. d[l][j + 1] = y
        BY <1>2, <1>5, <3>2, <3>5, <4>1
      <4> QED
        BY <4>1, <4>2
    <3> QED
      BY <1>1, <3>3, <3>4, <3>5
  <2> QED
    BY <2>1, <2>2
<1>11. ASSUME NEW l1 \in Lists, NEW l2 \in Lists, NEW i \in 1..Len(d[l1]), NEW j \in 1..Len(d[l2]),
              d[l1][i] = d[l2][j]
       PROVE  l1 = l2 /\ i = j
  <2>1. CASE l1 # l /\ l2 # l
    BY <1>5, <1>apart, <1>11, <2>1
  <2>2. CASE l1 = l /\ l2 # l
    <3>1. i \in 1..Len(s) /\ j \in 1..Len(c[l2]) /\ s[i] = c[l2][j] /\ s[i] \in live
      BY <1>5, <1>live, <1>11, <2>2
    <3>2. PICK a \in 1..Len(c[l]) : s[i] = c[l][a]
      BY <1>1, <1>2, <1>7, <3>1
    <3> QED
      BY <1>apart, <2>2, <3>1, <3>2, ZenonT(60)
  <2>3. CASE l1 # l /\ l2 = l
    <3>1. i \in 1..Len(c[l1]) /\ j \in 1..Len(s) /\ s[j] = c[l1][i] /\ s[j] \in live
      BY <1>5, <1>live, <1>11, <2>3
    <3>2. PICK a \in 1..Len(c[l]) : s[j] = c[l][a]
      BY <1>1, <1>2, <1>7, <3>1
    <3> QED
      BY <1>apart, <2>3, <3>1, <3>2, ZenonT(60)
  <2>4. CASE l1 = l /\ l2 = l
    <3>1. i \in 1..Len(s) /\ j \in 1..Len(s) /\ s[i] = s[j]
      BY <1>5, <1>11, <2>4
    <3>2. /\ i = p \/ s[i] \in live
          /\ j = p \/ s[j] \in live
      BY <1>8, <3>1
    <3>3. CASE i = p \/ j = p
      BY <1>1, <1>2, <2>4, <3>1, <3>2, <3>3
    <3>4. CASE i # p /\ j # p
      <4>1. PICK a \in 1..Len(c[l]) : s[i] = c[l][a] /\ a = IF i < p THEN i ELSE i - 1
        BY <1>7, <3>1, <3>4
      <4>2. PICK b \in 1..Len(c[l]) : s[j] = c[l][b] /\ b = IF j < p THEN j ELSE j - 1
        BY <1>7, <3>1, <3>4
      <4>3. c[l][a] = c[l][b]
        BY <3>1, <4>1, <4>2
      <4>4. a = b
        BY <1>apart, <4>3, ZenonT(60)
      <4> QED
        BY <1>1, <1>2, <2>4, <3>1, <3>4, <4>1, <4>2, <4>4
    <3> QED
      BY <3>3, <3>4
  <2> QED
    BY <2>1, <2>2, <2>3, <2>4
<1>12. ASSUME NEW i \in Lists PROVE Threads(new, i, d[i])
  <2>1. /\ \A j \in 0..Len(c[i]) : k.next[Node(i, c[i], j)] = Node(i, c[i], j + 1)
        /\ \A j \in Int : Node(i, c[i], j) \in live
    <3>1. Threads(k, i, c[i])
      BY DEF Laid
    <3>2. \A j \in Int : Node(i, c[i], j) \in live
      BY <1>1, NodesApart
    <3> QED
      BY <3>1, <3>2 DEF Threads
  <2>2. \A j \in 0..Len(c[i]) : Node(i, c[i], j) = before => i = l /\ j = p - 1
    <3>1. before = Node(l, c[l], p - 1) /\ p - 1 \in 0..Len(c[l])
      BY <1>1 DEF before
    <3>2. \A l1, l2 \in Lists : \A a \in 0..Len(c[l1]), b \in 0..Len(c[l2]) :
            Node(l1, c[l1], a) = Node(l2, c[l2], b) => l1 = l2 /\ a = b
      BY <1>1, NodesApart
    <3> QED
      BY <3>1, <3>2
  <2>3. \A j \in 0..Len(c[i]) : i # l \/ j # p - 1 =>
          new.next[Node(i, c[i], j)] = Node(i, c[i], j + 1)
    <3> SUFFICES ASSUME NEW j \in 0..Len(c[i]), i # l \/ j # p - 1
                 PROVE  new.next[Node(i, c[i], j)] = Node(i, c[i], j + 1)
      OBVIOUS
    <3>1. Node(i, c[i], j) # before
      BY <2>2
    <3>2. Node(i, c[i], j) \in live /\ k.next[Node(i, c[i], j)] = Node(i, c[i], j + 1)
      BY <2>1
    <3> QED
      BY <1>1, <1>3, <3>1, <3>2
  <2>4. CASE i # l
    BY <1>5, <2>3, <2>4 DEF Threads
  <2>5. CASE i = l
    <3>1. /\ \A j \in 0..p - 1 : Node(l, s, j) = Node(l, c[l], j)
          /\ Node(l, s, p) = x
          /\ \A j \in p..Len(c[l]) + 1 : Node(l, s, j + 1) = Node(l, c[l], j)
      <4>1. \A j \in 0..p - 1 : Node(l, s, j) = Node(l, c[l], j)
        BY <1>1, <1>2 DEF Node
      <4>2. Node(l, s, p) = x
        BY <1>1, <1>2 DEF Node
      <4>3. ASSUME NEW j \in p..Len(c[l]) + 1 PROVE Node(l, s, j + 1) = Node(l, c[l], j)
        <5>1. CASE j = Len(c[l]) + 1
          BY <1>1, <1>2, <5>1 DEF Node
        <5>2. CASE j # Len(c[l]) + 1
          <6>1. j \in p..Len(c[l]) /\ j \in 1..Len(c[l]) /\ j + 1 \in 1..Len(s)
            BY <1>1, <1>2, <5>2
          <6> QED
            BY <1>2, <6>1 DEF Node
        <5> QED
          BY <5>1, <5>2
      <4> QED
        BY <4>1, <4>2, <4>3
    <3>2. ASSUME NEW j \in 0..Len(s) PROVE new.next[Node(l, s, j)] = Node(l, s, j + 1)
      <4>1. CASE j < p - 1
        <5>1. j \in 0..p - 1 /\ j + 1 \in 0..p - 1 /\ j \in 0..Len(c[l]) /\ j # p - 1
          BY <1>1, <4>1
        <5> QED
          BY <2>3, <2>5, <3>1, <5>1
      <4>2. CASE j = p - 1
        <5>1. Node(l, s, j) = before
          BY <1>1, <3>1, <4>2 DEF before
        <5>2. j + 1 = p
          BY <1>1, <4>2
        <5> QED
          BY <1>3, <3>1, <5>1, <5>2
      <4>3. CASE j = p
        <5>1. p \in p..Len(c[l]) + 1
          BY <1>1
        <5> QED
          BY <1>4, <3>1, <4>3, <5>1
      <4>4. CASE j > p
        <5>1. /\ j - 1 \in p..Len(c[l]) + 1 /\ j \in p..Len(c[l]) + 1 /\ (j - 1) + 1 = j
              /\ j - 1 \in 0..Len(c[l]) /\ j - 1 # p - 1
          BY <1>1, <1>2, <4>4
        <5>2. Node(l, s, j) = Node(l, c[l], j - 1) /\ Node(l, s, j + 1) = Node(l, c[l], j)
          BY <3>1, <5>1
        <5> QED
          BY <2>3, <2>5, <5>1, <5>2
      <4> QED
        BY <1>1, <1>2, <4>1, <4>2, <4>3, <4>4
    <3> QED
      BY <1>5, <2>5, <3>2 DEF Threads
  <2> QED
    BY <2>4, <2>5
<1>13. Laid(new, live \cup {x}, d)
  BY <1>5, <1>10, <1>11, <1>12, <1>9 DEF Laid
<1> QED
  BY <1>13 DEF new, d, s

(* An item taken out of a list is no longer on it, whatever its links are.    *)
LEMMA UnlinkLays ==
  ASSUME NEW k \in Pairs, NEW live \in SUBSET Nodes, NEW c, Laid(k, live, c), Whole(k, live),
         NEW l \in Lists, NEW p \in 1..Len(c[l]), NEW x, x = c[l][p]
  PROVE  Laid(Unlink(k, x), live \ {x}, [c EXCEPT ![l] = Removed(c[l], p)])
<1> DEFINE before == k.previous[x]
           new == Unlink(k, x)
           s == Removed(c[l], p)
           d == [c EXCEPT ![l] = s]
<1>1. /\ Lists \subseteq live /\ c \in [Lists -> Seq(Items)]
      /\ x \in live /\ x \in Items /\ x \notin Lists
      /\ \A i \in Lists : Len(c[i]) \in Nat
  <2>1. Lists \subseteq live /\ c \in [Lists -> Seq(Items)] /\ x \in live
    BY DEF Whole, Laid
  <2>2. c[l] \in Seq(Items) /\ \A i \in Lists : Len(c[i]) \in Nat
    BY <2>1
  <2>3. x \in Items
    BY <2>2
  <2> QED
    BY <2>1, <2>2, <2>3, ConstantsOK
<1>2. /\ s \in Seq(Items) /\ Len(s) = Len(c[l]) - 1
      /\ \A i \in 1..p - 1 : s[i] = c[l][i]
      /\ \A i \in p..Len(c[l]) - 1 : s[i] = c[l][i + 1]
  BY <1>1, RemovedIs
<1>3. x = Node(l, c[l], p) /\ p \in 0..Len(c[l]) /\ p - 1 \in 0..Len(c[l])
  BY <1>1 DEF Node
<1>4. k.next[x] = Node(l, c[l], p + 1)
  BY <1>3 DEF Laid, Threads
<1>5. before = Node(l, c[l], p - 1) /\ before \in live
  <2>1. Threads(k, l, c[l])
    BY DEF Laid
  <2>2. k.next[Node(l, c[l], p - 1)] = Node(l, c[l], (p - 1) + 1)
    BY <1>3, <2>1 DEF Threads
  <2>3. (p - 1) + 1 = p /\ p - 1 \in Int
    BY <1>1
  <2>4. Node(l, c[l], p - 1) \in live
    BY <1>1, <2>3, NodesApart
  <2> QED
    BY <1>3, <2>2, <2>3, <2>4 DEF Whole, Circular
<1>6. \A n \in live : new.next[n] = IF n = before THEN k.next[x] ELSE k.next[n]
  BY <1>1, <1>5 DEF Unlink, Pairs, Links
<1> HIDE DEF s, new, before
<1>7. d \in [Lists -> Seq(Items)] /\ d[l] = s /\ \A i \in Lists \ {l} : d[i] = c[i]
  BY <1>1, <1>2
<1> HIDE DEF d
<1>8. \A i \in 1..Len(s) :
        \E a \in 1..Len(c[l]) : s[i] = c[l][a] /\ a # p /\ a = IF i < p THEN i ELSE i + 1
  <2> SUFFICES ASSUME NEW i \in 1..Len(s)
               PROVE  \E a \in 1..Len(c[l]) :
                        s[i] = c[l][a] /\ a # p /\ a = IF i < p THEN i ELSE i + 1
    OBVIOUS
  <2>1. CASE i < p
    <3>1. i \in 1..Len(c[l]) /\ s[i] = c[l][i] /\ i # p
      BY <1>1, <1>2, <2>1
    <3> QED
      BY <2>1, <3>1
  <2>2. CASE ~(i < p)
    <3>1. i + 1 \in 1..Len(c[l]) /\ s[i] = c[l][i + 1] /\ i + 1 # p
      BY <1>1, <1>2, <2>2
    <3> QED
      BY <2>2, <3>1
  <2> QED
    BY <2>1, <2>2
<1>live. \A i \in Lists : \A j \in 1..Len(c[i]) : c[i][j] \in live
  BY DEF Laid
<1>apart. \A l1, l2 \in Lists : \A i \in 1..Len(c[l1]), j \in 1..Len(c[l2]) :
            c[l1][i] = c[l2][j] => l1 = l2 /\ i = j
  BY DEF Laid
<1>all. \A y \in live \ Lists : \E i \in Lists : \E j \in 1..Len(c[i]) : c[i][j] = y
  BY DEF Laid
(* Where the items of d are in c.                                             *)
<1>9. ASSUME NEW i \in Lists, NEW j \in 1..Len(d[i])
      PROVE  \E a \in 1..Len(c[i]) :
               d[i][j] = c[i][a] /\ (i = l => a # p /\ a = IF j < p THEN j ELSE j + 1)
                                 /\ (i # l => a = j)
  <2>1. CASE i = l
    <3>1. j \in 1..Len(s) /\ d[i][j] = s[j]
      BY <1>7, <2>1
    <3> QED
      BY <1>8, <2>1, <3>1
  <2>2. CASE i # l
    BY <1>7, <2>2
  <2> QED
    BY <2>1, <2>2
<1>10. ASSUME NEW i \in Lists, NEW j \in 1..Len(d[i]) PROVE d[i][j] \in live \ {x}
  <2>1. PICK a \in 1..Len(c[i]) : d[i][j] = c[i][a] /\ (i = l => a # p)
    BY <1>9
  <2>2. c[i][a] \in live
    BY <1>live, Zenon
  <2>3. c[i][a] # c[l][p]
    BY <1>apart, <2>1, ZenonT(60)
  <2> QED
    BY <2>1, <2>2, <2>3
<1>11. ASSUME NEW y \in (live \ {x}) \ Lists
       PROVE  \E i \in Lists : \E j \in 1..Len(d[i]) : d[i][j] = y
  <2>1. PICK i \in Lists : \E j \in 1..Len(c[i]) : c[i][j] = y
    BY <1>all
  <2>2. PICK j \in 1..Len(c[i]) : c[i][j] = y
    BY <2>1
  <2>3. CASE i # l
    BY <1>7, <2>2, <2>3
  <2>4. CASE i = l /\ j < p
    <3>1. j \in 1..Len(d[l]) /\ d[l][j] = y
      BY <1>1, <1>2, <1>7, <2>2, <2>4
    <3> QED
      BY <3>1
  <2>5. CASE i = l /\ j > p
    <3>1. j - 1 \in 1..Len(d[l]) /\ j - 1 \in p..Len(c[l]) - 1 /\ (j - 1) + 1 = j
      BY <1>1, <1>2, <1>7, <2>2, <2>5
    <3>2. d[l][j - 1] = y
      BY <1>2, <1>7, <2>2, <2>5, <3>1
    <3> QED
      BY <3>1, <3>2
  <2>6. ~(i = l /\ j = p)
    BY <2>2
  <2> QED
    BY <1>1, <2>3, <2>4, <2>5, <2>6
<1>12. ASSUME NEW l1 \in Lists, NEW l2 \in Lists, NEW i \in 1..Len(d[l1]), NEW j \in 1..Len(d[l2]),
              d[l1][i] = d[l2][j]
       PROVE  l1 = l2 /\ i = j
  <2>1. PICK a \in 1..Len(c[l1]) :
          d[l1][i] = c[l1][a] /\ (l1 = l => a # p /\ a = IF i < p THEN i ELSE i + 1)
                              /\ (l1 # l => a = i)
    BY <1>9
  <2>2. PICK b \in 1..Len(c[l2]) :
          d[l2][j] = c[l2][b] /\ (l2 = l => b # p /\ b = IF j < p THEN j ELSE j + 1)
                              /\ (l2 # l => b = j)
    BY <1>9
  <2>3. c[l1][a] = c[l2][b]
    BY <1>12, <2>1, <2>2
  <2>4. l1 = l2 /\ a = b
    BY <1>apart, <2>3, ZenonT(60)
  <2>5. Len(d[l1]) \in Nat /\ Len(d[l2]) \in Nat
    BY <1>7
  <2> QED
    BY <1>1, <2>1, <2>2, <2>4, <2>5
<1>13. ASSUME NEW i \in Lists PROVE Threads(new, i, d[i])
  <2>1. /\ \A j \in 0..Len(c[i]) : k.next[Node(i, c[i], j)] = Node(i, c[i], j + 1)
        /\ \A j \in Int : Node(i, c[i], j) \in live
    <3>1. Threads(k, i, c[i])
      BY DEF Laid
    <3>2. \A j \in Int : Node(i, c[i], j) \in live
      BY <1>1, NodesApart
    <3> QED
      BY <3>1, <3>2 DEF Threads
  <2>2. \A j \in 0..Len(c[i]) : Node(i, c[i], j) = before => i = l /\ j = p - 1
    <3>1. \A l1, l2 \in Lists : \A a \in 0..Len(c[l1]), b \in 0..Len(c[l2]) :
            Node(l1, c[l1], a) = Node(l2, c[l2], b) => l1 = l2 /\ a = b
      BY <1>1, NodesApart
    <3> QED
      BY <1>3, <1>5, <3>1
  <2>3. \A j \in 0..Len(c[i]) : i # l \/ j # p - 1 =>
          new.next[Node(i, c[i], j)] = Node(i, c[i], j + 1)
    BY <1>1, <1>6, <2>1, <2>2
  <2>4. CASE i # l
    BY <1>7, <2>3, <2>4 DEF Threads
  <2>5. CASE i = l
    <3>1. \A j \in 0..p - 1 : Node(l, s, j) = Node(l, c[l], j)
      BY <1>1, <1>2 DEF Node
    <3>2. ASSUME NEW j \in p..Len(c[l]) PROVE Node(l, s, j) = Node(l, c[l], j + 1)
      <4>1. CASE j = Len(c[l])
        BY <1>1, <1>2, <4>1 DEF Node
      <4>2. CASE j # Len(c[l])
        <5>1. j \in p..Len(c[l]) - 1 /\ j + 1 \in 1..Len(c[l]) /\ j \in 1..Len(s)
          BY <1>1, <1>2, <4>2
        <5> QED
          BY <1>2, <5>1 DEF Node
      <4> QED
        BY <4>1, <4>2
    <3>3. ASSUME NEW j \in 0..Len(s) PROVE new.next[Node(l, s, j)] = Node(l, s, j + 1)
      <4>1. CASE j < p - 1
        <5>1. j \in 0..p - 1 /\ j + 1 \in 0..p - 1 /\ j \in 0..Len(c[l]) /\ j # p - 1
          BY <1>1, <1>2, <4>1
        <5> QED
          BY <2>3, <2>5, <3>1, <5>1
      <4>2. CASE j = p - 1
        <5>1. j \in 0..p - 1 /\ p \in p..Len(c[l]) /\ j + 1 = p
          BY <1>1, <4>2
        <5>2. Node(l, s, j) = before /\ Node(l, s, p) = k.next[x]
          BY <1>4, <1>5, <3>1, <3>2, <4>2, <5>1
        <5> QED
          BY <1>5, <1>6, <5>1, <5>2
      <4>3. CASE j >= p
        <5>1. /\ j \in p..Len(c[l]) /\ j + 1 \in p..Len(c[l])
              /\ j + 1 \in 0..Len(c[l]) /\ j + 1 # p - 1
          BY <1>1, <1>2, <4>3
        <5>2. Node(l, s, j) = Node(l, c[l], j + 1) /\ Node(l, s, j + 1) = Node(l, c[l], (j + 1) + 1)
          BY <3>2, <5>1
        <5> QED
          BY <2>3, <2>5, <5>1, <5>2
      <4> QED
        BY <1>1, <1>2, <4>1, <4>2, <4>3
    <3> QED
      BY <1>7, <2>5, <3>3 DEF Threads
  <2> QED
    BY <2>4, <2>5
<1>14. \A y \in (live \ {x}) \ Lists : \E i \in Lists : \E j \in 1..Len(d[i]) : d[i][j] = y
  BY <1>11
<1>15. Laid(new, live \ {x}, d)
  BY <1>7, <1>10, <1>12, <1>13, <1>14 DEF Laid
<1> QED
  BY <1>15 DEF new, d, s

LEMMA FreedLays ==
  ASSUME NEW k \in Pairs, NEW live \in SUBSET Nodes, NEW c, Laid(k, live, c), Lists \subseteq live,
         NEW x \in Nodes \ live
  PROVE  Laid(Freed(k, x), live, c)
<1>1. \A n \in live : Freed(k, x).next[n] = k.next[n]
  BY DEF Freed, Pairs, Links
<1>2. ASSUME NEW l \in Lists PROVE Threads(Freed(k, x), l, c[l])
  <2>1. \A i \in Int : Node(l, c[l], i) \in live
    BY NodesApart
  <2>2. Threads(k, l, c[l]) /\ Len(c[l]) \in Nat
    BY DEF Laid
  <2> QED
    BY <1>1, <2>1, <2>2 DEF Threads
<1> QED
  BY <1>2 DEF Laid

-----------------------------------------------------------------------------
(* What list_foreach visits is what the links lay out.                        *)

LEMMA Induction ==
  ASSUME NEW S \in SUBSET Nat, 0 \in S, \A n \in S : n + 1 \in S
  PROVE  S = Nat
<1> SUFFICES ASSUME S # Nat PROVE FALSE
  OBVIOUS
<1>1. IsWellFoundedOn(OpToRel(<, Nat), Nat)
  BY NatLessThanWellFounded, Zenon
<1>2. PICK x \in Nat \ S : \A y \in Nat \ S : ~ (<<y, x>> \in OpToRel(<, Nat))
  BY <1>1, WFMin, Zenon
<1>3. \A y \in Nat \ S : ~ (y < x)
  BY <1>2, Zenon DEF OpToRel
<1>4. x # 0 /\ x - 1 \in Nat /\ x - 1 < x /\ (x - 1) + 1 = x
  OBVIOUS
<1>5. x - 1 \in S
  BY <1>3, <1>4
<1> QED
  BY <1>4, <1>5

(* The first nodes behind the head of l, up to the n-th.                      *)
Follows(f, k, l, n) == f = [i \in 0..n |-> IF i = 0 THEN l ELSE k.next[f[i - 1]]]

LEMMA FollowsExists ==
  ASSUME NEW k, NEW l, NEW n \in Nat
  PROVE  \E f : Follows(f, k, l, n)
<1> DEFINE S == {j \in Nat : \E f : Follows(f, k, l, j)}
<1>1. 0 \in S
  <2> DEFINE f == [i \in 0..0 |-> l]
  <2>1. f = [i \in 0..0 |-> IF i = 0 THEN l ELSE k.next[f[i - 1]]]
    OBVIOUS
  <2> HIDE DEF f
  <2> QED
    BY <2>1 DEF Follows
<1>2. ASSUME NEW j \in S PROVE j + 1 \in S
  <2>1. j \in Nat
    OBVIOUS
  <2>2. PICK f : f = [i \in 0..j |-> IF i = 0 THEN l ELSE k.next[f[i - 1]]]
    BY DEF Follows
  <2> DEFINE g == [i \in 0..j + 1 |-> IF i = j + 1 THEN k.next[f[j]] ELSE f[i]]
             h == [i \in 0..j + 1 |-> IF i = 0 THEN l ELSE k.next[g[i - 1]]]
  <2>3. ASSUME NEW i \in 0..j + 1 PROVE g[i] = h[i]
    <3>1. CASE i = 0
      <4>1. g[i] = f[0] /\ h[i] = l
        BY <2>1, <3>1
      <4>2. f[0] = l
        BY <2>1, <2>2
      <4> QED
        BY <4>1, <4>2
    <3>2. CASE i = j + 1
      <4>1. g[i] = k.next[f[j]] /\ g[j] = f[j] /\ h[i] = k.next[g[j]]
        BY <2>1, <3>2
      <4> QED
        BY <4>1
    <3>3. CASE i \in 1..j
      <4>1. g[i] = f[i] /\ g[i - 1] = f[i - 1] /\ h[i] = k.next[g[i - 1]]
        BY <2>1, <3>3
      <4>2. f[i] = k.next[f[i - 1]]
        BY <2>1, <2>2, <3>3
      <4> QED
        BY <4>1, <4>2
    <3> QED
      BY <2>1, <3>1, <3>2, <3>3
  <2>4. g = h
    BY <2>3
  <2>5. Follows(g, k, l, j + 1)
    <3> HIDE DEF g
    <3> QED
      BY <2>4 DEF Follows
  <2> HIDE DEF g
  <2> QED
    BY <2>1, <2>5
<1>3. S \in SUBSET Nat
  OBVIOUS
<1> HIDE DEF S
<1>4. S = Nat
  BY <1>1, <1>2, <1>3, Induction
<1> QED
  BY <1>4 DEF S

(* A list is no longer than there are items, as each is on it at most once.   *)
LEMMA ShortEnough ==
  ASSUME NEW k, NEW live, NEW c, Laid(k, live, c), NEW l \in Lists
  PROVE  Len(c[l]) \in 0..Cardinality(Items)
<1>1. c[l] \in Seq(Items)
  BY DEF Laid
<1>2. Len(c[l]) \in Nat /\ c[l] \in [1..Len(c[l]) -> Items]
  BY <1>1
<1>3. \A i, j \in 1..Len(c[l]) : c[l][i] = c[l][j] => i = j
  BY DEF Laid
<1>4. c[l] \in Injection(1..Len(c[l]), Items)
  BY <1>2, <1>3 DEF Injection, IsInjective
<1>5. Cardinality(1..Len(c[l])) <= Cardinality(Items)
  BY <1>4, FS_Injection, ConstantsOK
<1>6. Cardinality(1..Len(c[l])) = Len(c[l])
  BY <1>2, FS_Interval
<1> QED
  BY <1>2, <1>5, <1>6, FS_CardinalityType, ConstantsOK

LEMMA WalkIs ==
  ASSUME NEW k, NEW live, NEW c, Laid(k, live, c), NEW l \in Lists
  PROVE  Walk(k, l) = c[l]
<1> DEFINE N == Cardinality(Items)
           s == c[l]
           node == CHOOSE f : f = [i \in 0..N + 1 |-> IF i = 0 THEN l ELSE k.next[f[i - 1]]]
           Turn(i) == node[i + 1] = l /\ \A j \in 1..i : node[j] # l
           length == CHOOSE i \in 0..N : Turn(i)
<1>1. Walk(k, l) = [i \in 1..length |-> node[i]]
  BY Zenon DEF Walk
<1>2. N \in Nat /\ Len(s) \in 0..N
  BY FS_CardinalityType, ConstantsOK, ShortEnough
<1>3. \A i \in 1..Len(s) : s[i] \in Items /\ s[i] # l
  <2>1. s \in Seq(Items)
    BY DEF Laid
  <2>2. \A i \in 1..Len(s) : s[i] \in Items
    BY <2>1
  <2> QED
    BY <2>2, ConstantsOK
<1>4. \A i \in 0..Len(s) : k.next[Node(l, s, i)] = Node(l, s, i + 1)
  BY DEF Laid, Threads
<1>5. node = [i \in 0..N + 1 |-> IF i = 0 THEN l ELSE k.next[node[i - 1]]]
  <2>1. node = CHOOSE f : Follows(f, k, l, N + 1)
    BY Zenon DEF Follows
  <2>2. \E f : Follows(f, k, l, N + 1)
    BY <1>2, FollowsExists
  <2> HIDE DEF node
  <2>3. Follows(node, k, l, N + 1)
    BY <2>1, <2>2
  <2> QED
    BY <2>3 DEF Follows
<1> HIDE DEF node, s, N
<1>6. node[0] = l /\ \A i \in 0..N : node[i + 1] = k.next[node[i]]
  <2>1. node[0] = l
    BY <1>2, <1>5
  <2>2. ASSUME NEW i \in 0..N PROVE node[i + 1] = k.next[node[i]]
    <3>1. i + 1 \in 0..N + 1 /\ i + 1 # 0 /\ (i + 1) - 1 = i
      BY <1>2
    <3> QED
      BY <1>5, <3>1
  <2> QED
    BY <2>1, <2>2
<1>7. \A i \in 0..Len(s) + 1 : node[i] = Node(l, s, i)
  <2> DEFINE S == {i \in Nat : i <= Len(s) + 1 => node[i] = Node(l, s, i)}
  <2>1. 0 \in S
    BY <1>2, <1>6 DEF Node
  <2>2. ASSUME NEW i \in S PROVE i + 1 \in S
    <3>1. i \in Nat /\ (i <= Len(s) + 1 => node[i] = Node(l, s, i))
      OBVIOUS
    <3>2. CASE i + 1 <= Len(s) + 1
      <4>1. i \in 0..N /\ i \in 0..Len(s)
        BY <1>2, <3>1, <3>2
      <4>2. node[i] = Node(l, s, i)
        BY <1>2, <3>1, <3>2
      <4>3. node[i + 1] = Node(l, s, i + 1)
        BY <1>4, <1>6, <4>1, <4>2
      <4> QED
        BY <3>1, <4>3
    <3>3. CASE ~(i + 1 <= Len(s) + 1)
      BY <3>1, <3>3
    <3> QED
      BY <3>2, <3>3
  <2>3. S \in SUBSET Nat
    OBVIOUS
  <2> HIDE DEF S
  <2>4. S = Nat
    BY <2>1, <2>2, <2>3, Induction
  <2> QED
    BY <1>2, <2>4 DEF S
<1>8. \A i \in 1..Len(s) : node[i] = s[i]
  <2> SUFFICES ASSUME NEW i \in 1..Len(s) PROVE node[i] = s[i]
    OBVIOUS
  <2>1. i \in 0..Len(s) + 1
    BY <1>2
  <2> QED
    BY <1>7, <2>1 DEF Node
<1>9. node[Len(s) + 1] = l
  <2>1. Len(s) + 1 \in 0..Len(s) + 1 /\ Len(s) + 1 \notin 1..Len(s)
    BY <1>2
  <2> QED
    BY <1>7, <2>1 DEF Node
<1>10. Turn(Len(s))
  BY <1>3, <1>8, <1>9
<1>11. ASSUME NEW i \in 0..N, Turn(i) PROVE i = Len(s)
  <2>1. CASE i < Len(s)
    <3>1. i + 1 \in 1..Len(s)
      BY <1>2, <2>1
    <3> QED
      BY <1>3, <1>8, <1>11, <3>1
  <2>2. CASE i > Len(s)
    <3>1. Len(s) + 1 \in 1..i
      BY <1>2, <2>2
    <3> QED
      BY <1>9, <1>11, <3>1
  <2> QED
    BY <1>2, <2>1, <2>2
<1> HIDE DEF Turn
<1>12. length = Len(s)
  BY <1>2, <1>10, <1>11
<1>13. Walk(k, l) = [i \in 1..Len(s) |-> s[i]]
  BY <1>1, <1>8, <1>12
<1>14. s \in Seq(Items)
  BY DEF Laid, s
<1> QED
  BY <1>13, <1>14 DEF s

-----------------------------------------------------------------------------
(* The edits of Sequencing are those that the links make.                     *)

LEMMA SequenceExtensional ==
  ASSUME NEW S, NEW s \in Seq(S), NEW t \in Seq(S), Len(s) = Len(t),
         \A i \in 1..Len(s) : s[i] = t[i]
  PROVE  s = t
OBVIOUS

LEMMA PromisePlace ==
  ASSUME NEW s \in Seq(Items), \A i, j \in 1..Len(s) : s[i] = s[j] => i = j,
         NEW p \in 1..Len(s)
  PROVE  Promise!PlaceOf(s, s[p]) = p
<1>1. DOMAIN s = 1..Len(s)
  OBVIOUS
<1>2. p \in DOMAIN s /\ \A i \in DOMAIN s : s[i] = s[p] => i = p
  BY <1>1
<1> QED
  BY <1>2 DEF Promise!PlaceOf

LEMMA PromiseInsertAt ==
  ASSUME NEW s \in Seq(Items), NEW p \in 1..Len(s), NEW x \in Items
  PROVE  Promise!InsertAt(s, p, x) = Inserted(s, p, x)
<1> DEFINE a == SubSeq(s, 1, p - 1)
           b == SubSeq(s, p, Len(s))
<1>1. Len(s) \in Nat /\ \A i \in 1..Len(s) : s[i] \in Items
  OBVIOUS
<1>2. a \in Seq(Items) /\ Len(a) = p - 1 /\ \A i \in 1..p - 1 : a[i] = s[i]
  <2>1. 1 \in Int /\ p - 1 \in Int /\ \A i \in 1..p - 1 : s[i] \in Items
    BY <1>1
  <2>2. /\ a \in Seq(Items) /\ Len(a) = (IF 1 <= p - 1 THEN (p - 1) - 1 + 1 ELSE 0)
        /\ \A i \in 1..(p - 1) - 1 + 1 : a[i] = s[1 + i - 1]
    BY <2>1, SubSeqProperties
  <2> HIDE DEF a
  <2> QED
    BY <1>1, <2>2
<1>3. b \in Seq(Items) /\ Len(b) = Len(s) - p + 1 /\ \A i \in 1..Len(s) - p + 1 : b[i] = s[p + i - 1]
  <2>1. p \in Int /\ Len(s) \in Int /\ \A i \in p..Len(s) : s[i] \in Items
    BY <1>1
  <2>2. /\ b \in Seq(Items) /\ Len(b) = (IF p <= Len(s) THEN Len(s) - p + 1 ELSE 0)
        /\ \A i \in 1..Len(s) - p + 1 : b[i] = s[p + i - 1]
    BY <2>1, SubSeqProperties
  <2> HIDE DEF b
  <2> QED
    BY <1>1, <2>2
<1>4. Promise!InsertAt(s, p, x) = a \o <<x>> \o b
  BY DEF Promise!InsertAt
<1> HIDE DEF a, b
<1>5. <<x>> \in Seq(Items) /\ Len(<<x>>) = 1 /\ <<x>>[1] = x
  OBVIOUS
<1>6. /\ a \o <<x>> \in Seq(Items) /\ Len(a \o <<x>>) = p
      /\ \A i \in 1..p : (a \o <<x>>)[i] = IF i < p THEN s[i] ELSE x
  <2>1. /\ a \o <<x>> \in Seq(Items) /\ Len(a \o <<x>>) = Len(a) + Len(<<x>>)
        /\ \A i \in 1..Len(a) + Len(<<x>>) :
             (a \o <<x>>)[i] = IF i <= Len(a) THEN a[i] ELSE <<x>>[i - Len(a)]
    BY <1>2, <1>5, ConcatProperties
  <2>2. Len(a) + Len(<<x>>) = p
    BY <1>1, <1>2, <1>5
  <2>3. ASSUME NEW i \in 1..p PROVE (a \o <<x>>)[i] = IF i < p THEN s[i] ELSE x
    <3>1. (a \o <<x>>)[i] = IF i <= p - 1 THEN a[i] ELSE <<x>>[i - (p - 1)]
      BY <1>2, <2>1, <2>2
    <3>2. CASE i < p
      <4>1. i \in 1..p - 1 /\ i <= p - 1
        BY <3>2
      <4> QED
        BY <1>2, <3>1, <3>2, <4>1
    <3>3. CASE i = p
      <4>1. i - (p - 1) = 1 /\ ~(i <= p - 1)
        BY <3>3
      <4>2. (a \o <<x>>)[i] = <<x>>[1]
        BY <3>1, <4>1
      <4>3. (a \o <<x>>)[i] = x
        BY <1>5, <4>2, Zenon
      <4>4. ~(i < p)
        BY <3>3
      <4> QED
        BY <4>3, <4>4, Zenon
    <3>4. i < p \/ i = p
      OBVIOUS
    <3> QED
      BY <3>2, <3>3, <3>4, Zenon
  <2> QED
    BY <2>1, <2>2, <2>3
<1> DEFINE u == a \o <<x>>
<1>7. /\ u \in Seq(Items) /\ Len(u) = p
      /\ \A i \in 1..p : u[i] = IF i < p THEN s[i] ELSE x
  BY <1>6
<1> HIDE DEF u
<1>8. /\ u \o b \in Seq(Items) /\ Len(u \o b) = Len(s) + 1
      /\ \A i \in 1..Len(s) + 1 : (u \o b)[i] = IF i <= p THEN u[i] ELSE b[i - p]
  <2>1. /\ u \o b \in Seq(Items) /\ Len(u \o b) = Len(u) + Len(b)
        /\ \A i \in 1..Len(u) + Len(b) : (u \o b)[i] = IF i <= Len(u) THEN u[i] ELSE b[i - Len(u)]
    BY <1>3, <1>7, ConcatProperties
  <2>2. Len(u) + Len(b) = Len(s) + 1
    BY <1>1, <1>3, <1>7
  <2> QED
    BY <1>7, <2>1, <2>2
<1>9. /\ Inserted(s, p, x) \in Seq(Items) /\ Len(Inserted(s, p, x)) = Len(s) + 1
      /\ \A i \in 1..Len(s) + 1 :
           Inserted(s, p, x)[i] = IF i < p THEN s[i] ELSE IF i = p THEN x ELSE s[i - 1]
  <2>1. p \in 1..Len(s) + 1
    BY <1>1
  <2> QED
    BY <2>1, InsertedIs DEF Inserted
<1>10. ASSUME NEW i \in 1..Len(s) + 1 PROVE (u \o b)[i] = Inserted(s, p, x)[i]
  <2>1. CASE i <= p
    <3>1. (u \o b)[i] = IF i < p THEN s[i] ELSE x
      BY <1>7, <1>8, <2>1
    <3> QED
      BY <1>9, <2>1, <3>1
  <2>2. CASE i > p
    <3>1. i - p \in 1..Len(s) - p + 1 /\ p + (i - p) - 1 = i - 1
      BY <1>1, <2>2
    <3>2. (u \o b)[i] = b[i - p] /\ b[i - p] = s[p + (i - p) - 1]
      BY <1>3, <1>8, <2>2, <3>1
    <3> QED
      BY <1>9, <2>2, <3>1, <3>2
  <2>3. i <= p \/ i > p
    BY <1>1
  <2> QED
    BY <2>1, <2>2, <2>3, Zenon
<1>11. u \o b = Inserted(s, p, x)
  BY <1>8, <1>9, <1>10, SequenceExtensional
<1> QED
  BY <1>4, <1>11 DEF u

LEMMA PromiseRemoveAt ==
  ASSUME NEW s \in Seq(Items), NEW p \in 1..Len(s)
  PROVE  Promise!RemoveAt(s, p) = Removed(s, p)
<1> DEFINE a == SubSeq(s, 1, p - 1)
           b == SubSeq(s, p + 1, Len(s))
<1>1. Len(s) \in Nat /\ \A i \in 1..Len(s) : s[i] \in Items
  OBVIOUS
<1>2. a \in Seq(Items) /\ Len(a) = p - 1 /\ \A i \in 1..p - 1 : a[i] = s[i]
  <2>1. 1 \in Int /\ p - 1 \in Int /\ \A i \in 1..p - 1 : s[i] \in Items
    BY <1>1
  <2>2. /\ a \in Seq(Items) /\ Len(a) = (IF 1 <= p - 1 THEN (p - 1) - 1 + 1 ELSE 0)
        /\ \A i \in 1..(p - 1) - 1 + 1 : a[i] = s[1 + i - 1]
    BY <2>1, SubSeqProperties
  <2> HIDE DEF a
  <2> QED
    BY <1>1, <2>2
<1>3. b \in Seq(Items) /\ Len(b) = Len(s) - p /\ \A i \in 1..Len(s) - p : b[i] = s[p + i]
  <2>1. p + 1 \in Int /\ Len(s) \in Int /\ \A i \in p + 1..Len(s) : s[i] \in Items
    BY <1>1
  <2>2. /\ b \in Seq(Items) /\ Len(b) = (IF p + 1 <= Len(s) THEN Len(s) - (p + 1) + 1 ELSE 0)
        /\ \A i \in 1..Len(s) - (p + 1) + 1 : b[i] = s[(p + 1) + i - 1]
    BY <2>1, SubSeqProperties
  <2> HIDE DEF b
  <2>3. ASSUME NEW i \in 1..Len(s) - p PROVE b[i] = s[p + i]
    <3>1. i \in 1..Len(s) - (p + 1) + 1 /\ (p + 1) + i - 1 = p + i
      BY <1>1
    <3> QED
      BY <2>2, <3>1
  <2> QED
    BY <1>1, <2>2, <2>3
<1>4. Promise!RemoveAt(s, p) = a \o b
  BY DEF Promise!RemoveAt
<1> HIDE DEF a, b
<1>5. /\ a \o b \in Seq(Items) /\ Len(a \o b) = Len(s) - 1
      /\ \A i \in 1..Len(s) - 1 : (a \o b)[i] = IF i <= p - 1 THEN a[i] ELSE b[i - (p - 1)]
  <2>1. /\ a \o b \in Seq(Items) /\ Len(a \o b) = Len(a) + Len(b)
        /\ \A i \in 1..Len(a) + Len(b) : (a \o b)[i] = IF i <= Len(a) THEN a[i] ELSE b[i - Len(a)]
    BY <1>2, <1>3, ConcatProperties
  <2>2. Len(a) + Len(b) = Len(s) - 1
    BY <1>1, <1>2, <1>3
  <2> QED
    BY <1>2, <2>1, <2>2
<1>6. /\ Removed(s, p) \in Seq(Items) /\ Len(Removed(s, p)) = Len(s) - 1
      /\ \A i \in 1..Len(s) - 1 : Removed(s, p)[i] = IF i < p THEN s[i] ELSE s[i + 1]
  BY RemovedIs DEF Removed
<1>7. ASSUME NEW i \in 1..Len(s) - 1 PROVE (a \o b)[i] = Removed(s, p)[i]
  <2>1. CASE i < p
    BY <1>1, <1>2, <1>5, <1>6, <2>1
  <2>2. CASE i >= p
    <3>1. i - (p - 1) \in 1..Len(s) - p /\ p + (i - (p - 1)) = i + 1
      BY <1>1, <2>2
    <3>2. (a \o b)[i] = b[i - (p - 1)] /\ b[i - (p - 1)] = s[p + (i - (p - 1))]
      BY <1>3, <1>5, <2>2, <3>1
    <3> QED
      BY <1>6, <2>2, <3>1, <3>2
  <2>3. i < p \/ i >= p
    BY <1>1
  <2> QED
    BY <2>1, <2>2, <2>3, Zenon
<1>8. a \o b = Removed(s, p)
  BY <1>5, <1>6, <1>7, SequenceExtensional
<1> QED
  BY <1>4, <1>8

LEMMA PromiseAppend ==
  ASSUME NEW s \in Seq(Items), NEW x \in Items
  PROVE  Append(s, x) = Inserted(s, Len(s) + 1, x)
<1>1. Len(s) \in Nat /\ Len(s) + 1 \in 1..Len(s) + 1
  OBVIOUS
<1>2. /\ Inserted(s, Len(s) + 1, x) \in Seq(Items)
      /\ Len(Inserted(s, Len(s) + 1, x)) = Len(s) + 1
      /\ \A i \in 1..Len(s) : Inserted(s, Len(s) + 1, x)[i] = s[i]
      /\ Inserted(s, Len(s) + 1, x)[Len(s) + 1] = x
  <2>1. (Len(s) + 1) - 1 = Len(s)
    BY <1>1
  <2> QED
    BY <1>1, <2>1, InsertedIs
<1>3. /\ Append(s, x) \in Seq(Items) /\ Len(Append(s, x)) = Len(s) + 1
      /\ \A i \in 1..Len(s) : Append(s, x)[i] = s[i]
      /\ Append(s, x)[Len(s) + 1] = x
  OBVIOUS
<1>4. \A i \in 1..Len(s) + 1 : i \in 1..Len(s) \/ i = Len(s) + 1
  BY <1>1
<1>5. \A i \in 1..Len(s) + 1 : Append(s, x)[i] = Inserted(s, Len(s) + 1, x)[i]
  BY <1>2, <1>3, <1>4
<1> QED
  BY <1>2, <1>3, <1>5, SequenceExtensional

LEMMA PromisePut ==
  ASSUME NEW k, NEW live, NEW c, Laid(k, live, c), NEW l \in Lists,
         NEW to, NEW p \in 1..Len(c[l]) + 1, to = Node(l, c[l], p),
         to \in Lists => p = Len(c[l]) + 1, to \notin Lists => p \in 1..Len(c[l]),
         NEW x \in Items
  PROVE  Promise!PutBefore(c[l], to, x) = Inserted(c[l], p, x)
<1>1. c[l] \in Seq(Items) /\ \A i, j \in 1..Len(c[l]) : c[l][i] = c[l][j] => i = j
  BY DEF Laid
<1>2. CASE to \in Lists
  BY <1>1, <1>2, PromiseAppend DEF Promise!PutBefore
<1>3. CASE to \notin Lists
  <2>1. to = c[l][p] /\ p \in 1..Len(c[l])
    BY <1>3 DEF Node
  <2>2. Promise!PlaceOf(c[l], to) = p
    BY <1>1, <2>1, PromisePlace
  <2>3. Promise!PutBefore(c[l], to, x) = Promise!InsertAt(c[l], p, x)
    BY <1>3, <2>2 DEF Promise!PutBefore
  <2> QED
    BY <1>1, <2>1, <2>3, PromiseInsertAt
<1> QED
  BY <1>2, <1>3

LEMMA PromiseWithout ==
  ASSUME NEW k, NEW live, NEW c, Laid(k, live, c), NEW l \in Lists, NEW p \in 1..Len(c[l])
  PROVE  [j \in Lists |-> Promise!Without(c[j], c[l][p])] = [c EXCEPT ![l] = Removed(c[l], p)]
<1> DEFINE x == c[l][p]
<1>1. c \in [Lists -> Seq(Items)]
  BY DEF Laid
<1>2. \A j \in Lists : DOMAIN c[j] = 1..Len(c[j])
  <2>1. \A s \in Seq(Items) : DOMAIN s = 1..Len(s)
    OBVIOUS
  <2> QED
    BY <1>1, <2>1
<1>3. Promise!Without(c[l], x) = Removed(c[l], p)
  <2>1. x \in Promise!ToSet(c[l])
    BY <1>2 DEF Promise!ToSet
  <2>2. c[l] \in Seq(Items) /\ \A i, j \in 1..Len(c[l]) : c[l][i] = c[l][j] => i = j
    BY DEF Laid
  <2>3. Promise!PlaceOf(c[l], x) = p
    BY <2>2, PromisePlace
  <2>4. Promise!Without(c[l], x) = Promise!RemoveAt(c[l], p)
    BY <2>1, <2>3 DEF Promise!Without
  <2> QED
    BY <2>2, <2>4, PromiseRemoveAt
<1>4. ASSUME NEW j \in Lists, j # l PROVE Promise!Without(c[j], x) = c[j]
  <2>1. \A i \in 1..Len(c[j]) : c[j][i] # x
    BY <1>4, Zenon DEF Laid
  <2>2. x \notin Promise!ToSet(c[j])
    BY <1>2, <2>1 DEF Promise!ToSet
  <2> QED
    BY <2>2 DEF Promise!Without
<1> HIDE DEF x
<1>5. \A j \in Lists : Promise!Without(c[j], x) = [c EXCEPT ![l] = Removed(c[l], p)][j]
  BY <1>1, <1>3, <1>4
<1>6. [j \in Lists |-> Promise!Without(c[j], x)] = [c EXCEPT ![l] = Removed(c[l], p)]
  BY <1>1, <1>5
<1> QED
  BY <1>6 DEF x

-----------------------------------------------------------------------------
(* The links always lay out sequences, and each step edits them.              *)
Ordered == \E c : Laid(link, Live, c)

LEMMA ContentsAre ==
  ASSUME NEW c, Laid(link, Live, c)
  PROVE  /\ Contents = c
         /\ \A l \in Lists : \A n : Promise!Holds(l, n) <=> n = l \/ \E i \in 1..Len(c[l]) : c[l][i] = n
         /\ \A n : n \in Promise!Placed <=> \E l \in Lists : \E i \in 1..Len(c[l]) : c[l][i] = n
<1>1. c \in [Lists -> Seq(Items)]
  BY DEF Laid
<1>2. Contents = c
  BY <1>1, WalkIs DEF Contents
<1>3. \A l \in Lists : \A n : n \in Promise!In(l) <=> \E i \in 1..Len(c[l]) : c[l][i] = n
  <2>1. \A s \in Seq(Items) : DOMAIN s = 1..Len(s)
    OBVIOUS
  <2> QED
    BY <1>1, <1>2, <2>1 DEF Promise!In, Promise!ToSet
<1>4. \A n : n \in Promise!Placed <=> \E l \in Lists : n \in Promise!In(l)
  BY DEF Promise!Placed
<1> QED
  BY <1>2, <1>3, <1>4 DEF Promise!Holds

LEMMA NewContentsAre ==
  ASSUME NEW c, Laid(link', Live', c)
  PROVE  Contents' = c
<1>1. c \in [Lists -> Seq(Items)]
  BY DEF Laid
<1>2. \A l \in Lists : Walk(link', l) = c[l]
  BY WalkIs
<1>3. Contents' = [l \in Lists |-> Walk(link', l)]
  BY DEF Contents
<1> QED
  BY <1>1, <1>2, <1>3

LEMMA InitOrdered == Init => Ordered /\ Promise!Init
<1> SUFFICES ASSUME Init PROVE Ordered /\ Promise!Init
  OBVIOUS
<1> DEFINE c == [l \in Lists |-> <<>>]
<1>1. Live = Lists /\ \A l \in Lists : link.next[l] = l
  BY DEF Init, Live, Nodes
<1>2. c \in [Lists -> Seq(Items)] /\ \A l \in Lists : c[l] = <<>> /\ Len(c[l]) = 0
  OBVIOUS
<1> HIDE DEF c
<1>3. \A l \in Lists : Threads(link, l, c[l])
  BY <1>1, <1>2 DEF Threads, Node
<1>4. Laid(link, Live, c)
  BY <1>1, <1>2, <1>3 DEF Laid
<1>5. Contents = c
  BY <1>4, ContentsAre
<1> QED
  BY <1>4, <1>5 DEF Ordered, Promise!Init, c

LEMMA InsertPromised ==
  ASSUME IInv, Ordered, NEW to \in Nodes, NEW x \in Items, list_insert(to, x)
  PROVE  Ordered' /\ Promise!Insert(to, x)
<1>1. /\ link \in Pairs /\ Whole(link, Live) /\ Live \in SUBSET Nodes /\ to \in Live
      /\ x \in Items \ Live /\ link' = LinkBefore(link, x, to) /\ Live' = Live \cup {x}
  BY ConstantsOK DEF IInv, TypeOK, Live, Nodes, Pairs, list_insert
<1>2. PICK c : Laid(link, Live, c)
  BY DEF Ordered
<1>3. PICK l \in Lists : \E p \in 1..Len(c[l]) + 1 :
           /\ to = Node(l, c[l], p)
           /\ to \in Lists => to = l /\ p = Len(c[l]) + 1
           /\ to \notin Lists => p \in 1..Len(c[l])
           /\ link.previous[to] = Node(l, c[l], p - 1)
  BY <1>1, <1>2, PlaceOfNode
<1>4. PICK p \in 1..Len(c[l]) + 1 :
           /\ to = Node(l, c[l], p)
           /\ to \in Lists => to = l /\ p = Len(c[l]) + 1
           /\ to \notin Lists => p \in 1..Len(c[l])
           /\ link.previous[to] = Node(l, c[l], p - 1)
  BY <1>3
<1>5. Laid(link', Live', [c EXCEPT ![l] = Inserted(c[l], p, x)])
  BY <1>1, <1>2, <1>4, LinkLays
<1>6. Contents = c /\ Contents' = [c EXCEPT ![l] = Inserted(c[l], p, x)]
  BY <1>2, <1>5, ContentsAre, NewContentsAre
<1>7. x \notin Promise!Placed
  BY <1>1, <1>2, ContentsAre DEF Laid
<1>8. Promise!Holds(l, to)
  BY <1>2, <1>4, ContentsAre DEF Node
<1>9. Promise!PutBefore(c[l], to, x) = Inserted(c[l], p, x)
  BY <1>2, <1>4, PromisePut
<1>10. Contents' = [Contents EXCEPT ![l] = Promise!PutBefore(Contents[l], to, x)]
  BY <1>6, <1>9
<1> QED
  BY <1>5, <1>7, <1>8, <1>10 DEF Ordered, Promise!Insert

(* What is left on a list without an item was on it before.                   *)
LEMMA StaysOn ==
  ASSUME NEW k, NEW live, NEW c, Laid(k, live, c),
         NEW a \in Lists, NEW q \in 1..Len(c[a]),
         NEW l \in Lists, NEW p \in 1..Len([c EXCEPT ![a] = Removed(c[a], q)][l]),
         NEW b \in Lists, NEW i \in 1..Len(c[b]),
         c[b][i] = [c EXCEPT ![a] = Removed(c[a], q)][l][p]
  PROVE  b = l
<1>1. c \in [Lists -> Seq(Items)]
  BY DEF Laid
<1>2. CASE l # a
  BY <1>1, <1>2 DEF Laid
<1>3. CASE l = a
  <2>1. p \in 1..Len(Removed(c[a], q)) /\ c[b][i] = Removed(c[a], q)[p]
    BY <1>1, <1>3
  <2>2. /\ Len(Removed(c[a], q)) = Len(c[a]) - 1 /\ Len(c[a]) \in Nat
        /\ \A j \in 1..q - 1 : Removed(c[a], q)[j] = c[a][j]
        /\ \A j \in q..Len(c[a]) - 1 : Removed(c[a], q)[j] = c[a][j + 1]
    <3>1. c[a] \in Seq(Items)
      BY <1>1
    <3> QED
      BY <3>1, RemovedIs
  <2>3. \E j \in 1..Len(c[a]) : Removed(c[a], q)[p] = c[a][j]
    <3>1. CASE p < q
      BY <2>1, <2>2, <3>1
    <3>2. CASE p >= q
      <4>1. p + 1 \in 1..Len(c[a]) /\ p \in q..Len(c[a]) - 1
        BY <2>1, <2>2, <3>2
      <4> QED
        BY <2>2, <4>1
    <3> QED
      BY <2>2, <3>1, <3>2
  <2>4. PICK j \in 1..Len(c[a]) : Removed(c[a], q)[p] = c[a][j]
    BY <2>3
  <2> QED
    BY <1>3, <2>1, <2>4, Zenon DEF Laid
<1> QED
  BY <1>2, <1>3

LEMMA MovePromised ==
  ASSUME IInv, Ordered, NEW to \in Nodes, NEW x \in Items, list_splice(to, x), to # x
  PROVE  Ordered' /\ Promise!Move(to, x)
<1>1. /\ link \in Pairs /\ Whole(link, Live) /\ Live \in SUBSET Nodes /\ to \in Live
      /\ x \in Live \ Lists /\ link' = LinkBefore(Unlink(link, x), x, to) /\ Live' = Live
  BY ConstantsOK DEF IInv, TypeOK, Live, Nodes, Pairs, list_splice
<1>2. PICK c : Laid(link, Live, c)
  BY DEF Ordered
<1>3. PICK a \in Lists : \E q \in 1..Len(c[a]) : c[a][q] = x
  BY <1>1, <1>2 DEF Laid
<1>4. PICK q \in 1..Len(c[a]) : c[a][q] = x
  BY <1>3
<1> DEFINE k == Unlink(link, x)
           d == [c EXCEPT ![a] = Removed(c[a], q)]
<1>5. Laid(k, Live \ {x}, d) /\ k \in Pairs /\ Whole(k, Live \ {x})
  BY <1>1, <1>2, <1>4, UnlinkLays, UnlinkKeeps
<1>6. Live \ {x} \in SUBSET Nodes /\ to \in Live \ {x} /\ x \in Items \ (Live \ {x})
  BY <1>1 DEF Nodes
<1>7. d = [j \in Lists |-> Promise!Without(c[j], x)]
  BY <1>2, <1>4, PromiseWithout
<1>8. link' = LinkBefore(k, x, to) /\ Live' = (Live \ {x}) \cup {x}
  BY <1>1
<1> HIDE DEF k, d
<1>9. PICK l \in Lists : \E p \in 1..Len(d[l]) + 1 :
           /\ to = Node(l, d[l], p)
           /\ to \in Lists => to = l /\ p = Len(d[l]) + 1
           /\ to \notin Lists => p \in 1..Len(d[l])
           /\ k.previous[to] = Node(l, d[l], p - 1)
  BY <1>5, <1>6, PlaceOfNode
<1>10. PICK p \in 1..Len(d[l]) + 1 :
           /\ to = Node(l, d[l], p)
           /\ to \in Lists => to = l /\ p = Len(d[l]) + 1
           /\ to \notin Lists => p \in 1..Len(d[l])
           /\ k.previous[to] = Node(l, d[l], p - 1)
  BY <1>9
<1>11. Laid(link', Live', [d EXCEPT ![l] = Inserted(d[l], p, x)])
  <2>1. Laid(LinkBefore(k, x, to), (Live \ {x}) \cup {x}, [d EXCEPT ![l] = Inserted(d[l], p, x)])
    BY <1>5, <1>6, <1>10, LinkLays
  <2> QED
    BY <1>8, <2>1
<1>12. Contents = c /\ Contents' = [d EXCEPT ![l] = Inserted(d[l], p, x)]
  BY <1>2, <1>11, ContentsAre, NewContentsAre
<1>13. x \in Promise!Placed
  BY <1>2, <1>4, ContentsAre
<1>14. Promise!Holds(l, to)
  <2>1. CASE to \in Lists
    BY <1>2, <1>10, <2>1, ContentsAre
  <2>2. CASE to \notin Lists
    <3>1. PICK b \in Lists : \E i \in 1..Len(c[b]) : c[b][i] = to
      BY <1>1, <1>2, <2>2 DEF Laid
    <3>2. PICK i \in 1..Len(c[b]) : c[b][i] = to
      BY <3>1
    <3>3. to = d[l][p] /\ p \in 1..Len(d[l])
      BY <1>10, <2>2 DEF Node
    <3>4. b = l
      BY <1>2, <1>4, <3>2, <3>3, StaysOn DEF d
    <3> QED
      BY <1>2, <3>2, <3>4, ContentsAre
  <2> QED
    BY <2>1, <2>2
<1>15. Promise!PutBefore(d[l], to, x) = Inserted(d[l], p, x)
  BY <1>1, <1>5, <1>10, PromisePut DEF Live
<1>16. Contents' = [[j \in Lists |-> Promise!Without(Contents[j], x)]
                     EXCEPT ![l] = Promise!PutBefore([j \in Lists |-> Promise!Without(Contents[j], x)][l], to, x)]
  BY <1>7, <1>12, <1>15
<1> QED
  BY <1>1, <1>11, <1>13, <1>14, <1>16 DEF Ordered, Promise!Move

LEMMA ErasePromised ==
  ASSUME IInv, Ordered, NEW x \in allocated,
         link' = Freed(Unlink(link, x), x), allocated' = allocated \ {x}
  PROVE  Ordered' /\ Promise!Erase(x)
<1>1. /\ link \in Pairs /\ Whole(link, Live) /\ Live \in SUBSET Nodes
      /\ x \in Live \ Lists /\ Live' = Live \ {x}
  BY ConstantsOK DEF IInv, TypeOK, Live, Nodes, Pairs
<1>2. PICK c : Laid(link, Live, c)
  BY DEF Ordered
<1>3. PICK a \in Lists : \E q \in 1..Len(c[a]) : c[a][q] = x
  BY <1>1, <1>2 DEF Laid
<1>4. PICK q \in 1..Len(c[a]) : c[a][q] = x
  BY <1>3
<1> DEFINE k == Unlink(link, x)
           d == [c EXCEPT ![a] = Removed(c[a], q)]
<1>5. Laid(k, Live \ {x}, d) /\ k \in Pairs /\ Whole(k, Live \ {x})
  BY <1>1, <1>2, <1>4, UnlinkLays, UnlinkKeeps
<1>6. Live \ {x} \in SUBSET Nodes /\ x \in Nodes \ (Live \ {x}) /\ Lists \subseteq Live \ {x}
  BY <1>1 DEF Whole
<1>7. d = [j \in Lists |-> Promise!Without(c[j], x)]
  BY <1>2, <1>4, PromiseWithout
<1> HIDE DEF d
<1>8. Laid(Freed(k, x), Live \ {x}, d)
  BY <1>5, <1>6, FreedLays
<1>9. Laid(link', Live', d)
  BY <1>1, <1>8
<1>10. Contents = c /\ Contents' = d
  BY <1>2, <1>9, ContentsAre, NewContentsAre
<1>11. x \in Promise!Placed
  BY <1>2, <1>4, ContentsAre
<1>12. Contents' = [j \in Lists |-> Promise!Without(Contents[j], x)]
  BY <1>7, <1>10
<1> QED
  BY <1>9, <1>11, <1>12 DEF Ordered, Promise!Erase

LEMMA StepOrdered ==
  ASSUME IInv, Ordered, [Next]_vars
  PROVE  Ordered' /\ SequencingStep
<1>1. ASSUME link' = link PROVE UNCHANGED Contents
  BY <1>1 DEF Contents
<1>2. ASSUME link' = link, allocated' = allocated PROVE Ordered'
  BY <1>2 DEF Ordered, Live
<1>3. ASSUME NEW to \in Nodes, NEW x \in Items
      PROVE  /\ list_insert(to, x) => Promise!Insert(to, x)
             /\ list_splice(to, x) /\ to # x => Promise!Move(to, x)
             /\ list_erase(x) => Promise!Erase(x)
  <2>1. list_erase(x) => Promise!Erase(x)
    BY ErasePromised DEF list_erase
  <2> QED
    BY InsertPromised, MovePromised, <2>1
<1>4. Ordered' /\ (UNCHANGED Contents \/ Promise!Next)
  <2>1. ASSUME NEW to \in Nodes, NEW x \in Items, list_insert(to, x)
        PROVE  Ordered' /\ Promise!Next
    <3>1. Ordered' /\ Promise!Insert(to, x) /\ to \in Lists \cup Items
      BY <2>1, InsertPromised DEF Nodes
    <3> QED
      BY <3>1 DEF Promise!Next
  <2>2. ASSUME NEW to \in Nodes, NEW x \in Items, list_splice(to, x)
        PROVE  Ordered' /\ (UNCHANGED Contents \/ Promise!Next)
    <3>1. CASE to = x
      BY <1>1, <1>2, <2>2, <3>1 DEF list_splice
    <3>2. CASE to # x
      <4>1. Ordered' /\ Promise!Move(to, x) /\ to \in Lists \cup Items
        BY <2>2, <3>2, MovePromised DEF Nodes
      <4> QED
        BY <4>1 DEF Promise!Next
    <3> QED
      BY <3>1, <3>2
  <2>3. ASSUME NEW x \in Items, list_erase(x) PROVE Ordered' /\ Promise!Next
    <3>1. Ordered' /\ Promise!Erase(x)
      BY <2>3, ErasePromised DEF list_erase
    <3> QED
      BY <3>1 DEF Promise!Next
  <2>4. ASSUME NEW l \in Lists, list_clear(l) PROVE Ordered' /\ UNCHANGED Contents
    BY <1>1, <1>2, <2>4 DEF list_clear
  <2>5. ASSUME ClearFront PROVE Ordered' /\ (UNCHANGED Contents \/ Promise!Next)
    <3> DEFINE front == link.next[clearing]
    <3>1. CASE front = clearing
      BY <1>1, <1>2, <2>5, <3>1 DEF ClearFront
    <3>2. CASE front # clearing
      <4>1. link' = Freed(Unlink(link, front), front) /\ allocated' = allocated \ {front}
        BY <2>5, <3>2 DEF ClearFront
      <4>2. front \in allocated
        BY <2>5, <3>2, FrontIsItem DEF ClearFront
      <4>3. front \in Items
        BY <4>2 DEF IInv, TypeOK
      <4> HIDE DEF front
      <4>4. Ordered' /\ Promise!Erase(front)
        BY <4>1, <4>2, ErasePromised
      <4> QED
        BY <4>3, <4>4 DEF Promise!Next
    <3> QED
      BY <3>1, <3>2
  <2>6. CASE UNCHANGED vars
    BY <1>1, <1>2, <2>6 DEF vars
  <2> QED
    BY <2>1, <2>2, <2>3, <2>4, <2>5, <2>6 DEF Next
<1> QED
  BY <1>3, <1>4 DEF SequencingStep

(* Every item is on exactly one list, in the order that the insertions and    *)
(* splices gave: list_insert, list_splice and list_erase put, move and take   *)
(* away the item that is named and no other, and list_clear takes away one    *)
(* item at a time from the front, whatever its release function does to the   *)
(* lists in between.                                                          *)
THEOREM ListImplementsSequencing == Spec => ImplementsSequencing
<1> DEFINE Inv == IInv /\ Ordered
<1>1. Init => Inv /\ Promise!Init
  BY InitInv, InitOrdered
<1>2. Inv /\ [Next]_vars => Inv' /\ [SequencingStep]_vars
  BY StepInv, StepOrdered
<1> HIDE DEF Inv
<1>3. Spec => Promise!Init /\ [][SequencingStep]_vars
  BY <1>1, <1>2, PTL DEF Spec
<1> QED
  BY <1>3 DEF ImplementsSequencing
=============================================================================
