-------------------------------- MODULE List --------------------------------
(***************************************************************************)
(* Circular doubly linked lists: src/reactor/list.c.  The head of a list   *)
(* is a node like the items, and stands for the end of the list.           *)
(***************************************************************************)
EXTENDS Naturals, FiniteSets

CONSTANTS
  Lists,
  Items,
  Null      (* the links of memory that is not in use                         *)

ASSUME ConstantsOK ==
  Lists \cap Items = {} /\ Null \notin Lists \cup Items /\ IsFiniteSet(Items)

VARIABLES
  link,       (* the links next and previous of every node                    *)
  allocated,  (* the items in memory                                          *)
  clearing    (* the list in list_clear, whose release function is called     *)

vars == <<link, allocated, clearing>>

Nodes == Lists \cup Items
Live == Lists \cup allocated

-----------------------------------------------------------------------------
(* list_construct of each list.                                               *)
Init ==
  /\ link = LET self == [n \in Nodes |-> IF n \in Lists THEN n ELSE Null]
            IN  [next |-> self, previous |-> self]
  /\ allocated = {}
  /\ clearing = Null

(* Slip: next and previous are mixed up.                                      *)
LinkBehind(k, x, to) ==
  LET after == k.next[to]
  IN  [next |-> [k.next EXCEPT ![x] = after, ![to] = x],
       previous |-> [k.previous EXCEPT ![x] = to, ![after] = x]]

(* Links k with x between to and the node before it.                          *)
LinkBefore(k, x, to) ==
  LET before == k.previous[to]
  IN  [next |-> [k.next EXCEPT ![x] = to, ![before] = x],
       previous |-> [k.previous EXCEPT ![x] = before, ![to] = x]]

(* Links k with the neighbours of x linked to each other.                     *)
Unlink(k, x) ==
  [next |-> [k.next EXCEPT ![k.previous[x]] = k.next[x]],
   previous |-> [k.previous EXCEPT ![k.next[x]] = k.previous[x]]]

Freed(k, x) ==
  [next |-> [k.next EXCEPT ![x] = Null], previous |-> [k.previous EXCEPT ![x] = Null]]

(* list_insert in front of an item, the front of a list or its end: also      *)
(* list_push_front and list_push_back.                                        *)
list_insert(to, x) ==
  /\ to \in Live /\ x \in Items \ allocated
  /\ link' = LinkBefore(link, x, to)
  /\ allocated' = allocated \cup {x}
  /\ UNCHANGED clearing

(* Slip: an item spliced in front of itself is not noticed.                   *)
SpliceAnyway(to, from) ==
  /\ to \in Live /\ from \in allocated
  /\ link' = LinkBefore(Unlink(link, from), from, to)
  /\ UNCHANGED <<allocated, clearing>>

list_splice(to, from) ==
  /\ to \in Live /\ from \in allocated
  /\ link' = IF to = from THEN link ELSE LinkBefore(Unlink(link, from), from, to)
  /\ UNCHANGED <<allocated, clearing>>

list_erase(x) ==
  /\ x \in allocated
  /\ link' = Freed(Unlink(link, x), x)
  /\ allocated' = allocated \ {x}
  /\ UNCHANGED clearing

(* list_clear, list_destruct: the front is erased until there is none.  The   *)
(* release function, called for each, may use the lists too (but clears none: *)
(* a bound).                                                                  *)
list_clear(l) ==
  /\ clearing = Null
  /\ clearing' = l
  /\ UNCHANGED <<link, allocated>>

ClearFront ==
  /\ clearing # Null
  /\ LET front == link.next[clearing]
     IN  IF front = clearing
         THEN clearing' = Null /\ UNCHANGED <<link, allocated>>
         ELSE /\ link' = Freed(Unlink(link, front), front)
              /\ allocated' = allocated \ {front}
              /\ UNCHANGED clearing

Next ==
  \/ \E to \in Nodes, x \in Items : list_insert(to, x) \/ list_splice(to, x)
  \/ \E x \in Items : list_erase(x)
  \/ \E l \in Lists : list_clear(l)
  \/ ClearFront

Spec == Init /\ [][Next]_vars

-----------------------------------------------------------------------------
Links == [Nodes -> Nodes \cup {Null}]

(* Every variable keeps its type.                                             *)
TypeOK ==
  /\ link \in [next : Links, previous : Links]
  /\ allocated \subseteq Items
  /\ clearing \in Lists \cup {Null}

(* Both links of a live node lead to live nodes and are the inverse of each   *)
(* other: list_foreach and list_foreach_reverse see the same items, and none  *)
(* that was freed.                                                            *)
Circular(k, live) ==
  \A n \in live :
    /\ k.next[n] \in live /\ k.previous[n] \in live
    /\ k.previous[k.next[n]] = n
    /\ k.next[k.previous[n]] = n

Linked == Circular(link, Live)

(* What list_foreach visits: the nodes from the head on, up to the head.      *)
Walk(k, l) ==
  LET node[i \in 0..Cardinality(Items) + 1] ==
        IF i = 0 THEN l ELSE k.next[node[i - 1]]
      length == CHOOSE i \in 0..Cardinality(Items) :
                  node[i + 1] = l /\ \A j \in 1..i : node[j] # l
  IN  [i \in 1..length |-> node[i]]

Contents == [l \in Lists |-> Walk(link, l)]
Promise == INSTANCE Sequencing WITH contents <- Contents

(* Every item is on exactly one list, and each operation puts, moves or takes *)
(* away the item that was named, at the place that was named, and no other.   *)
SequencingStep ==
  \/ UNCHANGED vars
  \/ /\ UNCHANGED Contents \/ Promise!Next
     /\ \A to \in Nodes, x \in Items :
          /\ list_insert(to, x) => Promise!Insert(to, x)
          /\ list_splice(to, x) /\ to # x => Promise!Move(to, x)
          /\ list_erase(x) => Promise!Erase(x)

ImplementsSequencing == Promise!Init /\ [][SequencingStep]_vars
======
