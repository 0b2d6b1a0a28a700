----------------------------- MODULE Sequencing -----------------------------
(***************************************************************************)
(* What lists promise: each holds a sequence of distinct items; an item is *)
(* put, or moved, in front of another one or at the end of a list, and the *)
(* others keep their order.                                                *)
(***************************************************************************)
EXTENDS SequencesExt

CONSTANTS Lists, Items

VARIABLE contents

In(l) == ToSet(contents[l])
Placed == UNION {In(l) : l \in Lists}

Init == contents = [l \in Lists |-> <<>>]

PlaceOf(s, x) == CHOOSE i \in DOMAIN s : s[i] = x

(* Sequence s with x in front of place, where a list stands for its end.      *)
PutBefore(s, place, x) ==
  IF place \in Lists THEN Append(s, x) ELSE InsertAt(s, PlaceOf(s, place), x)

Without(s, x) == IF x \in ToSet(s) THEN RemoveAt(s, PlaceOf(s, x)) ELSE s

Holds(l, place) == place = l \/ place \in In(l)

Insert(place, x) ==
  /\ x \notin Placed
  /\ \E l \in Lists :
       /\ Holds(l, place)
       /\ contents' = [contents EXCEPT ![l] = PutBefore(@, place, x)]

Move(place, x) ==
  /\ x \in Placed /\ x # place
  /\ LET without == [l \in Lists |-> Without(contents[l], x)]
     IN  \E l \in Lists :
           /\ Holds(l, place)
           /\ contents' = [without EXCEPT ![l] = PutBefore(@, place, x)]

Erase(x) ==
  /\ x \in Placed
  /\ contents' = [l \in Lists |-> Without(contents[l], x)]

Next ==
  \E x \in Items :
    \/ \E place \in Lists \cup Items : Insert(place, x) \/ Move(place, x)
    \/ Erase(x)

Spec == Init /\ [][Next]_contents
=============================================================================
