----------------------------- MODULE Dictionary -----------------------------
(***************************************************************************)
(* What a map promises: it holds at most one element for each key, keeps   *)
(* the one that was there first, and hands every element it was given and  *)
(* does not keep to the release function, exactly once.                    *)
(***************************************************************************)
EXTENDS FiniteSets

CONSTANTS
  Elements,
  KeyOf(_)       (* the key of an element                                    *)

VARIABLES
  content,       (* the elements in the map                                  *)
  size,          (* the number the map reports                               *)
  released       (* those released by the latest operation                   *)

vars == <<content, size, released>>

With(k) == {e \in content : KeyOf(e) = k}

Init == content = {} /\ size = 0 /\ released = {}

Insert(e) ==
  IF With(KeyOf(e)) = {}
  THEN content' = content \cup {e} /\ released' = {}
  ELSE released' = {e} /\ UNCHANGED content

Erase(k) ==
  /\ content' = content \ With(k)
  /\ released' = With(k)

Reserve == released' = {} /\ UNCHANGED content

Clear == content' = {} /\ released' = content

Next ==
  /\ \/ \E e \in Elements : Insert(e) \/ Erase(KeyOf(e))
     \/ Reserve
     \/ Clear
  /\ size' = Cardinality(content')

Spec == Init /\ [][Next]_vars
=============================================================================
