----------------------------- MODULE EventPort -----------------------------
(***************************************************************************)
(* What the reactor promises to the owner of a descriptor, whatever the    *)
(* owners do in their callbacks:                                           *)
(*                                                                         *)
(*  - only an open descriptor gets callbacks;                              *)
(*  - every kind of event reported for a descriptor is delivered exactly   *)
(*    once, read before write before close, unless the descriptor is       *)
(*    closed first, which takes back everything still due to it and        *)
(*    nothing that is due to another descriptor;                           *)
(*  - nothing new is reported before everything due has been delivered or  *)
(*    taken back.                                                          *)
(*                                                                         *)
(* Reactor implements this specification, and components that live above   *)
(* the reactor may be composed with it in the reactor's place.             *)
(***************************************************************************)
CONSTANT
  Descriptors   (* the descriptors of the owners           *)

VARIABLES
  open,         (* the descriptors that are open           *)
  due           (* due[d]: reported to d and not delivered *)

vars == <<open, due>>

Kinds == {"read", "write", "close"}

(* The order in which the kinds of one report are delivered.                 *)
Precedes(j, k) == <<j, k>> \in {<<"read", "write">>, <<"read", "close">>,
                                <<"write", "close">>}

NothingDue == [d \in Descriptors |-> {}]

Init == open = {} /\ due = NothingDue

Open(d) ==
  /\ d \notin open
  /\ open' = open \cup {d}
  /\ UNCHANGED due

Close(d) ==
  /\ d \in open
  /\ open' = open \ {d}
  /\ due' = [due EXCEPT ![d] = {}]

(* epoll_wait has returned: some open descriptors have events.               *)
Report ==
  /\ due = NothingDue
  /\ due' \in [Descriptors -> SUBSET Kinds]
  /\ LET reported == {d \in Descriptors : due'[d] # {}}
     IN  reported # {} /\ reported \subseteq open
  /\ UNCHANGED open

(* The owner of d is called back with k.                                     *)
Deliver(d, k) ==
  /\ d \in open
  /\ k \in due[d]
  /\ \A j \in due[d] : ~ Precedes(j, k)
  /\ due' = [due EXCEPT ![d] = @ \ {k}]
  /\ UNCHANGED open

Next ==
  \/ Report
  \/ \E d \in Descriptors :
       \/ Open(d)
       \/ Close(d)
       \/ \E k \in Kinds : Deliver(d, k)

Spec == Init /\ [][Next]_vars
=============================================================================
