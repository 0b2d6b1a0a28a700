--------------------------------- MODULE Row ---------------------------------
(***************************************************************************)
(* What vectors and strings promise: they hold a row of values, a part of  *)
(* which is taken out or put in at a time; the rest stays as it is.  What  *)
(* is taken out is handed back, in order.                                  *)
(***************************************************************************)
EXTENDS Naturals, Sequences

CONSTANT Parts     (* the rows that are put in                               *)

VARIABLES
  row,
  returned         (* what the latest operation has taken out                *)

vars == <<row, returned>>

Init == row = <<>> /\ returned = <<>>

(* The n values behind the first i are replaced by the part new.              *)
Splice(i, n, new) ==
  /\ i + n <= Len(row)
  /\ row' = SubSeq(row, 1, i) \o new \o SubSeq(row, i + n + 1, Len(row))
  /\ returned' = SubSeq(row, i + 1, i + n)

Keep == returned' = <<>> /\ UNCHANGED row

Next ==
  \/ \E i, n \in 0..Len(row), new \in Parts : Splice(i, n, new)
  \/ Keep

Spec == Init /\ [][Next]_vars
=============================================================================
