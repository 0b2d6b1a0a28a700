-------------------------------- MODULE Memory --------------------------------
(* Blocks of memory as sequences, and the C functions on them; offsets count  *)
(* from 0.  What a write would leave outside of a block is lost.              *)
EXTENDS Integers, Sequences

CONSTANT Junk      (* what is in memory that has not been written            *)

At(mem, i) == IF i + 1 \in DOMAIN mem THEN mem[i + 1] ELSE Junk

realloc(mem, n) == [i \in 1..n |-> At(mem, i - 1)]

(* n bytes from one place to another, which may overlap.                      *)
memmove(mem, to, from, n) ==
  [i \in DOMAIN mem |-> IF i \in to + 1..to + n THEN At(mem, i - 1 - to + from) ELSE mem[i]]

memcpy(mem, to, data) ==
  [i \in DOMAIN mem |-> IF i \in to + 1..to + Len(data) THEN data[i - to] ELSE mem[i]]

Read(mem, from, n) == [i \in 1..n |-> At(mem, from + i - 1)]
=============================================================================
