----------------------------- MODULE MCReactor -----------------------------
(* Instances of Reactor for TLC.                                              *)
EXTENDS Reactor, TLC

(* The masks the library itself uses, and a level-triggered one.              *)
EdgeMasks == {{"read"}, {"read", "write"}}
MixedMasks == {{"read", "level"}, {"read", "write"}}
StreamMasks == {{"read", "write"}}

Symmetry == Permutations(Descriptors)
=============================================================================
