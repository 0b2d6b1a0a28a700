------------------------------ MODULE MCServer ------------------------------
(* Instances of Server for TLC.                                               *)
EXTENDS Server, TLC

Pipelined == <<"get", "get">>
PipelinedThenBad == <<"get", "get", "bad">>
Single == <<"get">>

Symmetry == Permutations(Requests)
=============================================================================
