------------------------------ MODULE MCProgressHub ------------------------------
(* Instances of ProgressHub for TLC. *)
EXTENDS ProgressHub, TLC

Symmetric == Permutations(Streams)
=================================================================================
