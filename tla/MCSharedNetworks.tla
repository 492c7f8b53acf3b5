---------------------------- MODULE MCSharedNetworks -----------------------------
(* One site, one network, two owners who swap places, two requests at a time. *)
EXTENDS SharedNetworks, TLC

Symmetry == Permutations(Owners) \cup Permutations(Procs)
=================================================================================
