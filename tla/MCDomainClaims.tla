----------------------------- MODULE MCDomainClaims ------------------------------
(* Instances of DomainClaims for TLC: "a" and "b" map to one id, as a.b.com and a-b.com do. *)
EXTENDS DomainClaims, TLC

CONSTANTS a, b, c

OneIdForTwo == (a :> a) @@ (b :> a) @@ (c :> c)
Symmetric == Permutations(Procs) \cup Permutations(Files)
=================================================================================
