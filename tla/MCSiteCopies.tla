------------------------------ MODULE MCSiteCopies -------------------------------
EXTENDS SiteCopies, TLC

Symmetry == Permutations(Procs) \cup Permutations(Domains)

=================================================================================
