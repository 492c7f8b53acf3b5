------------------------------- MODULE MCAccounts --------------------------------
EXTENDS Accounts, TLC

Symmetry == Permutations(Procs) \cup Permutations(Codes)

=================================================================================
