----------------------------- MODULE MCDeployments -----------------------------
EXTENDS Deployments, TLC

Symmetry == Permutations(Procs)

================================================================================
