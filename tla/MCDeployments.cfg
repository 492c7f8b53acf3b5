\* A site with a repository and one without, a branch the remote may not have yet,
\* two racing requests, one failing call and one crash.
CONSTANTS
  Domains = {d1, d2}
  Repos = {d1}
  Procs = {p1, p2}
  Branches = {main, dev}
  Main = main
  Cooldown = 1
  MaxCommits = 2
  MaxRows = 2
  MaxFaults = 1
  MaxCrashes = 1
SPECIFICATION Spec
SYMMETRY Symmetry
INVARIANTS TypeOK HooksSeeTheirCommit RowsTellTheTree
PROPERTY DeploysSpaced
