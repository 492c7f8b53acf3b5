\* Refutes TreeSurvives: a deploy of a branch the remote does not have.
CONSTANTS
  Domains = {d1, d2}
  Repos = {d1}
  Procs = {p1, p2}
  Branches = {main, dev}
  Main = main
  Cooldown = 1
  MaxCommits = 2
  MaxRows = 2
  MaxFaults = 0
  MaxCrashes = 0
SPECIFICATION Spec
INVARIANT TreeSurvives
