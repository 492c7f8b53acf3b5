SPECIFICATION Spec
CONSTANTS
  Procs = {p1, p2}
  MaxFailures = 2
  Window = 1
  Lockout = 2
  Codes = {c1, c2}
  MaxTime = 4
  MaxRequests = 3
  None = None
SYMMETRY Symmetry
INVARIANTS TypeOK CodesUsedOnce NoStaleCredentials LockoutHolds
