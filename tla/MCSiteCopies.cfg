SPECIFICATION Spec
CONSTANTS
  Domains = {shop, staging}
  Procs = {p1, p2}
  MaxMade = 2
  MaxTroubles = 1
  MaxRequests = 4
  None = None
SYMMETRY Symmetry
INVARIANTS TypeOK  
CHECK_DEADLOCK FALSE
