\* One domain, two racing requests, both driver types, one failing call and one crash.
\* Liveness is checked (Implements), so no symmetry.
CONSTANTS
  Domains = {d1}
  Procs = {p1, p2}
  Services = {s1, s2}
  Owners = {admin, alice}
  Admin = admin
  Nobody = nobody
  Drivers = {"native", "compose"}
  Quiet = {"backing up"}
  MaxFaults = 1
  MaxCrashes = 1
SPECIFICATION FairSpec
INVARIANTS TypeOK MutualExclusion HalfBuiltHasBuilder FailedCreateLeavesNothing
PROPERTIES  Implements
