SPECIFICATION Spec
CONSTANTS
  p1 = p1
  p2 = p2
  Owners = {admin, alice}
  Admin = admin
  Nobody = nobody
  Storages = {"local"}
  Keeps = {1}
  Procs = {p1, p2}
  MaxBackups = 3
  MaxClock = 1
  MaxEpochs = 2
  MaxFaults = 1
SYMMETRY Symmetric
INVARIANTS TypeOK Restorable AccountedFor 
PROPERTY NewestKept
CHECK_DEADLOCK FALSE
