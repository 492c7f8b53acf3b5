SPECIFICATION Spec
CONSTANTS
  Sites = {site}
  Nets = {net}
  Owners = {alice, bob}
  Slots = {base, replica}
  Base = base
  Nobody = Nobody
  Procs = {p1, p2}
  MaxTroubles = 1
SYMMETRY Symmetry
INVARIANTS TypeOK BridgesOneOwner 
