SPECIFICATION Spec
CONSTANTS
  Domains = {site}
  Procs = {p1}
  Configs = {every30, every60}
  MaxSites = 2
  Crons = {1, 2}
  None = None
INVARIANTS FiresForItsSite
