SPECIFICATION FairSpec
CONSTANTS
  Domains = {site}
  Procs = {p1, p2}
  Configs = {every30, every60}
  MaxSites = 2
  Crons = {1, 2}
  None = None
INVARIANTS TypeOK LoadedAreTheRows 
PROPERTIES RecordedJobsRun
