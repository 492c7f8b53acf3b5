SPECIFICATION Spec
CONSTANTS
  a = a
  b = b
  c = c
  f1 = f1
  f2 = f2
  p1 = p1
  p2 = p2
  Free = Free
  Hosts = {a, b, c}
  Wanted = {c}
  Stacks = {a, b}
  Procs = {p1, p2}
  Ident <- OneIdForTwo
  Files = {f1, f2}
  None = None
SYMMETRY Symmetric
INVARIANTS TypeOK  ClaimsExclusive ProjectsAsAsked
