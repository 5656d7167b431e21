SPECIFICATION Spec
CONSTANTS
  a = a
  n = n
  c = c
  d = d
  r1 = r1
  r2 = r2
  TableId = {a}
  Name = {n}
  Column = {c, d}
  NoId = NoId
  NoTable = NoTable
  Reader = {r1, r2}
  Posted <- OnePosted
  PutFields <- OtherFields
  MaxRevision = 3
INVARIANTS
  TypeOK
  MissesAreCurrent
  QuietRefreshHolds
SYMMETRY Interchangeable
