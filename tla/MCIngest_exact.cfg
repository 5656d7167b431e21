CONSTANTS
  t1 = t1  t2 = t2  t3 = t3
  A = A  B = B
  x = x  y = y
  NoId = NoId
  NoTable = NoTable
  NoSegment = NoSegment
  NoBaseline = NoBaseline
  TableId = {t1, t2}
  Name = {A, B}
  Column = {x, y}
  Posted <- SoloPosted
  PutFields <- NoPut
  SegmentBodies <- SoloBodies
  MaxSegments = 1
  MaxRevision = 2
SPECIFICATION Spec
PROPERTY
  RollbackExact
