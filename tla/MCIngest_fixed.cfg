CONSTANTS
  t1 = t1  t2 = t2  t3 = t3
  A = A  B = B
  x = x  y = y
  NoId = NoId
  NoTable = NoTable
  NoSegment = NoSegment
  NoBaseline = NoBaseline
  TableId = {t1, t2, t3}
  Name = {A, B}
  Column = {x, y}
  Posted <- FixedPosted
  PutFields <- FixedPut
  SegmentBodies <- FixedBodies
  MaxSegments = 2
  MaxRevision = 3
SPECIFICATION Spec
INVARIANTS
  TypeOK
  IndexExact
PROPERTIES
  BaselineTablesKept
