CONSTANTS
  t1 = t1  t2 = t2  t3 = t3
  A = A  B = B
  x = x  y = y
  NoId = NoId
  NoTable = NoTable
  NoSegment = NoSegment
  NoBaseline = NoBaseline
  TableId = {t1, t2, t3}
  Name = {A, B}
  Column = {x, y}
  Posted <- FixedPosted
  PutFields <- FixedPut
  SegmentBodies <- FixedBodies
  MaxSegments = 1
  MaxRevision = 2
SPECIFICATION Spec
PROPERTY
  ImportKeepsColumns
