CONSTANTS
  t1 = t1  t2 = t2  t3 = t3
  A = A  B = B
  x = x  y = y
  NoId = NoId
  NoTable = NoTable
  NoSegment = NoSegment
  NoBaseline = NoBaseline
  TableId = {t1, t2}
  Name = {A, B}
  Column = {x, y}
  Posted <- RenamePosted
  PutFields <- RenamePut
  SegmentBodies <- RenameBodies
  MaxSegments = 2
  MaxRevision = 3
SPECIFICATION Spec
INVARIANTS
  IndexNeverDangles
  ChangedIsWritten
PROPERTIES
  RollbackRepairs
  WedgeIsForever
