CONSTANTS
  t1 = t1
  A = A
  r1 = r1  r2 = r2
  NoId = NoId
  NoTable = NoTable
  NoSegment = NoSegment
  NoBaseline = NoBaseline
  TableId = {t1}
  Name = {A}
  Column = {}
  Caller = {r1, r2}
  Posted <- OnePosted
  PutFields <- OnePut
  SegmentBodies <- OneBody
  MaxVersions = 2
  MaxSegments = 1
  MaxRevision = 1
SPECIFICATION Spec
INVARIANTS
  TypeOK
  CurrentReadable
  CreatedAreNodes
  OrphansStopGrowing
  SnapshotsAreReleased
PROPERTIES
  NoWayBack
  StopsOnSignal
CHECK_DEADLOCK FALSE
