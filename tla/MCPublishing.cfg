SPECIFICATION Spec
CONSTANTS
  t1 = t1
  t2 = t2
  r1 = r1
  r2 = r2
  s1 = s1
  s2 = s2
  TableId = {t1}
  MaxVersions = 1
  Request = {r1, r2}
  Subscriber = {s1, s2}
  Event <- AllEvents
  NoEvent = NoEvent
  NoSubscriber = NoSubscriber
INVARIANTS
  TypeOK
  NothingDroppedSilently
  EventsPushedOnce
  SteadyKnowsAll
PROPERTY RequestsEnd
