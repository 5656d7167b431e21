CONSTANTS
  n1 = n1  n2 = n2  n3 = n3
  Node = {n1, n2, n3}
  EdgeKey <- PlainKey
  KeyOf <- PlainKeyOf
  NoEdge = NoEdge
  MaxCopies = 2
SPECIFICATION Spec
INVARIANTS
  TypeOK
  EdgesOnlyLive
  IndexesAgree
  CycleCheckExact
  EdgesAcyclic
PROPERTY
  KeepsPromise
