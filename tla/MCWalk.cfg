SPECIFICATION WalkSpec
CONSTANTS
  n1 = n1
  n2 = n2
  n3 = n3
  Node = {n1, n2, n3}
  EdgeKey <- SharedKey
  KeyOf <- SharedKeyOf
  NoEdge = NoEdge
  MaxCopies = 2
  NoRoot = NoRoot
  MaxChurn = 2
  MaxUpdating = 0
INVARIANTS
  WalkTypeOK
  ReturnedOnce
  FindsWhatLasted
  NearestFirst
  IndexAcyclic
PROPERTY WalksEnd
