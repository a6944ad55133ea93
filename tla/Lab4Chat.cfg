SPECIFICATION FairSpec
CONSTANTS
  Socks = {1, 2}
  Nicks = {n1, n2}
  Nobody = Nobody
  Room = 3
INVARIANTS
  TypeOK
  VectorIsRight
  ArrivesWhole
PROPERTIES
  NobodyBlocksForEver
