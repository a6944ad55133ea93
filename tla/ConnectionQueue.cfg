\* Three workers and five descriptors around a ring of two cells.
SPECIFICATION FairSpec
CONSTANTS
  Workers = {w1, w2, w3}
  Sockets = {s1, s2, s3, s4, s5}
  QueueSize = 2
  NoSocket = NoSocket
INVARIANTS
  TypeOK
  OneOwner
  NoLostWakeup
PROPERTIES
  ImplementsFifo
  ConnectionsProgress
