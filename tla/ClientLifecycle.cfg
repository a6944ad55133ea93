SPECIFICATION FairSpec
CONSTANTS
  Fds = {1, 2}
  Conns = {1, 2}
  MaxPackets = 2
  MaxFaults = 2
\* The program ends.
CHECK_DEADLOCK FALSE
INVARIANTS
  TypeOK
  NoneLeaked
  HandshakeIsRead
PROPERTIES
  QuitEnds
  ReconnectsOrEnds
