SPECIFICATION Spec
CONSTANTS
  Users = {alice, bob}
  Workers = {w1, w2}
  NoConn = NoConn
  MaxConns = 3
  MaxCrashes = 2
INVARIANTS
  TypeOK
  PoolIsSound
  ConnectionLossWhy
\* All users may have quit, with every worker asleep.
CHECK_DEADLOCK FALSE
SYMMETRY Symmetry
