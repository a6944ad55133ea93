SPECIFICATION FairSpec
CONSTANTS
  Users = {alice, bob}
  MaxRequests = 2
\* The programs end.
CHECK_DEADLOCK FALSE
INVARIANTS
  TypeOK
  SessionEndsWhy
PROPERTIES
  QuitEnds
