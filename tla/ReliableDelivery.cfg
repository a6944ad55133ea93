SPECIFICATION FairSpec
CONSTANTS
  MaxRetries = 1
  MaxLastIds = 2
  MaxId = 3
  MaxSessions = 2
\* The user may stop asking.
CHECK_DEADLOCK FALSE
INVARIANTS
  TypeOK
  AnsweredOnce
  RequestsAreTried
PROPERTIES
  GivenUpWasNotAcked
  PendingEnds
