SPECIFICATION Spec
CONSTANTS
  MaxCount = 2
  MaxPings = 4
INVARIANTS
  TypeOK
  StatisticsMatchPings
PROPERTIES
  ReportsWhy
