SPECIFICATION Spec
CONSTANTS
  Workers = {w1, w2}
  Sockets = {s1, s2}
  Names = {alice, bob}
  Ids = {1}
  MaxClients = 2
  MaxLastIds = 1
  NoSocket = NoSocket
  NoName = NoName
SYMMETRY Interchangeable
INVARIANTS
  UniqueNicknames
