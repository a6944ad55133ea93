SPECIFICATION Spec
CONSTANTS
  Workers = {w1, w2, w3}
  Sockets = {s1, s2, s3}
  Names = {alice, bob}
  Ids = {1}
  MaxClients = 3
  MaxLastIds = 1
  NoSocket = NoSocket
  NoName = NoName
SYMMETRY Interchangeable
INVARIANTS
  TypeOK
  RegistryIsRight
