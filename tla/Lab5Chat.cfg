SPECIFICATION Spec
CONSTANTS
  alice = alice
  bob = bob
  Users = {alice, bob}
  Messages <- Conversation
  Everyone = Everyone
  Nobody = Nobody
  Ids = {1, 2, 10}
  MaxCrashes = 1
INVARIANTS
  TypeOK
  StoredIsKept
  MessagesOnceInOrder
  HistoryIsTrue
