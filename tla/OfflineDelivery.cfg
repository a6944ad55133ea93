SPECIFICATION FairSpec
CONSTANTS
  alice = alice
  bob = bob
  carol = carol
  Users = {alice, bob, carol}
  Messages <- Conversation
  Everyone = Everyone
  Nobody = Nobody
INVARIANTS
  TypeOK
  OnePlace
  HistoryIsTrue
PROPERTIES
  UndeliveredWhy
  ImplementsMailbox
  StoredIsDelivered
