SPECIFICATION FairSpec
CONSTANTS
  Clients = {c1, c2, c3}
  NoClient = NoClient
  MaxHandle = 3
INVARIANTS NoLeak
PROPERTIES StopCloses
CHECK_DEADLOCK FALSE
