SPECIFICATION FairSpec
CONSTANTS
  Clients = {c1}
  NoClient = NoClient
  MaxHandle = 1
PROPERTIES Answered
CHECK_DEADLOCK FALSE
