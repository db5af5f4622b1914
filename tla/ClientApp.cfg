SPECIFICATION Spec
CONSTANTS
  MaxClients = 2
  MaxEdits = 1
  MaxEvents = 1
INVARIANTS OnePending CredentialsAsTyped ClientOwned EventsLive
PROPERTIES Answered ListsSettle StopEnds
CHECK_DEADLOCK FALSE
