SPECIFICATION WaitSpec
CONSTANTS
  Host = Host
  Nobody = Nobody
  Clients = {c1, c2, c3}
  LastChange = 4
INVARIANTS
  HeldExactly
  BlockedClientIsSignalable
  NotLeftBehind
PROPERTIES
  EventSpec
  EveryWaitEnds
