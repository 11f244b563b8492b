\* One TCP client that may stall or leave at any time, up to its eviction and to shutdown.
SPECIFICATION FairSpec
CONSTANTS
  w = w
  w2 = w2
  t = t
  NoClient = NoClient
  Clients = {t}
  Kind <- TcpKind
  Faults = {"stalled", "gone"}
  SendCap = 1
  RegisterCap = 1
  UnregisterCap = 1
  MaxInflight = 1
INVARIANTS TypeOK WelcomeFirst
PROPERTIES DeadEvicted StopReturns
CHECK_DEADLOCK FALSE
