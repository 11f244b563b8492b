\* The counter against the open connections: expected to be violated.
SPECIFICATION Spec
CONSTANTS
  w = w
  w2 = w2
  t = t
  NoClient = NoClient
  Clients = {w}
  Kind <- WsKind
  Faults = {"stalled", "gone"}
  SendCap = 1
  RegisterCap = 1
  UnregisterCap = 1
  MaxInflight = 1
INVARIANTS CountIsConnected
CHECK_DEADLOCK FALSE
