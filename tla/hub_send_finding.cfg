\* Send against Close: expected to be violated.
SPECIFICATION Spec
CONSTANTS
  w = w
  w2 = w2
  t = t
  NoClient = NoClient
  Clients = {t}
  Kind <- TcpKind
  Faults = {"stalled", "gone"}
  SendCap = 1
  RegisterCap = 1
  UnregisterCap = 1
  MaxInflight = 1
INVARIANTS NoSendOnClosed
CHECK_DEADLOCK FALSE
