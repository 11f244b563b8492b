\* Two WebSocket clients competing for the channels and the lock of the hub.
SPECIFICATION Spec
CONSTANTS
  w = w
  w2 = w2
  t = t
  NoClient = NoClient
  Clients = {w, w2}
  Kind <- TwoWsKind
  Faults = {"stalled"}
  SendCap = 1
  RegisterCap = 1
  UnregisterCap = 1
  MaxInflight = 1
INVARIANTS CountExact NobodyForgotten
PROPERTIES RefinesMembership
SYMMETRY TwoWsSymmetry
CHECK_DEADLOCK FALSE
