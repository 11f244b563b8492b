\* a channel closed before its senders have ended: expected to be violated.
SPECIFICATION Spec
CONSTANTS
  c1 = c1
  NoTick = NoTick
  Sessions = {"twelve", "crypto"}
  BackupSessions = {"crypto"}
  Clients = {c1}
  AdapterCap = 1
  HubCap = 1
  SendCap = 1
  MaxTicks = 2
INVARIANTS NoTickOnClosed
CHECK_DEADLOCK FALSE
