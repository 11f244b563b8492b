\* Twelve Data and one connection of Massive, one client, from start to exit.
SPECIFICATION FairSpec
CONSTANTS
  c1 = c1
  NoTick = NoTick
  Sessions = {"twelve", "crypto"}
  BackupSessions = {"crypto"}
  Clients = {c1}
  AdapterCap = 1
  HubCap = 1
  SendCap = 1
  MaxTicks = 2
INVARIANTS TypeOK NoSilentGap OvertakenOnlyInFlight
PROPERTIES RefinesStream ShutdownEnds DeliveredOrEvicted
CHECK_DEADLOCK FALSE
