\* Either adapter, two attempts per round.
SPECIFICATION FairSpec
CONSTANTS
  s1 = s1
  s2 = s2
  s3 = s3
  Sockets <- MCSockets
  NoSocket = NoSocket
  Providers = {"twelve", "massive"}
  MaxAttempts = 2
INVARIANTS TypeOK OneOpen ConnectedMeansSubscribed MassiveOneWriter LeavesDisconnected
PROPERTIES Recovers StopLeaves
CHECK_DEADLOCK FALSE
