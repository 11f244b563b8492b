\* Subscription and heartbeat written at once: expected to be violated.
SPECIFICATION Spec
CONSTANTS
  s1 = s1
  s2 = s2
  s3 = s3
  Sockets <- MCSockets
  NoSocket = NoSocket
  Providers = {"twelve"}
  MaxAttempts = 1
INVARIANTS OneWriter
CHECK_DEADLOCK FALSE
