\* Every configuration in a documented format, each connection, lists of events.
SPECIFICATION Spec
CONSTANTS
  Pairs <- MCPairs
  KindOf <- MCKindOf
  BatchSize = 3
  CryptoEvents = {"XT", "XQ", "XA"}
  ForexEvents = {"C", "CAS"}
  Amounts = {0, 2}
  Now = 7
INVARIANTS
  TypeOK TwelveLookupExact MassiveLookupComplete SubscribedToAll OfferedAsSent WireFaithful
