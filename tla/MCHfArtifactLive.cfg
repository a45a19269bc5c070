CONSTANTS
  Models = {m1, m2}
  None = None
  Torn = Torn
  Locks = {1, 2, 3, 4, 5}
  Workers = {w1}
  Agents = {a1}
  Kinds = {"Download", "Delete", "Detach"}
  Faults = {"crash", "api", "io", "source", "cancel"}
  MaxFaults <- OneFault
  Repeats = FALSE
SPECIFICATION FairSpec
INVARIANTS
  ReferencesMatch
PROPERTIES
  RemovedOnlyUnused
  DeletesFinish
  NothingIsLeft
  DownloadsSettle
CHECK_DEADLOCK FALSE
