CONSTANTS
  Models = {m1, m2}
  None = None
  Torn = Torn
  Locks = {1, 2, 3, 4}
  Workers = {w1, w2}
  Agents = {a1, a2}
  Kinds = {"Download", "DownloadOverride", "Delete"}
  Faults = {"crash", "loss", "api", "io", "source", "rot", "cancel", "budget", "shared"}
  MaxFaults <- OneFaultAlone
  Repeats = TRUE
SPECIFICATION Spec
SYMMETRY Symmetry
CONSTRAINT AloneAfterFault
INVARIANTS
  TypeOK
  WriterOwnsParent
  ReadyIsComplete
  ReferencesMatch
  ReadyLabelIsServed
PROPERTIES
  RemovedOnlyUnused
  KeepsPromise
CHECK_DEADLOCK FALSE
