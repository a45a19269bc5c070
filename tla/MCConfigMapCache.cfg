CONSTANTS
  m1 = m1
  m2 = m2
  Models = {m1, m2}
  Locks = {l1}
  None = None
  Published = {"Ready"}
  Leaving = {m1}
  Reporting = {m1}
  LastUIDs <- SiblingsOrReplaced
  DeletesMiss = TRUE
  MaxFaults = 1
SPECIFICATION Spec
INVARIANTS TypeOK NoResurrection OwnershipKept RestoredNotReady ReconciliationHeals
CHECK_DEADLOCK FALSE
