CONSTANTS
  Models = {m1, m2}
  None = None
  Torn = Torn
  Locks = {1, 2, 3, 4, 5}
  Workers = {w1}
  Agents = {a1}
  Kinds = {"Download", "Delete"}
  Faults = {"io", "shared"}
  MaxFaults <- TwoFaults
  Repeats = FALSE
SPECIFICATION Spec
INVARIANTS
  ReadyIsComplete
CHECK_DEADLOCK FALSE
