CONSTANTS
  m1 = m1
  m2 = m2
  d1 = d1
  disp = disp
  w1 = w1
  h1 = h1
  nil = nil
  None <- nil
  Procs <- AllProcs
  Dispatcher <- disp
  NormalWorkers <- NormalPool
  HighWorkers <- HighPool
  Models <- TwoModels
  Paths <- OnePath
  PathOf <- PathOfTwo
  Created <- CreatedTwo
  Reserved <- NoModels
  StartupReady <- JustM1
  SnapshotChildren <- JustM2
  Inputs <- OverrideInputs
  MaxInputs = 2
  RoutingFaults = FALSE
  IOFaults = FALSE
  EnvSteps <- DeleteOnly
SPECIFICATION Spec
INVARIANTS
  ReadyHasFiles
PROPERTIES
  DirectoryHasOneWriter
CHECK_DEADLOCK FALSE
