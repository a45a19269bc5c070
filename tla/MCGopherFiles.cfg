CONSTANTS
  m1 = m1
  m2 = m2
  d1 = d1
  disp = disp
  w1 = w1
  h1 = h1
  nil = nil
  None <- nil
  Procs <- AllProcs
  Dispatcher <- disp
  NormalWorkers <- NormalPool
  HighWorkers <- HighPool
  Models <- OneModel
  Paths <- OnePath
  PathOf <- PathOfOne
  Created <- CreatedOne
  Reserved <- NoModels
  StartupReady <- NoModels
  SnapshotChildren <- NoModels
  Inputs <- FileInputs
  MaxInputs = 3
  RoutingFaults = FALSE
  IOFaults = FALSE
  EnvSteps <- DeleteOnly
SPECIFICATION Spec
INVARIANTS
  TypeOK
  ExclusiveAttempts
  BarrierCarried
  DownloadNotLost
PROPERTIES
  StatusFollowsIntent
CHECK_DEADLOCK FALSE
