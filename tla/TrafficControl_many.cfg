SPECIFICATION FairSpec
CONSTANTS
  p1 = p1
  p2 = p2
  p3 = p3
  b1 = b1
  b2 = b2
  a1 = a1
  a2 = a2
  NoStrategy = NoStrategy
  Pods = {p1}
  Breakers = {b1, b2}
  Activators = {a1, a2}
  Second = 2
  NamesReused = FALSE
  MaxNow = 7
  MaxMishaps = 1
  MinCount <- Count0
  MinRatio <- Ratio0
  CustomDetector = {}
  SyncedEvaluation = FALSE
  Strategy <- OnePerBreaker
  Mode <- PauseAndKill
  Period <- Period2
  MaxRetry <- Retry2
  MaxPause <- Pause1
INVARIANTS TypeOK RetryCountsCuts CopiesNotAhead LabelsTellHistory
PROPERTIES ImplementsLifecycle CutPodsAreResolved SparesServingPods
CHECK_DEADLOCK FALSE
