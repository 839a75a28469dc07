SPECIFICATION SteadySpec
CONSTANTS
  p1 = p1
  p2 = p2
  p3 = p3
  b1 = b1
  b2 = b2
  a1 = a1
  a2 = a2
  NoStrategy = NoStrategy
  Pods = {p1, p2}
  Breakers = {b1, b2}
  Activators = {a1}
  Second = 2
  NamesReused = FALSE
  MaxNow = 2
  MaxMishaps = 0
  MinCount <- Count1
  MinRatio <- Ratio0
  CustomDetector = {}
  SyncedEvaluation = TRUE
  Strategy <- DefaultOnly
  Mode <- AllPeriodic
  Period <- Period2
  MaxRetry <- Retry1
  MaxPause <- Pause1
SYMMETRY PodSymmetry
PROPERTIES MinCountKept
CHECK_DEADLOCK FALSE
