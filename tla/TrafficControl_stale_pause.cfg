SPECIFICATION Spec
CONSTANTS
  p1 = p1
  p2 = p2
  p3 = p3
  b1 = b1
  b2 = b2
  a1 = a1
  a2 = a2
  NoStrategy = NoStrategy
  Pods = {p1, p2}
  Breakers = {b1}
  Activators = {a1}
  Second = 2
  NamesReused = FALSE
  MaxNow = 2
  MaxMishaps = 0
  MinCount <- Count0
  MinRatio <- Ratio0
  CustomDetector = {}
  SyncedEvaluation = FALSE
  Strategy <- DefaultOnly
  Mode <- AllPause
  Period <- Period2
  MaxRetry <- Retry0
  MaxPause <- Pause1
SYMMETRY PodSymmetry
PROPERTIES PausedForEver
CHECK_DEADLOCK FALSE
