SPECIFICATION SteadySpec
CONSTANTS
  p1 = p1
  p2 = p2
  p3 = p3
  b1 = b1
  b2 = b2
  a1 = a1
  a2 = a2
  NoStrategy = NoStrategy
  Pods = {p1, p2, p3}
  Breakers = {b1}
  Activators = {a1}
  Second = 2
  NamesReused = FALSE
  MaxNow = 6
  MaxMishaps = 1
  MinCount <- Count1
  MinRatio <- Ratio75
  CustomDetector = {}
  SyncedEvaluation = TRUE
  Strategy <- DefaultOnly
  Mode <- AllKill
  Period <- Period2
  MaxRetry <- Retry1
  MaxPause <- Pause1
SYMMETRY PodSymmetry
PROPERTIES FloorOfEvaluation KillsOnlyCutPods
CHECK_DEADLOCK FALSE
