SPECIFICATION Spec
CONSTANTS
  p1 = p1
  b1 = b1
  c1 = c1
  c2 = c2
  NoStrategy = NoStrategy
  Pods = {p1}
  Breakers = {b1}
  Second = 1
  NamesReused = TRUE
  MaxNow = 0
  MaxMishaps = 3
  Collectors = {c1, c2}
  MaxCuts = 1
  MissCountBeforeGC = 2
INVARIANTS ReleasedPodsServe
