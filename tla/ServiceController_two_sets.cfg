SPECIFICATION Spec
CONSTANTS
  s1 = s1
  s2 = s2
  s3 = s3
  s4 = s4
  s5 = s5
  app = app
  traffic = traffic
  Specs = {s1}
  Invalid = {}
  Undefaultable = {}
  Unbuildable = {}
  ServiceSelector = {app, traffic}
  EvaluationPeriod = 1
  ResyncPeriod = 2
  MaxMishaps = 3
INVARIANTS OneSetOfWorkers
