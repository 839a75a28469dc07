SPECIFICATION FairSpec
CONSTANTS
  s1 = s1
  s2 = s2
  s3 = s3
  s4 = s4
  s5 = s5
  app = app
  traffic = traffic
  Specs = {s1, s2, s3, s4, s5}
  Invalid = {s3}
  Undefaultable = {s4}
  Unbuildable = {s5}
  ServiceSelector = {app, traffic}
  EvaluationPeriod = 1
  ResyncPeriod = 2
  MaxMishaps = 3
INVARIANTS TypeOK OrphansComeFromDeletions
PROPERTIES NoServiceNoItem WorkersFollowSpec EvaluationsGoOn
