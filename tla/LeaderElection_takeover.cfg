SPECIFICATION FairSpec
CONSTANTS
  r1 = r1
  r2 = r2
  NoOne = NoOne
  Replicas = {r1, r2}
  LeaseDuration = 5
  RenewDeadline = 3
  RetryPeriod = 2
  MaxMishaps = 2
INVARIANTS TypeOK
PROPERTIES ImplementsLease NoSpuriousTakeover LeadershipSettles
