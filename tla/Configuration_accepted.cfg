SPECIFICATION Spec
CONSTANTS
  Nil = Nil
  p1 = p1
  p2 = p2
  front = front
  first = first
  second = second
  Bad_Name = Bad_Name
  kv = kv
  long_name = long_name
  prom = prom
  unparsable = unparsable
  query = query
  code = code
  podname = podname
  v200 = v200
  v500 = v500
  Names = {front, first, second, Bad_Name}
  DNSNames = {front, first, second}
  Texts = {prom, unparsable, query, code, podname}
  Values = {v200, v500}
  Pods = {p1, p2}
  UserNames = {kv, long_name}
  LabelValues = {kv}
  UserSpecs <- MCUserSpecs
  Parsable = {prom}
  UserSamples <- MCSamples
  MaxSamples = 2
  MaxEdits = 2
INVARIANTS TypeOK WorkersComplete StatusTellsItem ItemMatchesSpec SparesHealthyPods FindsOffenders FindsDeviations
PROPERTIES DefaultingSettles ValidatedBuilds
