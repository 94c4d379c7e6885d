SPECIFICATION Spec
CONSTANTS
  r1 = r1
  r2 = r2
  acme = acme
  beta = beta
  None = None
  Requests = {r1, r2}
  Tenants = {acme, beta}
  Rotating = {acme}
  Kids = {1, 2}
  Tokens <- SomeTokens
  Role = "admin"
  TTL = 2
  Latency = 1
INVARIANTS CacheHonest NewKeyIsFound
PROPERTY Admission
SYMMETRY Alike
