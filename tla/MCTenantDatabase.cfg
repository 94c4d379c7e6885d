SPECIFICATION Spec
CONSTANTS
  w1 = w1
  w2 = w2
  w3 = w3
  c1 = c1
  c2 = c2
  Workers = {w1, w2, w3}
  Conns = {c1, c2}
  Tenants = {"acme", "beta"}
  Invalid = Invalid
  None = None
  Active = {"acme", "beta"}
  Present = {"acme", "beta"}
  Calls <- SomeCalls
  Pool <- TwoPools
  Unquoted <- PlainNames
INVARIANTS OwnSchema PooledIsUnlocked NilMeansMigrated
PROPERTY NobodyStarves
