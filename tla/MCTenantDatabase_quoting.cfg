SPECIFICATION Spec
CONSTANTS
  w1 = w1
  w2 = w2
  w3 = w3
  c1 = c1
  c2 = c2
  Workers = {w1, w2}
  Conns = {c1, c2}
  Tenants = {"acme", "Acme", "acme-labs"}
  Invalid = Invalid
  None = None
  Active = {"acme"}
  Present = {"Acme"}
  Calls <- SomeCalls
  Pool <- TwoPools
  Unquoted <- SqlNames
INVARIANT OwnSchema
