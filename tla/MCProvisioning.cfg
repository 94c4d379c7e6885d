SPECIFICATION Spec
CONSTANTS
  c1 = c1
  c2 = c2
  None = None
  admin = admin
  member = member
  ann = ann
  Callers = {c1, c2}
  Tenants = {"acme"}
  Roles = {admin, member}
  DefaultRoles <- TwoRoles
  Names = {ann}
  MaxAccounts = 2
  MaxLate = 1
SYMMETRY Alike
INVARIANTS WholeTenant RetryHeals
