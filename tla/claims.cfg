SPECIFICATION ContextSpec
CONSTANTS
  t1 = t1
  w1 = w1
  w2 = w2
  u1 = u1
  u2 = u2
  s1 = s1
  s2 = s2
  NoRow = NoRow
  NoRequest = NoRequest
  Garbage = Garbage
  NoTenant = NoTenant
  Thread = {t1}
  Worker = {w1}
  User = {u1, u2}
  Tenant = {s1}
  View = {"products", "members"}
SYMMETRY Symmetry
PROPERTIES
  ClaimsNameActiveTenant
