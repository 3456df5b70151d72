SPECIFICATION PatchingSpec
CONSTANTS
  t1 = t1
  t2 = t2
  u1 = u1
  u2 = u2
  u3 = u3
  u4 = u4
  NoRow = NoRow
  NoRequest = NoRequest
  Thread = {t1, t2}
  User = {u1, u2}
  Tenant = {1}
SYMMETRY Symmetry
PROPERTIES
  OnlyOwnersChangeRoles
