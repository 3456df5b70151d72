SPECIFICATION Spec
CONSTANTS
  t1 = t1
  t2 = t2
  u1 = u1
  u2 = u2
  u3 = u3
  u4 = u4
  NoRow = NoRow
  NoRequest = NoRequest
  Thread = {t1, t2}
  User = {u1, u2, u3, u4}
  Tenant = {1, 2}
SYMMETRY Symmetry
INVARIANTS
  TypeOK
  TenantKeepsOwner
PROPERTIES
  RemoversOutrank
  LeftForGood
  OwnersMakeManagers
