SPECIFICATION PatchSpec
CONSTANTS
  t1 = t1
  t2 = t2
  e1 = e1
  e2 = e2
  shop = shop
  other = other
  NoRow = NoRow
  NoRequest = NoRequest
  Nobody = Nobody
  Tenant = {shop, other}
  Role = {"OWNER"}
  Thread = {t1, t2}
  Editor = {e1}
  Name = {"tea"}
  ProductId = {1, 2}
  OrderId = {1}
  MaxInt = 1
  MaxQuantity = 1
  MaxRequests = 2
  MaxPatches = 1
  Op = {"order", "create", "archive", "restore"}
  Reason = {"ADJUSTMENT"}
  Catalogue <- OneTea
SYMMETRY Symmetry
INVARIANTS
  MemoryIsCurrent
  OrderTenantMatches
  UniqueActiveName
