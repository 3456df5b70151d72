SPECIFICATION PatchSpec
CONSTANTS
  t1 = t1
  t2 = t2
  e1 = e1
  e2 = e2
  shop = shop
  other = other
  NoRow = NoRow
  NoRequest = NoRequest
  Nobody = Nobody
  Tenant = {shop}
  Role = {"OWNER"}
  Thread = {t1}
  Editor = {e1}
  Name = {"tea"}
  ProductId = {1}
  OrderId = {1, 2}
  MaxInt = 2
  MaxQuantity = 1
  MaxRequests = 1
  MaxPatches = 2
  Op = {"order"}
  Reason = {"RESTOCK", "SALE", "ADJUSTMENT"}
  Catalogue <- OneCup
INVARIANTS
  LedgerBalances
