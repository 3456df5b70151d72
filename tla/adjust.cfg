SPECIFICATION Spec
CONSTANTS
  t1 = t1
  t2 = t2
  shop = shop
  NoRow = NoRow
  NoRequest = NoRequest
  Nobody = Nobody
  Thread = {t1, t2}
  Tenant = {shop}
  Role = {"OWNER", "CASHIER"}
  Name = {"tea"}
  ProductId = {1}
  OrderId = {1, 2}
  MaxInt = 2
  MaxQuantity = 2
  MaxRequests = 3
  Op = {"order", "void", "pay", "adjust", "create", "archive"}
  Reason = {"RESTOCK", "SALE", "ORDER_VOID", "ADJUSTMENT", "OTHER"}
  Catalogue <- NoProduct
SYMMETRY ThreadSymmetry
INVARIANTS
  LedgerBalances
  VoidedStockReturned
PROPERTIES
  CashierOnlySells
  ImplementsLedger
