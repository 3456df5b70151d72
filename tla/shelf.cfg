SPECIFICATION FairSpec
CONSTANTS
  t1 = t1
  t2 = t2
  shop = shop
  NoRow = NoRow
  NoRequest = NoRequest
  Nobody = Nobody
  Thread = {t1, t2}
  Tenant = {shop}
  Role = {"OWNER"}
  Name = {"tea", "cake"}
  ProductId = {1, 2}
  OrderId = {1, 2}
  MaxInt = 2
  MaxQuantity = 1
  MaxRequests = 2
  Op = {"order", "void", "pay", "archive", "restore"}
  Reason = {"RESTOCK", "SALE", "ADJUSTMENT"}
  Catalogue <- TwoProducts
INVARIANTS
  TypeOK
  MemoryIsCurrent
  NoPendingOnArchived
  NoWaitCycle
PROPERTIES
  ImplementsLedger
  StatusIsFinal
  StockCheckDecides
  EveryCallAnswered
