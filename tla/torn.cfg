SPECIFICATION ReportSpec
CONSTANTS
  t1 = t1
  r1 = r1
  shop = shop
  NoRow = NoRow
  NoRequest = NoRequest
  Nobody = Nobody
  Thread = {t1}
  Tenant = {shop}
  Role = {"OWNER"}
  Name = {"tea"}
  ProductId = {1}
  OrderId = {1}
  MaxInt = 2
  MaxQuantity = 1
  MaxRequests = 1
  Op = {"order", "void", "pay", "archive"}
  Reason = {"RESTOCK"}
  Catalogue <- OneCup
  Reporter = {r1}
  Day = 6
  Zone <- Zones
  DefaultZone <- Repeating
  Instant <- Instants
PROPERTIES
  RelevantIsListed
