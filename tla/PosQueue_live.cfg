CHECK_DEADLOCK FALSE
CONSTANTS
  i1 = i1  s1 = s1  s2 = s2  k1 = k1  k2 = k2  h1 = h1  h2 = h2  t1 = t1  t2 = t2
  NoKey = NoKey  NoSale = NoSale  NoTab = NoTab  NoHandler = NoHandler
  Items = {i1}
  SaleIds = {s1, s2}
  Tabs = {t1}
  Keys = {k1, k2}
  Handlers = {h1}
  Carts <- OnePiece
  Opening = 2
  Deltas <- Delivery
  MaxNet = 0
  MaxPurges = 0
  NetError = "queued"
  MaxCloses = 0
  MaxOutages = 1
SPECIFICATION FairPosSpec
PROPERTY ChargeSettles
