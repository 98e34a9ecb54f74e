CHECK_DEADLOCK FALSE
CONSTANTS
  i1 = i1  i2 = i2  s1 = s1  s2 = s2  s3 = s3  k1 = k1  h1 = h1  h2 = h2
  NoKey = NoKey  NoSale = NoSale
  Items = {i1, i2}
  SaleIds = {s1, s2, s3}
  Keys = {k1}
  Handlers = {h1, h2}
  Carts <- TwoItemCarts
  Opening = 1
  Deltas <- Moves
  MaxNet = 1
  MaxPurges = 1
SPECIFICATION SalesSpec
SYMMETRY SaleSymmetry
INVARIANTS StockLedger OneSalePerKey OversellIsBounded
PROPERTIES ImplementsLedger
