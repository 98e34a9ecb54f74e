CHECK_DEADLOCK FALSE
CONSTANTS
  a1 = a1  a2 = a2  a3 = a3  b1 = b1  b2 = b2  p1 = p1  u1 = u1  ga = ga  gb = gb  gc = gc  s1 = s1
  Qtys = {0, 1, 2, 3, 5}
  Prices = {60, 100, 130, 200}
  Stocks = {1, 4}
  Typicals = {100}
  Confidences = {500, 600, 850, 1000}
  Messages = {a1, a2, a3}
  Phones = {p1}
  Bsuids = {u1}
  Businesses = {b1, b2}
  Nobody = Nobody
  MaxLog = 2
  Shops = {s1}
  Numbers = {p1}
  Works = {a1, a2, a3}
  Nil = Nil
  Orders = {b1, b2}
  NoOrder = NoOrder
  Answers = {a1, a2, a3}
  MaxCrashes = 1
  Cap = 1
  MaxDays = 1
  Weeks = 2
  MaxByHand = 1
  Runners = {a1, a2, a3}
  Files = 2
  Requests = {a1, a2, a3}
  MaxIssued = 4
  Ops = {a1, a2, a3}
  Keys = {p1, u1}
  MaxRows = 3
  Traders = {b1, b2}
  Names = {ga, gb, gc}
  Terms = {ga}
  Seeds <- SeedPairs
  Alike <- AlikePairs
  Threshold = 2
  Lines = {p1}
  Page = 2
  MaxStock = 3
  None = None
  Lexemes = {b1, b2}
  Unfilled = Unfilled
  Keywords = {ga, gb}
  Placed <- LongestFirst
  MaxEdits = 2
  MaxRuns = 2
SPECIFICATION ServicesSpec
SYMMETRY Symmetry
INVARIANTS BookedOnce BooksBeforeNews ScoreIsFair OnlyBackedIsCommitted RecentKept StopIsKept CapNeedsRace BeatMeansBackup RunsOnceInOrder RefusedIsNotReused DirectoryAddsUp IngestedOnce
PROPERTIES FollowsSwitch LearntComesFirst ImplementsTrade
