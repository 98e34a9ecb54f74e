CHECK_DEADLOCK FALSE
CONSTANTS
  b1 = b1  c1 = c1  c2 = c2
  Browsers = {b1}
  NoBrowser = NoBrowser
  Calls = {c1, c2}
  MaxTokens = 3
  MaxSteps = 2
  MaxSecrets = 1
  MaxPrints = 1
  CodesPerList = 2
SPECIFICATION SessionsSpec
SYMMETRY Symmetry
INVARIANTS SessionKept UsedCodeStaysUsed AccountIsWhole
PROPERTY RotatedIsRejected
