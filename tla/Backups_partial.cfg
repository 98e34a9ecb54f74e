CHECK_DEADLOCK FALSE
CONSTANTS
  Weeks = 2
  MaxByHand = 1
SPECIFICATION BackupsSpec
INVARIANT SucceededIsWhole
