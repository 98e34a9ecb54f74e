CHECK_DEADLOCK FALSE
CONSTANTS
  NoOrder = NoOrder
  Orders = {o1}
  Answers = {a1, a2}
  MaxCrashes = 1
SPECIFICATION FairOrdersSpec
PROPERTY AcceptedIsBooked
