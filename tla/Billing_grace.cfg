CHECK_DEADLOCK FALSE
CONSTANTS
  t1 = t1  p1 = p1  p2 = p2  n1 = n1  i1 = i1  basic = basic
  NoPayment = NoPayment
  Tenants = {t1}
  Plans = {basic}
  Payments = {p1, p2}
  Initiators = {n1}
  Ipns = {i1}
  Sweeps = {}
  Recons = {}
  MaxCrashes = 1
SPECIFICATION FairBillSpec
PROPERTIES GraceEndsByPayment LapseIsNoticed
