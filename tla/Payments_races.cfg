CHECK_DEADLOCK FALSE
CONSTANTS
  t1 = t1  t2 = t2  p1 = p1  p2 = p2  n1 = n1  n2 = n2
  i1 = i1  i2 = i2  s1 = s1  s2 = s2  r1 = r1  basic = basic  pro = pro
  NoPayment = NoPayment
  Tenants = {t1}
  Plans = {basic}
  Payments = {p1}
  Initiators = {n1}
  Ipns = {i1, i2}
  Sweeps = {s1}
  Recons = {r1}
  MaxCrashes = 1
SPECIFICATION FairSpec
INVARIANTS SettledIsBacked UnverifiableNeverSettles
PROPERTIES QuietRowsStayQuiet PendingResolves DisagreementIsReviewed
