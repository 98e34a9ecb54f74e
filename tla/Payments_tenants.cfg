CHECK_DEADLOCK FALSE
CONSTANTS
  t1 = t1  t2 = t2  p1 = p1  p2 = p2  n1 = n1  n2 = n2
  i1 = i1  i2 = i2  s1 = s1  s2 = s2  r1 = r1  basic = basic  pro = pro
  NoPayment = NoPayment
  Tenants = {t1, t2}
  Plans = {basic, pro}
  Payments = {p1, p2}
  Initiators = {n1, n2}
  Ipns = {}
  Sweeps = {s1}
  Recons = {}
  MaxCrashes = 0
SPECIFICATION Spec
SYMMETRY Symmetry
INVARIANTS PlanIsPaidFor
PROPERTY ImplementsEntitlement
