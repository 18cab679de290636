CONSTANTS
  u1 = u1
  u2 = u2
  p1 = p1
  p2 = p2
  p3 = p3
  Users = {u1, u2}
  NoOne = NoOne
  Seller = u1
  Procs = {p1, p2, p3}
  Mixes <- MCRenewal
  Faults = {}
  MaxRow = 2
  Price = 2
  Cashback = 1
SPECIFICATION LifeSpec
INVARIANTS
  RenewedNotRefunded
CHECK_DEADLOCK FALSE
