CONSTANTS
  u1 = u1
  u2 = u2
  c1 = c1
  p = p
  q = q
  r = r
  Users = {u1, u2}
  Configs = {c1}
  Intents = {q, r}
  Buyer <- DuelBuyer
  Kind <- DuelKind
  Target <- MCTarget
  Price <- DuelPrice
  Cashback <- DuelCashback
  Override = {r}
  Funds <- MCFunds
  InitialOwner <- Sold
  Faults = {"crash", "dbError"}
  Workers = {w1}
  World = {"configOp", "use"}
  MaxMoved = 1
SPECIFICATION Spec
INVARIANTS
  SightStaysTrue
CHECK_DEADLOCK FALSE
