CONSTANTS
  u1 = u1
  u2 = u2
  c1 = c1
  p = p
  q = q
  r = r
  Users = {u1}
  Configs = {c1}
  Intents = {p, q}
  Buyer <- PairBuyer
  Kind <- PairKind
  Target <- MCTarget
  Price <- PairPrice
  Cashback <- PairCashback
  Override = {}
  Funds <- PairFunds
  InitialOwner <- Unsold
  Faults = {"crash", "dbError"}
  Workers = {w1, w2}
  World = {"configOp", "use", "edit", "remove", "recreate"}
  MaxMoved = 1
SPECIFICATION Spec
INVARIANTS
  TypeOK
  PaidNotUndone
  AnswerIsTrue
PROPERTIES
  ImplementsStrict
SYMMETRY WorkerSymmetry
CHECK_DEADLOCK FALSE
