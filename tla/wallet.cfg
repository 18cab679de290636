CONSTANTS
  ra = ra
  rb = rb
  ia = ia
  Users = {1, 2}
  Receipts = {ra, rb}
  Intents = {ia}
  Calls <- MCCalls
  Op <- MCOp
  Owner <- MCOwner
  Amount <- MCAmount
  Referrer <- MCReferrer
  Bonus <- MCBonus
  Cashback <- MCCashback
  Funds <- MCFunds
  MaxSpins = 1
  MaxCalls = 4
SPECIFICATION FairSpec
INVARIANTS
  TypeOK
  LedgerChains
  FundsCovered
  LimitsHold
  BalanceExplained
  
PROPERTIES
  CallsEnd
CHECK_DEADLOCK FALSE
