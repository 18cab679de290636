CONSTANTS
  buyer = buyer
  order = order
  tap1 = tap1
  tap2 = tap2
  tap3 = tap3
  Checkouts = {order}
  Buyers = {buyer}
  Buyer <- MCBuyer
  Taps = {tap1, tap2, tap3}
  Of <- MCOf
  Entitled = {tap1, tap2, tap3}
  Seller = seller
  Heir = heir
  NoOwner = NoOwner
  Scanners = {cron, web}
  Cron = cron
  Admins = {staff}
  MaxMade = 2
  MaxBound = 2
  MaxMoves = 3
  ScanFaults = {"panel", "pages"}
SPECIFICATION DeskSpec
INVARIANTS
  DeskTypeOK
  RowTellsPurchase
PROPERTIES
  OutcomeIsFinal
  NoneStuck
  RemovalJustified
  DriftSettles
CHECK_DEADLOCK FALSE
