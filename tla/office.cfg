CONSTANTS
  anna = anna
  bert = bert
  sweep = sweep
  shopper = shopper
  promo1 = promo1
  promo2 = promo2
  gift1 = gift1
  gift2 = gift2
  row1 = row1
  row2 = row2
  bot1 = bot1
  bot2 = bot2
  Claimants = {anna, bert}
  Sweeper = sweep
  NoClaim = NoClaim
  TrialFaults = {"panel", "late", "crash", "db", "stall"}
  Buyers = {shopper}
  Uses = {promo1, promo2, gift1, gift2}
  Gifts = {gift1, gift2}
  UserOf <- MCUserOf
  Terms <- MCTerms
  NoUse = NoUse
  Recipients = {row1, row2}
  Replicas = {bot1, bot2}
  Stray = Stray
  NoReplica = NoReplica
  BatchSize = 1
  BroadcastFaults = {"crash", "db", "doubt"}
  LosesLock = {bot1}
SPECIFICATION FairSpec
INVARIANTS
  OfficeTypeOK
  OneTrial
  BroadcastBooks
PROPERTIES
  
  TrialDecided
  PromoKept
  BroadcastEnds
CHECK_DEADLOCK FALSE
