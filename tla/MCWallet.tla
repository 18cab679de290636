------------------------------ MODULE MCWallet ------------------------------
(***************************************************************************)
(* A small instance of Wallet: users 1 and 2, two receipts and a purchase  *)
(* of user 1, whom user 2 referred, and the calls that compete for them.   *)
(***************************************************************************)
EXTENDS Wallet, TLC

CONSTANTS ra, rb, ia

OnWallet(k, u, a) == [kind |-> k, user |-> u, amount |-> a]
OnRow(k, x) == [kind |-> k, item |-> x]
Adjust(u, o, a, ref) ==
  [kind |-> "adjust", user |-> u, operation |-> o, amount |-> a, ref |-> ref]
Transfer(f, t, a, ref) ==
  [kind |-> "transfer", from |-> f, to |-> t, amount |-> a, ref |-> ref]

MCOp ==
  ("send" :> Transfer(1, 2, 1, "x"))     @@ ("back" :> Transfer(2, 1, 2, "x"))
  @@ ("set1" :> Adjust(1, "set", 0, "y")) @@ ("set2" :> Adjust(1, "set", 0, "y"))
  @@ ("add" :> Adjust(2, "add", 1, "y"))
  @@ ("spin1" :> OnWallet("spin", 1, 1)) @@ ("spin2" :> OnWallet("spin", 1, 1))
  @@ ("submitA" :> OnRow("submit", ra))  @@ ("submitB" :> OnRow("submit", rb))
  @@ ("approve1" :> OnRow("approve", ra)) @@ ("approve2" :> OnRow("approve", ra))
  @@ ("reject" :> OnRow("reject", ra))   @@ ("reserve" :> OnRow("reserve", ia))
  @@ ("charge" :> OnRow("charge", ia))   @@ ("release" :> OnRow("release", ia))
  @@ ("bonus1" :> OnRow("bonus", ia))    @@ ("bonus2" :> OnRow("bonus", ia))

MCCalls == DOMAIN MCOp

MCOwner  == (ra :> 1) @@ (rb :> 1) @@ (ia :> 1)
MCAmount == (ra :> 1) @@ (rb :> 1) @@ (ia :> 1)
MCReferrer == ia :> 2
MCBonus    == ia :> 1
MCCashback == ia :> 1
MCFunds    == (1 :> 2) @@ (2 :> 2)
=============================================================================
