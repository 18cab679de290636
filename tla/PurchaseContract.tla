-------------------------- MODULE PurchaseContract --------------------------
(***************************************************************************)
(* What a purchase promises, without processes, leases or retries: funds   *)
(* are set aside once, and the purchase is then either charged, which it   *)
(* may be only if the panel really granted it, or released.  With Strict,  *)
(* a released purchase moreover leaves the customer with nothing.          *)
(***************************************************************************)
EXTENDS Integers, FiniteSets

CONSTANTS Users, Intents, Buyer, Price, Funds, Strict

VARIABLES
  balance, reserved,   \* the wallet
  state,               \* "none", "pending", "completed" or "failed"
  granted,             \* purchases the panel has granted at some time
  holding              \* purchases whose grant the panel shows now

vars == <<balance, reserved, state, granted, holding>>

Init ==
  /\ balance = Funds
  /\ reserved = [u \in Users |-> 0]
  /\ state = [i \in Intents |-> "none"]
  /\ granted = {} /\ holding = {}

Reserve(i) ==
  LET u == Buyer[i] IN
  /\ state[i] = "none"
  /\ \A j \in Intents : Buyer[j] = u => state[j] # "pending"
  /\ balance[u] - reserved[u] >= Price[i]
  /\ state' = [state EXCEPT ![i] = "pending"]
  /\ reserved' = [reserved EXCEPT ![u] = @ + Price[i]]
  /\ UNCHANGED <<balance, granted, holding>>

Charge(i) ==
  LET u == Buyer[i] IN
  /\ state[i] = "pending" /\ i \in granted
  /\ state' = [state EXCEPT ![i] = "completed"]
  /\ balance' = [balance EXCEPT ![u] = @ - Price[i]]
  /\ reserved' = [reserved EXCEPT ![u] = @ - Price[i]]
  /\ UNCHANGED <<granted, holding>>

Release(i) ==
  LET u == Buyer[i] IN
  /\ state[i] = "pending"
  /\ Strict => i \notin holding
  /\ state' = [state EXCEPT ![i] = "failed"]
  /\ reserved' = [reserved EXCEPT ![u] = @ - Price[i]]
  /\ UNCHANGED <<balance, granted, holding>>

(* The panel grants a purchase under way, or takes grants away.            *)
Panel ==
  /\ holding' \in SUBSET Intents
  /\ granted' = granted \cup holding'
  /\ \A i \in holding' \ holding :
       state[i] # "none" /\ (Strict => state[i] = "pending")
  /\ UNCHANGED <<balance, reserved, state>>

(* Every other wallet operation leaves the reservations covered.           *)
Credit(u) ==
  /\ balance'[u] \in Int /\ balance'[u] >= reserved[u]
  /\ balance' = [balance EXCEPT ![u] = balance'[u]]
  /\ UNCHANGED <<reserved, state, granted, holding>>

Next ==
  \/ \E i \in Intents : Reserve(i) \/ Charge(i) \/ Release(i)
  \/ Panel
  \/ \E u \in Users : Credit(u)

Spec == Init /\ [][Next]_vars
=============================================================================
