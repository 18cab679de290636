----------------------------- MODULE MCPurchase -----------------------------
(***************************************************************************)
(* Small instances of Purchase.  p buys config c1 for u1, who renews it    *)
(* with q; r is an administrator u2 renewing the config of u1.             *)
(***************************************************************************)
EXTENDS Purchase, TLC

CONSTANTS u1, u2, c1, p, q, r

MCBuyer    == (p :> u1) @@ (q :> u1) @@ (r :> u2)
MCKind     == (p :> "new") @@ (q :> "renew") @@ (r :> "renew")
MCPrice    == (p :> 1) @@ (q :> 2) @@ (r :> 1)
MCCashback == (p :> 1) @@ (q :> 0) @@ (r :> 0)
MCTarget   == [i \in Intents |-> c1]
MCFunds    == (u1 :> 2) @@ (u2 :> 1)

PairBuyer    == [i \in {p, q} |-> MCBuyer[i]]
PairKind     == [i \in {p, q} |-> MCKind[i]]
PairPrice    == [i \in {p, q} |-> MCPrice[i]]
PairCashback == [i \in {p, q} |-> MCCashback[i]]
PairFunds    == [u \in {u1} |-> MCFunds[u]]

DuelBuyer    == [i \in {q, r} |-> MCBuyer[i]]
DuelKind     == [i \in {q, r} |-> MCKind[i]]
DuelPrice    == [i \in {q, r} |-> MCPrice[i]]
DuelCashback == [i \in {q, r} |-> MCCashback[i]]

(* Workers run the same code and no property tells them apart.             *)
WorkerSymmetry == Permutations(Workers)

Unsold == [c \in Configs |-> "none"]
Sold   == [c \in Configs |-> u1]
=============================================================================
