------------------------------- MODULE Refund -------------------------------
(***************************************************************************)
(* The refund of a sold configuration: the quote, the deletion on the      *)
(* panel and the credit of the wallet, the sweep that finishes what was    *)
(* interrupted, and the bonus transaction of the purchase, which looks at  *)
(* the refund as the refund looks at the cashback.                         *)
(***************************************************************************)
EXTENDS ConfigState, Sequences

CONSTANTS
  Price,      \* what the seller paid for the configuration
  Cashback    \* and the cashback promised for it

ASSUME RefundAssumption == Price \in Nat /\ Cashback \in 0..Price

VARIABLES
  sale,    \* the purchase: refunded or not, bonuses processed, row locked by
  cashed,  \* the cashback is in the ledger
  refund,  \* the refund intent and its lease
  repaid,  \* refund transactions in the ledger, as a sequence of amounts
  quote,   \* what each refund has quoted
  stalled, \* somebody at work on the refund slept through its lease
  erased   \* refunds whose own call removed the panel user

refundVars == <<sale, cashed, refund, repaid, quote, erased, stalled>>

RefundInit ==
  /\ sale = [status |-> "completed", bonus |-> FALSE, lock |-> "free"]
  /\ cashed = FALSE
  /\ refund = [status |-> "none", amount |-> 0, leased |-> FALSE]
  /\ repaid = <<>>
  /\ quote = [p \in Procs |-> 0]
  /\ erased = {}
  /\ stalled = FALSE

RefundTypeOK ==
  /\ sale \in [status : {"completed", "refunded"}, bonus : BOOLEAN, lock : Procs \cup {"free"}]
  /\ cashed \in BOOLEAN
  /\ refund \in [status : {"none", "pending", "reconciliation_required", "completed", "failed"},
                 amount : 0..Price, leased : BOOLEAN]
  /\ repaid \in Seq(0..Price)
  /\ quote \in [Procs -> 0..Price]
  /\ erased \subseteq Procs
  /\ stalled \in BOOLEAN

Active == refund.status \in {"pending", "reconciliation_required"}

Refused(p) == Ends(p, "refused")
KeepsConfig == UNCHANGED <<panel, row, born, op, seen, renewed>>
KeepsSale == UNCHANGED <<sale, cashed, repaid, stalled>>

-----------------------------------------------------------------------------
(* The quote, before the lock: first the panel and the purchases ...       *)
Judge(p) ==
  /\ pc[p] = "judge"
  /\ \/ /\ ~Gone /\ ~panel.used /\ Ours(seen[p].row)
        /\ sale.status = "completed" /\ op[p].by = Seller
        /\ renewed = {}
        /\ Goes(p, "price")
     \/ /\ \/ Faulty \/ Gone \/ panel.used \/ ~Ours(seen[p].row)
           \/ sale.status # "completed" \/ op[p].by # Seller
           \/ renewed # {}
        /\ Refused(p)
  /\ KeepsConfig /\ UNCHANGED refundVars

(* Mutant: the subtraction is the wrong way round.                         *)
QuoteSwapped(p) ==
  /\ pc[p] = "price"
  /\ IF refund.status \in {"none", "failed"}
       THEN /\ quote' = [quote EXCEPT ![p] = (IF cashed THEN Cashback ELSE 0) - Price]
            /\ Goes(p, "lock")
       ELSE UNCHANGED quote /\ Refused(p)
  /\ KeepsConfig /\ KeepsSale /\ UNCHANGED <<refund, erased>>

(* ... then an earlier refund and the cashback.                            *)
Quote(p) ==
  /\ pc[p] = "price"
  /\ IF refund.status \in {"none", "failed"}
       THEN /\ quote' = [quote EXCEPT ![p] = Price - (IF cashed THEN Cashback ELSE 0)]
            /\ Goes(p, "lock")
       ELSE UNCHANGED quote /\ Refused(p)
  /\ KeepsConfig /\ KeepsSale /\ UNCHANGED <<refund, erased>>

(* Mutant: an intent that is re-armed keeps its earlier amount.            *)
AcquireOldAmount(p) ==
  /\ pc[p] = "acquire"
  /\ IF refund.status \in {"none", "failed"}
       THEN /\ refund' = [status |-> "pending", leased |-> TRUE, amount |->
                            IF refund.status = "none" THEN quote[p] ELSE refund.amount]
            /\ Goes(p, "arm")
       ELSE UNCHANGED refund /\ Refused(p)
  /\ KeepsConfig /\ KeepsSale /\ UNCHANGED <<quote, erased>>

(* Insert, or re-arm an intent that has failed.                            *)
Acquire(p) ==
  /\ pc[p] = "acquire"
  /\ IF refund.status \in {"none", "failed"}
       THEN /\ refund' = [status |-> "pending", amount |-> quote[p], leased |-> TRUE]
            /\ Goes(p, "arm")
       ELSE UNCHANGED refund /\ Refused(p)
  /\ KeepsConfig /\ KeepsSale /\ UNCHANGED <<quote, erased>>

-----------------------------------------------------------------------------
FailIntent ==
  refund' = IF Active THEN [refund EXCEPT !.status = "failed", !.leased = FALSE] ELSE refund

(* refreshLease, before each remote call of the refund.                    *)
RefreshLease(p) ==
  /\ pc[p] \in {"arm", "armDelete"}
  /\ IF refund.status = "pending"
       THEN /\ refund' = [refund EXCEPT !.leased = TRUE]
            /\ Goes(p, IF pc[p] = "arm" THEN "verify" ELSE "erase")
       ELSE FailIntent /\ Refused(p)
  /\ KeepsConfig /\ KeepsSale /\ UNCHANGED <<quote, erased>>

Verify(p) ==
  /\ pc[p] = "verify"
  /\ \/ /\ Gone
        /\ Goes(p, "settle") /\ UNCHANGED refund
     \/ /\ ~Gone /\ ~panel.used /\ SameRow(p) /\ Ours(row)
        /\ Goes(p, "armDelete") /\ UNCHANGED refund
     \/ /\ Faulty \/ panel.used \/ ~SameRow(p) \/ ~Ours(row)
        /\ FailIntent /\ Refused(p)
  /\ KeepsConfig /\ KeepsSale /\ UNCHANGED <<quote, erased>>

(* deleteUser: a refusal fails the refund, an unknown outcome marks it.    *)
Erase(p) ==
  /\ pc[p] = "erase"
  /\ \/ /\ panel' = [panel EXCEPT !.state = "gone"]
        /\ erased' = IF Gone THEN erased ELSE erased \cup {p}
        /\ Goes(p, "settle") /\ UNCHANGED refund
     \/ /\ Faulty /\ Goes(p, "mark")
        /\ \/ UNCHANGED <<panel, erased>>
           \/ ~Gone /\ panel' = [panel EXCEPT !.state = "gone"] /\ erased' = erased \cup {p}
        /\ UNCHANGED refund
     \/ /\ Faulty
        /\ FailIntent /\ Refused(p)
        /\ UNCHANGED <<panel, erased>>
  /\ UNCHANGED <<row, born, op, seen, renewed, quote>> /\ KeepsSale

(* completeRefundIntent, when it commits: it waits for the lock on the     *)
(* purchase, and the reference of its ledger entry is unique.              *)
CompleteRefund ==
  /\ Active /\ sale.lock = "free" /\ repaid = <<>>
  /\ refund' = [refund EXCEPT !.status = "completed", !.leased = FALSE]
  /\ sale' = [sale EXCEPT !.status = "refunded", !.bonus = TRUE]
  /\ repaid' = Append(repaid, refund.amount)
  /\ row' = NoRow
  /\ UNCHANGED <<cashed, stalled>>

Settle(p) ==
  /\ pc[p] = "settle"
  /\ \/ /\ CompleteRefund
        /\ Ends(p, "done") \/ ("db" \in Faults /\ Goes(p, "mark"))
     \/ /\ refund.status = "completed"
        /\ Ends(p, "done")
        /\ KeepsSale /\ UNCHANGED <<refund, row>>
     \/ /\ refund.status = "failed" \/ "db" \in Faults \/ (Active /\ repaid # <<>>)
        /\ Goes(p, "mark")
        /\ KeepsSale /\ UNCHANGED <<refund, row>>
  /\ UNCHANGED <<panel, born, op, seen, renewed, quote, erased>>

(* Mutant: an unknown outcome fails the refund.                            *)
MarkFailed(p) ==
  /\ pc[p] = "mark"
  /\ FailIntent
  /\ Ends(p, "pending")
  /\ KeepsConfig /\ KeepsSale /\ UNCHANGED <<quote, erased>>

(* markForReconciliation looks at no status.                               *)
Mark(p) ==
  /\ pc[p] = "mark"
  /\ \/ refund' = [refund EXCEPT !.status = "reconciliation_required", !.leased = FALSE]
     \/ "db" \in Faults /\ UNCHANGED refund
  /\ Ends(p, "pending")
  /\ KeepsConfig /\ KeepsSale /\ UNCHANGED <<quote, erased>>

-----------------------------------------------------------------------------
(* reconcilePendingRefunds: it takes no config lock.                       *)
ClaimRefund(p) ==
  /\ pc[p] = "claim"
  /\ Active /\ ~refund.leased
  /\ refund' = [refund EXCEPT !.leased = TRUE]
  /\ Goes(p, "peek")
  /\ KeepsConfig /\ KeepsSale /\ UNCHANGED <<quote, erased>>

(* Mutant: a panel that does not answer counts as a user that is gone.     *)
PeekHasty(p) ==
  /\ pc[p] = "peek"
  /\ \/ Goes(p, IF Gone THEN "finish" ELSE "abandon")
     \/ Faulty /\ Goes(p, "finish")
  /\ KeepsConfig /\ UNCHANGED refundVars

Peek(p) ==
  /\ pc[p] = "peek"
  /\ \/ Goes(p, IF Gone THEN "finish" ELSE "abandon")
     \/ Faulty /\ Goes(p, "claim")
  /\ KeepsConfig /\ UNCHANGED refundVars

Abandon(p) ==
  /\ pc[p] = "abandon"
  /\ FailIntent /\ Goes(p, "claim")
  /\ KeepsConfig /\ KeepsSale /\ UNCHANGED <<quote, erased>>

Finish(p) ==
  /\ pc[p] = "finish"
  /\ \/ CompleteRefund
     \/ /\ ~Active \/ repaid # <<>>
        /\ KeepsSale /\ UNCHANGED <<refund, row>>
  /\ Goes(p, "claim")
  /\ UNCHANGED <<panel, born, op, seen, renewed, quote, erased>>

(* Twelve minutes pass; without stalls nobody works on the refund then.    *)
AtWork(p) == pc[p] \in {"arm", "verify", "armDelete", "erase", "settle", "mark",
                        "peek", "finish", "abandon"}
LeaseExpires ==
  /\ refund.leased
  /\ "stall" \in Faults \/ \A p \in Procs : ~AtWork(p)
  /\ refund' = [refund EXCEPT !.leased = FALSE]
  /\ stalled' = (stalled \/ \E p \in Procs : AtWork(p))
  /\ UNCHANGED <<lock, pc, sale, cashed, repaid, quote, erased>> /\ KeepsConfig

-----------------------------------------------------------------------------
(* processCompletedPurchase: it locks the purchase, then looks for a       *)
(* refund, which does not lock the purchase to begin with.                 *)
Award(p) ==
  /\ pc[p] = "award" /\ sale.lock = "free"
  /\ \/ /\ sale.status = "completed" /\ refund.status \in {"none", "failed"}
        /\ sale' = [sale EXCEPT !.lock = p] /\ Goes(p, "pay")
     \/ /\ sale.status = "completed" /\ refund.status \notin {"none", "failed"}
        /\ sale' = [sale EXCEPT !.bonus = TRUE] /\ Ends(p, "done")
     \/ /\ sale.status # "completed"
        /\ Ends(p, "done") /\ UNCHANGED sale
  /\ KeepsConfig /\ UNCHANGED <<cashed, repaid, refund, quote, erased, stalled>>

Pay(p) ==
  /\ pc[p] = "pay"
  /\ sale' = [sale EXCEPT !.lock = "free", !.bonus = TRUE]
  /\ cashed' = (Cashback > 0)
  /\ Ends(p, "done")
  /\ KeepsConfig /\ UNCHANGED <<repaid, refund, quote, erased, stalled>>

RefundStep(p) ==
  \/ Judge(p) \/ Quote(p) \/ Acquire(p) \/ RefreshLease(p) \/ Verify(p)
  \/ Erase(p) \/ Settle(p) \/ Mark(p)
  \/ ClaimRefund(p) \/ Peek(p) \/ Abandon(p) \/ Finish(p)
  \/ Award(p) \/ Pay(p)
=============================================================================
