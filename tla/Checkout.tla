------------------------------ MODULE Checkout ------------------------------
(***************************************************************************)
(* Confirmed checkouts: PurchaseCheckoutService and the handlers that use  *)
(* it.  A tap on a confirmation claims its checkout, runs the purchase saga*)
(* and records the outcome.  A checkout left `processing` for five minutes *)
(* is judged by its purchase intent, by the next tap or by the recovery    *)
(* sweep, and opened again if there is none.                               *)
(***************************************************************************)
EXTENDS FiniteSets

CONSTANTS
  Checkouts,  \* rows of purchase_checkouts
  Buyers,     \* telegram ids
  Buyer,      \* Checkouts -> Buyers
  Taps,       \* confirmations, each one call of a handler
  Of,         \* Taps -> Checkouts
  Entitled    \* taps of the buyer, or of an administrator with override

ASSUME CheckoutAssumption ==
  /\ Buyer \in [Checkouts -> Buyers]
  /\ Of \in [Taps -> Checkouts]
  /\ Entitled \subseteq Taps
  /\ Taps \cap {"free", "sweep"} = {}

VARIABLES
  status,    \* purchase_checkouts.status
  stale,     \* is claimed_at five minutes old?
  valid,     \* is expires_at in the future?
  locker,    \* whose recovery transaction has the row locked
  verdict,   \* the status a recovery transaction is about to write
  purchase,  \* the purchase intent a tap's saga inserted: its status
  pc,        \* where a tap stands
  slept      \* history: taps that slept with a claim, and without an intent

row  == <<status, stale, valid>>
lock == <<locker, verdict>>
vars == <<row, lock, purchase, pc, slept>>

Statuses == {"pending", "processing", "completed", "failed", "expired"}
Outcomes == {"none", "pending", "completed", "failed"}
Ended    == {"refused", "success", "failure", "unknown", "dead"}
Steps    == Ended \cup {"idle", "look", "recover", "relook", "again", "expire",
                        "claimed", "bought", "completing", "failing", "unsure"}

TypeOK ==
  /\ status \in [Checkouts -> Statuses]
  /\ stale \in [Checkouts -> BOOLEAN] /\ valid \in [Checkouts -> BOOLEAN]
  /\ locker \in [Checkouts -> Taps \cup {"free", "sweep"}]
  /\ verdict \in [Checkouts -> Statuses \cup {"none"}]
  /\ purchase \in [Taps -> Outcomes]
  /\ pc \in [Taps -> Steps]
  /\ slept \subseteq Taps

(* PurchaseCheckoutService.create.                                         *)
Init ==
  /\ status = [c \in Checkouts |-> "pending"]
  /\ stale = [c \in Checkouts |-> FALSE]
  /\ valid = [c \in Checkouts |-> TRUE]
  /\ locker = [c \in Checkouts |-> "free"]
  /\ verdict = [c \in Checkouts |-> "none"]
  /\ purchase = [t \in Taps |-> "none"]
  /\ pc = [t \in Taps |-> "idle"]
  /\ slept = {}

TapsOf(c) == {t \in Taps : Of[t] = c}
Goto(t, step) == pc' = [pc EXCEPT ![t] = step]

-----------------------------------------------------------------------------
(* PurchaseCheckoutService.claim.                                          *)

Claimable(t) == t \in Entitled /\ status[Of[t]] = "pending" /\ valid[Of[t]]

(* claimPending: one conditional UPDATE.                                   *)
Claim(t) ==
  /\ pc[t] \in {"idle", "again"}
  /\ Claimable(t)
  /\ status' = [status EXCEPT ![Of[t]] = "processing"]
  /\ stale' = [stale EXCEPT ![Of[t]] = FALSE]
  /\ Goto(t, "claimed")
  /\ UNCHANGED <<valid, lock, purchase, slept>>

ClaimMisses(t) ==
  /\ ~Claimable(t)
  /\ \/ pc[t] = "idle" /\ Goto(t, "look")
     \/ pc[t] = "again" /\ Goto(t, IF valid[Of[t]] THEN "refused" ELSE "expire")
  /\ UNCHANGED <<row, lock, purchase, slept>>

(* The row as it is now.  The clock was read before it, so a limit that has*)
(* passed meanwhile may not count yet: then the checkout is "consumed".    *)
Look(t) ==
  LET c == Of[t] IN
  /\ pc[t] = "look"
  /\ \/ t \in Entitled /\ status[c] = "processing" /\ stale[c] /\ Goto(t, "recover")
     \/ t \in Entitled /\ status[c] = "pending" /\ ~valid[c] /\ Goto(t, "expire")
     \/ Goto(t, "refused")
  /\ UNCHANGED <<row, lock, purchase, slept>>

Relook(t) ==
  /\ pc[t] = "relook"
  /\ Goto(t, IF status[Of[t]] = "pending" THEN "again" ELSE "refused")
  /\ UNCHANGED <<row, lock, purchase, slept>>

Expire(t) ==
  LET c == Of[t] IN
  /\ pc[t] = "expire"
  /\ status' = [status EXCEPT ![c] = IF @ = "pending" /\ ~valid[c] THEN "expired" ELSE @]
  /\ Goto(t, "refused")
  /\ UNCHANGED <<stale, valid, lock, purchase, slept>>

-----------------------------------------------------------------------------
(* reconcileProcessingCheckout, a transaction of a tap or of the sweep.    *)

Bought(c, how) == \E t \in TapsOf(c) : purchase[t] = how

(* Mutant: whatever the intent says, the purchase is taken for done.       *)
VerdictHasty(c) ==
  IF \E t \in TapsOf(c) : purchase[t] # "none" THEN "completed"
  ELSE IF valid[c] THEN "pending" ELSE "expired"

(* Mutant: a failed purchase is left alone, as an undecided one is.        *)
VerdictShy(c) ==
  CASE Bought(c, "completed") -> "completed"
    [] Bought(c, "failed") \/ Bought(c, "pending") -> "none"
    [] OTHER -> IF valid[c] THEN "pending" ELSE "expired"

(* What the intent proves; while it is undecided, nothing.                 *)
Verdict(c) ==
  CASE Bought(c, "completed") -> "completed"
    [] Bought(c, "failed") -> "failed"
    [] Bought(c, "pending") -> "none"
    [] OTHER -> IF valid[c] THEN "pending" ELSE "expired"

Recovering(a, c) == a \in Taps => pc[a] = "recover" /\ Of[a] = c

(* After the transaction the sweep goes on, and a tap looks again.         *)
Returns(a) == IF a = "sweep" THEN UNCHANGED pc ELSE Goto(a, "relook")

(* The checkout is locked, judged to be stuck, and its intent is read.     *)
RecoverRead(a, c) ==
  /\ Recovering(a, c)
  /\ locker[c] = "free"
  /\ status[c] = "processing" /\ stale[c] /\ Verdict(c) # "none"
  /\ locker' = [locker EXCEPT ![c] = a]
  /\ verdict' = [verdict EXCEPT ![c] = Verdict(c)]
  /\ UNCHANGED <<row, purchase, pc, slept>>

(* Somebody else has settled it, or its purchase is undecided.             *)
RecoverNothing(t) ==
  LET c == Of[t] IN
  /\ pc[t] = "recover" /\ locker[c] = "free"
  /\ status[c] # "processing" \/ ~stale[c] \/ Verdict(c) = "none"
  /\ Goto(t, "relook")
  /\ UNCHANGED <<row, lock, purchase, slept>>

Unlock(c) ==
  /\ locker' = [locker EXCEPT ![c] = "free"]
  /\ verdict' = [verdict EXCEPT ![c] = "none"]

RecoverWrite(a, c) ==
  /\ locker[c] = a
  /\ status' = [status EXCEPT ![c] = verdict[c]]
  /\ Unlock(c)
  /\ Returns(a)
  /\ UNCHANGED <<stale, valid, purchase, slept>>

(* The sweep's transaction is rolled back.                                 *)
SweepAborts(c) ==
  /\ locker[c] = "sweep"
  /\ Unlock(c)
  /\ UNCHANGED <<row, purchase, pc, slept>>

-----------------------------------------------------------------------------
(* The handler, after its claim.                                           *)

(* The balance, the config or the feature switch forbids the purchase, or  *)
(* the saga refuses it before it reserves.                                 *)
GiveUp(t) ==
  /\ pc[t] = "claimed"
  /\ Goto(t, "failing")
  /\ UNCHANGED <<row, lock, purchase, slept>>

NoPending(u) == \A t \in Taps : Buyer[Of[t]] = u => purchase[t] # "pending"

(* The saga's reservation; its intent names the checkout.  The unique      *)
(* indexes turn any other tap into PURCHASE_IN_PROGRESS (GiveUp).          *)
Reserve(t) ==
  /\ pc[t] = "claimed"
  /\ NoPending(Buyer[Of[t]])
  /\ \A s \in TapsOf(Of[t]) : purchase[s] = "none"
  /\ purchase' = [purchase EXCEPT ![t] = "pending"]
  /\ Goto(t, "bought")
  /\ UNCHANGED <<row, lock, slept>>

(* The saga ends.  It may have settled its intent itself, a worker may have*)
(* done so before, or the outcome stays pending.                           *)
SagaReturns(t) ==
  /\ pc[t] = "bought"
  /\ purchase[t] \in {"pending", "completed"}
  /\ purchase' = [purchase EXCEPT ![t] = "completed"]
  /\ Goto(t, "completing")
  /\ UNCHANGED <<row, lock, slept>>

SagaThrows(t) ==
  /\ pc[t] = "bought"
  /\ \/ /\ purchase[t] \in {"pending", "failed"}
        /\ purchase' = [purchase EXCEPT ![t] = "failed"]
        /\ Goto(t, "failing")
     \/ /\ purchase[t] \in {"pending", "completed"}
        /\ UNCHANGED purchase
        /\ Goto(t, "unsure")
  /\ UNCHANGED <<row, lock, slept>>

(* recordCheckoutCompleted: a failed write is only logged.                 *)
Complete(t) ==
  LET c == Of[t] IN
  /\ pc[t] = "completing"
  /\ \/ /\ locker[c] = "free" /\ status[c] = "processing"
        /\ status' = [status EXCEPT ![c] = "completed"]
     \/ UNCHANGED status
  /\ Goto(t, "success")
  /\ UNCHANGED <<stale, valid, lock, purchase, slept>>

AfterFail(t) == IF pc[t] = "unsure" THEN "unknown" ELSE "failure"

(* Mutant: a status the database has no name for.                          *)
FailCancelled(t) ==
  /\ pc[t] \in {"failing", "unsure"}
  /\ status' = [status EXCEPT ![Of[t]] = IF @ = "processing" THEN "cancelled" ELSE @]
  /\ Goto(t, AfterFail(t))
  /\ UNCHANGED <<stale, valid, lock, purchase, slept>>

(* Mutant: the UPDATE does not look at the status.                         *)
FailAlways(t) ==
  /\ pc[t] \in {"failing", "unsure"}
  /\ status' = [status EXCEPT ![Of[t]] = "failed"]
  /\ Goto(t, AfterFail(t))
  /\ UNCHANGED <<stale, valid, lock, purchase, slept>>

(* recordCheckoutFailed, after every error of the saga.                    *)
Fail(t) ==
  LET c == Of[t] IN
  /\ pc[t] \in {"failing", "unsure"}
  /\ \/ /\ locker[c] = "free" /\ status[c] = "processing"
        /\ status' = [status EXCEPT ![c] = "failed"]
     \/ UNCHANGED status
  /\ Goto(t, AfterFail(t))
  /\ UNCHANGED <<stale, valid, lock, purchase, slept>>

(* The process dies, or an exception leaves the handler.                   *)
Crash(t) ==
  /\ pc[t] \notin Ended \cup {"idle"}
  /\ Goto(t, "dead")
  /\ IF locker[Of[t]] = t THEN Unlock(Of[t]) ELSE UNCHANGED lock
  /\ UNCHANGED <<row, purchase, slept>>

-----------------------------------------------------------------------------
(* Time, and the reconciliation of purchases.                              *)

FiveMinutes(c) ==
  /\ status[c] = "processing" /\ ~stale[c]
  /\ stale' = [stale EXCEPT ![c] = TRUE]
  /\ slept' = slept \cup
       {t \in TapsOf(c) : pc[t] = "claimed" \/ (pc[t] = "failing" /\ purchase[t] = "none")}
  /\ UNCHANGED <<status, valid, lock, purchase, pc>>

Lapse(c) ==
  /\ valid[c]
  /\ valid' = [valid EXCEPT ![c] = FALSE]
  /\ UNCHANGED <<status, stale, lock, purchase, pc, slept>>

(* The purchase reconciler proves an outcome (see Purchase).               *)
Settle(t) ==
  /\ purchase[t] = "pending"
  /\ \E how \in {"completed", "failed"} : purchase' = [purchase EXCEPT ![t] = how]
  /\ UNCHANGED <<row, lock, pc, slept>>

Recover(a, c) == RecoverRead(a, c) \/ RecoverWrite(a, c)

Tap(t) ==
  \/ Claim(t) \/ ClaimMisses(t) \/ Look(t) \/ Relook(t) \/ Expire(t)
  \/ Recover(t, Of[t]) \/ RecoverNothing(t)
  \/ GiveUp(t) \/ Reserve(t) \/ SagaReturns(t) \/ SagaThrows(t)
  \/ Complete(t) \/ Fail(t)

Next ==
  \/ \E t \in Taps : Tap(t) \/ Crash(t) \/ Settle(t)
  \/ \E c \in Checkouts :
       Recover("sweep", c) \/ SweepAborts(c) \/ FiveMinutes(c) \/ Lapse(c)

Spec == Init /\ [][Next]_vars

(* Handlers run, time passes, undecided purchases are settled, and the cron*)
(* sweeps again and again, although any one of its transactions may fail.  *)
Fairness ==
  /\ \A t \in Taps : WF_vars(pc[t] # "idle" /\ Tap(t)) /\ WF_vars(Settle(t))
  /\ \A c \in Checkouts :
       /\ WF_vars(FiveMinutes(c))
       /\ SF_vars(RecoverRead("sweep", c)) /\ SF_vars(RecoverWrite("sweep", c))

FairSpec == Spec /\ Fairness

-----------------------------------------------------------------------------
(* Properties.                                                             *)

(* A checkout buys once: two taps, a tap that slept while its checkout was *)
(* opened again, and every recovery together insert one purchase intent.   *)
OnePurchase ==
  \A s, t \in Taps :
    Of[s] = Of[t] /\ purchase[s] # "none" /\ purchase[t] # "none" => s = t

(* A checkout recorded as completed was paid, whoever recorded it.         *)
CompletedIsPaid == \A c \in Checkouts : status[c] = "completed" => Bought(c, "completed")

(* A checkout recorded as failed was not paid, unless its own tap failed   *)
(* with the outcome still open, or a tap of it had slept: the handlers call*)
(* `fail` for every error, PurchaseOutcomePendingError included.           *)
FailedIsUnpaid ==
  \A t \in Taps :
    status[Of[t]] = "failed" /\ purchase[t] = "completed"
      => pc[t] = "unknown" \/ slept \cap TapsOf(Of[t]) # {}

(* "A checkout is never blindly re-opened: its durable purchase_intent is  *)
(* authoritative": once a tap that did not sleep has reserved, its         *)
(* checkout is neither offered again nor expired.                          *)
NotReopened ==
  \A t \in Taps :
    purchase[t] # "none" /\ t \notin slept => status[Of[t]] \notin {"pending", "expired"}

(* The three together: what a row of purchase_checkouts says of a purchase *)
(* is true.                                                                *)
RowTellsPurchase == CompletedIsPaid /\ FailedIsUnpaid /\ NotReopened

(* The recorded outcome of a checkout is final, however late a handler or a*)
(* recovery comes to record its own.                                       *)
OutcomeIsFinal ==
  [][\A c \in Checkouts :
       status[c] \in {"completed", "failed", "expired"} => status'[c] = status[c]]_vars

(* No crash leaves a checkout claimed for ever: it is settled with its     *)
(* purchase, or offered again.                                             *)
NoneStuck == \A c \in Checkouts : status[c] = "processing" ~> status[c] # "processing"
=============================================================================
