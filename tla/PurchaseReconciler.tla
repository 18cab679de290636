------------------------- MODULE PurchaseReconciler -------------------------
(***************************************************************************)
(* The recovery half of a purchase, reconcilePendingIntents: select stuck  *)
(* intents, claim one by its lease, look its user up on the panel, and     *)
(* complete it, release it, or keep it for review.  The row is the one the *)
(* sweep selected, which later writes may have overtaken.                  *)
(***************************************************************************)
EXTENDS PurchaseStore

CONSTANT Workers   \* processes running the reconciliation cron

VARIABLES
  at,       \* where a worker stands
  job,      \* the intent it works on
  rowPrev,  \* the row it selected: the renewal snapshot ...
  rowMsg,   \* ... and the error message
  remote,   \* what the panel lookup showed: quota/expiry and status ...
  remoteBy  \* ... and the note

workerVars == <<at, job, rowPrev, rowMsg, remote, remoteBy>>

WorkerTypeOK ==
  /\ at \in [Workers -> {"idle", "claim", "lookup", "settle", "bonus"}]
  /\ job \in [Workers -> Intents \cup {"none"}]
  /\ rowPrev \in [Workers -> Sight]
  /\ rowMsg \in [Workers -> {"none", "partial", "other"}]
  /\ remote \in [Workers -> Sight]
  /\ remoteBy \in [Workers -> Makers]

WorkerInit ==
  /\ at = [w \in Workers |-> "idle"]
  /\ job = [w \in Workers |-> "none"]
  /\ rowPrev = [w \in Workers |-> NoSight]
  /\ rowMsg = [w \in Workers |-> "none"]
  /\ remote = [w \in Workers |-> NoSight]
  /\ remoteBy = [w \in Workers |-> "nobody"]

Rest(w) ==
  /\ at' = [at EXCEPT ![w] = "idle"]
  /\ job' = [job EXCEPT ![w] = "none"]
  /\ rowPrev' = [rowPrev EXCEPT ![w] = NoSight]
  /\ rowMsg' = [rowMsg EXCEPT ![w] = "none"]
  /\ remote' = [remote EXCEPT ![w] = NoSight]
  /\ remoteBy' = [remoteBy EXCEPT ![w] = "nobody"]

Stand(w, place) ==
  /\ at' = [at EXCEPT ![w] = place]
  /\ UNCHANGED <<job, rowPrev, rowMsg, remote, remoteBy>>

(* Does the panel's user show what renewal i asked for?                    *)
RenewalOutcome(i, p, m, user) ==
  IF user.plan = "absent" THEN "not_applied"
  ELSE IF p = NoSight THEN "ambiguous"
  ELSE IF user.plan = i THEN "applied"
  ELSE IF user = p /\ m # "partial" THEN "not_applied"
  ELSE "ambiguous"

(* Mutant: an absent new config is left for review.                        *)
VerdictTimid(i, p, m, user, by) ==
  IF Kind[i] = "renew" THEN RenewalOutcome(i, p, m, user)
  ELSE IF user.plan # "absent" /\ by = i THEN "applied"
  ELSE "ambiguous"

Verdict(i, p, m, user, by) ==
  IF Kind[i] = "renew" THEN RenewalOutcome(i, p, m, user)
  ELSE IF user.plan = "absent" THEN "not_applied"
  ELSE IF by = i THEN "applied"
  ELSE "ambiguous"

-----------------------------------------------------------------------------
Select(w, i) ==
  /\ at[w] = "idle"
  /\ status[i] = "pending" /\ ~lease[i]
  /\ at' = [at EXCEPT ![w] = "claim"]
  /\ job' = [job EXCEPT ![w] = i]
  /\ rowPrev' = [rowPrev EXCEPT ![w] = prev[i]]
  /\ rowMsg' = [rowMsg EXCEPT ![w] = msg[i]]
  /\ UNCHANGED <<remote, remoteBy, storeVars>>

(* A lease written after the sweep began is past its cut-off even when it  *)
(* has run out since; its writer usually left another message.             *)
Claim(w) ==
  LET i == job[w] IN
  /\ at[w] = "claim"
  /\ IF status[i] = "pending" /\ ~lease[i] /\ rowMsg[w] = msg[i]
       THEN /\ lease' = [lease EXCEPT ![i] = TRUE]
            /\ Stand(w, "lookup")
       ELSE /\ Rest(w)
            /\ UNCHANGED lease
  /\ UNCHANGED <<wallet, status, prev, msg, bonusAt, local, lock, panel, history>>

Lookup(w) ==
  /\ at[w] = "lookup"
  /\ remote' = [remote EXCEPT ![w] = See(Target[job[w]])]
  /\ remoteBy' = [remoteBy EXCEPT ![w] = maker[Target[job[w]]]]
  /\ at' = [at EXCEPT ![w] = "settle"]
  /\ UNCHANGED <<job, rowPrev, rowMsg, storeVars>>

(* The panel is down or answers with something that proves nothing.        *)
LookupUnknown(w) ==
  LET i == job[w] IN
  /\ at[w] = "lookup"
  /\ lease' = [lease EXCEPT ![i] = FALSE]
  /\ Rest(w)
  /\ UNCHANGED <<wallet, status, prev, msg, bonusAt, local, lock, panel, history>>

WorkerVerdict(w) == Verdict(job[w], rowPrev[w], rowMsg[w], remote[w], remoteBy[w])

(* completePendingIntent; a binding held by another user aborts it.        *)
Complete(w) ==
  LET i == job[w] IN
  /\ at[w] = "settle" /\ WorkerVerdict(w) = "applied"
  /\ \/ /\ SettleCompleted(i)
        /\ Kind[i] = "new" => BindingFree(i)
        /\ IF Kind[i] = "new" THEN BindNew(i, remoteBy[w]) ELSE UNCHANGED local
        /\ Stand(w, "bonus")
        /\ UNCHANGED <<lock, panel, history>>
     \/ /\ \/ status[i] # "pending" \/ ~Covered(i)
           \/ Kind[i] = "new" /\ ~BindingFree(i)
        /\ Rest(w)
        /\ UNCHANGED storeVars

(* failAndReleaseIntent.                                                   *)
Fail(w) ==
  LET i == job[w] IN
  /\ at[w] = "settle" /\ WorkerVerdict(w) = "not_applied"
  /\ \/ ReleaseTx(i) /\ UNCHANGED lock
     \/ status[i] # "pending" /\ UNCHANGED storeVars
  /\ Rest(w)

(* keepIntentPending: the verdict replaces whatever the row said before.   *)
Defer(w) ==
  /\ at[w] = "settle" /\ WorkerVerdict(w) = "ambiguous"
  /\ KeepPendingTx(job[w], "other")
  /\ Rest(w)
  /\ UNCHANGED lock

SettleBonus(w) ==
  /\ at[w] = "bonus"
  /\ BonusTx(job[w])
  /\ Rest(w)
  /\ UNCHANGED lock

(* The worker dies or its database call throws; its lease runs on.         *)
WorkerCrash(w) ==
  /\ "crash" \in Faults
  /\ at[w] # "idle"
  /\ Rest(w)
  /\ UNCHANGED storeVars

(* Mutant: the sweep looks for the bonuses of the wrong status.            *)
SweepBonusWrongStatus(i) ==
  /\ status[i] = "failed" /\ ~bonusAt[i]
  /\ BonusTx(i)
  /\ UNCHANGED <<lock, workerVars>>

(* reconcileDeferredBonuses: completed intents whose bonus is outstanding. *)
SweepBonus(i) ==
  /\ status[i] = "completed" /\ ~bonusAt[i]
  /\ BonusTx(i)
  /\ UNCHANGED <<lock, workerVars>>

WorkerStep(w) ==
  \/ \E i \in Intents : Select(w, i)
  \/ Claim(w) \/ Lookup(w) \/ LookupUnknown(w)
  \/ Complete(w) \/ Fail(w) \/ Defer(w) \/ SettleBonus(w) \/ WorkerCrash(w)
=============================================================================
