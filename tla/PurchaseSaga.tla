---------------------------- MODULE PurchaseSaga ----------------------------
(***************************************************************************)
(* The foreground of a purchase, WalletPurchaseSaga.execute: reserve, call *)
(* the panel, commit, and on failure release, compensate or leave the      *)
(* intent to the reconciler.  pc[i] is the await at which call i stands;   *)
(* one step runs the code from that await to the next one.                 *)
(***************************************************************************)
EXTENDS PurchaseStore

VARIABLES
  pc,     \* where the foreground of an intent stands
  seen,   \* its local renewalBefore
  owner,  \* its local localConfig.telegramId
  told    \* what its caller was told

sagaVars == <<pc, seen, owner, told>>

Steps ==
  {"idle", "lock", "inspect", "snapshot", "armReset", "callReset",
   "armUpdate", "callUpdate", "armCreate", "callCreate", "commit", "undo",
   "unreserve", "release", "keepPartial", "keep", "bonus", "done"}

Answers == {"nothing", "success", "pending", "failed", "notCharged", "busy"}

SagaTypeOK ==
  /\ pc \in [Intents -> Steps]
  /\ seen \in [Intents -> Sight]
  /\ owner \in [Intents -> Users \cup {"none"}]
  /\ told \in [Intents -> Answers]

SagaInit ==
  /\ pc = [i \in Intents |-> "idle"]
  /\ seen = [i \in Intents |-> NoSight]
  /\ owner = [i \in Intents |-> "none"]
  /\ told = [i \in Intents |-> "nothing"]

Running(i) == pc[i] \notin {"idle", "done"}

Goto(i, step) ==
  /\ pc' = [pc EXCEPT ![i] = step]
  /\ UNCHANGED <<seen, owner, told, lock>>

(* The call ends: its caller gets an answer and withConfigLock unlocks.    *)
Finish(i, answer) ==
  /\ pc' = [pc EXCEPT ![i] = "done"]
  /\ told' = [told EXCEPT ![i] = answer]
  /\ lock' = [c \in Configs |-> IF lock[c] = i THEN "free" ELSE lock[c]]
  /\ UNCHANGED <<seen, owner>>

(* Everything but the lock and the saga's own variables stays the same.    *)
StoreSame == UNCHANGED <<wallet, intent, local, panel, history>>

-----------------------------------------------------------------------------
Reserve(i) ==
  /\ pc[i] = "idle"
  /\ ReserveTx(i)
  /\ pc' = [pc EXCEPT ![i] = IF Kind[i] = "new" THEN "armCreate" ELSE "lock"]
  /\ UNCHANGED <<seen, owner, told>>

(* Mutant: the advisory lock is not tried but taken for granted.           *)
TakeLockAnyway(i) ==
  /\ pc[i] = "lock"
  /\ lock' = [lock EXCEPT ![Target[i]] = i]
  /\ pc' = [pc EXCEPT ![i] = "inspect"]
  /\ UNCHANGED <<seen, owner, told>>
  /\ StoreSame

(* Mutant: the busy answer is one its callers do not know.                 *)
LockBusyUnknown(i) ==
  /\ pc[i] = "lock"
  /\ lock[Target[i]] # "free"
  /\ Finish(i, "locked")
  /\ StoreSame

(* A renewal runs under the config's advisory lock and never waits for it. *)
TakeLock(i) ==
  /\ pc[i] = "lock"
  /\ lock[Target[i]] = "free"
  /\ lock' = [lock EXCEPT ![Target[i]] = i]
  /\ pc' = [pc EXCEPT ![i] = "inspect"]
  /\ UNCHANGED <<seen, owner, told>>
  /\ StoreSame

LockBusy(i) ==
  /\ pc[i] = "lock"
  /\ lock[Target[i]] # "free"
  /\ Finish(i, "busy")
  /\ StoreSame

(* Read the panel user and the local binding, and check owner and identity *)
Renewable(i) ==
  LET c == Target[i] IN
  /\ plan[c] # "absent"
  /\ binding[c] # "none"
  /\ binding[c] = Buyer[i] \/ i \in Override
  /\ print[c] = maker[c]

Inspect(i) ==
  /\ pc[i] = "inspect"
  /\ \/ /\ Renewable(i)
        /\ seen' = [seen EXCEPT ![i] = See(Target[i])]
        /\ owner' = [owner EXCEPT ![i] = binding[Target[i]]]
        /\ pc' = [pc EXCEPT ![i] = "snapshot"]
        /\ UNCHANGED <<told, lock>>
     \/ Goto(i, "release")    \* refused, or the panel cannot be reached
  /\ StoreSame

(* The answer when another worker has already settled the intent.          *)
AlreadySettled(i) ==
  /\ status[i] # "pending"
  /\ IF status[i] = "completed" THEN Goto(i, "bonus") ELSE Finish(i, "failed")
  /\ StoreSame

Snapshot(i) ==
  /\ pc[i] = "snapshot"
  /\ \/ AlreadySettled(i)
     \/ /\ status[i] = "pending"
        /\ prev' = [prev EXCEPT ![i] = seen[i]]
        /\ Goto(i, "armReset")
        /\ UNCHANGED <<wallet, status, lease, msg, bonusAt, local, panel, history>>

(* invokeRemoteMutation refreshes the lease before the request goes out.   *)
NextCall == [armReset |-> "callReset", armUpdate |-> "callUpdate",
             armCreate |-> "callCreate"]

Arm(i) ==
  /\ pc[i] \in DOMAIN NextCall
  /\ lease' = [lease EXCEPT ![i] = @ \/ status[i] = "pending"]
  /\ Goto(i, NextCall[pc[i]])
  /\ UNCHANGED <<wallet, status, prev, msg, bonusAt, local, panel, history>>

(* A dispatched request may or may not have been applied by the panel.     *)
Maybe(Effect) == Effect \/ UNCHANGED <<panel, history>>

DbSame == UNCHANGED <<wallet, intent, local>>

CallCreate(i) ==
  /\ pc[i] = "callCreate"
  /\ DbSame
  /\ \/ PanelCreate(i) /\ Goto(i, "commit")
     \/ Maybe(PanelCreate(i)) /\ Goto(i, "keep")                  \* no usable answer, or 409
     \/ UNCHANGED <<panel, history>> /\ Goto(i, "release")        \* definitely refused
     \/ "misreport" \in Faults /\ PanelCreate(i) /\ Goto(i, "release")

CallReset(i) ==
  /\ pc[i] = "callReset"
  /\ DbSame
  /\ \/ PanelReset(i) /\ Goto(i, "armUpdate")
     \/ Maybe(PanelReset(i)) /\ Goto(i, "keep")
     \/ UNCHANGED <<panel, history>> /\ Goto(i, "release")
     \/ "misreport" \in Faults /\ PanelReset(i) /\ Goto(i, "release")

(* Mutant: a failed update releases the reservation.                       *)
CallUpdateReleases(i) ==
  /\ pc[i] = "callUpdate"
  /\ DbSame
  /\ \/ PanelUpdate(i) /\ Goto(i, "commit")
     \/ Maybe(PanelUpdate(i)) /\ Goto(i, "release")

(* After the reset every failure keeps the reservation for review.         *)
CallUpdate(i) ==
  /\ pc[i] = "callUpdate"
  /\ DbSame
  /\ \/ PanelUpdate(i) /\ Goto(i, "commit")
     \/ Maybe(PanelUpdate(i)) /\ Goto(i, "keepPartial")

(* The renewal commit updates the binding row its inspection found.        *)
CommitBinds(i) ==
  IF Kind[i] = "new" THEN BindingFree(i) ELSE binding[Target[i]] = owner[i]

AfterFailedCommit(i) == Goto(i, IF Kind[i] = "new" THEN "undo" ELSE "keep")

Commit(i) ==
  /\ pc[i] = "commit"
  /\ \/ AlreadySettled(i)
     \/ /\ SettleCompleted(i) /\ CommitBinds(i)
        /\ IF Kind[i] = "new" THEN BindNew(i, i) ELSE UNCHANGED local
        /\ UNCHANGED <<panel, history>>
        /\ \/ Goto(i, "bonus")
           \/ "ackLost" \in Faults /\ AfterFailedCommit(i)
     \/ /\ status[i] = "pending"
        /\ ~CommitBinds(i) \/ ~Covered(i) \/ "dbError" \in Faults
        /\ AfterFailedCommit(i)
        /\ StoreSame

(* Compensation of a new config: delete the user by name.                  *)
Undo(i) ==
  /\ pc[i] = "undo"
  /\ DbSame
  /\ \/ PanelDelete(i) /\ Goto(i, "unreserve")
     \/ Maybe(PanelDelete(i)) /\ Goto(i, "keep")

(* Mutant: a failed release is reported like a successful one.             *)
UnreserveSwallowing(i, step, answer) ==
  /\ pc[i] = step
  /\ \/ ReleaseTx(i) /\ Finish(i, answer)
     \/ "dbError" \in Faults /\ StoreSame /\ Finish(i, answer)

(* releaseReservation answers false for a settled intent; its callers do   *)
(* not look at the answer.                                                 *)
Unreserve(i, step, answer) ==
  /\ pc[i] = step
  /\ \/ ReleaseTx(i) /\ Finish(i, answer)
     \/ status[i] # "pending" /\ StoreSame /\ Finish(i, answer)

ReleaseAfterUndo(i) ==
  \/ Unreserve(i, "unreserve", "notCharged")
  \/ pc[i] = "unreserve" /\ "dbError" \in Faults /\ Goto(i, "keep") /\ StoreSame

ReleaseAfterError(i) == Unreserve(i, "release", "failed")

Keep(i) ==
  /\ pc[i] \in {"keep", "keepPartial"}
  /\ KeepPendingTx(i, IF pc[i] = "keep" THEN "other" ELSE "partial")
  /\ Finish(i, "pending")

(* completeBonuses swallows its errors: the sweep retries them.            *)
Bonus(i) ==
  /\ pc[i] = "bonus"
  /\ \/ BonusTx(i)
     \/ "dbError" \in Faults /\ StoreSame
  /\ Finish(i, "success")

(* The process dies.  A request in flight may still be applied; the        *)
(* database session ends and takes the advisory lock with it.              *)
Crash(i) ==
  /\ "crash" \in Faults
  /\ Running(i)
  /\ DbSame
  /\ \/ UNCHANGED <<panel, history>>
     \/ pc[i] = "callCreate" /\ PanelCreate(i)
     \/ pc[i] = "callReset" /\ PanelReset(i)
     \/ pc[i] = "callUpdate" /\ PanelUpdate(i)
     \/ pc[i] = "undo" /\ PanelDelete(i)
  /\ Finish(i, "nothing")

(* The steps a live process takes by itself once the purchase is reserved. *)
SagaWork(i) ==
  \/ TakeLock(i) \/ LockBusy(i) \/ Inspect(i) \/ Snapshot(i) \/ Arm(i)
  \/ CallCreate(i) \/ CallReset(i) \/ CallUpdate(i) \/ Commit(i) \/ Undo(i)
  \/ ReleaseAfterUndo(i) \/ ReleaseAfterError(i) \/ Keep(i) \/ Bonus(i)

SagaStep(i) == Reserve(i) \/ SagaWork(i) \/ Crash(i)
=============================================================================
