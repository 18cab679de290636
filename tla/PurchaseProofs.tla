--------------------------- MODULE PurchaseProofs ---------------------------
(***************************************************************************)
(* What holds of every instance of Purchase: any number of users, configs, *)
(* purchases and workers, any prices, every fault and every world, except  *)
(* for the faults and the world that a theorem excludes by name.           *)
(***************************************************************************)
EXTENDS Purchase, SumProofs, TLAPS

(* The types, by the groups of variables that change together.             *)
WalletType ==
  /\ balance \in [Users -> Int] /\ reserved \in [Users -> Int]
  /\ charged \subseteq Intents /\ rewarded \subseteq Intents
  /\ moved \in [Users -> Int]
IntentType ==
  /\ status \in [Intents -> {"none", "pending", "completed", "failed"}]
  /\ lease \in [Intents -> BOOLEAN]
  /\ prev \in [Intents -> Sight]
  /\ msg \in [Intents -> {"none", "partial", "other"}]
  /\ bonusAt \in [Intents -> BOOLEAN]
LocalType ==
  /\ binding \in [Configs -> Users \cup {"none"}]
  /\ print \in [Configs -> Makers]
LockType == lock \in [Configs -> {"free", "op"} \cup Intents]
PanelType ==
  /\ plan \in [Configs -> Plans]
  /\ maker \in [Configs -> Makers]
  /\ usage \in [Configs -> {"fresh", "used", "limited"}]
  /\ delivered \subseteq Intents /\ undone \subseteq Intents
  /\ resetFor \subseteq Intents

(* A worker that is not idle works on an intent.                           *)
JobOK == \A w \in Workers : at[w] # "idle" => job[w] \in Intents

Typed ==
  /\ WalletType /\ IntentType /\ LocalType /\ LockType /\ PanelType
  /\ SagaTypeOK
  /\ WorkerTypeOK /\ JobOK

-----------------------------------------------------------------------------
(* What the building blocks do to the types.                               *)

LEMMA InitTyped == Init => Typed
<1> SUFFICES ASSUME Init PROVE Typed
  OBVIOUS
<1> USE StoreAssumption DEF Init, StoreInit, SagaInit, WorkerInit
<1>1. NoSight \in Sight /\ "nobody" \in Makers /\ "panel" \in Makers
  BY DEF NoSight, Sight, Plans, Makers
<1>2. WalletType BY DEF WalletType
<1>3. IntentType BY <1>1 DEF IntentType
<1>4. LocalType BY <1>1 DEF LocalType
<1>5. LockType BY DEF LockType
<1>6. PanelType BY <1>1 DEF PanelType, Plans
<1>7. SagaTypeOK BY <1>1 DEF SagaTypeOK, Steps, Answers
<1>8. WorkerTypeOK /\ JobOK BY <1>1 DEF WorkerTypeOK, JobOK
<1> QED BY <1>2, <1>3, <1>4, <1>5, <1>6, <1>7, <1>8 DEF Typed

LEMMA GotoTyped ==
  ASSUME SagaTypeOK, LockType, NEW i \in Intents, NEW step \in Steps, Goto(i, step)
  PROVE  SagaTypeOK' /\ LockType'
  BY DEF SagaTypeOK, LockType, Goto

LEMMA FinishTyped ==
  ASSUME SagaTypeOK, LockType, NEW i \in Intents, NEW answer \in Answers, Finish(i, answer)
  PROVE  SagaTypeOK' /\ LockType'
  BY DEF SagaTypeOK, LockType, Finish, Steps

LEMMA DbSameTyped ==
  ASSUME WalletType, IntentType, LocalType, DbSame
  PROVE  WalletType' /\ IntentType' /\ LocalType'
  BY DEF WalletType, IntentType, LocalType, DbSame, wallet, intent, local

LEMMA PanelSameTyped ==
  ASSUME PanelType, UNCHANGED <<panel, history>>
  PROVE  PanelType'
  BY DEF PanelType, panel, history

LEMMA StoreSameTyped ==
  ASSUME WalletType, IntentType, LocalType, PanelType, StoreSame
  PROVE  WalletType' /\ IntentType' /\ LocalType' /\ PanelType'
  BY DbSameTyped, PanelSameTyped DEF StoreSame, DbSame

LEMMA SettleTyped ==
  ASSUME WalletType, IntentType, NEW i \in Intents, SettleCompleted(i)
  PROVE  WalletType' /\ IntentType'
<1> USE StoreAssumption DEF SettleCompleted
<1>1. WalletType' BY DEF WalletType
<1>2. IntentType' BY DEF IntentType
<1> QED BY <1>1, <1>2

LEMMA BindTyped ==
  ASSUME LocalType, NEW i \in Intents, NEW by \in Makers, BindNew(i, by)
  PROVE  LocalType'
  BY StoreAssumption DEF LocalType, BindNew, local

LEMMA ReleaseTyped ==
  ASSUME WalletType, IntentType, LocalType, PanelType, NEW i \in Intents, ReleaseTx(i)
  PROVE  WalletType' /\ IntentType' /\ LocalType' /\ PanelType'
<1> USE StoreAssumption DEF ReleaseTx, local, panel, history
<1>1. WalletType' BY DEF WalletType
<1>2. IntentType' BY DEF IntentType
<1>3. LocalType' /\ PanelType' BY DEF LocalType, PanelType
<1> QED BY <1>1, <1>2, <1>3

LEMMA KeepTyped ==
  ASSUME WalletType, IntentType, LocalType, PanelType, NEW i \in Intents,
         NEW m \in {"partial", "other"}, KeepPendingTx(i, m)
  PROVE  WalletType' /\ IntentType' /\ LocalType' /\ PanelType'
<1> USE DEF KeepPendingTx, wallet, local, panel, history
<1>1. WalletType' BY DEF WalletType
<1>2. IntentType' BY DEF IntentType
<1>3. LocalType' /\ PanelType' BY DEF LocalType, PanelType
<1> QED BY <1>1, <1>2, <1>3

LEMMA BonusTyped ==
  ASSUME WalletType, IntentType, LocalType, PanelType, NEW i \in Intents, BonusTx(i)
  PROVE  WalletType' /\ IntentType' /\ LocalType' /\ PanelType'
<1> USE StoreAssumption DEF BonusTx, local, panel, history
<1>1. WalletType' BY DEF WalletType
<1>2. IntentType' BY DEF IntentType
<1>3. LocalType' /\ PanelType' BY DEF LocalType, PanelType
<1> QED BY <1>1, <1>2, <1>3

LEMMA PanelTyped ==
  ASSUME PanelType, NEW i \in Intents,
         \/ PanelCreate(i) \/ PanelReset(i) \/ PanelUpdate(i) \/ PanelDelete(i)
         \/ UNCHANGED <<panel, history>>
  PROVE  PanelType'
<1> USE StoreAssumption DEF PanelType, Plans, Makers
<1>1. CASE PanelCreate(i) BY <1>1 DEF PanelCreate
<1>2. CASE PanelReset(i) BY <1>2 DEF PanelReset
<1>3. CASE PanelUpdate(i) BY <1>3 DEF PanelUpdate
<1>4. CASE PanelDelete(i) BY <1>4 DEF PanelDelete
<1> QED BY <1>1, <1>2, <1>3, <1>4, PanelSameTyped

-----------------------------------------------------------------------------
(* The foreground: every step of every call keeps the types.               *)
LEMMA SagaTyped ==
  ASSUME Typed, NEW i \in Intents, Saga(i)
  PROVE  Typed'
<1> DEFINE StoreT == WalletType /\ IntentType /\ LocalType /\ PanelType
           CallT == SagaTypeOK /\ LockType
<1> USE DEF Typed
<1>0. WorkerTypeOK' /\ JobOK'
  BY DEF Saga, workerVars, WorkerTypeOK, JobOK
<1>a. \A step \in Steps : Goto(i, step) => CallT'
  BY GotoTyped
<1>b. \A answer \in Answers : Finish(i, answer) => CallT'
  BY FinishTyped
<1>c. StoreSame => StoreT'
  BY StoreSameTyped
<1>d. AlreadySettled(i) => StoreT' /\ CallT'
  BY <1>a, <1>b, <1>c DEF AlreadySettled, Steps, Answers
<1>1. CASE Reserve(i)
  <2> USE <1>1, StoreAssumption DEF Reserve, ReserveTx
  <2>1. WalletType' BY DEF WalletType
  <2>2. IntentType' BY DEF IntentType
  <2>3. LocalType' /\ PanelType' BY DEF LocalType, PanelType, local, panel, history
  <2>4. CallT' BY DEF SagaTypeOK, LockType, Steps
  <2> QED BY <1>0, <2>1, <2>2, <2>3, <2>4
<1>2. CASE TakeLock(i)
  <2>1. CallT' BY <1>2, StoreAssumption DEF TakeLock, SagaTypeOK, LockType, Steps
  <2> QED BY <1>0, <1>2, <1>c, <2>1 DEF TakeLock
<1>3. CASE LockBusy(i)
  BY <1>0, <1>3, <1>b, <1>c DEF LockBusy, Answers
<1>4. CASE Inspect(i)
  <2>1. See(Target[i]) \in Sight /\ binding[Target[i]] \in Users \cup {"none"}
    BY StoreAssumption DEF See, Sight, PanelType, LocalType
  <2>2. ASSUME seen' = [seen EXCEPT ![i] = See(Target[i])],
               owner' = [owner EXCEPT ![i] = binding[Target[i]]],
               pc' = [pc EXCEPT ![i] = "snapshot"], UNCHANGED <<told, lock>>
        PROVE  CallT'
    BY <2>1, <2>2 DEF SagaTypeOK, LockType, Steps
  <2>3. Goto(i, "release") => CallT' BY <1>a DEF Steps
  <2>4. CallT' BY <1>4, <2>2, <2>3 DEF Inspect
  <2> QED BY <1>0, <1>4, <1>c, <2>4 DEF Inspect
<1>5. CASE Snapshot(i)
  <2>1. CASE AlreadySettled(i) BY <1>0, <1>d, <2>1
  <2>2. CASE ~AlreadySettled(i)
    <3>1. Goto(i, "armReset") /\ UNCHANGED <<wallet, local, panel, history>>
      BY <1>5, <2>2 DEF Snapshot
    <3>2. IntentType' BY <1>5, <2>2 DEF Snapshot, IntentType, SagaTypeOK
    <3>3. WalletType' /\ LocalType' /\ PanelType'
      BY <3>1 DEF WalletType, LocalType, PanelType, wallet, local, panel, history
    <3> QED BY <1>0, <1>a, <3>1, <3>2, <3>3 DEF Steps
  <2> QED BY <2>1, <2>2
<1>6. CASE Arm(i)
  <2>1. NextCall[pc[i]] \in Steps BY <1>6 DEF Arm, NextCall, Steps
  <2>2. IntentType' BY <1>6 DEF Arm, IntentType
  <2>3. WalletType' /\ LocalType' /\ PanelType'
    BY <1>6 DEF Arm, WalletType, LocalType, PanelType, wallet, local, panel, history
  <2> QED BY <1>0, <1>6, <1>a, <2>1, <2>2, <2>3 DEF Arm
<1>7. CASE CallCreate(i)
  BY <1>0, <1>7, <1>a, DbSameTyped, PanelTyped DEF CallCreate, Maybe, Steps
<1>8. CASE CallReset(i)
  BY <1>0, <1>8, <1>a, DbSameTyped, PanelTyped DEF CallReset, Maybe, Steps
<1>9. CASE CallUpdate(i)
  BY <1>0, <1>9, <1>a, DbSameTyped, PanelTyped DEF CallUpdate, Maybe, Steps
<1>10. CASE Commit(i)
  <2>1. AfterFailedCommit(i) => CallT' BY <1>a DEF AfterFailedCommit, Steps
  <2>2. CASE AlreadySettled(i) BY <1>0, <1>d, <2>2
  <2>3. CASE SettleCompleted(i) /\ UNCHANGED <<panel, history>>
             /\ IF Kind[i] = "new" THEN BindNew(i, i) ELSE UNCHANGED local
    <3>1. WalletType' /\ IntentType' BY <2>3, SettleTyped
    <3>2. LocalType' BY <2>3, BindTyped DEF Makers, LocalType, local
    <3>3. PanelType' BY <2>3, PanelSameTyped
    <3>4. CallT' BY <1>10, <2>1, <2>3, <1>a DEF Commit, Steps, AlreadySettled, SettleCompleted
    <3> QED BY <1>0, <3>1, <3>2, <3>3, <3>4
  <2>4. CASE AfterFailedCommit(i) /\ StoreSame BY <1>0, <1>c, <2>1, <2>4
  <2> QED BY <1>10, <2>2, <2>3, <2>4 DEF Commit
<1>11. CASE Undo(i)
  BY <1>0, <1>11, <1>a, DbSameTyped, PanelTyped DEF Undo, Maybe, Steps
<1>12. CASE ReleaseAfterUndo(i)
  BY <1>0, <1>12, <1>a, <1>b, <1>c, ReleaseTyped DEF ReleaseAfterUndo, Unreserve, Steps, Answers
<1>13. CASE ReleaseAfterError(i)
  BY <1>0, <1>13, <1>b, <1>c, ReleaseTyped DEF ReleaseAfterError, Unreserve, Answers
<1>14. CASE Keep(i)
  BY <1>0, <1>14, <1>b, KeepTyped DEF Keep, Answers
<1>15. CASE Bonus(i)
  BY <1>0, <1>15, <1>b, <1>c, BonusTyped DEF Bonus, Answers
<1>16. CASE Crash(i)
  BY <1>0, <1>16, <1>b, DbSameTyped, PanelTyped DEF Crash, Answers
<1> QED BY <1>1, <1>2, <1>3, <1>4, <1>5, <1>6, <1>7, <1>8, <1>9, <1>10, <1>11, <1>12,
           <1>13, <1>14, <1>15, <1>16 DEF Saga, SagaStep, SagaWork
-----------------------------------------------------------------------------
(* The recovery workers.                                                   *)
LEMMA RestTyped ==
  ASSUME WorkerTypeOK, JobOK, NEW w \in Workers, Rest(w)
  PROVE  WorkerTypeOK' /\ JobOK'
<1>1. NoSight \in Sight /\ "nobody" \in Makers
  BY DEF NoSight, Sight, Plans, Makers
<1> QED BY <1>1 DEF WorkerTypeOK, JobOK, Rest

LEMMA StandTyped ==
  ASSUME WorkerTypeOK, JobOK, NEW w \in Workers, job[w] \in Intents,
         NEW place \in {"claim", "lookup", "settle", "bonus"}, Stand(w, place)
  PROVE  WorkerTypeOK' /\ JobOK'
  BY DEF WorkerTypeOK, JobOK, Stand

LEMMA WorkerTyped ==
  ASSUME Typed, NEW w \in Workers, Worker(w)
  PROVE  Typed'
<1> DEFINE StoreT == WalletType /\ IntentType /\ LocalType /\ PanelType
           WorkT == WorkerTypeOK /\ JobOK
<1> USE DEF Typed
<1>0. SagaTypeOK' BY DEF Worker, sagaVars, SagaTypeOK
<1>a. Rest(w) => WorkT' BY RestTyped
<1>b. UNCHANGED storeVars => StoreT' /\ LockType'
  BY DEF storeVars, wallet, intent, local, panel, history, WalletType, IntentType, LocalType,
         PanelType, LockType
<1>c. UNCHANGED lock => LockType' BY DEF LockType
<1>d. at[w] # "idle" => job[w] \in Intents BY DEF JobOK
<1>1. ASSUME NEW i \in Intents, Select(w, i) PROVE Typed'
  <2>1. WorkT' BY <1>1 DEF Select, WorkerTypeOK, JobOK, IntentType
  <2> QED BY <1>0, <1>1, <1>b, <2>1 DEF Select, storeVars
<1>2. CASE Claim(w)
  <2>1. job[w] \in Intents BY <1>2, <1>d DEF Claim
  <2>2. IntentType' BY <1>2, <2>1 DEF Claim, IntentType
  <2>3. WalletType' /\ LocalType' /\ PanelType' /\ LockType'
    BY <1>2 DEF Claim, WalletType, LocalType, PanelType, LockType, wallet, local, panel, history
  <2>4. WorkT' BY <1>2, <1>a, <2>1, StandTyped DEF Claim
  <2> QED BY <1>0, <2>2, <2>3, <2>4
<1>3. CASE Lookup(w)
  <2>1. job[w] \in Intents BY <1>3, <1>d DEF Lookup
  <2>2. See(Target[job[w]]) \in Sight /\ maker[Target[job[w]]] \in Makers
    BY <2>1, StoreAssumption DEF See, Sight, PanelType
  <2>3. WorkT' BY <1>3, <2>1, <2>2 DEF Lookup, WorkerTypeOK, JobOK
  <2> QED BY <1>0, <1>3, <1>b, <2>3 DEF Lookup, storeVars
<1>4. CASE LookupUnknown(w)
  <2>1. job[w] \in Intents BY <1>4, <1>d DEF LookupUnknown
  <2>2. IntentType' BY <1>4, <2>1 DEF LookupUnknown, IntentType
  <2>3. WalletType' /\ LocalType' /\ PanelType' /\ LockType'
    BY <1>4 DEF LookupUnknown, WalletType, LocalType, PanelType, LockType, wallet, local,
                panel, history
  <2> QED BY <1>0, <1>4, <1>a, <2>2, <2>3 DEF LookupUnknown
<1>5. CASE Complete(w)
  <2>1. job[w] \in Intents /\ remoteBy[w] \in Makers
    BY <1>5, <1>d DEF Complete, WorkerTypeOK
  <2>2. CASE Rest(w) /\ UNCHANGED storeVars BY <1>0, <1>a, <1>b, <2>2
  <2>3. ASSUME SettleCompleted(job[w]), Stand(w, "bonus"), UNCHANGED <<lock, panel, history>>,
               IF Kind[job[w]] = "new" THEN BindNew(job[w], remoteBy[w]) ELSE UNCHANGED local
        PROVE  Typed'
    <3>1. WalletType' /\ IntentType' BY <2>1, <2>3, SettleTyped
    <3>2. LocalType' BY <2>1, <2>3, BindTyped DEF LocalType, local
    <3>3. PanelType' BY <2>3, PanelSameTyped
    <3>4. WorkT' BY <2>1, <2>3, StandTyped
    <3> QED BY <1>0, <1>c, <2>3, <3>1, <3>2, <3>3, <3>4
  <2> QED BY <1>5, <2>2, <2>3 DEF Complete
<1>6. CASE Fail(w)
  <2>1. job[w] \in Intents BY <1>6, <1>d DEF Fail
  <2> QED BY <1>0, <1>6, <1>a, <1>b, <1>c, <2>1, ReleaseTyped DEF Fail
<1>7. CASE Defer(w)
  <2>1. job[w] \in Intents BY <1>7, <1>d DEF Defer
  <2> QED BY <1>0, <1>7, <1>a, <1>c, <2>1, KeepTyped DEF Defer
<1>8. CASE SettleBonus(w)
  <2>1. job[w] \in Intents BY <1>8, <1>d DEF SettleBonus
  <2> QED BY <1>0, <1>8, <1>a, <1>c, <2>1, BonusTyped DEF SettleBonus
<1>9. CASE WorkerCrash(w)
  BY <1>0, <1>9, <1>a, <1>b DEF WorkerCrash
<1> QED BY <1>1, <1>2, <1>3, <1>4, <1>5, <1>6, <1>7, <1>8, <1>9 DEF Worker, WorkerStep

(* Everything else that happens.                                           *)
LEMMA WorldTyped ==
  ASSUME Typed, Sweep \/ Environment
  PROVE  Typed'
<1> USE DEF Typed
<1>0. UNCHANGED <<sagaVars, workerVars>>
  BY DEF Sweep, SweepBonus, Environment, LeaseExpires, WalletMove, ConfigOpBegin, ConfigOpEnd,
         PanelWorld, PanelSet
<1>a. SagaTypeOK' /\ WorkerTypeOK' /\ JobOK'
  BY <1>0 DEF sagaVars, workerVars, SagaTypeOK, WorkerTypeOK, JobOK
<1>b. UNCHANGED lock => LockType' BY DEF LockType
<1>1. CASE Sweep
  BY <1>1, <1>a, <1>b, BonusTyped DEF Sweep, SweepBonus
<1>2. ASSUME NEW i \in Intents, LeaseExpires(i) PROVE Typed'
  <2>1. IntentType' BY <1>2 DEF LeaseExpires, IntentType
  <2>2. WalletType' /\ LocalType' /\ PanelType' /\ LockType'
    BY <1>2 DEF LeaseExpires, WalletType, LocalType, PanelType, LockType, wallet, local, panel,
                history
  <2> QED BY <1>a, <2>1, <2>2
<1>3. ASSUME NEW u \in Users, NEW d \in {-1, 1}, WalletMove(u, d) PROVE Typed'
  <2>1. WalletType' BY <1>3 DEF WalletMove, WalletType
  <2>2. IntentType' /\ LocalType' /\ PanelType' /\ LockType'
    BY <1>3 DEF WalletMove, IntentType, LocalType, PanelType, LockType, intent, local, panel,
                history
  <2> QED BY <1>a, <2>1, <2>2
<1>4. ASSUME NEW c \in Configs, ConfigOpBegin(c) PROVE Typed'
  <2>1. LockType' BY <1>4 DEF ConfigOpBegin, LockType
  <2>2. WalletType' /\ IntentType' /\ LocalType' /\ PanelType'
    BY <1>4 DEF ConfigOpBegin, WalletType, IntentType, LocalType, PanelType, wallet, intent,
                local, panel, history
  <2> QED BY <1>a, <2>1, <2>2
<1>5. ASSUME NEW c \in Configs, ConfigOpEnd(c) PROVE Typed'
  <2>1. LockType' BY <1>5 DEF ConfigOpEnd, LockType
  <2>2. WalletType' /\ IntentType'
    BY <1>5 DEF ConfigOpEnd, WalletType, IntentType, wallet, intent
  <2>3. LocalType' BY <1>5 DEF ConfigOpEnd, Rebind, LocalType, local, Makers
  <2>4. PanelType' BY <1>5 DEF ConfigOpEnd, PanelType, panel, history, Plans, Makers
  <2> QED BY <1>a, <2>1, <2>2, <2>3, <2>4
<1>6. ASSUME NEW c \in Configs, PanelWorld(c) PROVE Typed'
  <2>1. PanelType' BY <1>6 DEF PanelWorld, PanelSet, PanelType, history, Plans, Makers
  <2>2. WalletType' /\ IntentType' /\ LocalType' /\ LockType'
    BY <1>6 DEF PanelWorld, PanelSet, WalletType, IntentType, LocalType, LockType, wallet,
                intent, local
  <2> QED BY <1>a, <2>1, <2>2
<1> QED BY <1>1, <1>2, <1>3, <1>4, <1>5, <1>6 DEF Environment

LEMMA NextTyped == Typed /\ [Next]_vars => Typed'
<1> SUFFICES ASSUME Typed, [Next]_vars PROVE Typed'
  OBVIOUS
<1>1. CASE UNCHANGED vars
  BY <1>1 DEF Typed, WalletType, IntentType, LocalType, LockType, PanelType, JobOK, SagaTypeOK,
       WorkerTypeOK, vars, storeVars, sagaVars, workerVars, wallet, intent, local, panel, history
<1>2. CASE Next BY <1>2, SagaTyped, WorkerTyped, WorldTyped DEF Next
<1> QED BY <1>1, <1>2

(* Every variable keeps its type, in every instance.                       *)
THEOREM TypeCorrect == Spec => []TypeOK
<1>1. Typed => TypeOK
  BY DEF Typed, TypeOK, StoreTypeOK, WalletType, IntentType, LocalType, LockType, PanelType
<1> QED BY <1>1, InitTyped, NextTyped, PTL DEF Spec
-----------------------------------------------------------------------------
(* What a step does to the money and to what the panel grants: the money   *)
(* columns change by exactly one of the transactions, and a grant is given *)
(* by a create or update of a purchase under way, and taken away otherwise.*)

MoneySame == UNCHANGED <<balance, reserved, rewarded, moved, status, bonusAt>>

MoneyStep ==
  \/ \E i \in Intents : ReserveTx(i) \/ SettleCompleted(i) \/ ReleaseTx(i) \/ BonusTx(i)
  \/ \E u \in Users, d \in {-1, 1} : WalletMove(u, d)

Fades ==
  /\ delivered' = delivered
  /\ \A c \in Configs :
       /\ plan'[c] = plan[c] \/ plan'[c] \notin Intents
       /\ maker'[c] = maker[c] \/ maker'[c] \notin Intents

GrantStep ==
  /\ MoneySame
  /\ \E i \in Intents :
       \/ pc[i] = "callCreate" /\ PanelCreate(i)
       \/ pc[i] = "callUpdate" /\ PanelUpdate(i)

Effect ==
  \/ GrantStep
  \/ Fades /\ MoneySame
  \/ MoneyStep /\ UNCHANGED <<plan, maker, delivered>>

(* What the panel granted, and who knows of it.                            *)
GrantedFirst ==
  /\ PaidMeansDelivered
  /\ \A i \in Intents :
       /\ pc[i] = "commit" => i \in delivered
       /\ pc[i] # "idle" => status[i] # "none"
  /\ \A c \in Configs :
       /\ plan[c] \in Intents => plan[c] \in delivered
       /\ maker[c] \in Intents => maker[c] \in delivered
  /\ \A w \in Workers :
       /\ remote[w].plan \in Intents => remote[w].plan \in delivered
       /\ remoteBy[w] \in Intents => remoteBy[w] \in delivered

(* What a step of call i does to the progress of calls.                    *)
Progress(i) ==
  /\ \A j \in Intents \ {i} : pc'[j] = pc[j] /\ status'[j] = status[j]
  /\ pc'[i] = "commit" => pc[i] = "commit" \/ i \in delivered'
  /\ status'[i] = "completed" => status[i] = "completed" \/ pc[i] = "commit"
  /\ status'[i] = "none" => status[i] = "none" /\ pc[i] # "idle"

LEMMA RequestEffect ==
  ASSUME Typed, NEW i \in Intents, DbSame,
         \/ PanelReset(i) \/ PanelDelete(i)
         \/ pc[i] = "callCreate" /\ PanelCreate(i)
         \/ pc[i] = "callUpdate" /\ PanelUpdate(i)
         \/ UNCHANGED <<panel, history>>
  PROVE  Effect
<1> USE DEF DbSame, wallet, intent, MoneySame
<1>1. MoneySame OBVIOUS
<1>2. CASE (pc[i] = "callCreate" /\ PanelCreate(i)) \/ (pc[i] = "callUpdate" /\ PanelUpdate(i))
  BY <1>1, <1>2 DEF Effect, GrantStep
<1>3. CASE PanelReset(i) \/ PanelDelete(i)
  BY <1>1, <1>3, StoreAssumption DEF Effect, Fades, PanelReset, PanelDelete, Typed, PanelType
<1>4. CASE UNCHANGED <<panel, history>> BY <1>1, <1>4 DEF Effect, Fades, panel, history
<1> QED BY <1>2, <1>3, <1>4

LEMMA SagaEffects ==
  ASSUME Typed, NEW i \in Intents, Saga(i)
  PROVE  Effect /\ Progress(i)
<1> USE DEF Typed
<1>a. ASSUME NEW step \in Steps, Goto(i, step)
      PROVE  pc'[i] = step /\ \A j \in Intents \ {i} : pc'[j] = pc[j]
  BY <1>a DEF Goto, SagaTypeOK
<1>b. ASSUME NEW answer \in Answers, Finish(i, answer)
      PROVE  pc'[i] = "done" /\ \A j \in Intents \ {i} : pc'[j] = pc[j]
  BY <1>b DEF Finish, SagaTypeOK
<1>c. MoneySame /\ UNCHANGED <<panel, history>> => Effect
  BY DEF Effect, Fades, panel, history
<1>d. StoreSame => MoneySame /\ UNCHANGED <<panel, history>>
  BY DEF StoreSame, MoneySame, wallet, intent
<1>e. DbSame => UNCHANGED status BY DEF DbSame, intent
<1>f. ASSUME ReleaseTx(i) \/ BonusTx(i)
      PROVE  /\ Effect
             /\ \A j \in Intents \ {i} : status'[j] = status[j]
             /\ status'[i] = status[i] \/ status'[i] = "failed"
  <2>1. MoneyStep BY <1>f DEF MoneyStep
  <2>2. UNCHANGED <<plan, maker, delivered>> BY <1>f DEF ReleaseTx, BonusTx, panel, history
  <2>3. CASE ReleaseTx(i) BY <2>1, <2>2, <2>3 DEF ReleaseTx, IntentType, Effect
  <2>4. CASE BonusTx(i) BY <2>1, <2>2, <2>4 DEF BonusTx, Effect
  <2> QED BY <1>f, <2>3, <2>4
<1>1. CASE Reserve(i)
  <2>1. Effect
    BY <1>1 DEF Reserve, ReserveTx, Effect, MoneyStep, panel, history
  <2>2. Progress(i)
    BY <1>1 DEF Reserve, ReserveTx, Progress, IntentType, SagaTypeOK
  <2> QED BY <2>1, <2>2
<1>2. CASE TakeLock(i) \/ LockBusy(i)
  BY <1>2, <1>b, <1>c, <1>d DEF TakeLock, LockBusy, Answers, Progress, SagaTypeOK, MoneySame
<1>3. CASE Inspect(i)
  BY <1>3, <1>a, <1>c, <1>d DEF Inspect, Steps, Progress, SagaTypeOK, MoneySame
<1>s. ASSUME AlreadySettled(i), pc[i] # "idle" PROVE Effect /\ Progress(i)
  BY <1>s, <1>a, <1>b, <1>c, <1>d DEF AlreadySettled, Steps, Answers, Progress, MoneySame
<1>4. CASE Snapshot(i)
  <2>1. ASSUME Goto(i, "armReset"), UNCHANGED <<wallet, status, bonusAt, panel, history>>
        PROVE  Effect /\ Progress(i)
    BY <1>4, <1>a, <1>c, <2>1 DEF Snapshot, Steps, Progress, MoneySame, wallet
  <2> QED BY <1>4, <1>s, <2>1 DEF Snapshot
<1>5. CASE Arm(i)
  <2>1. NextCall[pc[i]] \in Steps \ {"commit"} /\ pc[i] # "idle"
    BY <1>5 DEF Arm, NextCall, Steps
  <2> QED BY <1>5, <1>a, <1>c, <2>1 DEF Arm, Progress, MoneySame, wallet
<1>6. CASE CallCreate(i)
  <2>1. Effect BY <1>6, RequestEffect DEF CallCreate, Maybe
  <2>2. pc'[i] = "commit" => i \in delivered'
    BY <1>6, <1>a DEF CallCreate, Steps, PanelCreate
  <2> QED BY <1>6, <1>a, <1>e, <2>1, <2>2 DEF CallCreate, Steps, Progress
<1>7. CASE CallReset(i)
  <2>1. Effect BY <1>7, RequestEffect DEF CallReset, Maybe
  <2> QED BY <1>7, <1>a, <1>e, <2>1 DEF CallReset, Steps, Progress
<1>8. CASE CallUpdate(i)
  <2>1. Effect BY <1>8, RequestEffect DEF CallUpdate, Maybe
  <2>2. pc'[i] = "commit" => i \in delivered'
    BY <1>8, <1>a DEF CallUpdate, Steps, PanelUpdate
  <2> QED BY <1>8, <1>a, <1>e, <2>1, <2>2 DEF CallUpdate, Steps, Progress
<1>9. CASE Commit(i)
  <2>1. AfterFailedCommit(i)
          => pc'[i] \in {"undo", "keep"} /\ \A j \in Intents \ {i} : pc'[j] = pc[j]
    BY <1>a DEF AfterFailedCommit, Steps
  <2>2. CASE SettleCompleted(i) /\ UNCHANGED <<panel, history>>
    <3>1. Effect BY <2>2 DEF Effect, MoneyStep, panel, history
    <3>2. /\ status'[i] = "completed"
          /\ \A j \in Intents \ {i} : status'[j] = status[j]
      BY <2>2 DEF SettleCompleted, IntentType
    <3>3. pc[i] = "commit" /\ status[i] = "pending"
      BY <1>9, <2>2 DEF Commit, SettleCompleted
    <3>4. Goto(i, "bonus") \/ AfterFailedCommit(i)
      BY <1>9, <3>3 DEF Commit, AlreadySettled
    <3>5. \A j \in Intents \ {i} : pc'[j] = pc[j]
      BY <1>a, <2>1, <3>4 DEF Steps
    <3> QED BY <3>1, <3>2, <3>3, <3>5 DEF Progress
  <2>3. CASE AfterFailedCommit(i) /\ StoreSame
    <3>1. Effect BY <1>c, <1>d, <2>3
    <3>2. pc'[i] # "commit" /\ \A j \in Intents \ {i} : pc'[j] = pc[j]
      BY <2>1, <2>3
    <3>3. pc[i] = "commit" /\ UNCHANGED status
      BY <1>9, <1>d, <2>3 DEF Commit, MoneySame
    <3> QED BY <3>1, <3>2, <3>3 DEF Progress
  <2> QED BY <1>9, <1>s, <2>2, <2>3 DEF Commit
<1>10. CASE Undo(i)
  <2>1. Effect BY <1>10, RequestEffect DEF Undo, Maybe
  <2> QED BY <1>10, <1>a, <1>e, <2>1 DEF Undo, Steps, Progress
<1>11. CASE ReleaseAfterUndo(i) \/ ReleaseAfterError(i)
  BY <1>11, <1>a, <1>b, <1>c, <1>d, <1>f DEF ReleaseAfterUndo, ReleaseAfterError, Unreserve,
       Steps, Answers, Progress, MoneySame
<1>12. CASE Keep(i)
  BY <1>12, <1>b, <1>c DEF Keep, KeepPendingTx, Answers, Progress, MoneySame, wallet
<1>13. CASE Bonus(i)
  BY <1>13, <1>b, <1>c, <1>d, <1>f DEF Bonus, Answers, Progress, MoneySame
<1>14. CASE Crash(i)
  <2>1. Effect BY <1>14, RequestEffect DEF Crash, Running
  <2> QED BY <1>14, <1>b, <1>e, <2>1 DEF Crash, Running, Answers, Progress
<1> QED BY <1>1, <1>2, <1>3, <1>4, <1>5, <1>6, <1>7, <1>8, <1>9, <1>10, <1>11, <1>12,
           <1>13, <1>14 DEF Saga, SagaStep, SagaWork

(* The verdict of a worker rests on a user the panel showed it.            *)
LEMMA VerdictGranted ==
  ASSUME Typed, GrantedFirst, NEW w \in Workers, job[w] \in Intents,
         WorkerVerdict(w) = "applied"
  PROVE  job[w] \in delivered
<1>1. remote[w].plan = job[w] \/ remoteBy[w] = job[w]
  BY DEF WorkerVerdict, Verdict, RenewalOutcome
<1> QED BY <1>1 DEF GrantedFirst

(* What a worker's step does to the money, the grants and its own notes.   *)
LEMMA WorkerEffects ==
  ASSUME Typed, GrantedFirst, NEW w \in Workers, Worker(w)
  PROVE  /\ Effect
         /\ \A i \in Intents :
              /\ status'[i] = "completed" => status[i] = "completed" \/ i \in delivered
              /\ status'[i] = "none" => status[i] = "none"
         /\ \A v \in Workers :
              /\ \/ remote'[v] = remote[v] \/ remote'[v].plan = "absent"
                 \/ \E c \in Configs : remote'[v].plan = plan[c]
              /\ \/ remoteBy'[v] \in {remoteBy[v], "nobody"}
                 \/ \E c \in Configs : remoteBy'[v] = maker[c]
<1> DEFINE Settles ==
             \A i \in Intents :
               /\ status'[i] = "completed" => status[i] = "completed" \/ i \in delivered
               /\ status'[i] = "none" => status[i] = "none"
           Notes ==
             \A v \in Workers :
               /\ \/ remote'[v] = remote[v] \/ remote'[v].plan = "absent"
                  \/ \E c \in Configs : remote'[v].plan = plan[c]
               /\ \/ remoteBy'[v] \in {remoteBy[v], "nobody"}
                  \/ \E c \in Configs : remoteBy'[v] = maker[c]
<1> USE DEF Typed
<1>a. ASSUME Rest(w) \/ (\E place \in {"lookup", "bonus"} : Stand(w, place)) PROVE Notes
  BY <1>a DEF Rest, Stand, WorkerTypeOK, NoSight, Sight
<1>b. MoneySame /\ UNCHANGED <<panel, history>> => Effect /\ Settles
  BY DEF Effect, Fades, panel, history, MoneySame
<1>c. UNCHANGED storeVars => MoneySame /\ UNCHANGED <<panel, history>>
  BY DEF storeVars, wallet, intent, MoneySame
<1>d. at[w] # "idle" => job[w] \in Intents BY DEF JobOK
<1>1. ASSUME NEW i \in Intents, Select(w, i) PROVE Effect /\ Settles /\ Notes
  BY <1>1, <1>b, <1>c DEF Select, storeVars
<1>2. CASE Claim(w) \/ LookupUnknown(w)
  BY <1>2, <1>a, <1>b DEF Claim, LookupUnknown, MoneySame, wallet
<1>3. CASE Lookup(w)
  <2>1. job[w] \in Intents /\ Target[job[w]] \in Configs
    BY <1>3, <1>d, StoreAssumption DEF Lookup
  <2>2. Notes BY <1>3, <2>1 DEF Lookup, See, WorkerTypeOK
  <2> QED BY <1>3, <1>b, <1>c, <2>2 DEF Lookup, storeVars
<1>4. CASE Complete(w)
  <2>1. job[w] \in Intents BY <1>4, <1>d DEF Complete
  <2>2. CASE Rest(w) /\ UNCHANGED storeVars BY <1>a, <1>b, <1>c, <2>2
  <2>3. CASE SettleCompleted(job[w]) /\ Stand(w, "bonus") /\ UNCHANGED <<lock, panel, history>>
    <3>1. job[w] \in delivered BY <1>4, <2>1, VerdictGranted DEF Complete
    <3>2. Effect BY <2>1, <2>3 DEF Effect, MoneyStep, panel, history
    <3>3. Settles BY <2>1, <2>3, <3>1 DEF SettleCompleted, IntentType
    <3> QED BY <1>a, <2>3, <3>2, <3>3
  <2> QED BY <1>4, <2>2, <2>3 DEF Complete
<1>5. CASE Fail(w)
  <2>1. job[w] \in Intents BY <1>5, <1>d DEF Fail
  <2>2. CASE ReleaseTx(job[w])
    <3>1. Effect BY <2>1, <2>2 DEF Effect, MoneyStep, ReleaseTx, panel, history
    <3>2. Settles BY <2>1, <2>2 DEF ReleaseTx, IntentType
    <3> QED BY <1>5, <1>a, <3>1, <3>2 DEF Fail
  <2> QED BY <1>5, <1>a, <1>b, <1>c, <2>2 DEF Fail
<1>6. CASE Defer(w)
  BY <1>6, <1>a, <1>b DEF Defer, KeepPendingTx, MoneySame, wallet
<1>7. CASE SettleBonus(w)
  <2>1. job[w] \in Intents BY <1>7, <1>d DEF SettleBonus
  <2>2. Effect BY <1>7, <2>1 DEF SettleBonus, Effect, MoneyStep, BonusTx, panel, history
  <2>3. Settles BY <1>7 DEF SettleBonus, BonusTx
  <2> QED BY <1>7, <1>a, <2>2, <2>3 DEF SettleBonus
<1>8. CASE WorkerCrash(w)
  BY <1>8, <1>a, <1>b, <1>c DEF WorkerCrash
<1> QED BY <1>1, <1>2, <1>3, <1>4, <1>5, <1>6, <1>7, <1>8 DEF Worker, WorkerStep

LEMMA WorldEffects ==
  ASSUME Typed, Sweep \/ Environment
  PROVE  Effect /\ UNCHANGED <<status, pc, remote, remoteBy>>
<1> USE DEF Typed
<1>1. CASE Sweep
  <2>1. PICK i \in Intents : SweepBonus(i) BY <1>1 DEF Sweep
  <2>2. Effect BY <2>1 DEF SweepBonus, BonusTx, Effect, MoneyStep, panel, history
  <2> QED BY <1>1, <2>1, <2>2 DEF Sweep, SweepBonus, BonusTx, sagaVars, workerVars
<1>2. ASSUME NEW i \in Intents, LeaseExpires(i)
      PROVE  Effect /\ UNCHANGED <<status, pc, remote, remoteBy>>
  BY <1>2 DEF LeaseExpires, Effect, Fades, MoneySame, wallet, panel, history, sagaVars, workerVars
<1>3. ASSUME NEW u \in Users, NEW d \in {-1, 1}, WalletMove(u, d)
      PROVE  Effect /\ UNCHANGED <<status, pc, remote, remoteBy>>
  BY <1>3 DEF WalletMove, Effect, MoneyStep, intent, panel, history, sagaVars, workerVars
<1>4. ASSUME NEW c \in Configs, ConfigOpBegin(c)
      PROVE  Effect /\ UNCHANGED <<status, pc, remote, remoteBy>>
  BY <1>4 DEF ConfigOpBegin, Effect, Fades, MoneySame, wallet, intent, panel, history, sagaVars,
              workerVars
<1>5. ASSUME NEW c \in Configs, ConfigOpEnd(c)
      PROVE  Effect /\ UNCHANGED <<status, pc, remote, remoteBy>>
  <2>1. Fades BY <1>5, StoreAssumption DEF ConfigOpEnd, Fades, panel, history, PanelType
  <2> QED BY <1>5, <2>1 DEF ConfigOpEnd, Effect, MoneySame, wallet, intent, sagaVars, workerVars
<1>6. ASSUME NEW c \in Configs, PanelWorld(c)
      PROVE  Effect /\ UNCHANGED <<status, pc, remote, remoteBy>>
  <2>1. Fades BY <1>6, StoreAssumption DEF PanelWorld, PanelSet, Fades, history, PanelType
  <2> QED BY <1>6, <2>1 DEF PanelWorld, PanelSet, Effect, MoneySame, wallet, intent, sagaVars,
                 workerVars
<1> QED BY <1>1, <1>2, <1>3, <1>4, <1>5, <1>6 DEF Environment

-----------------------------------------------------------------------------
(* Whatever a step does, the panel shows and a worker knows only grants.   *)
LEMMA GrantsGrow ==
  ASSUME Typed, GrantedFirst, Effect
  PROVE  /\ delivered \subseteq delivered'
         /\ \A c \in Configs :
              /\ plan'[c] \in Intents => plan'[c] \in delivered'
              /\ maker'[c] \in Intents => maker'[c] \in delivered'
<1> USE StoreAssumption DEF Typed, GrantedFirst
<1>1. CASE Fades BY <1>1 DEF Fades
<1>2. CASE GrantStep
  <2>1. PICK i \in Intents : PanelCreate(i) \/ PanelUpdate(i) BY <1>2 DEF GrantStep
  <2>2. CASE PanelCreate(i) BY <2>2 DEF PanelCreate, PanelType
  <2>3. CASE PanelUpdate(i) BY <2>3 DEF PanelUpdate, PanelType
  <2> QED BY <2>1, <2>2, <2>3
<1>3. CASE UNCHANGED <<plan, maker, delivered>> BY <1>3
<1> QED BY <1>1, <1>2, <1>3 DEF Effect

LEMMA InitGranted == Init => GrantedFirst
  BY StoreAssumption
     DEF Init, StoreInit, SagaInit, WorkerInit, GrantedFirst, PaidMeansDelivered, NoSight

LEMMA NextGranted == Typed /\ GrantedFirst /\ [Next]_vars => GrantedFirst'
<1> SUFFICES ASSUME Typed, GrantedFirst, [Next]_vars PROVE GrantedFirst'
  OBVIOUS
<1>1. CASE UNCHANGED vars
  BY <1>1 DEF GrantedFirst, PaidMeansDelivered, vars, storeVars, sagaVars, workerVars, intent,
              panel, history
<1>2. ASSUME NEW i \in Intents, Saga(i) PROVE GrantedFirst'
  <2>1. Effect /\ Progress(i) BY <1>2, SagaEffects
  <2>2. UNCHANGED <<remote, remoteBy>> BY <1>2 DEF Saga, workerVars
  <2> QED BY <2>1, <2>2, GrantsGrow DEF GrantedFirst, PaidMeansDelivered, Progress
<1>3. ASSUME NEW w \in Workers, Worker(w) PROVE GrantedFirst'
  <2>1. UNCHANGED pc BY <1>3 DEF Worker, sagaVars
  <2>2. "absent" \notin Intents /\ "nobody" \notin Intents BY StoreAssumption
  <2> QED BY <1>3, <2>1, <2>2, WorkerEffects, GrantsGrow DEF GrantedFirst, PaidMeansDelivered
<1>4. CASE Sweep \/ Environment
  BY <1>4, WorldEffects, GrantsGrow DEF GrantedFirst, PaidMeansDelivered
<1> QED BY <1>1, <1>2, <1>3, <1>4 DEF Next

(* Nobody pays for a purchase the panel never applied, in every instance.  *)
THEOREM PaidDelivered == Spec => []PaidMeansDelivered
<1>1. Typed /\ GrantedFirst => PaidMeansDelivered BY DEF GrantedFirst
<1> QED BY <1>1, InitTyped, NextTyped, InitGranted, NextGranted, PTL DEF Spec
-----------------------------------------------------------------------------
(* The wallet.  At most one purchase of a user is pending, so the reserved *)
(* column is known exactly, and each transaction keeps it so.              *)

LEMMA NextEffect ==
  ASSUME Typed, GrantedFirst, [Next]_vars
  PROVE  Effect
<1>1. CASE UNCHANGED vars
  BY <1>1 DEF vars, storeVars, wallet, intent, panel, history, Effect, Fades, MoneySame
<1>2. CASE Next
  BY <1>2, SagaEffects, WorkerEffects, WorldEffects DEF Next
<1> QED BY <1>1, <1>2

LEMMA InitBacked == Init => ReservationBacked
  BY StoreAssumption DEF Init, StoreInit, ReservationBacked

LEMMA MoneyBacked ==
  ASSUME Typed, ReservationBacked, MoneyStep
  PROVE  ReservationBacked'
<1> USE StoreAssumption DEF Typed, WalletType, IntentType, ReservationBacked
<1>1. ASSUME NEW i \in Intents, ReserveTx(i) PROVE ReservationBacked'
  BY <1>1 DEF ReserveTx, NoPending
<1>2. ASSUME NEW i \in Intents, SettleCompleted(i) PROVE ReservationBacked'
  BY <1>2 DEF SettleCompleted, Covered
<1>3. ASSUME NEW i \in Intents, ReleaseTx(i) PROVE ReservationBacked'
  BY <1>3 DEF ReleaseTx
<1>4. ASSUME NEW i \in Intents, BonusTx(i) PROVE ReservationBacked'
  BY <1>4 DEF BonusTx
<1>5. ASSUME NEW u \in Users, NEW d \in {-1, 1}, WalletMove(u, d) PROVE ReservationBacked'
  BY <1>5 DEF WalletMove, intent
<1> QED BY <1>1, <1>2, <1>3, <1>4, <1>5 DEF MoneyStep

LEMMA NextBacked == Typed /\ GrantedFirst /\ ReservationBacked /\ [Next]_vars => ReservationBacked'
<1> SUFFICES ASSUME Typed, GrantedFirst, ReservationBacked, [Next]_vars
             PROVE  ReservationBacked'
  OBVIOUS
<1>1. CASE MoneySame BY <1>1 DEF MoneySame, ReservationBacked
<1>2. CASE MoneyStep BY <1>2, MoneyBacked
<1> QED BY <1>1, <1>2, NextEffect DEF Effect, GrantStep

(* No reservation is leaked or released twice, whatever fails.             *)
THEOREM WalletBacked == Spec => []ReservationBacked
  BY InitTyped, NextTyped, InitGranted, NextGranted, InitBacked, NextBacked, PTL DEF Spec

(* The balance, to the unit.  Only finitely many purchases exist at a time,*)
(* and the bonus is marked exactly where its ledger row is.                *)

Paid(u)   == {i \in Intents : Buyer[i] = u /\ status[i] = "completed"}
Bonused(u) == {i \in Intents : Buyer[i] = u /\ bonusAt[i]}
Begun == {i \in Intents : status[i] # "none"}

Books ==
  /\ WalletAddsUp
  /\ IsFiniteSet(Begun)
  /\ \A i \in Intents :
       /\ bonusAt[i] <=> i \in rewarded
       /\ bonusAt[i] => status[i] = "completed"

LEMMA InitBooks == Init => Books
<1> SUFFICES ASSUME Init PROVE Books
  OBVIOUS
<1> USE StoreAssumption DEF Init, StoreInit
<1>1. Begun = {} /\ \A u \in Users : Paid(u) = {} /\ Bonused(u) = {}
  BY DEF Begun, Paid, Bonused
<1>2. SumOver(Price, {}) = 0 /\ SumOver(Cashback, {}) = 0 BY SumEmpty
<1>3. ASSUME NEW u \in Users
      PROVE  balance[u] = Funds[u] + moved[u] - SumOver(Price, Paid(u)) + SumOver(Cashback, Bonused(u))
  <2>1. Funds[u] \in Nat /\ balance[u] = Funds[u] /\ moved[u] = 0 OBVIOUS
  <2>2. Paid(u) = {} /\ Bonused(u) = {} BY <1>1
  <2> HIDE DEF Init, StoreInit
  <2> QED BY <1>2, <2>1, <2>2
<1>4. WalletAddsUp BY <1>3 DEF WalletAddsUp, Paid, Bonused
<1> QED BY <1>1, <1>4, FS_EmptySet DEF Books

LEMMA BooksFinite ==
  ASSUME Typed, Books, NEW u \in Users
  PROVE  /\ IsFiniteSet(Paid(u)) /\ IsFiniteSet(Bonused(u))
         /\ SumOver(Price, Paid(u)) \in Int /\ SumOver(Cashback, Bonused(u)) \in Int
<1>1. Paid(u) \subseteq Begun /\ Bonused(u) \subseteq Begun
  BY DEF Books, Paid, Bonused, Begun
<1>2. IsFiniteSet(Paid(u)) /\ IsFiniteSet(Bonused(u))
  BY <1>1, FS_Subset DEF Books
<1>3. \A i \in Begun : Price[i] \in Int /\ Cashback[i] \in Int
  BY StoreAssumption DEF Begun
<1> QED BY <1>1, <1>2, <1>3, SumType

LEMMA MoneyBooks ==
  ASSUME Typed, Books, MoneyStep
  PROVE  Books'
<1> USE StoreAssumption DEF Typed, WalletType, IntentType
<1> DEFINE Sums(u) == balance[u] = Funds[u] + moved[u] - SumOver(Price, Paid(u))
                                     + SumOver(Cashback, Bonused(u))
<1>a. \A u \in Users : Sums(u) BY DEF Books, WalletAddsUp, Paid, Bonused
<1>b. (\A u \in Users : Sums(u)') => WalletAddsUp' BY DEF WalletAddsUp, Paid, Bonused
<1>c. IsFiniteSet(Begun) BY DEF Books
<1>1. ASSUME NEW i \in Intents, ReserveTx(i) PROVE Books'
  <2>1. Begun' = Begun \cup {i} BY <1>1 DEF ReserveTx, Begun
  <2>2. IsFiniteSet(Begun') BY <1>c, <2>1, FS_AddElement
  <2>3. \A u \in Users : Paid(u)' = Paid(u) /\ Bonused(u)' = Bonused(u)
    BY <1>1 DEF ReserveTx, Paid, Bonused
  <2>4. \A u \in Users : Sums(u)' BY <1>1, <1>a, <2>3 DEF ReserveTx
  <2>5. \A j \in Intents : /\ bonusAt'[j] <=> j \in rewarded'
                           /\ bonusAt'[j] => status'[j] = "completed"
    BY <1>1 DEF ReserveTx, Books
  <2> QED BY <1>b, <2>2, <2>4, <2>5 DEF Books
<1>2. ASSUME NEW i \in Intents, SettleCompleted(i) PROVE Books'
  <2>1. Begun' = Begun BY <1>2 DEF SettleCompleted, Begun
  <2>2. \A u \in Users : Bonused(u)' = Bonused(u)
    BY <1>2 DEF SettleCompleted, Bonused
  <2>3. \A u \in Users \ {Buyer[i]} : Paid(u)' = Paid(u)
    BY <1>2 DEF SettleCompleted, Paid
  <2>4. Paid(Buyer[i])' = Paid(Buyer[i]) \cup {i} /\ i \notin Paid(Buyer[i])
    BY <1>2 DEF SettleCompleted, Paid
  <2>5. SumOver(Price, Paid(Buyer[i])') = SumOver(Price, Paid(Buyer[i])) + Price[i]
    <3>1. \A j \in Paid(Buyer[i]) \cup {i} : Price[j] \in Int BY DEF Paid
    <3> QED BY <2>4, <3>1, BooksFinite, SumAdd
  <2>6. ASSUME NEW u \in Users PROVE Sums(u)'
    <3>1. CASE u = Buyer[i]
      BY <1>2, <1>a, <2>2, <2>5, <3>1, BooksFinite DEF SettleCompleted
    <3>2. CASE u # Buyer[i]
      BY <1>2, <1>a, <2>2, <2>3, <3>2, BooksFinite DEF SettleCompleted
    <3> QED BY <3>1, <3>2
  <2>7. \A j \in Intents : /\ bonusAt'[j] <=> j \in rewarded'
                           /\ bonusAt'[j] => status'[j] = "completed"
    BY <1>2 DEF SettleCompleted, Books
  <2> QED BY <1>b, <1>c, <2>1, <2>6, <2>7 DEF Books
<1>3. ASSUME NEW i \in Intents, ReleaseTx(i) PROVE Books'
  <2>1. Begun' = Begun BY <1>3 DEF ReleaseTx, Begun
  <2>2. \A u \in Users : Paid(u)' = Paid(u) /\ Bonused(u)' = Bonused(u)
    BY <1>3 DEF ReleaseTx, Paid, Bonused
  <2>3. \A u \in Users : Sums(u)' BY <1>3, <1>a, <2>2 DEF ReleaseTx
  <2>4. \A j \in Intents : /\ bonusAt'[j] <=> j \in rewarded'
                           /\ bonusAt'[j] => status'[j] = "completed"
    BY <1>3 DEF ReleaseTx, Books
  <2> QED BY <1>b, <1>c, <2>1, <2>3, <2>4 DEF Books
<1>4. ASSUME NEW i \in Intents, BonusTx(i) PROVE Books'
  <2>1. Begun' = Begun /\ \A u \in Users : Paid(u)' = Paid(u)
    BY <1>4 DEF BonusTx, Begun, Paid
  <2>2. CASE UNCHANGED <<bonusAt, rewarded, balance>>
    <3>1. \A u \in Users : Bonused(u)' = Bonused(u) BY <2>2 DEF Bonused
    <3>2. \A u \in Users : Sums(u)' BY <1>4, <1>a, <2>1, <2>2, <3>1 DEF BonusTx
    <3>3. UNCHANGED status BY <1>4 DEF BonusTx
    <3> QED BY <1>b, <1>c, <2>1, <2>2, <3>2, <3>3 DEF Books
  <2>3. CASE status[i] = "completed" /\ ~bonusAt[i]
    <3>1. /\ i \notin rewarded /\ rewarded' = rewarded \cup {i}
          /\ bonusAt' = [bonusAt EXCEPT ![i] = TRUE]
          /\ balance' = [balance EXCEPT ![Buyer[i]] = @ + Cashback[i]]
          /\ UNCHANGED <<status, moved>>
      BY <1>4, <2>3 DEF BonusTx, Books
    <3>2. \A u \in Users \ {Buyer[i]} : Bonused(u)' = Bonused(u) BY <3>1 DEF Bonused
    <3>3. Bonused(Buyer[i])' = Bonused(Buyer[i]) \cup {i} /\ i \notin Bonused(Buyer[i])
      BY <2>3, <3>1 DEF Bonused
    <3>4. SumOver(Cashback, Bonused(Buyer[i])')
            = SumOver(Cashback, Bonused(Buyer[i])) + Cashback[i]
      <4>1. \A j \in Bonused(Buyer[i]) \cup {i} : Cashback[j] \in Int BY DEF Bonused
      <4> QED BY <3>3, <4>1, BooksFinite, SumAdd
    <3>5. ASSUME NEW u \in Users PROVE Sums(u)'
      <4>1. CASE u = Buyer[i] BY <1>a, <2>1, <3>1, <3>4, <4>1, BooksFinite
      <4>2. CASE u # Buyer[i] BY <1>a, <2>1, <3>1, <3>2, <4>2, BooksFinite
      <4> QED BY <4>1, <4>2
    <3>6. \A j \in Intents : /\ bonusAt'[j] <=> j \in rewarded'
                             /\ bonusAt'[j] => status'[j] = "completed"
      BY <2>3, <3>1 DEF Books
    <3> QED BY <1>b, <1>c, <2>1, <3>5, <3>6 DEF Books
  <2> QED BY <1>4, <2>2, <2>3 DEF BonusTx
<1>5. ASSUME NEW w \in Users, NEW d \in {-1, 1}, WalletMove(w, d) PROVE Books'
  <2>1. UNCHANGED <<status, bonusAt, rewarded>> BY <1>5 DEF WalletMove, intent
  <2>2. Begun' = Begun /\ \A u \in Users : Paid(u)' = Paid(u) /\ Bonused(u)' = Bonused(u)
    BY <2>1 DEF Begun, Paid, Bonused
  <2>3. ASSUME NEW u \in Users PROVE Sums(u)'
    BY <1>5, <1>a, <2>2, BooksFinite DEF WalletMove
  <2> QED BY <1>b, <1>c, <2>1, <2>2, <2>3 DEF Books
<1> QED BY <1>1, <1>2, <1>3, <1>4, <1>5 DEF MoneyStep

LEMMA NextBooks == Typed /\ GrantedFirst /\ Books /\ [Next]_vars => Books'
<1> SUFFICES ASSUME Typed, GrantedFirst, Books, [Next]_vars PROVE Books'
  OBVIOUS
<1>1. CASE MoneySame BY <1>1 DEF MoneySame, Books, WalletAddsUp, Begun
<1>2. CASE MoneyStep BY <1>2, MoneyBooks
<1> QED BY <1>1, <1>2, NextEffect DEF Effect, GrantStep

(* Whatever fails, a balance is the opening balance and what others moved, *)
(* less the price of every completed purchase, once, plus its cashback     *)
(* once the bonus is marked - for any number of purchases.                 *)
THEOREM BalanceAddsUp == Spec => []WalletAddsUp
<1>1. Books => WalletAddsUp BY DEF Books
<1> QED BY <1>1, InitTyped, NextTyped, InitGranted, NextGranted, InitBooks, NextBooks, PTL
        DEF Spec

(* Settled for good: the transactions start from a pending intent, and the *)
(* bonus goes to a completed one.                                          *)

RewardedCompleted == \A i \in rewarded : status[i] = "completed"

SettledStep ==
  \A i \in Intents :
    /\ status[i] \in {"completed", "failed"} => status'[i] = status[i]
    /\ i \in rewarded => i \in rewarded'
    /\ i \in rewarded' => status[i] = "completed"

LEMMA EffectSettled ==
  ASSUME Typed, RewardedCompleted, Effect
  PROVE  SettledStep /\ RewardedCompleted'
<1> USE DEF Typed, WalletType, IntentType, RewardedCompleted, SettledStep
<1>1. CASE MoneySame BY <1>1 DEF MoneySame
<1>2. ASSUME NEW i \in Intents, ReserveTx(i) PROVE SettledStep /\ RewardedCompleted'
  BY <1>2 DEF ReserveTx
<1>3. ASSUME NEW i \in Intents, SettleCompleted(i) PROVE SettledStep /\ RewardedCompleted'
  BY <1>3 DEF SettleCompleted
<1>4. ASSUME NEW i \in Intents, ReleaseTx(i) PROVE SettledStep /\ RewardedCompleted'
  BY <1>4 DEF ReleaseTx
<1>5. ASSUME NEW i \in Intents, BonusTx(i) PROVE SettledStep /\ RewardedCompleted'
  BY <1>5 DEF BonusTx
<1>6. ASSUME NEW u \in Users, NEW d \in {-1, 1}, WalletMove(u, d)
      PROVE  SettledStep /\ RewardedCompleted'
  BY <1>6 DEF WalletMove, intent
<1> QED BY <1>1, <1>2, <1>3, <1>4, <1>5, <1>6 DEF Effect, GrantStep, MoneyStep

(* A settled purchase keeps its outcome, and is rewarded at most once and  *)
(* only when it is completed.                                              *)
THEOREM SettledOnce == Spec => SettledForGood
<1>1. Init => RewardedCompleted BY DEF Init, StoreInit, RewardedCompleted
<1>2. Typed /\ GrantedFirst /\ RewardedCompleted /\ [Next]_vars
        => SettledStep /\ RewardedCompleted'
  BY NextEffect, EffectSettled
<1>3. SettledForGood <=> [][SettledStep]_vars BY DEF SettledForGood, SettledStep
<1> QED BY <1>1, <1>2, <1>3, InitTyped, NextTyped, InitGranted, NextGranted, PTL DEF Spec

-----------------------------------------------------------------------------
(* The purchase implements its contract.                                   *)

LEMMA HoldingGranted == Typed /\ GrantedFirst => Holding \subseteq delivered
  BY StoreAssumption DEF Typed, GrantedFirst, Holding

LEMMA InitContract == Init => Loose!Init
  BY StoreAssumption DEF Init, StoreInit, Loose!Init, Holding

LEMMA BackedCovers == ReservationBacked => \A u \in Users : balance[u] >= reserved[u]
  BY DEF ReservationBacked

LEMMA MoneyContract ==
  ASSUME Typed, GrantedFirst, ReservationBacked, MoneyStep, UNCHANGED <<plan, maker, delivered>>,
         \A i \in Intents : SettleCompleted(i) => i \in delivered
  PROVE  [Loose!Next]_(Loose!vars)
<1> USE StoreAssumption DEF Typed, WalletType, IntentType, ReservationBacked, Loose!Next,
        Loose!vars
<1>0. UNCHANGED <<delivered, Holding>> BY DEF Holding
<1>1. ASSUME NEW i \in Intents, ReserveTx(i) PROVE Loose!Next
  BY <1>0, <1>1 DEF ReserveTx, NoPending, Loose!Reserve
<1>2. ASSUME NEW i \in Intents, SettleCompleted(i) PROVE Loose!Next
  BY <1>0, <1>2 DEF SettleCompleted, Loose!Charge
<1>3. ASSUME NEW i \in Intents, ReleaseTx(i) PROVE Loose!Next
  BY <1>0, <1>3 DEF ReleaseTx, Loose!Release
<1>4. ASSUME NEW i \in Intents, BonusTx(i) PROVE [Loose!Next]_(Loose!vars)
  <2>1. CASE UNCHANGED balance BY <1>0, <1>4, <2>1 DEF BonusTx
  <2>2. CASE balance' = [balance EXCEPT ![Buyer[i]] = @ + Cashback[i]]
    <3>1. Buyer[i] \in Users /\ Cashback[i] \in Nat OBVIOUS
    <3>2. Loose!Credit(Buyer[i]) BY <1>0, <1>4, <2>2, <3>1, BackedCovers DEF BonusTx, Loose!Credit
    <3> QED BY <3>1, <3>2
  <2> QED BY <1>4, <2>1, <2>2 DEF BonusTx
<1>5. ASSUME NEW u \in Users, NEW d \in {-1, 1}, WalletMove(u, d) PROVE Loose!Next
  <2>1. Loose!Credit(u) BY <1>0, <1>5 DEF WalletMove, intent, Loose!Credit
  <2> QED BY <2>1
<1> QED BY <1>1, <1>2, <1>3, <1>4, <1>5 DEF MoneyStep

LEMMA PanelContract ==
  ASSUME Typed, GrantedFirst, GrantStep \/ (Fades /\ MoneySame)
  PROVE  [Loose!Next]_(Loose!vars)
<1> USE StoreAssumption DEF Loose!Next, Loose!Panel
<1>0. Holding \subseteq delivered BY HoldingGranted
<1>1. CASE GrantStep
  <2>1. PICK i \in Intents : pc[i] # "idle" /\ (PanelCreate(i) \/ PanelUpdate(i))
    BY <1>1 DEF GrantStep
  <2>2. Holding' \ Holding \subseteq {i} /\ i \in Holding'
    BY <2>1 DEF PanelCreate, PanelUpdate, Holding, Typed, PanelType
  <2>3. delivered' = delivered \cup {i}
    BY <2>1 DEF PanelCreate, PanelUpdate
  <2>4. status[i] # "none" BY <2>1 DEF GrantedFirst
  <2> QED BY <1>0, <1>1, <2>2, <2>3, <2>4 DEF GrantStep, MoneySame, Holding
<1>2. CASE Fades /\ MoneySame
  <2>1. Holding' \subseteq Holding BY <1>2 DEF Fades, Holding
  <2> QED BY <1>0, <1>2, <2>1 DEF Fades, MoneySame, Holding
<1> QED BY <1>1, <1>2

LEMMA SettlesGranted ==
  ASSUME Typed, GrantedFirst, [Next]_vars, NEW i \in Intents, SettleCompleted(i)
  PROVE  i \in delivered
<1>0. status[i] = "pending" /\ status'[i] = "completed"
  BY DEF SettleCompleted, Typed, IntentType
<1>1. CASE UNCHANGED vars BY <1>0, <1>1 DEF vars, storeVars, intent
<1>2. ASSUME NEW j \in Intents, Saga(j) PROVE i \in delivered
  BY <1>0, <1>2, SagaEffects DEF Progress, GrantedFirst
<1>3. ASSUME NEW w \in Workers, Worker(w) PROVE i \in delivered
  BY <1>0, <1>3, WorkerEffects
<1>4. CASE Sweep \/ Environment BY <1>0, <1>4, WorldEffects
<1> QED BY <1>1, <1>2, <1>3, <1>4 DEF Next

LEMMA NextContract ==
  Typed /\ GrantedFirst /\ ReservationBacked /\ [Next]_vars => [Loose!Next]_(Loose!vars)
<1> SUFFICES ASSUME Typed, GrantedFirst, ReservationBacked, [Next]_vars
             PROVE  [Loose!Next]_(Loose!vars)
  OBVIOUS
<1>1. CASE MoneyStep /\ UNCHANGED <<plan, maker, delivered>>
  BY <1>1, MoneyContract, SettlesGranted
<1>2. CASE GrantStep \/ (Fades /\ MoneySame) BY <1>2, PanelContract
<1> QED BY <1>1, <1>2, NextEffect DEF Effect

(* Whatever crashes, stalls or is lost, and whatever others do to wallets  *)
(* and panel: a purchase reserves once, is charged only for what the panel *)
(* granted, and settles once.                                              *)
THEOREM ContractImplemented == Spec => ImplementsContract
  BY InitTyped, NextTyped, InitGranted, NextGranted, InitBacked, NextBacked, InitContract,
     NextContract, PTL DEF Spec, ImplementsContract, Loose!Spec
-----------------------------------------------------------------------------
(* Who works on a purchase.  While processes keep their leases, a purchase *)
(* is in one hand at a time: its foreground's as long as that runs, and    *)
(* then at most one worker's.                                              *)

(* The commit was not acknowledged: a call undoes what it has completed.   *)
Unheard(i) ==
  "ackLost" \in Faults /\ status[i] = "completed" /\ pc[i] \in {"undo", "unreserve", "keep"}

OneHand ==
  \A i \in Intents :
    /\ pc[i] = "idle" => status[i] = "none"
    /\ Running(i) /\ pc[i] # "bonus" => (status[i] = "pending" /\ lease[i]) \/ Unheard(i)
    /\ pc[i] = "bonus" => status[i] = "completed"
    /\ \A w \in Workers : Holds(w, i) => status[i] = "pending" /\ lease[i] /\ ~Running(i)
    /\ \A v, w \in Workers : Holds(v, i) /\ Holds(w, i) => v = w

LEMMA InitOneHand == Init => OneHand
  BY DEF Init, StoreInit, SagaInit, WorkerInit, OneHand, Running, Holds

(* A call under way is in its own hand: its intent is pending, so that it  *)
(* never finds it settled by another, if not by its own commit.            *)
LEMMA InHand ==
  ASSUME Typed, OneHand, NEW i \in Intents, Saga(i)
  PROVE  /\ \A w \in Workers : ~Holds(w, i)
         /\ pc[i] = "idle" => status[i] = "none"
         /\ pc[i] = "bonus" => status[i] = "completed"
         /\ pc[i] \notin {"idle", "bonus"} =>
              Running(i) /\ ((status[i] = "pending" /\ lease[i]) \/ Unheard(i))
<1>1. pc[i] # "done"
  BY DEF Saga, SagaStep, SagaWork, Reserve, TakeLock, LockBusy, Inspect, Snapshot, Arm, NextCall,
         CallCreate, CallReset, CallUpdate, Commit, Undo, ReleaseAfterUndo, ReleaseAfterError,
         Unreserve, Keep, Bonus, Crash, Running
<1> QED BY <1>1 DEF OneHand, Running

(* What a step of call i leaves behind.                                    *)
LeftInHand(i) ==
  /\ \A j \in Intents \ {i} : pc'[j] = pc[j] /\ status'[j] = status[j] /\ lease'[j] = lease[j]
  /\ pc'[i] # "idle"
  /\ pc'[i] \notin {"done", "bonus"} => (status'[i] = "pending" /\ lease'[i]) \/ Unheard(i)'
  /\ pc'[i] = "bonus" => status'[i] = "completed"

LEMMA SagaInHand ==
  ASSUME Typed, OneHand, NEW i \in Intents, Saga(i)
  PROVE  LeftInHand(i)
<1> USE DEF Typed, LeftInHand
<1>a. \A step \in Steps : Goto(i, step) =>
        pc'[i] = step /\ \A j \in Intents \ {i} : pc'[j] = pc[j]
  BY DEF Goto, SagaTypeOK
<1>b. \A answer \in Answers : Finish(i, answer) =>
        pc'[i] = "done" /\ \A j \in Intents \ {i} : pc'[j] = pc[j]
  BY DEF Finish, SagaTypeOK
<1>c. DbSame \/ StoreSame => UNCHANGED <<status, lease>> BY DEF DbSame, StoreSame, intent
<1>d. /\ pc[i] = "bonus" => status[i] = "completed"
      /\ pc[i] \notin {"idle", "bonus"} => (status[i] = "pending" /\ lease[i]) \/ Unheard(i)
      /\ pc[i] \notin {"idle", "bonus", "undo", "unreserve", "keep"}
           => status[i] = "pending" /\ lease[i]
      /\ ~Unheard(i) /\ pc[i] \in {"undo", "unreserve", "keep"} => status[i] = "pending"
  BY InHand DEF Unheard
<1>h. Unheard(i) /\ UNCHANGED status /\ pc'[i] \in {"undo", "unreserve", "keep"} => Unheard(i)'
  BY DEF Unheard
<1>1. CASE Reserve(i) BY <1>1 DEF Reserve, ReserveTx, IntentType, SagaTypeOK
<1>2. CASE TakeLock(i) BY <1>2, <1>c, <1>d DEF TakeLock, SagaTypeOK
<1>3. CASE LockBusy(i) BY <1>3, <1>b, <1>c DEF LockBusy, Answers
<1>4. CASE Inspect(i) BY <1>4, <1>a, <1>c, <1>d DEF Inspect, SagaTypeOK, Steps
<1>5. CASE Snapshot(i) BY <1>5, <1>a, <1>d DEF Snapshot, AlreadySettled, Steps
<1>6. CASE Arm(i)
  <2>1. NextCall[pc[i]] \in Steps \ {"idle", "done", "bonus"} BY <1>6 DEF Arm, NextCall, Steps
  <2> QED BY <1>6, <1>a, <1>d, <2>1 DEF Arm, NextCall, IntentType
<1>7. CASE CallCreate(i) BY <1>7, <1>a, <1>c, <1>d DEF CallCreate, Steps
<1>8. CASE CallReset(i) BY <1>8, <1>a, <1>c, <1>d DEF CallReset, Steps
<1>9. CASE CallUpdate(i) BY <1>9, <1>a, <1>c, <1>d DEF CallUpdate, Steps
<1>10. CASE Commit(i)
  <2>1. CASE SettleCompleted(i) /\ (Goto(i, "bonus") \/ ("ackLost" \in Faults /\ AfterFailedCommit(i)))
    BY <1>a, <2>1 DEF SettleCompleted, IntentType, Steps, AfterFailedCommit, Unheard
  <2>2. CASE AfterFailedCommit(i) /\ StoreSame
    BY <1>10, <1>a, <1>c, <1>d, <2>2 DEF Commit, AfterFailedCommit, Steps
  <2> QED BY <1>10, <1>d, <2>1, <2>2 DEF Commit, AlreadySettled
<1>11. CASE Undo(i) BY <1>11, <1>a, <1>c, <1>d, <1>h DEF Undo, Steps
<1>12. CASE ReleaseAfterUndo(i) \/ ReleaseAfterError(i)
  BY <1>12, <1>a, <1>b, <1>c, <1>d, <1>h DEF ReleaseAfterUndo, ReleaseAfterError, Unreserve, ReleaseTx,
     IntentType, Steps, Answers
<1>13. CASE Keep(i) BY <1>13, <1>b DEF Keep, KeepPendingTx, IntentType, Answers
<1>14. CASE Bonus(i) BY <1>14, <1>b, <1>c DEF Bonus, BonusTx, Answers
<1>15. CASE Crash(i) BY <1>15, <1>b, <1>c DEF Crash, Answers
<1> QED BY <1>1, <1>2, <1>3, <1>4, <1>5, <1>6, <1>7, <1>8, <1>9, <1>10, <1>11, <1>12,
           <1>13, <1>14, <1>15 DEF Saga, SagaStep, SagaWork

(* What a worker does to the purchases.                                    *)
LEMMA WorkerInHand ==
  ASSUME Typed, OneHand, NEW w \in Workers, Worker(w)
  PROVE  OneHand'
<1> USE DEF Typed, OneHand, Holds, Unheard
<1>0. UNCHANGED pc /\ \A i \in Intents : Running(i)' = Running(i)
  BY DEF Worker, sagaVars, Running
<1>d. at[w] # "idle" => job[w] \in Intents BY DEF JobOK
<1>r. ASSUME Rest(w) PROVE /\ at'[w] = "idle"
                           /\ \A v \in Workers \ {w} : at'[v] = at[v] /\ job'[v] = job[v]
  BY <1>r DEF Rest, WorkerTypeOK
<1>s. ASSUME NEW place \in {"lookup", "bonus"}, Stand(w, place)
      PROVE  /\ at'[w] = place /\ UNCHANGED job
             /\ \A v \in Workers \ {w} : at'[v] = at[v]
  BY <1>s DEF Stand, WorkerTypeOK
<1>1. ASSUME NEW i \in Intents, Select(w, i) PROVE OneHand'
  BY <1>0, <1>1 DEF Select, WorkerTypeOK, storeVars, intent
<1>2. CASE Claim(w)
  <2>1. job[w] \in Intents BY <1>2, <1>d DEF Claim
  <2>2. CASE status[job[w]] = "pending" /\ ~lease[job[w]] /\ Stand(w, "lookup")
             /\ lease' = [lease EXCEPT ![job[w]] = TRUE]
    <3>1. ~Running(job[w]) BY <2>1, <2>2
    <3> QED BY <1>0, <1>2, <1>s, <2>1, <2>2, <3>1 DEF Claim, IntentType
  <2>3. CASE Rest(w) /\ UNCHANGED lease BY <1>0, <1>2, <1>r, <2>3 DEF Claim
  <2> QED BY <1>2, <2>2, <2>3 DEF Claim
<1>3. CASE Lookup(w)
  <2>1. job[w] \in Intents BY <1>3, <1>d DEF Lookup
  <2> QED BY <1>0, <1>3, <2>1 DEF Lookup, WorkerTypeOK, storeVars, intent
<1>4. ASSUME at[w] \in {"lookup", "settle"}, Rest(w),
             \A j \in Intents \ {job[w]} : status'[j] = status[j] /\ lease'[j] = lease[j],
             status'[job[w]] # "none" \/ UNCHANGED status
      PROVE  OneHand'
  <2>1. job[w] \in Intents /\ Holds(w, job[w]) BY <1>4, <1>d
  <2> QED BY <1>0, <1>4, <1>r, <2>1 DEF Running
<1>5. CASE LookupUnknown(w)
  BY <1>4, <1>5, <1>d DEF LookupUnknown, IntentType
<1>6. CASE Complete(w)
  <2>1. job[w] \in Intents BY <1>6, <1>d DEF Complete
  <2>2. CASE SettleCompleted(job[w]) /\ Stand(w, "bonus")
    <3>1. Holds(w, job[w]) BY <1>6, <2>1 DEF Complete
    <3> QED BY <1>0, <1>s, <2>1, <2>2, <3>1 DEF SettleCompleted, IntentType, Running
  <2>3. CASE Rest(w) /\ UNCHANGED storeVars BY <1>4, <1>6, <2>3 DEF Complete, storeVars, intent
  <2> QED BY <1>6, <2>2, <2>3 DEF Complete
<1>7. CASE Fail(w) BY <1>4, <1>7, <1>d DEF Fail, ReleaseTx, IntentType, storeVars, intent
<1>8. CASE Defer(w) BY <1>4, <1>8, <1>d DEF Defer, KeepPendingTx, IntentType
<1>9. ASSUME Rest(w), UNCHANGED <<status, lease>> PROVE OneHand' BY <1>0, <1>9, <1>r
<1>10. CASE SettleBonus(w) BY <1>9, <1>10 DEF SettleBonus, BonusTx
<1>11. CASE WorkerCrash(w) BY <1>9, <1>11 DEF WorkerCrash, storeVars, intent
<1> QED BY <1>1, <1>2, <1>3, <1>5, <1>6, <1>7, <1>8, <1>10, <1>11 DEF Worker, WorkerStep

LEMMA NextOneHand ==
  ASSUME "stall" \notin Faults
  PROVE  Typed /\ OneHand /\ [Next]_vars => OneHand'
<1> SUFFICES ASSUME Typed, OneHand, [Next]_vars PROVE OneHand'
  OBVIOUS
<1>1. ASSUME UNCHANGED <<status, pc, at, job>>,
             \A i \in Intents :
               lease'[i] # lease[i] => ~Running(i) /\ \A w \in Workers : ~Holds(w, i)
      PROVE  OneHand'
  BY <1>1 DEF OneHand, Running, Holds, Unheard
<1>2. CASE UNCHANGED vars
  BY <1>1, <1>2 DEF vars, storeVars, sagaVars, workerVars, intent
<1>3. ASSUME NEW i \in Intents, Saga(i) PROVE OneHand'
  <2>1. LeftInHand(i) BY <1>3, SagaInHand
  <2>2. UNCHANGED <<at, job>> BY <1>3 DEF Saga, workerVars
  <2>3. \A w \in Workers : ~Holds(w, i) BY <1>3, InHand
  <2> QED BY <2>1, <2>2, <2>3 DEF LeftInHand, OneHand, Running, Holds, Unheard
<1>4. ASSUME NEW w \in Workers, Worker(w) PROVE OneHand' BY <1>4, WorkerInHand
<1>5. CASE Sweep \/ Environment
  <2>1. UNCHANGED <<status, pc, at, job>>
    BY <1>5, WorldEffects DEF Sweep, SweepBonus, Environment, LeaseExpires, WalletMove,
       ConfigOpBegin, ConfigOpEnd, PanelWorld, PanelSet, sagaVars, workerVars
  <2>2. CASE UNCHANGED lease BY <1>1, <2>1, <2>2
  <2>3. ASSUME NEW i \in Intents, LeaseExpires(i) PROVE OneHand'
    <3>1. ~Running(i) /\ (\A w \in Workers : ~Holds(w, i))
      BY <2>3 DEF LeaseExpires
    <3>2. \A j \in Intents : lease'[j] # lease[j] => j = i
      BY <2>3 DEF LeaseExpires, Typed, IntentType
    <3> QED BY <1>1, <2>1, <3>1, <3>2
  <2>4. UNCHANGED lease \/ \E i \in Intents : LeaseExpires(i)
    BY <1>5 DEF Sweep, SweepBonus, BonusTx, Environment, WalletMove, ConfigOpBegin, ConfigOpEnd,
       PanelWorld, PanelSet, intent
  <2> QED BY <2>2, <2>3, <2>4
<1> QED BY <1>2, <1>3, <1>4, <1>5 DEF Next

-----------------------------------------------------------------------------
(* What the buyer was told.  A step that answers knows the outcome, and an *)
(* outcome never changes again.                                            *)

LEMMA AnswerKnown ==
  ASSUME Typed, OneHand, "ackLost" \notin Faults, NEW i \in Intents, Saga(i)
  PROVE  /\ \A j \in Intents \ {i} : told'[j] = told[j]
         /\ \/ told'[i] = told[i] \/ told'[i] \in {"nothing", "pending", "busy"}
            \/ told'[i] = "success" /\ status'[i] = "completed"
            \/ told'[i] \in {"failed", "notCharged"} /\ status'[i] = "failed"
<1> USE DEF Typed
<1>a. \A step \in Steps : Goto(i, step) => told' = told
  BY DEF Goto
<1>b. \A answer \in Answers : Finish(i, answer) => told' = [told EXCEPT ![i] = answer]
  BY DEF Finish
<1>d. /\ pc[i] = "bonus" => status[i] = "completed"
      /\ pc[i] \notin {"idle", "bonus"} => status[i] = "pending"
  BY InHand DEF Unheard
<1>1. CASE Reserve(i) \/ TakeLock(i) BY <1>1 DEF Reserve, TakeLock
<1>2. CASE LockBusy(i) BY <1>2, <1>b DEF LockBusy, Answers, SagaTypeOK
<1>3. CASE Inspect(i) BY <1>3, <1>a DEF Inspect, Steps
<1>4. CASE Snapshot(i) BY <1>4, <1>a, <1>d DEF Snapshot, AlreadySettled, Steps
<1>5. CASE Arm(i)
  <2>1. NextCall[pc[i]] \in Steps BY <1>5 DEF Arm, NextCall, Steps
  <2> QED BY <1>5, <1>a, <2>1 DEF Arm
<1>6. CASE CallCreate(i) \/ CallReset(i) \/ CallUpdate(i) \/ Undo(i)
  BY <1>6, <1>a DEF CallCreate, CallReset, CallUpdate, Undo, Steps
<1>7. CASE Commit(i)
  BY <1>7, <1>a, <1>d DEF Commit, AfterFailedCommit, AlreadySettled, Steps
<1>8. CASE ReleaseAfterUndo(i) \/ ReleaseAfterError(i)
  <2>1. ASSUME NEW answer \in {"failed", "notCharged"}, ReleaseTx(i), Finish(i, answer)
        PROVE  told' = [told EXCEPT ![i] = answer] /\ status'[i] = "failed"
    BY <1>b, <2>1 DEF ReleaseTx, IntentType, Answers
  <2> QED BY <1>8, <1>a, <1>d, <2>1 DEF ReleaseAfterUndo, ReleaseAfterError, Unreserve, Steps,
             SagaTypeOK
<1>9. CASE Keep(i) \/ Crash(i) BY <1>9, <1>b DEF Keep, Crash, Answers, SagaTypeOK
<1>10. CASE Bonus(i)
  <2>1. UNCHANGED status BY <1>10 DEF Bonus, BonusTx, StoreSame, intent
  <2> QED BY <1>10, <1>b, <1>d, <2>1 DEF Bonus, Answers, SagaTypeOK
<1> QED BY <1>1, <1>2, <1>3, <1>4, <1>5, <1>6, <1>7, <1>8, <1>9, <1>10
        DEF Saga, SagaStep, SagaWork

LEMMA NextAnswers ==
  ASSUME "ackLost" \notin Faults
  PROVE
  Typed /\ GrantedFirst /\ RewardedCompleted /\ OneHand /\ AnswerIsTrue /\ [Next]_vars
    => AnswerIsTrue'
<1> SUFFICES ASSUME Typed, GrantedFirst, RewardedCompleted, OneHand, AnswerIsTrue, [Next]_vars
             PROVE  AnswerIsTrue'
  OBVIOUS
<1>0. SettledStep BY NextEffect, EffectSettled
<1>1. CASE UNCHANGED told BY <1>0, <1>1 DEF SettledStep, AnswerIsTrue
<1>2. ASSUME NEW i \in Intents, Saga(i) PROVE AnswerIsTrue'
  BY <1>0, <1>2, AnswerKnown DEF SettledStep, AnswerIsTrue
<1>3. UNCHANGED told \/ \E i \in Intents : Saga(i)
  BY DEF Next, Worker, Sweep, Environment, LeaseExpires, WalletMove, ConfigOpBegin, ConfigOpEnd,
         PanelWorld, PanelSet, sagaVars, vars
<1> QED BY <1>1, <1>2, <1>3

(* While no process outlives its lease and every commit is acknowledged,   *)
(* what a buyer was told is so, then and later: "failed" and "not charged" *)
(* of a purchase that is never charged, "success" of one that is.          *)
THEOREM AnswersTrue ==
  ASSUME "stall" \notin Faults, "ackLost" \notin Faults
  PROVE  Spec => []AnswerIsTrue
<1>1. Init => RewardedCompleted /\ AnswerIsTrue
  BY DEF Init, StoreInit, SagaInit, RewardedCompleted, AnswerIsTrue
<1>2. Typed /\ GrantedFirst /\ RewardedCompleted /\ [Next]_vars => RewardedCompleted'
  BY NextEffect, EffectSettled
<1>3. Typed /\ OneHand /\ [Next]_vars => OneHand' BY NextOneHand
<1> QED BY <1>1, <1>2, <1>3, InitTyped, NextTyped, InitGranted, NextGranted, InitOneHand,
           NextAnswers, PTL DEF Spec

-----------------------------------------------------------------------------
(* What a compensation deleted stays away.                                 *)

(* Which kind of purchase stands where.                                    *)
KindKnown ==
  \A i \in Intents :
    /\ pc[i] \in {"armCreate", "callCreate", "undo", "unreserve"} => Kind[i] = "new"
    /\ pc[i] \in {"lock", "inspect", "snapshot", "armReset", "callReset", "armUpdate", "callUpdate"}
         => Kind[i] = "renew"

(* A deleted user is gone: the panel does not show it, no worker has seen  *)
(* it, and its purchase is on its way to a release or to a review.         *)
UndoneGone ==
  /\ \A c \in Configs : maker[c] \in Intents => c = Target[maker[c]]
  /\ \A i \in undone :
       /\ Kind[i] = "new" /\ status[i] # "completed"
       /\ pc[i] \in {"unreserve", "keep", "done"}
       /\ \A c \in Configs : maker[c] # i
       /\ \A w \in Workers : job[w] = i /\ at[w] = "settle" => remoteBy[w] # i

(* The steps of a call before the panel can have granted it anything.      *)
BeforeGrant ==
  {"idle", "lock", "inspect", "snapshot", "armReset", "callReset", "armUpdate", "callUpdate",
   "armCreate", "callCreate", "release"}

(* The way a call takes through its steps.                                 *)
Path(i) ==
  /\ pc'[i] \in {"armCreate", "callCreate", "undo", "unreserve"} => Kind[i] = "new"
  /\ pc'[i] \in {"lock", "inspect", "snapshot", "armReset", "callReset", "armUpdate", "callUpdate"}
       => Kind[i] = "renew"
  /\ pc[i] \in {"unreserve", "keep"} => pc'[i] \in {"keep", "done"}
  /\ pc'[i] \in BeforeGrant =>
       pc[i] \in BeforeGrant /\ ("misreport" \notin Faults => delivered' = delivered)
  /\ delivered' \subseteq delivered \cup {i}
  /\ pc'[i] = "unreserve" => plan'[Target[i]] = "absent"
  /\ \/ undone' = undone
     \/ PanelDelete(i) /\ pc[i] = "undo" /\ pc'[i] \in {"unreserve", "keep", "done"}
  /\ status'[i] = "failed" => status[i] = "failed" \/ pc[i] \in {"release", "unreserve"}

LEMMA SagaPath ==
  ASSUME Typed, OneHand, KindKnown, NEW i \in Intents, Saga(i)
  PROVE  Path(i)
<1> USE DEF Typed, Path, BeforeGrant
<1>a. \A step \in Steps : Goto(i, step) => pc'[i] = step BY DEF Goto, SagaTypeOK
<1>b. \A answer \in Answers : Finish(i, answer) => pc'[i] = "done" BY DEF Finish, SagaTypeOK
<1>c. DbSame \/ StoreSame => UNCHANGED status BY DEF DbSame, StoreSame, intent
<1>d. /\ pc[i] = "bonus" => status[i] = "completed"
      /\ pc[i] \notin {"idle", "bonus"} => status[i] \in {"pending", "completed"}
      /\ pc[i] \notin {"idle", "bonus", "undo", "unreserve", "keep"} => status[i] = "pending"
  BY InHand DEF Unheard
<1>e. StoreSame \/ UNCHANGED <<panel, history>> => UNCHANGED <<plan, delivered, undone>>
  BY DEF StoreSame, panel, history
<1>k. Kind[i] \in {"new", "renew"} BY StoreAssumption
<1>1. CASE Reserve(i)
  BY <1>1, <1>k DEF Reserve, ReserveTx, IntentType, SagaTypeOK, panel, history
<1>2. CASE TakeLock(i) BY <1>2, <1>c, <1>d, <1>e DEF TakeLock, SagaTypeOK, KindKnown
<1>3. CASE LockBusy(i) BY <1>3, <1>b, <1>c, <1>d, <1>e DEF LockBusy, Answers
<1>4. CASE Inspect(i)
  BY <1>4, <1>a, <1>c, <1>d, <1>e DEF Inspect, SagaTypeOK, Steps, KindKnown
<1>5. CASE Snapshot(i)
  BY <1>5, <1>a, <1>d, <1>e DEF Snapshot, AlreadySettled, Steps, KindKnown
<1>6. CASE Arm(i)
  <2>1. CASE pc[i] = "armReset"
    BY <1>6, <1>a, <1>d, <1>e, <2>1 DEF Arm, NextCall, Steps, KindKnown
  <2>2. CASE pc[i] = "armUpdate"
    BY <1>6, <1>a, <1>d, <1>e, <2>2 DEF Arm, NextCall, Steps, KindKnown
  <2>3. CASE pc[i] = "armCreate"
    BY <1>6, <1>a, <1>d, <1>e, <2>3 DEF Arm, NextCall, Steps, KindKnown
  <2> QED BY <1>6, <2>1, <2>2, <2>3 DEF Arm, NextCall
<1>7. CASE CallCreate(i)
  <2>1. /\ PanelCreate(i) => delivered' = delivered \cup {i} /\ undone' = undone
        /\ status[i] = "pending" /\ UNCHANGED status
    BY <1>7, <1>c, <1>d DEF PanelCreate, CallCreate
  <2> QED BY <1>7, <1>a, <1>e, <2>1 DEF CallCreate, Maybe, Steps
<1>8. CASE CallReset(i)
  <2>1. /\ PanelReset(i) => UNCHANGED <<delivered, undone>>
        /\ status[i] = "pending" /\ UNCHANGED status
    BY <1>8, <1>c, <1>d DEF PanelReset, CallReset
  <2> QED BY <1>8, <1>a, <1>e, <2>1 DEF CallReset, Maybe, Steps, KindKnown
<1>9. CASE CallUpdate(i)
  <2>1. /\ PanelUpdate(i) => delivered' = delivered \cup {i} /\ undone' = undone
        /\ status[i] = "pending" /\ UNCHANGED status
    BY <1>9, <1>c, <1>d DEF PanelUpdate, CallUpdate
  <2> QED BY <1>9, <1>a, <1>e, <2>1 DEF CallUpdate, Maybe, Steps
<1>10. CASE Commit(i)
  <2>1. CASE /\ SettleCompleted(i) /\ UNCHANGED <<panel, history>>
             /\ Goto(i, "bonus") \/ AfterFailedCommit(i)
    <3>1. pc[i] = "commit" /\ status'[i] = "completed" /\ Kind[i] \in {"new", "renew"}
      BY <1>10, <1>k, <2>1 DEF Commit, SettleCompleted, IntentType
    <3> QED BY <1>a, <1>e, <2>1, <3>1 DEF AfterFailedCommit, Steps
  <2>2. CASE AfterFailedCommit(i) /\ StoreSame
    BY <1>10, <1>a, <1>c, <1>d, <1>e, <2>2 DEF Commit, AfterFailedCommit, Steps
  <2> QED BY <1>10, <1>d, <2>1, <2>2 DEF Commit, AlreadySettled
<1>11. CASE Undo(i)
  <2>1. /\ PanelDelete(i) => delivered' = delivered /\ plan'[Target[i]] = "absent"
        /\ status[i] # "failed" /\ UNCHANGED status /\ Kind[i] = "new"
    BY <1>11, <1>c, <1>d, StoreAssumption DEF PanelDelete, Undo, PanelType, KindKnown
  <2> QED BY <1>11, <1>a, <1>e, <2>1 DEF Undo, Maybe, Steps
<1>12. CASE ReleaseAfterUndo(i) \/ ReleaseAfterError(i)
  <2>1. /\ ReleaseTx(i) => UNCHANGED <<plan, delivered, undone>>
        /\ pc[i] \in {"unreserve", "release"}
    BY <1>12, <1>d DEF ReleaseTx, panel, history, ReleaseAfterUndo, ReleaseAfterError, Unreserve
  <2> QED BY <1>12, <1>a, <1>b, <1>e, <2>1 DEF ReleaseAfterUndo, ReleaseAfterError, Unreserve,
             Steps, Answers
<1>13. CASE Keep(i)
  BY <1>13, <1>b, <1>e DEF Keep, KeepPendingTx, Answers
<1>14. CASE Bonus(i)
  BY <1>14, <1>b, <1>c, <1>d, <1>e DEF Bonus, BonusTx, Answers
<1>15. CASE Crash(i)
  <2>1. /\ PanelCreate(i) \/ PanelUpdate(i) => delivered' = delivered \cup {i} /\ undone' = undone
        /\ PanelReset(i) => UNCHANGED <<delivered, undone>>
        /\ PanelDelete(i) => delivered' = delivered
        /\ UNCHANGED status /\ pc'[i] = "done"
        /\ status[i] # "failed"
    BY <1>15, <1>b, <1>c, <1>d DEF Crash, PanelCreate, PanelUpdate, PanelReset, PanelDelete,
       Answers, Running
  <2> QED BY <1>15, <1>e, <2>1 DEF Crash
<1> QED BY <1>1, <1>2, <1>3, <1>4, <1>5, <1>6, <1>7, <1>8, <1>9, <1>10, <1>11, <1>12,
           <1>13, <1>14, <1>15 DEF Saga, SagaStep, SagaWork

(* What a worker settles, and what it has seen when it does.               *)
LEMMA WorkerSight ==
  ASSUME Typed, NEW w \in Workers, Worker(w)
  PROVE  /\ UNCHANGED <<pc, panel, history>>
         /\ \A i \in Intents :
              /\ status'[i] = "completed" /\ status[i] # "completed"
                   => job[w] = i /\ at[w] = "settle" /\ WorkerVerdict(w) = "applied"
              /\ status'[i] = "failed" /\ status[i] # "failed"
                   => job[w] = i /\ at[w] = "settle" /\ WorkerVerdict(w) = "not_applied"
         /\ \A v \in Workers : at'[v] = "settle" =>
              \/ /\ at[v] = "settle" /\ job'[v] = job[v]
                 /\ remote'[v] = remote[v] /\ remoteBy'[v] = remoteBy[v]
              \/ /\ at[v] = "lookup" /\ job'[v] = job[v] /\ job[v] \in Intents
                 /\ remote'[v] = See(Target[job[v]])
                 /\ remoteBy'[v] = maker[Target[job[v]]]
<1> DEFINE Settles ==
             \A i \in Intents :
               /\ status'[i] = "completed" /\ status[i] # "completed"
                    => job[w] = i /\ at[w] = "settle" /\ WorkerVerdict(w) = "applied"
               /\ status'[i] = "failed" /\ status[i] # "failed"
                    => job[w] = i /\ at[w] = "settle" /\ WorkerVerdict(w) = "not_applied"
           Sees ==
             \A v \in Workers : at'[v] = "settle" =>
               \/ /\ at[v] = "settle" /\ job'[v] = job[v]
                  /\ remote'[v] = remote[v] /\ remoteBy'[v] = remoteBy[v]
               \/ /\ at[v] = "lookup" /\ job'[v] = job[v] /\ job[v] \in Intents
                  /\ remote'[v] = See(Target[job[v]])
                  /\ remoteBy'[v] = maker[Target[job[v]]]
<1> USE DEF Typed
<1>0. UNCHANGED pc BY DEF Worker, sagaVars
<1>d. at[w] # "idle" => job[w] \in Intents BY DEF JobOK
<1>r. ASSUME Rest(w) \/ (\E place \in {"lookup", "bonus"} : Stand(w, place)) PROVE Sees
  BY <1>r DEF Rest, Stand, WorkerTypeOK
<1>u. /\ UNCHANGED status => Settles
      /\ UNCHANGED storeVars => Settles /\ UNCHANGED <<panel, history>>
  BY DEF storeVars, intent
<1>1. ASSUME NEW i \in Intents, Select(w, i) PROVE Settles /\ Sees /\ UNCHANGED <<panel, history>>
  <2>1. Sees BY <1>1 DEF Select, WorkerTypeOK
  <2> QED BY <1>1, <1>u, <2>1 DEF Select
<1>2. CASE Claim(w)
  <2>1. Sees BY <1>2, <1>r DEF Claim
  <2> QED BY <1>0, <1>2, <1>u, <2>1 DEF Claim
<1>3. CASE Lookup(w)
  <2>1. Sees BY <1>3, <1>d DEF Lookup, WorkerTypeOK
  <2> QED BY <1>0, <1>3, <1>u, <2>1 DEF Lookup
<1>4. CASE LookupUnknown(w)
  <2>1. Sees BY <1>4, <1>r DEF LookupUnknown
  <2> QED BY <1>0, <1>4, <1>u, <2>1 DEF LookupUnknown
<1>5. CASE Complete(w)
  <2>1. Sees BY <1>5, <1>r DEF Complete
  <2>2. Settles BY <1>5, <1>d DEF Complete, SettleCompleted, IntentType, storeVars, intent
  <2>3. UNCHANGED <<panel, history>> BY <1>5, <1>u DEF Complete
  <2> QED BY <1>0, <2>1, <2>2, <2>3
<1>6. CASE Fail(w)
  <2>1. Sees BY <1>6, <1>r DEF Fail
  <2>2. Settles BY <1>6, <1>d DEF Fail, ReleaseTx, IntentType, storeVars, intent
  <2>3. UNCHANGED <<panel, history>> BY <1>6, <1>u DEF Fail, ReleaseTx
  <2> QED BY <1>0, <2>1, <2>2, <2>3
<1>7. CASE Defer(w)
  <2>1. Sees BY <1>7, <1>r DEF Defer
  <2> QED BY <1>0, <1>7, <1>u, <2>1 DEF Defer, KeepPendingTx
<1>8. CASE SettleBonus(w)
  <2>1. Sees BY <1>8, <1>r DEF SettleBonus
  <2> QED BY <1>0, <1>8, <1>u, <2>1 DEF SettleBonus, BonusTx
<1>9. CASE WorkerCrash(w)
  <2>1. Sees BY <1>9, <1>r DEF WorkerCrash
  <2> QED BY <1>0, <1>9, <1>u, <2>1 DEF WorkerCrash
<1> QED BY <1>0, <1>1, <1>2, <1>3, <1>4, <1>5, <1>6, <1>7, <1>8, <1>9 DEF Worker, WorkerStep

LEMMA InitUndone == Init => KindKnown /\ UndoneGone
  BY StoreAssumption DEF Init, StoreInit, SagaInit, WorkerInit, KindKnown, UndoneGone

(* The maker of a panel user changes only when a purchase creates it.      *)
LEMMA MakerStep ==
  ASSUME Typed, Effect
  PROVE  \A c \in Configs :
           \/ maker'[c] = maker[c] \/ maker'[c] \notin Intents
           \/ /\ maker'[c] \in Intents /\ c = Target[maker'[c]]
              /\ pc[maker'[c]] = "callCreate"
<1> USE StoreAssumption DEF Typed, PanelType
<1>1. CASE GrantStep BY <1>1 DEF GrantStep, PanelCreate, PanelUpdate
<1>2. CASE Fades BY <1>2 DEF Fades
<1> QED BY <1>1, <1>2 DEF Effect

LEMMA WorldStill ==
  ASSUME Typed, Sweep \/ Environment
  PROVE  UNCHANGED <<status, pc, told, undone, delivered, at, job, remote, remoteBy>>
<1>1. UNCHANGED <<status, pc, remote, remoteBy>> BY WorldEffects
<1> QED BY <1>1 DEF Sweep, SweepBonus, BonusTx, Environment, LeaseExpires, WalletMove,
     ConfigOpBegin, ConfigOpEnd, PanelWorld, PanelSet, sagaVars, workerVars, history

LEMMA NextKind == Typed /\ OneHand /\ KindKnown /\ [Next]_vars => KindKnown'
<1> SUFFICES ASSUME Typed, OneHand, KindKnown, [Next]_vars PROVE KindKnown'
  OBVIOUS
<1>1. ASSUME UNCHANGED pc PROVE KindKnown' BY <1>1 DEF KindKnown
<1>2. ASSUME NEW i \in Intents, Saga(i) PROVE KindKnown'
  BY <1>2, SagaInHand, SagaPath DEF LeftInHand, Path, KindKnown
<1>3. UNCHANGED pc \/ \E i \in Intents : Saga(i)
  BY WorldStill, WorkerSight DEF Next, vars, sagaVars
<1> QED BY <1>1, <1>2, <1>3

LEMMA NextUndone ==
  ASSUME "ackLost" \notin Faults
  PROVE  Typed /\ GrantedFirst /\ OneHand /\ KindKnown /\ UndoneGone /\ [Next]_vars
           => KindKnown' /\ UndoneGone'
<1> SUFFICES ASSUME Typed, GrantedFirst, OneHand, KindKnown, UndoneGone, [Next]_vars
             PROVE  KindKnown' /\ UndoneGone'
  OBVIOUS
<1>0. Effect BY NextEffect
<1>m. \A c \in Configs :
           \/ maker'[c] = maker[c] \/ maker'[c] \notin Intents
           \/ /\ maker'[c] \in Intents /\ c = Target[maker'[c]]
              /\ pc[maker'[c]] = "callCreate"
  BY <1>0, MakerStep
<1>t. \A c \in Configs : maker'[c] \in Intents => c = Target[maker'[c]]
  BY <1>m DEF UndoneGone
<1>n. \A j \in undone, c \in Configs : maker'[c] # j
  BY <1>m DEF UndoneGone, Typed, PanelType
<1>1. CASE UNCHANGED vars
  BY <1>1 DEF vars, storeVars, sagaVars, workerVars, intent, panel, history, KindKnown, UndoneGone
<1>2. ASSUME NEW i \in Intents, Saga(i) PROVE KindKnown' /\ UndoneGone'
  <2>1. LeftInHand(i) /\ Path(i) BY <1>2, SagaInHand, SagaPath
  <2>2. UNCHANGED <<at, job, remoteBy>> BY <1>2 DEF Saga, workerVars
  <2>3. KindKnown' BY <2>1 DEF LeftInHand, Path, KindKnown
  <2>4. status'[i] = "completed" => status[i] = "completed" \/ pc[i] = "commit"
    BY <1>2, SagaEffects DEF Progress
  <2>5. pc[i] # "done"
    BY <1>2 DEF Saga, SagaStep, SagaWork, Reserve, TakeLock, LockBusy, Inspect, Snapshot, Arm,
       NextCall, CallCreate, CallReset, CallUpdate, Commit, Undo, ReleaseAfterUndo,
       ReleaseAfterError, Unreserve, Keep, Bonus, Crash, Running
  <2>6. ASSUME NEW j \in undone
        PROVE  /\ Kind[j] = "new" /\ status'[j] # "completed"
               /\ pc'[j] \in {"unreserve", "keep", "done"}
    BY <2>1, <2>4, <2>5, <2>6 DEF UndoneGone, LeftInHand, Path, Typed, PanelType
  <2>7. CASE undone' = undone BY <1>t, <1>n, <2>2, <2>3, <2>6, <2>7 DEF UndoneGone
  <2>8. CASE PanelDelete(i) /\ pc[i] = "undo" /\ pc'[i] \in {"unreserve", "keep", "done"}
    <3>1. undone' = undone \cup {i} /\ maker'[Target[i]] = "nobody"
      BY <2>8, StoreAssumption DEF PanelDelete, Typed, PanelType
    <3>2. \A c \in Configs : maker'[c] # i
      BY <1>t, <3>1, StoreAssumption
    <3>3. \A w \in Workers : ~(job[w] = i /\ at[w] = "settle")
      BY <1>2, InHand DEF Holds
    <3>4. Kind[i] = "new" /\ status'[i] # "completed"
      BY <1>2, <2>4, <2>8, InHand DEF KindKnown, Unheard
    <3> QED BY <1>t, <1>n, <2>2, <2>3, <2>6, <2>8, <3>1, <3>2, <3>3, <3>4 DEF UndoneGone
  <2> QED BY <2>1, <2>3, <2>7, <2>8 DEF Path
<1>3. ASSUME NEW w \in Workers, Worker(w) PROVE KindKnown' /\ UndoneGone'
  <2>1. UNCHANGED <<pc, undone>> BY <1>3, WorkerSight DEF history
  <2>2. KindKnown' BY <2>1 DEF KindKnown
  <2>3. ASSUME NEW j \in undone PROVE status'[j] # "completed"
    <3>1. j \in Intents BY DEF Typed, PanelType
    <3>2. CASE status'[j] = "completed"
      <4>1. job[w] = j /\ at[w] = "settle" /\ WorkerVerdict(w) = "applied"
        BY <1>3, <3>1, <3>2, WorkerSight DEF UndoneGone
      <4>2. remoteBy[w] = j BY <4>1 DEF WorkerVerdict, Verdict, UndoneGone
      <4> QED BY <4>1, <4>2 DEF UndoneGone
    <3> QED BY <3>2
  <2>4. ASSUME NEW j \in undone, NEW v \in Workers, job'[v] = j, at'[v] = "settle"
        PROVE  remoteBy'[v] # j
    <3>1. CASE at[v] = "settle" /\ job'[v] = job[v] /\ remoteBy'[v] = remoteBy[v]
      BY <2>4, <3>1 DEF UndoneGone
    <3>2. CASE job[v] \in Intents /\ remoteBy'[v] = maker[Target[job[v]]]
      BY <2>4, <3>2, StoreAssumption DEF UndoneGone
    <3> QED BY <1>3, <2>4, <3>1, <3>2, WorkerSight
  <2> QED BY <1>t, <1>n, <2>1, <2>2, <2>3, <2>4 DEF UndoneGone
<1>4. CASE Sweep \/ Environment
  <2>1. UNCHANGED <<status, pc, undone, at, job, remoteBy>> BY <1>4, WorldStill
  <2> QED BY <1>t, <1>n, <2>1 DEF KindKnown, UndoneGone
<1> QED BY <1>1, <1>2, <1>3, <1>4 DEF Next

(* While no process outlives its lease and every commit is acknowledged, a *)
(* completed purchase is never one whose user the compensation deleted:    *)
(* not by the foreground, nor by a worker that saw the user before.        *)
THEOREM PaidStays ==
  ASSUME "stall" \notin Faults, "ackLost" \notin Faults
  PROVE  Spec => []PaidNotUndone
<1>1. UndoneGone => PaidNotUndone BY DEF UndoneGone, PaidNotUndone
<1>2. Typed /\ OneHand /\ [Next]_vars => OneHand' BY NextOneHand
<1>3. Typed /\ GrantedFirst /\ OneHand /\ KindKnown /\ UndoneGone /\ [Next]_vars
        => KindKnown' /\ UndoneGone'
  BY NextUndone
<1> QED BY <1>1, <1>2, <1>3, InitTyped, NextTyped, InitGranted, NextGranted, InitOneHand,
           InitUndone, PTL DEF Spec

-----------------------------------------------------------------------------
(* The strict contract: when requests are moreover reported as what they   *)
(* were, what is released leaves the buyer with nothing.                   *)

NothingKept ==
  \A i \in Intents :
    /\ pc[i] \in BeforeGrant => i \notin delivered
    /\ pc[i] = "unreserve" => plan[Target[i]] # i
    /\ \A w \in Workers :
         job[w] = i /\ at[w] = "settle" /\ remote[w].plan # i => plan[Target[i]] # i

LEMMA InitNothingKept == Init => NothingKept
  BY DEF Init, StoreInit, SagaInit, WorkerInit, NothingKept

(* The panel shows a purchase newly only by that purchase's own request.   *)
LEMMA PlanStep ==
  ASSUME Typed, Effect, NEW i \in Intents, plan'[Target[i]] = i, plan[Target[i]] # i
  PROVE  pc[i] \in {"callCreate", "callUpdate"} /\ MoneySame
<1> USE StoreAssumption DEF Typed, PanelType
<1>1. CASE GrantStep
  BY <1>1 DEF GrantStep, PanelCreate, PanelUpdate
<1>2. CASE Fades BY <1>2 DEF Fades
<1> QED BY <1>1, <1>2 DEF Effect

LEMMA NextNothingKept ==
  ASSUME "misreport" \notin Faults
  PROVE  Typed /\ GrantedFirst /\ OneHand /\ KindKnown /\ NothingKept /\ [Next]_vars
           => NothingKept'
<1> SUFFICES ASSUME Typed, GrantedFirst, OneHand, KindKnown, NothingKept, [Next]_vars
             PROVE  NothingKept'
  OBVIOUS
<1>p. \A i \in Intents : plan'[Target[i]] = i => \/ plan[Target[i]] = i
                                                 \/ pc[i] \in {"callCreate", "callUpdate"}
  BY NextEffect, PlanStep
<1>1. CASE UNCHANGED vars
  BY <1>1 DEF vars, storeVars, sagaVars, workerVars, panel, history, NothingKept
<1>2. ASSUME NEW i \in Intents, Saga(i) PROVE NothingKept'
  <2>1. LeftInHand(i) /\ Path(i) BY <1>2, SagaInHand, SagaPath
  <2>2. UNCHANGED <<at, job, remote>> BY <1>2 DEF Saga, workerVars
  <2>3. plan'[Target[i]] = "absent" => plan'[Target[i]] # i BY StoreAssumption
  <2>4. ASSUME NEW j \in Intents
        PROVE  /\ pc'[j] \in BeforeGrant => j \notin delivered'
               /\ pc'[j] = "unreserve" => plan'[Target[j]] # j
    BY <1>p, <2>1, <2>3 DEF NothingKept, LeftInHand, Path
  <2>5. ASSUME NEW j \in Intents, NEW w \in Workers,
               job[w] = j, at[w] = "settle", remote[w].plan # j
        PROVE  plan'[Target[j]] # j
    <3>1. Holds(w, j) BY <2>5 DEF Holds
    <3>2. ~Running(j) BY <3>1 DEF OneHand
    <3> QED BY <1>p, <2>5, <3>2 DEF NothingKept, Running
  <2> QED BY <2>2, <2>4, <2>5 DEF NothingKept
<1>3. ASSUME NEW w \in Workers, Worker(w) PROVE NothingKept'
  <2>1. UNCHANGED <<pc, plan, delivered>> BY <1>3, WorkerSight DEF panel, history
  <2>2. ASSUME NEW v \in Workers, NEW j \in Intents,
               job'[v] = j, at'[v] = "settle", remote'[v].plan # j
        PROVE  plan[Target[j]] # j
    <3>1. CASE at[v] = "settle" /\ job'[v] = job[v] /\ remote'[v] = remote[v]
      BY <2>2, <3>1 DEF NothingKept
    <3>2. CASE job'[v] = job[v] /\ remote'[v] = See(Target[job[v]])
      BY <2>2, <3>2 DEF See
    <3> QED BY <1>3, <2>2, <3>1, <3>2, WorkerSight
  <2> QED BY <2>1, <2>2 DEF NothingKept
<1>4. CASE Sweep \/ Environment
  <2>1. UNCHANGED <<pc, delivered, at, job, remote>> BY <1>4, WorldStill
  <2>2. ASSUME NEW j \in Intents, plan[Target[j]] # j,
               pc[j] = "unreserve" \/ \E w \in Workers : job[w] = j /\ at[w] = "settle"
        PROVE  plan'[Target[j]] # j
    <3>1. pc[j] \notin {"callCreate", "callUpdate"}
      BY <2>2 DEF OneHand, Holds, Running
    <3> QED BY <1>p, <2>2, <3>1
  <2> QED BY <2>1, <2>2 DEF NothingKept
<1> QED BY <1>1, <1>2, <1>3, <1>4 DEF Next

(* What a step must moreover not do.                                       *)
StrictStep ==
  \A i \in Intents :
    /\ status[i] = "pending" /\ status'[i] = "failed" => i \notin Holding
    /\ i \in Holding' \ Holding => status[i] = "pending"

LEMMA StepStrict ==
  ASSUME "misreport" \notin Faults,
         Typed, GrantedFirst, OneHand, KindKnown, NothingKept, [Next]_vars
  PROVE  StrictStep
<1>1. ASSUME NEW i \in Intents, i \in Holding' \ Holding PROVE status[i] = "pending"
  <2>1. pc[i] \in {"callCreate", "callUpdate"} BY <1>1, NextEffect, PlanStep DEF Holding
  <2> QED BY <2>1 DEF OneHand, Running, Unheard
<1>2. ASSUME NEW i \in Intents, status[i] = "pending", status'[i] = "failed"
      PROVE  i \notin Holding
  <2>1. CASE UNCHANGED vars BY <1>2, <2>1 DEF vars, storeVars, intent
  <2>2. ASSUME NEW j \in Intents, Saga(j) PROVE i \notin Holding
    <3>1. LeftInHand(j) /\ Path(j) BY <2>2, SagaInHand, SagaPath
    <3>2. i = j /\ pc[i] \in {"release", "unreserve"} BY <1>2, <3>1 DEF LeftInHand, Path
    <3>3. CASE pc[i] = "unreserve" BY <3>3 DEF NothingKept, Holding
    <3>4. CASE pc[i] = "release"
      BY <3>4, StoreAssumption DEF NothingKept, BeforeGrant, GrantedFirst, Holding
    <3> QED BY <3>2, <3>3, <3>4
  <2>3. ASSUME NEW w \in Workers, Worker(w) PROVE i \notin Holding
    <3>1. job[w] = i /\ at[w] = "settle" /\ WorkerVerdict(w) = "not_applied"
      BY <1>2, <2>3, WorkerSight
    <3>2. remote[w].plan # i
      BY <3>1, StoreAssumption DEF WorkerVerdict, Verdict, RenewalOutcome
    <3> QED BY <3>1, <3>2 DEF NothingKept, Holding
  <2>4. CASE Sweep \/ Environment BY <1>2, <2>4, WorldStill
  <2> QED BY <2>1, <2>2, <2>3, <2>4 DEF Next
<1> QED BY <1>1, <1>2 DEF StrictStep

LEMMA InitStrict == Init => StrictContract!Init
  BY StoreAssumption DEF Init, StoreInit, StrictContract!Init, Holding

LEMMA StrictFromLoose ==
  ASSUME Typed, StrictStep, [Loose!Next]_(Loose!vars)
  PROVE  [StrictContract!Next]_(StrictContract!vars)
<1> USE DEF StrictContract!Next, StrictContract!vars
<1>1. CASE UNCHANGED Loose!vars BY <1>1 DEF Loose!vars
<1>2. ASSUME NEW i \in Intents, Loose!Reserve(i) PROVE StrictContract!Next
  BY <1>2 DEF Loose!Reserve, StrictContract!Reserve
<1>3. ASSUME NEW i \in Intents, Loose!Charge(i) PROVE StrictContract!Next
  BY <1>3 DEF Loose!Charge, StrictContract!Charge
<1>4. ASSUME NEW i \in Intents, Loose!Release(i) PROVE StrictContract!Next
  <2>1. status[i] = "pending" /\ status'[i] = "failed"
    BY <1>4 DEF Loose!Release, Typed, IntentType
  <2>2. i \notin Holding BY <2>1 DEF StrictStep
  <2> QED BY <1>4, <2>2 DEF Loose!Release, StrictContract!Release
<1>5. CASE Loose!Panel
  <2>1. \A i \in Holding' \ Holding : status[i] = "pending"
    BY DEF StrictStep, Holding
  <2> QED BY <1>5, <2>1 DEF Loose!Panel, StrictContract!Panel
<1>6. ASSUME NEW u \in Users, Loose!Credit(u) PROVE StrictContract!Next
  BY <1>6 DEF Loose!Credit, StrictContract!Credit
<1> QED BY <1>1, <1>2, <1>3, <1>4, <1>5, <1>6 DEF Loose!Next

(* While processes keep their leases and requests are reported as what they*)
(* were - whatever crashes, whatever acknowledgements are lost and whatever*)
(* others do - a purchase whose money is released left the buyer with      *)
(* nothing, and gets him nothing later.                                    *)
THEOREM StrictImplemented ==
  ASSUME "stall" \notin Faults, "misreport" \notin Faults
  PROVE  Spec => ImplementsStrict
<1>1. Typed /\ OneHand /\ [Next]_vars => OneHand' BY NextOneHand
<1>2. Typed /\ OneHand /\ KindKnown /\ [Next]_vars => KindKnown' BY NextKind
<1>3. Typed /\ GrantedFirst /\ OneHand /\ KindKnown /\ NothingKept /\ [Next]_vars => NothingKept'
  BY NextNothingKept
<1>4. Typed /\ GrantedFirst /\ ReservationBacked /\ OneHand /\ KindKnown /\ NothingKept /\ [Next]_vars
        => [StrictContract!Next]_(StrictContract!vars)
  <2> SUFFICES ASSUME Typed, GrantedFirst, ReservationBacked, OneHand, KindKnown, NothingKept,
                      [Next]_vars
               PROVE  [StrictContract!Next]_(StrictContract!vars)
    OBVIOUS
  <2>1. [Loose!Next]_(Loose!vars) BY NextContract
  <2>2. StrictStep BY StepStrict
  <2> QED BY <2>1, <2>2, StrictFromLoose
<1> QED BY <1>1, <1>2, <1>3, <1>4, InitTyped, NextTyped, InitGranted, NextGranted, InitBacked,
           NextBacked, InitOneHand, InitUndone, InitNothingKept, InitStrict, PTL
        DEF Spec, ImplementsStrict, StrictContract!Spec

-----------------------------------------------------------------------------
(* A renewal acts on what it saw.  While panel staff leave the users alone,*)
(* only the holder of a config's lock changes what the panel shows of it - *)
(* or a new config under construction, which no binding shows yet.         *)

SightSteps == {"snapshot", "armReset", "callReset", "armUpdate", "callUpdate"}

(* From its inspection to its update a renewal holds the lock, and its     *)
(* sight and the identity it checked hold on.                              *)
SightKept ==
  \A i \in Intents :
    /\ pc[i] \in SightSteps \cup {"inspect"} => lock[Target[i]] = i
    /\ pc[i] \in SightSteps =>
         /\ plan[Target[i]] = seen[i].plan /\ plan[Target[i]] # "absent"
         /\ binding[Target[i]] = owner[i] /\ owner[i] # "none"
         /\ print[Target[i]] = maker[Target[i]]

(* A binding names only the maker of a completed purchase, and a user under*)
(* construction bears the note of the purchase that is about to commit or  *)
(* to delete it.                                                           *)
MakerKnown ==
  /\ \A c \in Configs :
       /\ plan[c] = "absent" <=> maker[c] = "nobody"
       /\ print[c] \in Intents => status[print[c]] = "completed"
  /\ \A i \in Intents :
       pc[i] \in {"commit", "undo"} /\ Kind[i] = "new" => maker[Target[i]] = i

(* What a step of call i does to panel, bindings and locks.                *)
TouchPanel(i) ==
  \/ UNCHANGED <<plan, maker>>
  \/ pc[i] = "callCreate" /\ PanelCreate(i)
  \/ pc[i] = "callUpdate" /\ PanelUpdate(i)
  \/ pc[i] = "undo" /\ PanelDelete(i)
TouchLocal(i) ==
  \/ UNCHANGED <<binding, print>>
  \/ BindNew(i, i) /\ status'[i] = "completed" /\ UNCHANGED <<plan, maker>>
TouchLock(i) ==
  \A c \in Configs :
    lock'[c] = lock[c] \/ lock[c] = "free" \/ (lock[c] = i /\ pc'[i] = "done")
ComesToSight(i) ==
  /\ pc'[i] = "inspect" => lock'[Target[i]] = i
  /\ pc'[i] \in SightSteps =>
       /\ UNCHANGED <<lock, plan, maker, binding, print>>
       /\ \/ /\ pc[i] = "inspect" /\ Renewable(i)
             /\ seen'[i] = See(Target[i]) /\ owner'[i] = binding[Target[i]]
          \/ pc[i] \in SightSteps /\ seen'[i] = seen[i] /\ owner'[i] = owner[i]
ComesToMaker(i) ==
  pc'[i] \in {"commit", "undo"} /\ Kind[i] = "new" =>
    \/ pc[i] = "callCreate" /\ PanelCreate(i)
    \/ pc[i] = "commit" /\ UNCHANGED maker
OthersSee(i) == \A j \in Intents \ {i} : seen'[j] = seen[j] /\ owner'[j] = owner[j]

Touch(i) ==
  /\ TouchPanel(i) /\ TouchLocal(i) /\ TouchLock(i)
  /\ ComesToSight(i) /\ ComesToMaker(i) /\ OthersSee(i)

LEMMA SagaTouch ==
  ASSUME Typed, OneHand, KindKnown, "ackLost" \notin Faults, NEW i \in Intents, Saga(i)
  PROVE  Touch(i)
<1> USE DEF Typed, SightSteps, TouchPanel, TouchLocal, TouchLock, ComesToSight, ComesToMaker,
            OthersSee
<1>a. \A step \in Steps : Goto(i, step) =>
        pc'[i] = step /\ lock' = lock /\ seen' = seen /\ owner' = owner
  BY DEF Goto, SagaTypeOK
<1>b. \A answer \in Answers : Finish(i, answer) =>
        /\ pc'[i] = "done" /\ seen' = seen /\ owner' = owner
        /\ \A c \in Configs : lock'[c] = lock[c] \/ lock[c] = i
  BY DEF Finish, SagaTypeOK
<1>c. StoreSame => UNCHANGED <<plan, maker, binding, print>>
  BY DEF StoreSame, panel, local
<1>d. DbSame => UNCHANGED <<binding, print>> BY DEF DbSame, local
<1>e. UNCHANGED <<panel, history>> => UNCHANGED <<plan, maker>> BY DEF panel
<1>f. pc[i] \notin {"idle", "bonus"} => status[i] = "pending" BY InHand DEF Unheard
<1>1. CASE Reserve(i)
  BY <1>1, StoreAssumption DEF Reserve, ReserveTx, SagaTypeOK, panel, local, Touch
<1>2. CASE TakeLock(i)
  BY <1>2, <1>c, StoreAssumption DEF TakeLock, SagaTypeOK, LockType, Touch
<1>3. CASE LockBusy(i)
  BY <1>3, <1>b, <1>c DEF LockBusy, Answers, Touch
<1>4. CASE Inspect(i)
  BY <1>4, <1>a, <1>c DEF Inspect, SagaTypeOK, Steps, Touch
<1>5. CASE Snapshot(i)
  BY <1>5, <1>a, <1>e, <1>f DEF Snapshot, AlreadySettled, Steps, local, Touch
<1>6. CASE Arm(i)
  <2>1. pc[i] \in {"armReset", "armUpdate", "armCreate"} BY <1>6 DEF Arm, NextCall
  <2>2. NextCall[pc[i]] \in Steps /\ NextCall[pc[i]] \notin {"inspect", "commit", "undo"}
        /\ (NextCall[pc[i]] \in SightSteps => pc[i] \in SightSteps)
    BY <2>1 DEF NextCall, Steps
  <2> QED BY <1>6, <1>a, <1>e, <2>2 DEF Arm, local, Touch
<1>7. CASE CallCreate(i)
  BY <1>7, <1>a, <1>d, <1>e DEF CallCreate, Maybe, Steps, Touch
<1>8. CASE CallReset(i)
  <2>1. PanelReset(i) => UNCHANGED <<plan, maker>> BY DEF PanelReset
  <2> QED BY <1>8, <1>a, <1>d, <1>e, <2>1 DEF CallReset, Maybe, Steps, Touch
<1>9. CASE CallUpdate(i)
  <2>1. Kind[i] # "new" BY <1>9 DEF CallUpdate, KindKnown
  <2> QED BY <1>9, <1>a, <1>d, <1>e, <2>1 DEF CallUpdate, Maybe, Steps, Touch
<1>10. CASE Commit(i)
  <2>1. CASE SettleCompleted(i) /\ Goto(i, "bonus") /\ UNCHANGED <<panel, history>>
             /\ IF Kind[i] = "new" THEN BindNew(i, i) ELSE UNCHANGED local
    <3>1. status'[i] = "completed" BY <2>1 DEF SettleCompleted, IntentType
    <3> QED BY <1>a, <1>e, <2>1, <3>1 DEF Steps, local, Touch
  <2>2. CASE AfterFailedCommit(i) /\ StoreSame
    BY <1>10, <1>a, <1>c, <2>2 DEF Commit, AfterFailedCommit, Steps, Touch
  <2> QED BY <1>10, <1>f, <2>1, <2>2 DEF Commit, AlreadySettled
<1>11. CASE Undo(i)
  BY <1>11, <1>a, <1>d, <1>e DEF Undo, Maybe, Steps, Touch
<1>12. CASE ReleaseAfterUndo(i) \/ ReleaseAfterError(i)
  <2>1. ReleaseTx(i) => UNCHANGED <<plan, maker, binding, print>>
    BY DEF ReleaseTx, panel, local
  <2> QED BY <1>12, <1>a, <1>b, <1>c, <2>1 DEF ReleaseAfterUndo, ReleaseAfterError, Unreserve,
             Steps, Answers, Touch
<1>13. CASE Keep(i)
  BY <1>13, <1>b, <1>e DEF Keep, KeepPendingTx, Answers, local, Touch
<1>14. CASE Bonus(i)
  BY <1>14, <1>b, <1>c, <1>e DEF Bonus, BonusTx, Answers, local, Touch
<1>15. CASE Crash(i)
  <2>1. PanelReset(i) => UNCHANGED <<plan, maker>> BY DEF PanelReset
  <2> QED BY <1>15, <1>b, <1>d, <1>e, <2>1 DEF Crash, Answers, Touch
<1> QED BY <1>1, <1>2, <1>3, <1>4, <1>5, <1>6, <1>7, <1>8, <1>9, <1>10, <1>11, <1>12,
           <1>13, <1>14, <1>15 DEF Saga, SagaStep, SagaWork

LEMMA WorkerBinds ==
  ASSUME Typed, NEW w \in Workers, Worker(w)
  PROVE  /\ UNCHANGED <<pc, seen, owner, lock, plan, maker>>
         /\ \/ UNCHANGED <<binding, print>>
            \/ \E i \in Intents : BindNew(i, i) /\ status'[i] = "completed"
<1>1. UNCHANGED <<pc, seen, owner>> /\ UNCHANGED <<plan, maker>>
  BY WorkerSight DEF Worker, sagaVars, panel
<1>2. CASE Complete(w)
  <2>1. job[w] \in Intents BY <1>2 DEF Complete, Typed, JobOK
  <2>2. ASSUME SettleCompleted(job[w]), Kind[job[w]] = "new", BindNew(job[w], remoteBy[w])
        PROVE  BindNew(job[w], job[w]) /\ status'[job[w]] = "completed"
    <3>1. remoteBy[w] = job[w]
      BY <1>2, <2>2 DEF Complete, WorkerVerdict, Verdict
    <3> QED BY <2>1, <2>2, <3>1 DEF SettleCompleted, Typed, IntentType
  <2>3. UNCHANGED lock /\ (UNCHANGED local => UNCHANGED <<binding, print>>)
    BY <1>2 DEF Complete, storeVars, local
  <2>4. CASE UNCHANGED storeVars BY <1>1, <2>3, <2>4 DEF storeVars
  <2> QED BY <1>1, <1>2, <2>1, <2>2, <2>3, <2>4 DEF Complete
<1>3. CASE ~Complete(w)
  BY <1>1, <1>3 DEF Worker, WorkerStep, Select, Claim, Lookup, LookupUnknown, Fail, ReleaseTx,
     Defer, KeepPendingTx, SettleBonus, BonusTx, WorkerCrash, storeVars, local
<1> QED BY <1>2, <1>3

(* The rest of the world, when nobody else edits or removes the panel's    *)
(* users: only the holder of a lock, an operation of the bot, touches a    *)
(* config, or somebody creates a user where there is none.                 *)
LEMMA WorldTouch ==
  ASSUME Typed, World \cap {"edit", "remove"} = {}, Sweep \/ Environment
  PROVE  /\ UNCHANGED <<pc, seen, owner, status>>
         /\ \A c \in Configs :
              \/ /\ plan'[c] = plan[c] /\ maker'[c] = maker[c]
                 /\ binding'[c] = binding[c] /\ print'[c] = print[c]
                 /\ lock'[c] = lock[c] \/ lock[c] = "free"
              \/ /\ plan[c] = "absent" /\ plan'[c] = "base" /\ maker'[c] = "stranger"
                 /\ binding'[c] = binding[c] /\ print'[c] = print[c] /\ lock'[c] = lock[c]
              \/ /\ lock[c] = "op" /\ print'[c] \in {print[c], "nobody"}
                 /\ \/ plan'[c] = plan[c] /\ maker'[c] = maker[c]
                    \/ print[c] = maker[c] /\ plan'[c] = "absent" /\ maker'[c] = "nobody"
<1> USE DEF Typed, LockType, PanelType, LocalType
<1>0. UNCHANGED <<pc, seen, owner, status>>
  BY WorldStill DEF Sweep, SweepBonus, Environment, LeaseExpires, WalletMove, ConfigOpBegin,
     ConfigOpEnd, PanelWorld, PanelSet, sagaVars
<1>1. ASSUME UNCHANGED <<local, plan, maker, lock>> PROVE
        \A c \in Configs :
          /\ plan'[c] = plan[c] /\ maker'[c] = maker[c]
          /\ binding'[c] = binding[c] /\ print'[c] = print[c] /\ lock'[c] = lock[c]
  BY <1>1 DEF local
<1>2. CASE Sweep
  <2>1. UNCHANGED <<local, plan, maker, lock>> BY <1>2 DEF Sweep, SweepBonus, BonusTx, panel
  <2> QED BY <1>0, <1>1, <2>1
<1>3. CASE (\E i \in Intents : LeaseExpires(i)) \/ (\E u \in Users, d \in {-1, 1} : WalletMove(u, d))
  <2>1. UNCHANGED <<local, plan, maker, lock>> BY <1>3 DEF LeaseExpires, WalletMove, panel
  <2> QED BY <1>0, <1>1, <2>1
<1>4. ASSUME NEW k \in Configs, PanelWorld(k)
      PROVE  /\ UNCHANGED <<local, lock>>
             /\ \A c \in Configs \ {k} : plan'[c] = plan[c] /\ maker'[c] = maker[c]
             /\ \/ plan'[k] = plan[k] /\ maker'[k] = maker[k]
                \/ plan[k] = "absent" /\ plan'[k] = "base" /\ maker'[k] = "stranger"
  BY <1>4 DEF PanelWorld, PanelSet
<1>5. ASSUME NEW k \in Configs, ConfigOpBegin(k)
      PROVE  UNCHANGED <<local, plan, maker>>
             /\ \A c \in Configs : lock'[c] = lock[c] \/ lock[c] = "free"
  BY <1>5 DEF ConfigOpBegin, panel
<1>6. ASSUME NEW k \in Configs, ConfigOpEnd(k)
      PROVE  /\ \A c \in Configs \ {k} :
                  /\ plan'[c] = plan[c] /\ maker'[c] = maker[c]
                  /\ binding'[c] = binding[c] /\ print'[c] = print[c] /\ lock'[c] = lock[c]
             /\ lock[k] = "op" /\ print'[k] \in {print[k], "nobody"}
             /\ \/ plan'[k] = plan[k] /\ maker'[k] = maker[k]
                \/ print[k] = maker[k] /\ plan'[k] = "absent" /\ maker'[k] = "nobody"
  BY <1>6 DEF ConfigOpEnd, Rebind, local, panel
<1>7. CASE \E k \in Configs : PanelWorld(k) BY <1>0, <1>4, <1>7 DEF local
<1>8. CASE \E k \in Configs : ConfigOpBegin(k) BY <1>0, <1>5, <1>8 DEF local
<1>9. CASE \E k \in Configs : ConfigOpEnd(k) BY <1>0, <1>6, <1>9
<1> QED BY <1>2, <1>3, <1>7, <1>8, <1>9 DEF Environment

LEMMA InitSight == Init => SightKept /\ MakerKnown
  BY StoreAssumption DEF Init, StoreInit, SagaInit, SightKept, SightSteps, MakerKnown

LEMMA NextMaker ==
  ASSUME "ackLost" \notin Faults, World \cap {"edit", "remove"} = {}
  PROVE  /\ Typed /\ GrantedFirst /\ RewardedCompleted /\ OneHand /\ KindKnown /\ MakerKnown
         /\ [Next]_vars
         => MakerKnown'
<1> SUFFICES ASSUME Typed, GrantedFirst, RewardedCompleted, OneHand, KindKnown, MakerKnown,
                    [Next]_vars
             PROVE  MakerKnown'
  OBVIOUS
<1> USE StoreAssumption DEF Typed, PanelType, LocalType
<1>0. SettledStep BY NextEffect, EffectSettled
<1>b. ASSUME NEW i \in Intents, BindNew(i, i), status'[i] = "completed"
      PROVE  \A c \in Configs : print'[c] \in Intents => status'[print'[c]] = "completed"
  <2>1. \A c \in Configs : print'[c] = print[c] \/ print'[c] = i BY <1>b DEF BindNew, local
  <2> QED BY <1>0, <1>b, <2>1 DEF MakerKnown, SettledStep
<1>k. ASSUME UNCHANGED print
      PROVE  \A c \in Configs : print'[c] \in Intents => status'[print'[c]] = "completed"
  BY <1>0, <1>k DEF MakerKnown, SettledStep
<1>1. CASE UNCHANGED vars
  BY <1>1 DEF vars, storeVars, sagaVars, intent, panel, local, MakerKnown
<1>2. ASSUME NEW i \in Intents, Saga(i) PROVE MakerKnown'
  <2>1. Touch(i) /\ Path(i) /\ LeftInHand(i) BY <1>2, SagaTouch, SagaPath, SagaInHand
  <2>2. \A c \in Configs : print'[c] \in Intents => status'[print'[c]] = "completed"
    BY <1>b, <1>k, <2>1 DEF Touch, TouchLocal
  <2>3. \A c \in Configs : plan'[c] = "absent" <=> maker'[c] = "nobody"
    BY <2>1 DEF Touch, TouchPanel, PanelCreate, PanelUpdate, PanelDelete, MakerKnown
  <2>4. ASSUME NEW j \in Intents, pc'[j] \in {"commit", "undo"}, Kind[j] = "new"
        PROVE  maker'[Target[j]] = j
    <3>1. CASE j = i
      BY <2>1, <2>4, <3>1 DEF Touch, ComesToMaker, PanelCreate, MakerKnown
    <3>2. CASE j # i
      <4>1. pc[j] \in {"commit", "undo"} /\ maker[Target[j]] = j
        BY <2>1, <2>4, <3>2 DEF LeftInHand, MakerKnown
      <4>2. CASE UNCHANGED <<plan, maker>> \/ PanelUpdate(i) BY <4>1, <4>2 DEF PanelUpdate
      <4>3. CASE PanelCreate(i)
        BY <4>1, <4>3 DEF PanelCreate, MakerKnown
      <4>4. CASE pc[i] = "undo" /\ PanelDelete(i)
        <5>1. maker[Target[i]] = i BY <4>4 DEF MakerKnown, KindKnown
        <5> QED BY <3>2, <4>1, <4>4, <5>1 DEF PanelDelete
      <4> QED BY <2>1, <4>2, <4>3, <4>4 DEF Touch, TouchPanel
    <3> QED BY <3>1, <3>2
  <2> QED BY <2>2, <2>3, <2>4 DEF MakerKnown
<1>3. ASSUME NEW w \in Workers, Worker(w) PROVE MakerKnown'
  <2>1. UNCHANGED <<pc, plan, maker>> BY <1>3, WorkerBinds
  <2>2. \A c \in Configs : print'[c] \in Intents => status'[print'[c]] = "completed"
    BY <1>3, <1>b, <1>k, WorkerBinds
  <2> QED BY <2>1, <2>2 DEF MakerKnown
<1>4. CASE Sweep \/ Environment
  <2>1. UNCHANGED <<pc, status>> BY <1>4, WorldStill
  <2>2. \A i \in Intents : pc[i] \in {"commit", "undo"} => status[i] = "pending"
    BY DEF OneHand, Running, Unheard
  <2>3. \A c \in Configs :
          /\ print'[c] \in {print[c], "nobody"}
          /\ \/ plan'[c] = plan[c] /\ maker'[c] = maker[c]
             \/ plan[c] = "absent" /\ plan'[c] = "base" /\ maker'[c] = "stranger"
             \/ print[c] = maker[c] /\ plan'[c] = "absent" /\ maker'[c] = "nobody"
    BY <1>4, WorldTouch
  <2> QED BY <2>1, <2>2, <2>3 DEF MakerKnown
<1> QED BY <1>1, <1>2, <1>3, <1>4 DEF Next

LEMMA NextSight ==
  ASSUME "ackLost" \notin Faults, World \cap {"edit", "remove"} = {}
  PROVE  /\ Typed /\ GrantedFirst /\ OneHand /\ KindKnown /\ MakerKnown /\ SightKept
         /\ [Next]_vars
         => SightKept'
<1> SUFFICES ASSUME Typed, GrantedFirst, OneHand, KindKnown, MakerKnown, SightKept, [Next]_vars
             PROVE  SightKept'
  OBVIOUS
<1> USE StoreAssumption DEF Typed, PanelType, LocalType
<1>b. ASSUME NEW i \in Intents, BindNew(i, i)
      PROVE  \A c \in Configs : binding[c] # "none" => binding'[c] = binding[c] /\ print'[c] = print[c]
  BY <1>b DEF BindNew, local
<1>1. CASE UNCHANGED vars
  BY <1>1 DEF vars, storeVars, sagaVars, panel, local, SightKept
<1>2. ASSUME NEW i \in Intents, Saga(i) PROVE SightKept'
  <2>1. Touch(i) /\ LeftInHand(i) BY <1>2, SagaTouch, SagaInHand
  <2>2. ASSUME NEW j \in Intents, pc'[j] \in SightSteps \cup {"inspect"}
        PROVE  lock'[Target[j]] = j
    <3>1. CASE j = i
      BY <2>1, <2>2, <3>1 DEF Touch, ComesToSight, SightKept, SightSteps
    <3>2. CASE j # i
      <4>1. lock[Target[j]] = j BY <2>1, <2>2, <3>2 DEF LeftInHand, SightKept
      <4> QED BY <2>1, <3>2, <4>1 DEF Touch, TouchLock
    <3> QED BY <3>1, <3>2
  <2>3. ASSUME NEW j \in Intents, pc'[j] \in SightSteps
        PROVE  /\ plan'[Target[j]] = seen'[j].plan /\ plan'[Target[j]] # "absent"
               /\ binding'[Target[j]] = owner'[j] /\ owner'[j] # "none"
               /\ print'[Target[j]] = maker'[Target[j]]
    <3>1. CASE j = i
      <4>1. CASE pc[i] \in SightSteps
        BY <2>1, <2>3, <3>1, <4>1 DEF Touch, ComesToSight, SightKept, SightSteps
      <4>2. CASE pc[i] = "inspect" /\ Renewable(i)
        BY <2>1, <2>3, <3>1, <4>2 DEF Touch, ComesToSight, Renewable, See, SightSteps
      <4> QED BY <2>1, <2>3, <3>1, <4>1, <4>2 DEF Touch, ComesToSight
    <3>2. CASE j # i
      <4>1. /\ pc[j] \in SightSteps /\ seen'[j] = seen[j] /\ owner'[j] = owner[j]
            /\ lock[Target[j]] = j
        BY <2>1, <2>3, <3>2 DEF LeftInHand, Touch, OthersSee, SightKept
      <4>2. /\ binding'[Target[j]] = binding[Target[j]] /\ print'[Target[j]] = print[Target[j]]
        BY <1>b, <2>1, <4>1 DEF Touch, TouchLocal, SightKept
      <4>3. plan'[Target[j]] = plan[Target[j]] /\ maker'[Target[j]] = maker[Target[j]]
        <5>1. CASE Target[i] # Target[j]
          BY <2>1, <5>1 DEF Touch, TouchPanel, PanelCreate, PanelUpdate, PanelDelete
        <5>2. CASE Target[i] = Target[j]
          <6>1. ~PanelCreate(i) BY <4>1, <5>2 DEF PanelCreate, SightKept
          <6>2. pc[i] # "callUpdate" BY <3>2, <4>1, <5>2 DEF SightKept, SightSteps
          <6>3. pc[i] # "undo"
            <7>1. pc[i] = "undo" => maker[Target[j]] = i /\ status[i] = "pending"
              BY <5>2 DEF MakerKnown, KindKnown, OneHand, Running, Unheard
            <7>2. print[Target[j]] = maker[Target[j]] BY <4>1 DEF SightKept
            <7> QED BY <7>1, <7>2 DEF MakerKnown
          <6> QED BY <2>1, <6>1, <6>2, <6>3 DEF Touch, TouchPanel
        <5> QED BY <5>1, <5>2
      <4> QED BY <4>1, <4>2, <4>3 DEF SightKept
    <3> QED BY <3>1, <3>2
  <2> QED BY <2>2, <2>3 DEF SightKept
<1>3. ASSUME NEW w \in Workers, Worker(w) PROVE SightKept'
  BY <1>3, <1>b, WorkerBinds DEF SightKept
<1>4. CASE Sweep \/ Environment
  <2>1. UNCHANGED <<pc, seen, owner>> BY <1>4, WorldTouch
  <2>2. ASSUME NEW j \in Intents, lock[Target[j]] = j
        PROVE  lock'[Target[j]] = j
    BY <1>4, <2>2, WorldTouch
  <2>3. ASSUME NEW j \in Intents, lock[Target[j]] = j, plan[Target[j]] # "absent"
        PROVE  LET c == Target[j] IN
               /\ plan'[c] = plan[c] /\ maker'[c] = maker[c]
               /\ binding'[c] = binding[c] /\ print'[c] = print[c] /\ lock'[c] = lock[c]
    BY <1>4, <2>3, WorldTouch
  <2> QED BY <2>1, <2>2, <2>3 DEF SightKept
<1> QED BY <1>1, <1>2, <1>3, <1>4 DEF Next

(* A renewal acts on what it saw: no other renewal, no other operation of  *)
(* the bot, no compensation and no recovery changes the plan or the owner  *)
(* of a config between a renewal's inspection and its update.              *)
THEOREM SightTrue ==
  ASSUME "stall" \notin Faults, "ackLost" \notin Faults,
         World \cap {"edit", "remove"} = {}
  PROVE  Spec => []SightStaysTrue
<1>1. SightKept => SightStaysTrue BY DEF SightKept, SightStaysTrue, SightSteps
<1>2. Init => RewardedCompleted BY DEF Init, StoreInit, RewardedCompleted
<1>3. Typed /\ GrantedFirst /\ RewardedCompleted /\ [Next]_vars => RewardedCompleted'
  BY NextEffect, EffectSettled
<1>4. Typed /\ OneHand /\ [Next]_vars => OneHand' BY NextOneHand
<1>5. Typed /\ OneHand /\ KindKnown /\ [Next]_vars => KindKnown' BY NextKind
<1>6. /\ Typed /\ GrantedFirst /\ RewardedCompleted /\ OneHand /\ KindKnown /\ MakerKnown
      /\ [Next]_vars
      => MakerKnown'
  BY NextMaker
<1>7. /\ Typed /\ GrantedFirst /\ OneHand /\ KindKnown /\ MakerKnown /\ SightKept
      /\ [Next]_vars
      => SightKept'
  BY NextSight
<1> QED BY <1>1, <1>2, <1>3, <1>4, <1>5, <1>6, <1>7, InitTyped, NextTyped, InitGranted,
           NextGranted, InitOneHand, InitUndone, InitSight, PTL DEF Spec
=============================================================================
