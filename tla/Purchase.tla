------------------------------ MODULE Purchase ------------------------------
(***************************************************************************)
(* Purchases end to end: every call of the saga, the reconciliation        *)
(* workers, and the world around them - leases running out, other wallet   *)
(* operations, other operations on a config, and a panel whose users are   *)
(* also used, edited, removed and recreated by others.                     *)
(***************************************************************************)
EXTENDS PurchaseSaga, PurchaseReconciler, Sums

CONSTANTS
  World,     \* which of the outside events happen
  MaxMoved   \* bound: how far other wallet operations move a balance

ASSUME WorldAssumption ==
  /\ World \subseteq {"walletMove", "configOp", "use", "edit", "remove", "recreate"}
  /\ MaxMoved \in Nat

vars == <<storeVars, sagaVars, workerVars>>

TypeOK == StoreTypeOK /\ SagaTypeOK /\ WorkerTypeOK

Init == StoreInit /\ SagaInit /\ WorkerInit

-----------------------------------------------------------------------------
Holds(w, i) == job[w] = i /\ at[w] \in {"lookup", "settle"}

(* Twelve minutes pass.  A live process renews or gives up its lease long  *)
(* before: a request takes three tries of five seconds each.               *)
LeaseExpires(i) ==
  /\ lease[i]
  /\ \/ "stall" \in Faults
     \/ ~Running(i) /\ \A w \in Workers : ~Holds(w, i)
  /\ lease' = [lease EXCEPT ![i] = FALSE]
  /\ UNCHANGED <<wallet, status, prev, msg, bonusAt, local, lock, panel,
                 history, sagaVars, workerVars>>

(* Any other wallet operation: it spends only what is not reserved.        *)
WalletMove(u, d) ==
  /\ "walletMove" \in World
  /\ moved[u] + d \in -MaxMoved..MaxMoved
  /\ balance[u] + d >= reserved[u]
  /\ balance' = [balance EXCEPT ![u] = @ + d]
  /\ moved' = [moved EXCEPT ![u] = @ + d]
  /\ UNCHANGED <<reserved, charged, rewarded, intent, local, lock, panel,
                 history, sagaVars, workerVars>>

(* Another operation (refresh, revoke, toggle, delete, transfer ...) holds *)
(* the config's lock.  A deletion takes the binding away, and the panel's  *)
(* user if it is still the one bound; a transfer changes the owner.        *)
ConfigOpBegin(c) ==
  /\ "configOp" \in World
  /\ lock[c] = "free"
  /\ lock' = [lock EXCEPT ![c] = "op"]
  /\ UNCHANGED <<wallet, intent, local, panel, history, sagaVars, workerVars>>

Rebind(c, owned, by) ==
  /\ binding' = [binding EXCEPT ![c] = owned]
  /\ print' = [print EXCEPT ![c] = by]

ConfigOpEnd(c) ==
  /\ lock[c] = "op"
  /\ lock' = [lock EXCEPT ![c] = "free"]
  /\ \/ UNCHANGED <<local, panel>>
     \/ /\ binding[c] # "none"
        /\ Rebind(c, "none", "nobody")
        /\ \/ print[c] # maker[c] /\ UNCHANGED panel
           \/ /\ print[c] = maker[c]
              /\ plan' = [plan EXCEPT ![c] = "absent"]
              /\ maker' = [maker EXCEPT ![c] = "nobody"]
              /\ usage' = [usage EXCEPT ![c] = "fresh"]
     \/ /\ binding[c] # "none" /\ plan[c] # "absent" /\ print[c] = maker[c]
        /\ \E u \in Users : Rebind(c, u, print[c])
        /\ UNCHANGED panel
  /\ UNCHANGED <<wallet, intent, history, sagaVars, workerVars>>

PanelSet(c, p, m, x) ==
  /\ plan' = [plan EXCEPT ![c] = p]
  /\ maker' = [maker EXCEPT ![c] = m]
  /\ usage' = [usage EXCEPT ![c] = x]
  /\ UNCHANGED <<wallet, intent, local, lock, history, sagaVars, workerVars>>

(* Traffic is used, up to the quota; panel staff edit, remove and recreate.*)
PanelWorld(c) ==
  \/ /\ "use" \in World /\ plan[c] # "absent"
     /\ \/ usage[c] = "fresh" /\ PanelSet(c, plan[c], maker[c], "used")
        \/ usage[c] = "used" /\ PanelSet(c, plan[c], maker[c], "limited")
  \/ /\ "edit" \in World /\ plan[c] \notin {"absent", "edited"}
     /\ PanelSet(c, "edited", maker[c], usage[c])
  \/ /\ "remove" \in World /\ plan[c] # "absent"
     /\ PanelSet(c, "absent", "nobody", "fresh")
  \/ /\ "recreate" \in World /\ plan[c] = "absent"
     /\ PanelSet(c, "base", "stranger", "fresh")

Environment ==
  \/ \E i \in Intents : LeaseExpires(i)
  \/ \E u \in Users, d \in {-1, 1} : WalletMove(u, d)
  \/ \E c \in Configs : ConfigOpBegin(c) \/ ConfigOpEnd(c) \/ PanelWorld(c)

Saga(i) == SagaStep(i) /\ UNCHANGED workerVars
Worker(w) == WorkerStep(w) /\ UNCHANGED sagaVars
Sweep == (\E i \in Intents : SweepBonus(i)) /\ UNCHANGED sagaVars

Next ==
  \/ \E i \in Intents : Saga(i)
  \/ \E w \in Workers : Worker(w)
  \/ Sweep
  \/ Environment

Spec == Init /\ [][Next]_vars

-----------------------------------------------------------------------------
(* Safety.                                                                 *)

(* A wallet's reserved column is the price of its one pending purchase, or *)
(* zero, and never exceeds the balance: no sequence of saga, reconciler    *)
(* and wallet operations leaks a reservation or releases one twice.        *)
ReservationBacked ==
  \A u \in Users :
    /\ \A i, j \in Intents :
         Buyer[i] = u /\ Buyer[j] = u /\ status[i] = "pending" /\ status[j] = "pending"
           => i = j
    /\ \A i \in Intents :
         Buyer[i] = u /\ status[i] = "pending" => reserved[u] = Price[i]
    /\ (\A i \in Intents : Buyer[i] = u => status[i] # "pending") => reserved[u] = 0
    /\ balance[u] >= reserved[u]

(* A balance is the opening balance, plus what other operations moved, less*)
(* the price of every completed purchase, once, plus its cashback once the *)
(* bonus is marked processed - by whichever of the foreground, the         *)
(* reconciler and the bonus sweep got there.                               *)
WalletAddsUp ==
  \A u \in Users :
    balance[u] = Funds[u] + moved[u]
      - SumOver(Price, {i \in Intents : Buyer[i] = u /\ status[i] = "completed"})
      + SumOver(Cashback, {i \in Intents : Buyer[i] = u /\ bonusAt[i]})

(* Nobody pays for a purchase the panel never applied.                     *)
PaidMeansDelivered == \A i \in Intents : status[i] = "completed" => i \in delivered

(* A completed purchase was not deleted again by the saga's compensation.  *)
PaidNotUndone == \A i \in Intents : status[i] = "completed" => i \notin undone

(* What the buyer was told agrees with the wallet: a purchase reported as  *)
(* failed or not charged is not charged, then or later, and a success is.  *)
AnswerIsTrue ==
  \A i \in Intents :
    /\ told[i] \in {"failed", "notCharged"} => status[i] = "failed"
    /\ told[i] = "success" => status[i] = "completed"

(* What a renewal saw of its config before it took its snapshot is still   *)
(* what the panel shows until its own update: no other renewal and no      *)
(* other operation of the bot changes the config in between.               *)
SightStaysTrue ==
  \A i \in Intents :
    pc[i] \in {"snapshot", "armReset", "callReset", "armUpdate", "callUpdate"}
      => plan[Target[i]] = seen[i].plan /\ binding[Target[i]] = owner[i]

(* A settled purchase never changes its outcome, and its cashback is paid  *)
(* at most once and only to a completed one.                               *)
SettledForGood ==
  [][\A i \in Intents :
       /\ status[i] \in {"completed", "failed"} => status'[i] = status[i]
       /\ i \in rewarded => i \in rewarded'
       /\ i \in rewarded' => status[i] = "completed"]_vars

(* Implementation of the abstract contract.                                *)
Holding == {i \in Intents : plan[Target[i]] = i}

Loose == INSTANCE PurchaseContract WITH
  Strict <- FALSE, state <- status, granted <- delivered, holding <- Holding

StrictContract == INSTANCE PurchaseContract WITH
  Strict <- TRUE, state <- status, granted <- delivered, holding <- Holding

(* Every behaviour, stalls and lost acknowledgements included, reserves    *)
(* once, charges only what the panel granted, and settles once.            *)
ImplementsContract == Loose!Spec

(* With processes that keep their leases, a released purchase also leaves  *)
(* the buyer with nothing and never gets anything later.                   *)
ImplementsStrict == StrictContract!Spec

-----------------------------------------------------------------------------
(* Findings: what comments, tests and messages promise, and the code does  *)
(* not keep.                                                               *)

(* "does not release a renewal whose traffic reset is known to have already*)
(* applied" (tests/jobs/reconciler.test.ts): once an intent says so, it is *)
(* never released while its config exists.                                 *)
KnownResetNotReleased ==
  \A i \in Intents : [](msg[i] = "partial" => [](status[i] # "failed"))

-----------------------------------------------------------------------------
(* Liveness.                                                               *)

(* Live processes take their steps and leases run out.  The cron keeps     *)
(* sweeping; a panel asked again and again at last answers, and a worker   *)
(* that is restarted again and again at last gets through.                 *)
Fairness ==
  /\ \A i \in Intents :
       /\ WF_vars(SagaWork(i) /\ UNCHANGED workerVars)
       /\ WF_vars(LeaseExpires(i))
       /\ \A w \in Workers : SF_vars(Select(w, i) /\ UNCHANGED sagaVars)
  /\ \A w \in Workers :
       /\ SF_vars(Claim(w) /\ UNCHANGED sagaVars)
       /\ SF_vars(Lookup(w) /\ UNCHANGED sagaVars)
       /\ SF_vars((Complete(w) \/ Fail(w) \/ Defer(w)) /\ UNCHANGED sagaVars)
       /\ WF_vars(SettleBonus(w) /\ UNCHANGED sagaVars)
  /\ WF_vars(Sweep)
  /\ \A c \in Configs : WF_vars(ConfigOpEnd(c))

FairSpec == Spec /\ Fairness

(* Money set aside for a new config does not stay set aside for ever.      *)
NewConfigSettles ==
  \A i \in Intents :
    Kind[i] = "new" => (status[i] = "pending" ~> status[i] \in {"completed", "failed"})

(* A completed purchase gets its cashback decided, whoever completed it.   *)
BonusEventually ==
  \A i \in Intents : status[i] = "completed" ~> bonusAt[i]

(* "A contender fails fast and can be retried by the user/UI"              *)
(* (src/domain/services/ConfigLock.ts): once a buyer was turned away by a  *)
(* busy config, the next purchase is possible again at some time.          *)
BusyCanRetry ==
  \A i \in Intents : told[i] = "busy" ~> NoPending(Buyer[i])
=============================================================================
