--------------------------- MODULE PurchaseStore ---------------------------
(***************************************************************************)
(* The state a purchase touches and the database transactions that touch   *)
(* it: the wallet columns of `users`, the rows of `purchase_intents`, the  *)
(* purchase and cashback rows of `wallet_transactions`, the bindings in    *)
(* `user_configs`, the advisory lock of a config, and the users held by    *)
(* the remote Rebecca panel.                                               *)
(*                                                                         *)
(* An intent id stands for one call of WalletPurchaseSaga.execute together *)
(* with its parameters (buyer, type, config, final amount); a call that is *)
(* refused before it reserves leaves no trace.                             *)
(***************************************************************************)
EXTENDS Integers, FiniteSets

CONSTANTS
  Users,        \* wallets (telegram ids)
  Configs,      \* config usernames on one panel
  Intents,      \* purchase intent ids, each used by at most one call
  Buyer,        \* Intents -> Users: who pays
  Kind,         \* Intents -> {"new", "renew"}
  Target,       \* Intents -> Configs: the username bought or renewed
  Price,        \* Intents -> Nat: the final amount reserved
  Cashback,     \* Intents -> Nat: the cashback snapshotted at reservation
  Override,     \* intents run with allowAdminOverride
  Funds,        \* Users -> Nat: opening balances
  Faults,       \* which failures the environment may inject
  InitialOwner  \* Configs -> Users \cup {"none"}: bindings that exist at start

ASSUME StoreAssumption ==
  /\ Buyer \in [Intents -> Users]
  /\ Kind \in [Intents -> {"new", "renew"}]
  /\ Target \in [Intents -> Configs]
  /\ Price \in [Intents -> Nat]
  /\ Cashback \in [Intents -> Nat]
  /\ Override \subseteq Intents
  /\ Funds \in [Users -> Nat]
  /\ InitialOwner \in [Configs -> Users \cup {"none"}]
  /\ {"absent", "base", "edited", "nobody", "panel", "stranger"} \cap Intents = {}
  /\ {"free", "op"} \cap Intents = {}
  /\ "none" \notin Users

FaultKinds ==
  {"crash",      \* a process dies, or a database error escapes its handler
   "dbError",    \* the commit transaction fails and is rolled back
   "ackLost",    \* the commit is durable but its acknowledgement is lost
   "stall",      \* a process sleeps past the lease it holds
   "misreport"}  \* an applied request is classified as never dispatched

ASSUME FaultAssumption == Faults \subseteq FaultKinds

VARIABLES
  balance,      \* users.balance
  reserved,     \* users.reserved_balance
  charged,      \* intents with a 'purchase' ledger row (reference_id is unique)
  rewarded,     \* intents with a 'cashback' ledger row
  moved,        \* net of every other ledger row of a user
  status,       \* purchase_intents.status ("none": no row yet)
  lease,        \* is purchase_intents.lease_expires_at in the future?
  prev,         \* the snapshot previous_* / expected_* of a renewal
  msg,          \* what purchase_intents.error_message says
  bonusAt,      \* is bonuses_processed_at set?
  binding,      \* user_configs.telegram_id of a config
  print,        \* user_configs.remote_created_at: the incarnation bound
  lock,         \* holder of the config's advisory lock
  plan,         \* panel: the quota and expiry a user shows, by who set them
  maker,        \* panel: note and created_at, by who created the user
  usage,        \* panel: traffic used since the last reset
  delivered,    \* history: intents whose quota and expiry the panel applied
  undone,       \* history: intents whose user a compensation deleted
  resetFor      \* history: intents whose traffic reset the panel applied

wallet  == <<balance, reserved, charged, rewarded, moved>>
intent  == <<status, lease, prev, msg, bonusAt>>
local   == <<binding, print>>
panel   == <<plan, maker, usage>>
history == <<delivered, undone, resetFor>>
storeVars == <<wallet, intent, local, lock, panel, history>>

Plans  == {"absent", "base", "edited"} \cup Intents
Makers == {"nobody", "panel", "stranger"} \cup Intents

(* What a GET of a panel user shows a renewal: quota/expiry and status.    *)
Sight  == [plan : Plans, limited : BOOLEAN]
NoSight == [plan |-> "absent", limited |-> FALSE]
See(c) == [plan |-> plan[c], limited |-> usage[c] = "limited"]

StoreTypeOK ==
  /\ balance \in [Users -> Int] /\ reserved \in [Users -> Int]
  /\ charged \subseteq Intents /\ rewarded \subseteq Intents
  /\ moved \in [Users -> Int]
  /\ status \in [Intents -> {"none", "pending", "completed", "failed"}]
  /\ lease \in [Intents -> BOOLEAN]
  /\ prev \in [Intents -> Sight]
  /\ msg \in [Intents -> {"none", "partial", "other"}]
  /\ bonusAt \in [Intents -> BOOLEAN]
  /\ binding \in [Configs -> Users \cup {"none"}]
  /\ print \in [Configs -> Makers]
  /\ lock \in [Configs -> {"free", "op"} \cup Intents]
  /\ plan \in [Configs -> Plans]
  /\ maker \in [Configs -> Makers]
  /\ usage \in [Configs -> {"fresh", "used", "limited"}]
  /\ delivered \subseteq Intents /\ undone \subseteq Intents
  /\ resetFor \subseteq Intents

StoreInit ==
  /\ balance = Funds /\ reserved = [u \in Users |-> 0]
  /\ charged = {} /\ rewarded = {} /\ moved = [u \in Users |-> 0]
  /\ status = [i \in Intents |-> "none"]
  /\ lease = [i \in Intents |-> FALSE]
  /\ prev = [i \in Intents |-> NoSight]
  /\ msg = [i \in Intents |-> "none"]
  /\ bonusAt = [i \in Intents |-> FALSE]
  /\ binding = InitialOwner
  /\ plan = [c \in Configs |-> IF InitialOwner[c] = "none" THEN "absent" ELSE "base"]
  /\ maker = [c \in Configs |-> IF InitialOwner[c] = "none" THEN "nobody" ELSE "panel"]
  /\ print = maker
  /\ usage = [c \in Configs |-> "fresh"]
  /\ lock = [c \in Configs |-> "free"]
  /\ delivered = {} /\ undone = {} /\ resetFor = {}

-----------------------------------------------------------------------------
(* Database transactions.  Each is one atomic step.                        *)

(* The partial unique index purchase_intents_one_pending_per_user.         *)
NoPending(u) == \A j \in Intents : Buyer[j] = u => status[j] # "pending"

(* Mutant: the partial unique index is missing.                            *)
ReserveTxNoIndex(i) ==
  LET u == Buyer[i] IN
  /\ status[i] = "none"
  /\ balance[u] - reserved[u] >= Price[i]
  /\ status' = [status EXCEPT ![i] = "pending"]
  /\ lease' = [lease EXCEPT ![i] = TRUE]
  /\ reserved' = [reserved EXCEPT ![u] = @ + Price[i]]
  /\ UNCHANGED <<balance, charged, rewarded, moved, prev, msg, bonusAt,
                 local, lock, panel, history>>

(* Mutant: the row is inserted without a lease.                            *)
ReserveTxNoLease(i) ==
  LET u == Buyer[i] IN
  /\ status[i] = "none" /\ NoPending(u)
  /\ balance[u] - reserved[u] >= Price[i]
  /\ status' = [status EXCEPT ![i] = "pending"]
  /\ reserved' = [reserved EXCEPT ![u] = @ + Price[i]]
  /\ UNCHANGED <<balance, charged, rewarded, moved, lease, prev, msg, bonusAt,
                 local, lock, panel, history>>

(* The guarded reservation: insert the intent and move available funds.    *)
ReserveTx(i) ==
  LET u == Buyer[i] IN
  /\ status[i] = "none" /\ NoPending(u)
  /\ balance[u] - reserved[u] >= Price[i]
  /\ status' = [status EXCEPT ![i] = "pending"]
  /\ lease' = [lease EXCEPT ![i] = TRUE]
  /\ reserved' = [reserved EXCEPT ![u] = @ + Price[i]]
  /\ UNCHANGED <<balance, charged, rewarded, moved, prev, msg, bonusAt,
                 local, lock, panel, history>>

(* A new config binds to its buyer unless another user holds the name.     *)
BindingFree(i) == binding[Target[i]] \in {"none", Buyer[i]}

(* A wallet that cannot cover its reservation aborts the transaction.      *)
Covered(i) == reserved[Buyer[i]] >= Price[i] /\ balance[Buyer[i]] >= Price[i]

(* pending -> completed with the debit and its ledger row.                 *)
SettleCompleted(i) ==
  LET u == Buyer[i] IN
  /\ status[i] = "pending"
  /\ Covered(i)
  /\ i \notin charged
  /\ status' = [status EXCEPT ![i] = "completed"]
  /\ lease' = [lease EXCEPT ![i] = FALSE]
  /\ msg' = [msg EXCEPT ![i] = "none"]
  /\ balance' = [balance EXCEPT ![u] = @ - Price[i]]
  /\ reserved' = [reserved EXCEPT ![u] = @ - Price[i]]
  /\ charged' = charged \cup {i}
  /\ UNCHANGED <<rewarded, moved, prev, bonusAt>>

(* The binding a completed new config gets; by is the incarnation seen.    *)
BindNew(i, by) ==
  LET c == Target[i] IN
  IF binding[c] = "none"
    THEN /\ binding' = [binding EXCEPT ![c] = Buyer[i]]
         /\ print' = [print EXCEPT ![c] = by]
    ELSE UNCHANGED local

(* pending -> failed with the release of the reservation.                  *)
ReleaseTx(i) ==
  LET u == Buyer[i] IN
  /\ status[i] = "pending"
  /\ reserved[u] >= Price[i]
  /\ status' = [status EXCEPT ![i] = "failed"]
  /\ lease' = [lease EXCEPT ![i] = FALSE]
  /\ msg' = [msg EXCEPT ![i] = "other"]
  /\ reserved' = [reserved EXCEPT ![u] = @ - Price[i]]
  /\ UNCHANGED <<balance, charged, rewarded, moved, prev, bonusAt,
                 local, panel, history>>

(* Leave a pending intent to the reconciler: a message, and no lease.      *)
KeepPendingTx(i, m) ==
  /\ IF status[i] = "pending"
       THEN /\ msg' = [msg EXCEPT ![i] = m]
            /\ lease' = [lease EXCEPT ![i] = FALSE]
       ELSE UNCHANGED <<msg, lease>>
  /\ UNCHANGED <<wallet, status, prev, bonusAt, local, panel, history>>

(* Mutant: the bonus is credited without looking for its ledger row.       *)
BonusTxTwice(i) ==
  /\ IF status[i] = "completed"
       THEN /\ bonusAt' = [bonusAt EXCEPT ![i] = TRUE]
            /\ rewarded' = rewarded \cup {i}
            /\ balance' = [balance EXCEPT ![Buyer[i]] = @ + Cashback[i]]
       ELSE UNCHANGED <<bonusAt, rewarded, balance>>
  /\ UNCHANGED <<reserved, charged, moved, status, lease, prev, msg,
                 local, panel, history>>

(* ReferralService.processCompletedPurchase, cashback only: one locked     *)
(* transaction that credits at most once and marks the intent processed.   *)
BonusTx(i) ==
  /\ IF status[i] = "completed" /\ ~bonusAt[i]
       THEN /\ bonusAt' = [bonusAt EXCEPT ![i] = TRUE]
            /\ IF i \notin rewarded
                 THEN /\ rewarded' = rewarded \cup {i}
                      /\ balance' = [balance EXCEPT ![Buyer[i]] = @ + Cashback[i]]
                 ELSE UNCHANGED <<rewarded, balance>>
       ELSE UNCHANGED <<bonusAt, rewarded, balance>>
  /\ UNCHANGED <<reserved, charged, moved, status, lease, prev, msg,
                 local, panel, history>>

-----------------------------------------------------------------------------
(* What the panel does when a request reaches it.                          *)

PanelCreate(i) ==
  LET c == Target[i] IN
  /\ plan[c] = "absent"
  /\ plan' = [plan EXCEPT ![c] = i]
  /\ maker' = [maker EXCEPT ![c] = i]
  /\ usage' = [usage EXCEPT ![c] = "fresh"]
  /\ delivered' = delivered \cup {i}
  /\ UNCHANGED <<undone, resetFor>>

PanelReset(i) ==
  LET c == Target[i] IN
  /\ plan[c] # "absent"
  /\ usage' = [usage EXCEPT ![c] = "fresh"]
  /\ resetFor' = resetFor \cup {i}
  /\ UNCHANGED <<plan, maker, delivered, undone>>

PanelUpdate(i) ==
  LET c == Target[i] IN
  /\ plan[c] # "absent"
  /\ plan' = [plan EXCEPT ![c] = i]
  /\ usage' = [usage EXCEPT ![c] = IF @ = "limited" THEN "used" ELSE @]
  /\ delivered' = delivered \cup {i}
  /\ UNCHANGED <<maker, undone, resetFor>>

(* DELETE by username: whoever made the user, it is gone.                  *)
PanelDelete(i) ==
  LET c == Target[i] IN
  /\ plan[c] # "absent"
  /\ plan' = [plan EXCEPT ![c] = "absent"]
  /\ maker' = [maker EXCEPT ![c] = "nobody"]
  /\ usage' = [usage EXCEPT ![c] = "fresh"]
  /\ undone' = undone \cup {i}
  /\ UNCHANGED <<delivered, resetFor>>
=============================================================================
