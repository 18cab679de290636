------------------------------- MODULE Wallet -------------------------------
(***************************************************************************)
(* The transactions that move money: transfers, administrator adjustments, *)
(* top-up receipts, lucky wheel spins, reservations and bonuses.  Each is a*)
(* database transaction of several statements: it locks rows one after the *)
(* other, decides from what it read, and commits or rolls back as a whole. *)
(* PostgreSQL runs them at READ COMMITTED and aborts one of those that wait*)
(* for each other in a circle.                                             *)
(***************************************************************************)
EXTENDS Integers, FiniteSets, Sequences, Sums

CONSTANTS
  Users,      \* telegram ids
  Receipts,   \* top-up receipts
  Intents,    \* purchase intents
  Calls,      \* calls of the services, each made at most once
  Op,         \* Calls -> what is called, with its parameters
  Owner,      \* Receipts and Intents -> whose they are
  Amount,     \* Receipts and Intents -> the top-up or the price
  Referrer,   \* Intents -> who is rewarded for the purchase, or 0
  Bonus,      \* Intents -> the referral bonus
  Cashback,   \* Intents -> the cashback
  Funds,      \* opening balances
  MaxSpins,   \* the setting lucky_wheel_max_spins
  MaxCalls    \* bound: how many calls are made in a behaviour

Kinds == {"transfer", "adjust", "spin", "submit", "approve", "reject",
          "reserve", "charge", "release", "bonus"}

Items == Receipts \cup Intents
Rows == Users \cup Items

ASSUME WalletAssumption ==
  /\ Users \subseteq Nat
  /\ Users \cap Items = {} /\ Receipts \cap Intents = {}
  /\ "free" \notin Calls /\ Users \cap {0} = {}
  /\ Owner \in [Items -> Users] /\ Amount \in [Items -> Nat]
  /\ Referrer \in [Intents -> Users \cup {0}]
  /\ \A i \in Intents : Referrer[i] # Owner[i]
  /\ Bonus \in [Intents -> Nat] /\ Cashback \in [Intents -> Nat]
  /\ Funds \in [Users -> Nat]
  /\ MaxSpins \in Nat /\ MaxCalls \in Nat

(* The parameters of a call: from and to for a transfer, user for what     *)
(* concerns one wallet, item for what concerns a receipt or an intent.     *)
ASSUME CallAssumption ==
  \A c \in Calls :
    LET o == Op[c] IN
    /\ o.kind \in Kinds
    /\ o.kind = "transfer" =>
         o.from \in Users /\ o.to \in Users /\ o.from # o.to /\ o.amount \in Nat \ {0}
    /\ o.kind \in {"adjust", "spin"} => o.user \in Users /\ o.amount \in Nat
    /\ o.kind = "adjust" => o.operation \in {"add", "deduct", "set"}
    /\ o.kind \in {"submit", "approve", "reject"} => o.item \in Receipts
    /\ o.kind \in {"reserve", "charge", "release", "bonus"} => o.item \in Intents

VARIABLES
  balance,    \* users.balance
  reserved,   \* users.reserved_balance
  ledger,     \* wallet_transactions of a user, in the order of their writing
  state,      \* status of a receipt or an intent ("none": no row yet)
  bonusAt,    \* is bonuses_processed_at of an intent set?
  holder,     \* the call whose transaction has a row locked
  pc,         \* where a call stands
  held,       \* how many of its rows a call has locked
  seen,       \* balance and reserved of a user as a call read them
  todo        \* what a call is about to add to the balances of which users

data  == <<balance, reserved, ledger, state, bonusAt>>
calls == <<holder, pc, held, seen, todo>>
vars  == <<data, calls>>

States == {"none", "pending", "approved", "rejected", "completed", "failed"}
Steps  == {"idle", "lock", "check", "commit", "done", "refused", "aborted"}
Blank  == [u \in Users |-> [balance |-> 0, reserved |-> 0]]
Nothing == [u \in {} |-> 0]

TypeOK ==
  /\ balance \in [Users -> Int] /\ reserved \in [Users -> Int]
  /\ \A u \in Users : \A k \in DOMAIN ledger[u] :
       ledger[u][k].amount \in Int /\ ledger[u][k].after \in Int
  /\ state \in [Items -> States]
  /\ bonusAt \in [Intents -> BOOLEAN]
  /\ holder \in [Rows -> Calls \cup {"free"}]
  /\ pc \in [Calls -> Steps]
  /\ held \in [Calls -> 0..3]
  /\ seen \in [Calls -> [Users -> [balance : Int, reserved : Int]]]
  /\ DOMAIN todo = Calls
  /\ \A c \in Calls :
       /\ DOMAIN todo[c] \subseteq Users
       /\ \A u \in DOMAIN todo[c] : todo[c][u] \in Int

Init ==
  /\ balance = Funds /\ reserved = [u \in Users |-> 0]
  /\ ledger = [u \in Users |-> <<>>]
  /\ state = [x \in Items |-> "none"]
  /\ bonusAt = [i \in Intents |-> FALSE]
  /\ holder = [r \in Rows |-> "free"]
  /\ pc = [c \in Calls |-> "idle"]
  /\ held = [c \in Calls |-> 0]
  /\ seen = [c \in Calls |-> Blank]
  /\ todo = [c \in Calls |-> Nothing]

-----------------------------------------------------------------------------
(* Mutant: a transfer locks the sender first.                              *)
SenderFirst(a, b) == <<a, b>>

Ascending(a, b) == IF a < b THEN <<a, b>> ELSE <<b, a>>

(* The purchase owes its buyer's referrer a bonus.                         *)
Promised(i) == Referrer[i] # 0 /\ Bonus[i] > 0

(* The rows a call locks, in the order of its statements.                  *)
RowsOf(c) ==
  LET o == Op[c] IN
  CASE o.kind = "transfer" -> Ascending(o.from, o.to)
    [] o.kind \in {"adjust", "spin"} -> <<o.user>>
    [] o.kind \in {"submit", "reserve"} -> <<Owner[o.item]>>
    [] o.kind = "reject" -> <<o.item>>
    [] o.kind \in {"approve", "charge", "release"} -> <<o.item, Owner[o.item]>>
    [] o.kind = "bonus" ->
         CASE Promised(o.item) /\ Cashback[o.item] > 0 ->
                <<o.item, Referrer[o.item], Owner[o.item]>>
           [] Promised(o.item) /\ Cashback[o.item] = 0 -> <<o.item, Referrer[o.item]>>
           [] ~Promised(o.item) /\ Cashback[o.item] > 0 -> <<o.item, Owner[o.item]>>
           [] OTHER -> <<o.item>>

(* The status an item must have for its statement to match the row.        *)
Required(c) ==
  CASE Op[c].kind \in {"submit", "reserve"} -> "none"
    [] Op[c].kind = "bonus" -> "completed"
    [] OTHER -> "pending"

OnItem(c) == Op[c].kind \notin {"transfer", "adjust", "spin"}
Matches(c) == OnItem(c) => state[Op[c].item] = Required(c)

(* reference_id is unique; only adjustments and transfers name their own.  *)
Ref(c, u) ==
  LET o == Op[c] IN
  CASE o.kind = "transfer" -> <<IF u = o.from THEN "sent" ELSE "recv", o.ref>>
    [] o.kind = "adjust" -> <<"adjust", o.ref>>
    [] o.kind = "spin" -> <<"spin", c>>
    [] o.kind = "bonus" -> <<IF u = Owner[o.item] THEN "cashback" ELSE "ref_bonus", o.item>>
    [] OTHER -> <<o.kind, o.item>>

Used(ref) == \E u \in Users : \E k \in DOMAIN ledger[u] : ledger[u][k].ref = ref

-----------------------------------------------------------------------------
(* What a call decides, holding its locks.                                 *)
Available(c, u) == seen[c][u].balance - seen[c][u].reserved

TargetBalance(c) ==
  LET o == Op[c] IN
  CASE o.operation = "add" -> seen[c][o.user].balance + o.amount
    [] o.operation = "deduct" -> seen[c][o.user].balance - o.amount
    [] o.operation = "set" -> o.amount

Spins(u) == {k \in DOMAIN ledger[u] : ledger[u][k].ref[1] = "spin"}

MayTransfer(c) == Available(c, Op[c].from) >= Op[c].amount /\ ~Used(Ref(c, Op[c].from))

(* Mutant: an adjustment may go below what is reserved.                    *)
MayAdjustBelow(c) == ~Used(Ref(c, Op[c].user)) /\ TargetBalance(c) >= 0

MayAdjust(c) ==
  ~Used(Ref(c, Op[c].user)) /\ TargetBalance(c) >= seen[c][Op[c].user].reserved

MaySpin(c) == Cardinality(Spins(Op[c].user)) < MaxSpins

(* No other row of a kind is pending for the user.                         *)
OnePending(S, x) == \A y \in S : Owner[y] = Owner[x] => state[y] # "pending"

MayReserve(c) ==
  /\ Available(c, Owner[Op[c].item]) >= Amount[Op[c].item]
  /\ OnePending(Intents, Op[c].item)

MayCharge(c) ==
  /\ seen[c][Owner[Op[c].item]].balance >= Amount[Op[c].item]
  /\ seen[c][Owner[Op[c].item]].reserved >= Amount[Op[c].item]

MayRelease(c) == seen[c][Owner[Op[c].item]].reserved >= Amount[Op[c].item]

MayWrite(c) ==
  CASE Op[c].kind = "transfer" -> MayTransfer(c)
    [] Op[c].kind = "adjust" -> MayAdjust(c)
    [] Op[c].kind = "spin" -> MaySpin(c)
    [] Op[c].kind = "submit" -> OnePending(Receipts, Op[c].item)
    [] Op[c].kind = "reserve" -> MayReserve(c)
    [] Op[c].kind = "charge" -> MayCharge(c)
    [] Op[c].kind = "release" -> MayRelease(c)
    [] OTHER -> TRUE

(* An adjustment that was made before answers what it answered then.       *)
Repeats(c) ==
  LET o == Op[c] IN
  /\ o.kind = "adjust"
  /\ \E k \in DOMAIN ledger[o.user] :
       LET row == ledger[o.user][k] IN
       /\ row.ref = Ref(c, o.user)
       /\ CASE o.operation = "add" -> row.amount = o.amount
            [] o.operation = "deduct" -> row.amount = -o.amount
            [] o.operation = "set" -> row.after = o.amount

(* Mutant: the referral bonus is forgotten.                                *)
DueCashback(i) ==
  IF Cashback[i] > 0 /\ ~Used(<<"cashback", i>>) THEN {Owner[i]} ELSE {}

(* The wallets a bonus still has to credit.                                *)
Due(i) ==
  (IF Promised(i) /\ ~Used(<<"ref_bonus", i>>) THEN {Referrer[i]} ELSE {})
  \cup (IF Cashback[i] > 0 /\ ~Used(<<"cashback", i>>) THEN {Owner[i]} ELSE {})

(* What a call adds to the balances.                                       *)
Transferred(c) ==
  LET o == Op[c] IN
  [u \in {o.from, o.to} |-> IF u = o.from THEN -o.amount ELSE o.amount]

Adjusted(c) ==
  LET diff == TargetBalance(c) - seen[c][Op[c].user].balance IN
  [u \in (IF diff = 0 THEN {} ELSE {Op[c].user}) |-> diff]

Won(c) == [u \in {Op[c].user} |-> Op[c].amount]
ToppedUp(c) == [u \in {Owner[Op[c].item]} |-> Amount[Op[c].item]]
Charged(c) == [u \in {Owner[Op[c].item]} |-> -Amount[Op[c].item]]

Rewarded(c) ==
  LET i == Op[c].item IN
  [u \in Due(i) |-> IF u = Owner[i] THEN Cashback[i] ELSE Bonus[i]]

Writes(c) ==
  CASE Op[c].kind = "transfer" -> Transferred(c)
    [] Op[c].kind = "adjust" -> Adjusted(c)
    [] Op[c].kind = "spin" -> Won(c)
    [] Op[c].kind = "approve" -> ToppedUp(c)
    [] Op[c].kind = "charge" -> Charged(c)
    [] Op[c].kind = "bonus" -> Rewarded(c)
    [] OTHER -> Nothing

(* What a commit sets besides the balances.                                *)
Held(c) ==
  CASE Op[c].kind = "reserve" -> Amount[Op[c].item]
    [] Op[c].kind \in {"charge", "release"} -> -Amount[Op[c].item]
    [] OTHER -> 0

(* Mutant: a status the database has no name for.                          *)
NewStateUnknown(c) ==
  IF Op[c].kind \in {"submit", "reserve"} THEN "pending"
  ELSE IF Op[c].kind = "approve" THEN "credited"
  ELSE "completed"

NewState(c) ==
  CASE Op[c].kind = "approve" -> "approved"
    [] Op[c].kind = "reject" -> "rejected"
    [] Op[c].kind \in {"submit", "reserve"} -> "pending"
    [] Op[c].kind \in {"charge", "bonus"} -> "completed"
    [] Op[c].kind = "release" -> "failed"

-----------------------------------------------------------------------------
(* Mutant: the transaction of a refused call is left open.                 *)
EndOpen(c, how) ==
  /\ pc' = [pc EXCEPT ![c] = how]
  /\ held' = [held EXCEPT ![c] = 0]
  /\ holder' = IF how = "refused" THEN holder
               ELSE [r \in Rows |-> IF holder[r] = c THEN "free" ELSE holder[r]]
  /\ seen' = [seen EXCEPT ![c] = Blank]
  /\ todo' = [todo EXCEPT ![c] = Nothing]

(* The end of a transaction: its locks are free and its locals are gone.   *)
End(c, how) ==
  /\ pc' = [pc EXCEPT ![c] = how]
  /\ held' = [held EXCEPT ![c] = 0]
  /\ holder' = [r \in Rows |-> IF holder[r] = c THEN "free" ELSE holder[r]]
  /\ seen' = [seen EXCEPT ![c] = Blank]
  /\ todo' = [todo EXCEPT ![c] = Nothing]

(* A call that waits for its next row, or may still begin.                 *)
Open(c) ==
  \/ pc[c] = "lock"
  \/ pc[c] = "idle" /\ Cardinality({d \in Calls : pc[d] # "idle"}) < MaxCalls

NextRow(c) == RowsOf(c)[held[c] + 1]

Read(c, r) ==
  IF r \in Users
    THEN seen' = [seen EXCEPT ![c][r] = [balance |-> balance[r], reserved |-> reserved[r]]]
    ELSE UNCHANGED seen

(* Mutant: the rows are read without FOR UPDATE.                           *)
AcquireUnlocked(c) ==
  /\ Open(c)
  /\ Read(c, NextRow(c))
  /\ held' = [held EXCEPT ![c] = @ + 1]
  /\ pc' = [pc EXCEPT ![c] = IF held'[c] = Len(RowsOf(c)) THEN "check" ELSE "lock"]
  /\ UNCHANGED <<data, holder, todo>>

(* SELECT ... FOR UPDATE, or an UPDATE that waits for the row and then     *)
(* evaluates its condition on what is committed.                           *)
Acquire(c) ==
  LET r == NextRow(c) IN
  /\ Open(c)
  /\ holder[r] = "free"
  /\ r \in Items => Matches(c)
  /\ holder' = [holder EXCEPT ![r] = c]
  /\ Read(c, r)
  /\ held' = [held EXCEPT ![c] = @ + 1]
  /\ pc' = [pc EXCEPT ![c] = IF held'[c] = Len(RowsOf(c)) THEN "check" ELSE "lock"]
  /\ UNCHANGED <<data, todo>>

(* The statement on the item matches no row: null, or false, is answered.  *)
NoRow(c) ==
  /\ Open(c)
  /\ NextRow(c) \in Items /\ holder[NextRow(c)] = "free" /\ ~Matches(c)
  /\ End(c, "refused")
  /\ UNCHANGED data

(* The SELECTs after the locks, and what follows from them.                *)
Check(c) ==
  /\ pc[c] = "check"
  /\ UNCHANGED data
  /\ IF MayWrite(c) /\ Matches(c)
       THEN /\ pc' = [pc EXCEPT ![c] = "commit"]
            /\ todo' = [todo EXCEPT ![c] = Writes(c)]
            /\ UNCHANGED <<holder, held, seen>>
       ELSE End(c, IF Repeats(c) THEN "done" ELSE "refused")

UniqueKeys(c) == \A u \in DOMAIN todo[c] : ~Used(Ref(c, u))

Commit(c) ==
  LET after == [u \in DOMAIN todo[c] |-> seen[c][u].balance + todo[c][u]] IN
  /\ pc[c] = "commit"
  /\ UniqueKeys(c)
  /\ balance' = [u \in Users |-> IF u \in DOMAIN after THEN after[u] ELSE balance[u]]
  /\ ledger' = [u \in Users |->
       IF u \in DOMAIN after
         THEN Append(ledger[u],
                [ref |-> Ref(c, u), amount |-> todo[c][u], after |-> after[u]])
         ELSE ledger[u]]
  /\ IF OnItem(c)
       THEN /\ reserved' = [reserved EXCEPT ![Owner[Op[c].item]] = @ + Held(c)]
            /\ state' = [state EXCEPT ![Op[c].item] = NewState(c)]
       ELSE UNCHANGED <<reserved, state>>
  /\ bonusAt' = IF Op[c].kind = "bonus" THEN [bonusAt EXCEPT ![Op[c].item] = TRUE]
                ELSE bonusAt
  /\ End(c, "done")

(* The unique index on reference_id, or on an intent's pending slot, stops *)
(* the transaction.                                                        *)
Duplicate(c) ==
  /\ pc[c] = "commit" /\ ~UniqueKeys(c)
  /\ End(c, "aborted")
  /\ UNCHANGED data

(* c waits for a row that d has locked.                                    *)
WaitsFor(c, d) == pc[c] = "lock" /\ holder[NextRow(c)] = d

Waiting == {c \in Calls : pc[c] = "lock"}

(* Calls that wait for each other in a circle.                             *)
Circle(S) == S # {} /\ \A c \in S : \E d \in S : WaitsFor(c, d)

(* The deadlock detector rolls one of a circle back.                       *)
Victim(c) ==
  /\ pc[c] = "lock" /\ \E S \in SUBSET Waiting : c \in S /\ Circle(S)
  /\ End(c, "aborted")
  /\ UNCHANGED data

(* The process or its connection dies before the commit.                   *)
Crash(c) ==
  /\ pc[c] \in {"lock", "check", "commit"}
  /\ End(c, "aborted")
  /\ UNCHANGED data

Work(c) == Acquire(c) \/ NoRow(c) \/ Check(c) \/ Commit(c) \/ Duplicate(c) \/ Victim(c)

Next == \E c \in Calls : Work(c) \/ Crash(c)

Spec == Init /\ [][Next]_vars

(* Statements end, and the deadlock detector runs: the database always gets*)
(* on with some call.                                                      *)
FairSpec == Spec /\ WF_vars(\E c \in Calls : Work(c))

-----------------------------------------------------------------------------
(* Properties.                                                             *)

(* The audit trail of a wallet explains its balance row by row: each row   *)
(* continues from the balance the row before it left, and the last one     *)
(* leaves the present balance.  An update lost between two transactions    *)
(* would break the chain.                                                  *)
Before(u, k) == IF k = 1 THEN Funds[u] ELSE ledger[u][k - 1].after

LedgerChains ==
  \A u \in Users :
    /\ balance[u] = Before(u, Len(ledger[u]) + 1)
    /\ \A k \in 1..Len(ledger[u]) :
         ledger[u][k].after = Before(u, k) + ledger[u][k].amount

(* No transfer, adjustment or charge touches what a pending purchase has   *)
(* set aside, whatever commits between its read and its write; the CHECK   *)
(* constraints of `users` are never what stops it.                         *)
FundsCovered == \A u \in Users : 0 <= reserved[u] /\ reserved[u] <= balance[u]

(* One pending receipt and one pending purchase per user, and no more spins*)
(* than allowed; of receipts and spins no constraint of the database says  *)
(* so, only the row lock under which they are counted.                     *)
LimitsHold ==
  /\ \A x, y \in Items :
       /\ Owner[x] = Owner[y] /\ state[x] = "pending" /\ state[y] = "pending"
       /\ x \in Receipts <=> y \in Receipts
       => x = y
  /\ \A u \in Users : Cardinality(Spins(u)) <= MaxSpins

(* A balance is made of the approved receipts, the completed purchases, the*)
(* bonuses marked processed, the transfers that answered success, and the  *)
(* adjustments and spins on record: each exactly once.                     *)
Mine(S, u, st) == {x \in S : Owner[x] = u /\ state[x] = st}

Transfers(side, u) ==
  {c \in Calls : /\ Op[c].kind = "transfer" /\ pc[c] = "done"
                 /\ IF side = "sent" THEN Op[c].from = u ELSE Op[c].to = u}

AmountMoved == [c \in {d \in Calls : Op[d].kind = "transfer"} |-> Op[c].amount]
Earned(u)   == {i \in Intents : Owner[i] = u /\ bonusAt[i]}
Referred(u) == {i \in Intents : Referrer[i] = u /\ bonusAt[i]}
Entered(u)  == {k \in DOMAIN ledger[u] : ledger[u][k].ref[1] \in {"adjust", "spin"}}
Written(u)  == [k \in DOMAIN ledger[u] |-> ledger[u][k].amount]

BalanceExplained ==
  \A u \in Users :
    balance[u] = Funds[u]
      + SumOver(Amount, Mine(Receipts, u, "approved"))
      - SumOver(Amount, Mine(Intents, u, "completed"))
      + SumOver(Cashback, Earned(u)) + SumOver(Bonus, Referred(u))
      + SumOver(AmountMoved, Transfers("recv", u)) - SumOver(AmountMoved, Transfers("sent", u))
      + SumOver(Written(u), Entered(u))

(* "Deterministic lock order by telegramId (ascending) to prevent          *)
(* deadlocks" (WalletService.ts): transfers, receipts and purchases never  *)
(* wait for each other in a circle.  Bonuses are not ordered; see README.  *)
OnlyBonusesDeadlock ==
  \A S \in SUBSET Waiting : Circle(S) => \E c \in S : Op[c].kind = "bonus"

(* Every call that began is answered, deadlocks and crashes of others      *)
(* included: again and again, none is under way.                           *)
CallsEnd == []<>(\A c \in Calls : pc[c] \notin {"lock", "check", "commit"})
=============================================================================
