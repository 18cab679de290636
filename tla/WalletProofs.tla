---------------------------- MODULE WalletProofs ----------------------------
(***************************************************************************)
(* Proofs about Wallet, for any users, calls and bound on the calls.  Row  *)
(* locks make what a transaction has read the truth until it commits; from *)
(* that follow the chain of the audit trail, the safety of reserved funds, *)
(* the limits that are counted before a row is written, and the sums that  *)
(* explain every balance.  The order of the locks leaves deadlocks to the  *)
(* bonuses.                                                                *)
(***************************************************************************)
EXTENDS Wallet, SumProofs, TLAPS

(* The rows of the ledger, and the ledger as sequences of them.            *)
Entry == [ref : {Ref(c, u) : c \in Calls, u \in Users}, amount : Int, after : Int]
LedgerType == ledger \in [Users -> Seq(Entry)]

(* A call holds the rows it has locked, in order, and all of them once it  *)
(* decides.                                                                *)
Locked(c) ==
  /\ held[c] \in 0..Len(RowsOf(c))
  /\ \A k \in 1..held[c] : holder[RowsOf(c)[k]] = c
  /\ pc[c] \in {"idle", "lock"} => held[c] < Len(RowsOf(c))
  /\ pc[c] \in {"check", "commit"} => held[c] = Len(RowsOf(c))

(* What a call read of a wallet it has locked is still so.                 *)
Current(c) ==
  \A u \in Users : holder[u] = c =>
    seen[c][u] = [balance |-> balance[u], reserved |-> reserved[u]]

(* The wallets whose reserved funds a call changes.                        *)
Reserves(c) ==
  IF Op[c].kind \in {"reserve", "charge", "release"} THEN {Owner[Op[c].item]} ELSE {}

Touches(c) == DOMAIN todo[c] \cup Reserves(c)

(* What a call is about to change, it has locked.                          *)
Covers(c) == pc[c] = "commit" => \A u \in Touches(c) : holder[u] = c

Typed == TypeOK /\ LedgerType
LockInv == \A c \in Calls : Locked(c) /\ Current(c) /\ Covers(c)

-----------------------------------------------------------------------------
(* What the calls are.                                                     *)

LEMMA CallCases ==
  ASSUME NEW c \in Calls
  PROVE  /\ Op[c].kind \in Kinds
         /\ Op[c].kind = "transfer" =>
              /\ Op[c].from \in Users /\ Op[c].to \in Users /\ Op[c].from # Op[c].to
              /\ Op[c].amount \in Nat
         /\ Op[c].kind \in {"adjust", "spin"} => Op[c].user \in Users /\ Op[c].amount \in Nat
         /\ Op[c].kind = "adjust" => Op[c].operation \in {"add", "deduct", "set"}
         /\ OnItem(c) => /\ Op[c].item \in Items /\ Owner[Op[c].item] \in Users
                         /\ Amount[Op[c].item] \in Nat
         /\ Op[c].kind = "bonus" => Op[c].item \in Intents
  BY CallAssumption, WalletAssumption DEF Kinds, OnItem, Items

BonusRows(i) ==
  CASE Promised(i) /\ Cashback[i] > 0 -> <<i, Referrer[i], Owner[i]>>
    [] Promised(i) /\ Cashback[i] = 0 -> <<i, Referrer[i]>>
    [] ~Promised(i) /\ Cashback[i] > 0 -> <<i, Owner[i]>>
    [] OTHER -> <<i>>

(* The intent, then whoever the purchase owes something.                   *)
LEMMA BonusCases ==
  ASSUME NEW i \in Intents
  PROVE  \/ /\ BonusRows(i) = <<i, Referrer[i], Owner[i]>>
            /\ Referrer[i] \in Users
         \/ /\ BonusRows(i) = <<i, Referrer[i]>>
            /\ Referrer[i] \in Users /\ Cashback[i] = 0
         \/ BonusRows(i) = <<i, Owner[i]>> /\ ~Promised(i)
         \/ BonusRows(i) = <<i>> /\ ~Promised(i) /\ Cashback[i] = 0
<1>1. /\ Referrer[i] \in Users \cup {0} /\ Cashback[i] \in Nat
      /\ Promised(i) => Referrer[i] \in Users
  BY WalletAssumption DEF Promised
<1>2. CASE Promised(i) /\ Cashback[i] > 0 BY <1>1, <1>2 DEF BonusRows
<1>3. CASE Promised(i) /\ Cashback[i] = 0 BY <1>1, <1>3 DEF BonusRows
<1>4. CASE ~Promised(i) /\ Cashback[i] > 0 BY <1>4 DEF BonusRows
<1>5. CASE ~Promised(i) /\ Cashback[i] = 0
  BY <1>1, <1>5 DEF BonusRows
<1> QED BY <1>1, <1>2, <1>3, <1>4, <1>5

(* The rows, kind by kind.                                                 *)
LEMMA RowsCases ==
  ASSUME NEW c \in Calls
  PROVE  LET o == Op[c] IN
         /\ o.kind = "transfer" => RowsOf(c) \in {<<o.from, o.to>>, <<o.to, o.from>>}
         /\ o.kind \in {"adjust", "spin"} => RowsOf(c) = <<o.user>>
         /\ o.kind \in {"submit", "reserve"} => RowsOf(c) = <<Owner[o.item]>>
         /\ o.kind = "reject" => RowsOf(c) = <<o.item>>
         /\ o.kind \in {"approve", "charge", "release"} =>
              RowsOf(c) = <<o.item, Owner[o.item]>>
         /\ o.kind = "bonus" =>
              RowsOf(c) = BonusRows(o.item)
<1>1. Op[c].kind = "transfer" =>
        RowsOf(c) \in {<<Op[c].from, Op[c].to>>, <<Op[c].to, Op[c].from>>}
  BY DEF RowsOf, Ascending
<1>2. Op[c].kind \in {"adjust", "spin"} => RowsOf(c) = <<Op[c].user>> BY DEF RowsOf
<1>3. Op[c].kind = "submit" => RowsOf(c) = <<Owner[Op[c].item]>> BY DEF RowsOf
<1>4. Op[c].kind = "reserve" => RowsOf(c) = <<Owner[Op[c].item]>> BY DEF RowsOf
<1>5. Op[c].kind = "reject" => RowsOf(c) = <<Op[c].item>> BY DEF RowsOf
<1>6. Op[c].kind = "approve" => RowsOf(c) = <<Op[c].item, Owner[Op[c].item]>> BY DEF RowsOf
<1>7. Op[c].kind = "charge" => RowsOf(c) = <<Op[c].item, Owner[Op[c].item]>> BY DEF RowsOf
<1>8. Op[c].kind = "release" => RowsOf(c) = <<Op[c].item, Owner[Op[c].item]>> BY DEF RowsOf
<1>9. Op[c].kind = "bonus" => RowsOf(c) = BonusRows(Op[c].item)
  BY DEF RowsOf, BonusRows
<1> QED BY <1>1, <1>2, <1>3, <1>4, <1>5, <1>6, <1>7, <1>8, <1>9

LEMMA RowsTyped ==
  ASSUME NEW c \in Calls
  PROVE  /\ Len(RowsOf(c)) \in 1..3
         /\ \A k \in 1..Len(RowsOf(c)) : RowsOf(c)[k] \in Rows
<1> USE CallCases, RowsCases
<1>1. CASE Op[c].kind = "transfer" BY <1>1 DEF Rows
<1>2. CASE Op[c].kind \in {"adjust", "spin"} BY <1>2 DEF Rows
<1>3. CASE OnItem(c) /\ Op[c].kind # "bonus"
  <2>1. RowsOf(c) \in {<<Owner[Op[c].item]>>, <<Op[c].item>>, <<Op[c].item, Owner[Op[c].item]>>}
    BY <1>3 DEF OnItem, Kinds
  <2>2. Op[c].item \in Rows /\ Owner[Op[c].item] \in Rows BY <1>3 DEF Rows
  <2> QED BY <2>1, <2>2
<1>4. CASE Op[c].kind = "bonus"
  <2> DEFINE i == Op[c].item
  <2>1. i \in Intents /\ OnItem(c) BY <1>4 DEF OnItem
  <2>2. i \in Rows /\ Owner[i] \in Rows /\ Users \subseteq Rows BY <2>1 DEF Rows
  <2>3. RowsOf(c) = BonusRows(i) BY <1>4
  <2> HIDE DEF i
  <2> QED BY <2>1, <2>2, <2>3, BonusCases
<1> QED BY <1>1, <1>2, <1>3, <1>4 DEF OnItem

(* The writes, kind by kind.                                               *)
LEMMA WritesCases ==
  ASSUME NEW c \in Calls
  PROVE  LET o == Op[c] IN
         /\ o.kind = "transfer" =>
              Writes(c) = [u \in {o.from, o.to} |-> IF u = o.from THEN -o.amount ELSE o.amount]
         /\ o.kind = "adjust" =>
              Writes(c) = [u \in (IF TargetBalance(c) - seen[c][o.user].balance = 0
                                    THEN {} ELSE {o.user}) |->
                             TargetBalance(c) - seen[c][o.user].balance]
         /\ o.kind = "spin" => Writes(c) = [u \in {o.user} |-> o.amount]
         /\ o.kind \in {"submit", "reject", "reserve", "release"} => Writes(c) = Nothing
         /\ o.kind = "approve" => Writes(c) = [u \in {Owner[o.item]} |-> Amount[o.item]]
         /\ o.kind = "charge" => Writes(c) = [u \in {Owner[o.item]} |-> -Amount[o.item]]
         /\ o.kind = "bonus" =>
              Writes(c) = [u \in Due(o.item) |->
                             IF u = Owner[o.item] THEN Cashback[o.item] ELSE Bonus[o.item]]
<1> DEFINE o == Op[c]
<1>1. o.kind = "transfer" =>
        Writes(c) = [u \in {o.from, o.to} |-> IF u = o.from THEN -o.amount ELSE o.amount]
  BY DEF Writes, Transferred
<1>2. o.kind = "adjust" =>
        Writes(c) = [u \in (IF TargetBalance(c) - seen[c][o.user].balance = 0
                              THEN {} ELSE {o.user}) |->
                       TargetBalance(c) - seen[c][o.user].balance]
  BY DEF Writes, Adjusted
<1>3. o.kind = "spin" => Writes(c) = [u \in {o.user} |-> o.amount] BY DEF Writes, Won
<1>4. o.kind \in {"submit", "reject", "reserve", "release"} => Writes(c) = Nothing
  BY DEF Writes
<1>5. o.kind = "approve" => Writes(c) = [u \in {Owner[o.item]} |-> Amount[o.item]]
  BY DEF Writes, ToppedUp
<1>6. o.kind = "charge" => Writes(c) = [u \in {Owner[o.item]} |-> -Amount[o.item]]
  BY DEF Writes, Charged
<1>7. o.kind = "bonus" =>
        Writes(c) = [u \in Due(o.item) |->
                       IF u = Owner[o.item] THEN Cashback[o.item] ELSE Bonus[o.item]]
  BY DEF Writes, Rewarded
<1> QED BY <1>1, <1>2, <1>3, <1>4, <1>5, <1>6, <1>7

(* What a call writes are amounts, for wallets that it locks.              *)
LEMMA WritesLocked ==
  ASSUME TypeOK, NEW c \in Calls, NEW u \in DOMAIN Writes(c) \cup Reserves(c)
  PROVE  /\ u \in Users
         /\ u \in DOMAIN Writes(c) => Writes(c)[u] \in Int
         /\ \E k \in 1..Len(RowsOf(c)) : RowsOf(c)[k] = u
<1> USE CallCases, RowsCases
<1>1. CASE Op[c].kind = "transfer"
  <2>1. Writes(c) = [v \in {Op[c].from, Op[c].to} |->
                       IF v = Op[c].from THEN -Op[c].amount ELSE Op[c].amount]
    BY <1>1, WritesCases
  <2>2. u \in {Op[c].from, Op[c].to} BY <1>1, <2>1 DEF Reserves
  <2>3. Writes(c)[u] \in Int BY <1>1, <2>1, <2>2
  <2>4. RowsOf(c) \in {<<Op[c].from, Op[c].to>>, <<Op[c].to, Op[c].from>>} BY <1>1
  <2>5. \E k \in 1..Len(RowsOf(c)) : RowsOf(c)[k] = u
    <3>1. 1 \in 1..Len(RowsOf(c)) /\ 2 \in 1..Len(RowsOf(c)) BY ONLY <2>4
    <3>2. RowsOf(c)[1] = u \/ RowsOf(c)[2] = u BY ONLY <2>2, <2>4
    <3> QED BY ONLY <3>1, <3>2
  <2> QED BY <1>1, <2>2, <2>3, <2>5
<1>2. CASE Op[c].kind = "adjust"
  <2> DEFINE d == TargetBalance(c) - seen[c][Op[c].user].balance
  <2>1. d \in Int BY <1>2 DEF TargetBalance, TypeOK
  <2> HIDE DEF d
  <2>2. Writes(c) = [v \in (IF d = 0 THEN {} ELSE {Op[c].user}) |-> d]
    BY <1>2, WritesCases DEF d
  <2>3. u = Op[c].user /\ (u \in DOMAIN Writes(c) => Writes(c)[u] = d)
    BY <1>2, <2>2 DEF Reserves
  <2>4. RowsOf(c) = <<Op[c].user>> BY <1>2
  <2> QED BY <1>2, <2>1, <2>3, <2>4
<1>3. CASE Op[c].kind = "spin"
  <2>1. Writes(c) = [v \in {Op[c].user} |-> Op[c].amount] BY <1>3, WritesCases
  <2>2. u = Op[c].user BY <1>3, <2>1 DEF Reserves
  <2>3. RowsOf(c) = <<Op[c].user>> BY <1>3
  <2> QED BY <1>3, <2>1, <2>2, <2>3
<1>4. CASE Op[c].kind \in {"submit", "reject"}
  <2>1. DOMAIN Writes(c) = {} BY <1>4, WritesCases DEF Nothing
  <2>2. Reserves(c) = {} BY <1>4 DEF Reserves
  <2> QED BY <2>1, <2>2
<1>5. CASE Op[c].kind \in {"reserve", "release", "approve", "charge"}
  <2> DEFINE a == Amount[Op[c].item]
             w == Owner[Op[c].item]
  <2>1. OnItem(c) BY <1>5 DEF OnItem
  <2>2. a \in Nat /\ w \in Users BY <2>1
  <2>3. \/ Writes(c) = Nothing
        \/ Writes(c) = [v \in {w} |-> a]
        \/ Writes(c) = [v \in {w} |-> -a]
    BY <1>5, WritesCases
  <2> HIDE DEF a, w
  <2>4. Reserves(c) \subseteq {w} BY DEF Reserves, w
  <2>5. DOMAIN Nothing = {} BY DEF Nothing
  <2>6. u = w /\ (u \in DOMAIN Writes(c) => Writes(c)[u] \in {a, -a}) BY <2>3, <2>4, <2>5
  <2>7. RowsOf(c) = <<w>> \/ RowsOf(c) = <<Op[c].item, w>> BY <1>5 DEF w
  <2> HIDE CallCases, RowsCases
  <2>8. CASE RowsOf(c) = <<w>>
    <3>1. 1 \in 1..Len(RowsOf(c)) /\ RowsOf(c)[1] = w BY ONLY <2>8
    <3> QED BY ONLY <3>1, <2>2, <2>6
  <2>9. CASE RowsOf(c) = <<Op[c].item, w>>
    <3>1. 2 \in 1..Len(RowsOf(c)) /\ RowsOf(c)[2] = w BY ONLY <2>9
    <3> QED BY ONLY <3>1, <2>2, <2>6
  <2> QED BY ONLY <2>7, <2>8, <2>9
<1>6. CASE Op[c].kind = "bonus"
  <2> DEFINE i == Op[c].item
  <2>1. i \in Intents /\ Owner[i] \in Users BY <1>6 DEF OnItem
  <2>0. Writes(c) = [v \in Due(i) |-> IF v = Owner[i] THEN Cashback[i] ELSE Bonus[i]]
    BY <1>6, WritesCases
  <2>2. u \in Due(i) BY <1>6, <2>0 DEF Reserves
  <2>3. u = Owner[i] \/ (u = Referrer[i] /\ Referrer[i] # 0) BY <2>2 DEF Due, Promised
  <2>4. u \in Users BY <2>1, <2>3, WalletAssumption
  <2>5. Writes(c)[u] \in Int BY <2>0, <2>1, <2>2, WalletAssumption
  <2>6. RowsOf(c) = BonusRows(i) BY <1>6
  <2>7. \/ u = Owner[i] /\ Cashback[i] # 0
        \/ u = Referrer[i] /\ Promised(i)
    BY <2>2, WalletAssumption, <2>1 DEF Due
  <2> HIDE DEF i
  <2>8. \E k \in 1..Len(RowsOf(c)) : RowsOf(c)[k] = u
    BY <2>1, <2>6, <2>7, BonusCases
  <2> QED BY <2>4, <2>5, <2>8
<1> QED BY <1>1, <1>2, <1>3, <1>4, <1>5, <1>6 DEF Kinds

-----------------------------------------------------------------------------
(* Types, and locks.                                                       *)

LEMMA InitLocks == Init => Typed /\ LockInv
<1> SUFFICES ASSUME Init PROVE Typed /\ LockInv OBVIOUS
<1> USE DEF Init
<1>1. TypeOK BY WalletAssumption DEF TypeOK, Blank, Nothing, Steps, States
<1>2. LedgerType
  <2>1. <<>> \in Seq(Entry) OBVIOUS
  <2> QED BY <2>1 DEF LedgerType
<1>3. ASSUME NEW c \in Calls PROVE Locked(c) /\ Current(c) /\ Covers(c)
  <2>1. Locked(c)
    <3>1. held[c] = 0 /\ pc[c] = "idle" OBVIOUS
    <3>2. Len(RowsOf(c)) \in 1..3 BY RowsTyped
    <3> QED BY ONLY <3>1, <3>2 DEF Locked
  <2>2. Current(c) BY WalletAssumption DEF Current, Rows
  <2>3. Covers(c) BY DEF Covers
  <2> QED BY <2>1, <2>2, <2>3
<1> QED BY <1>1, <1>2, <1>3 DEF Typed, LockInv

(* A transaction that ends without writing.                                *)
LEMMA EndTyped ==
  ASSUME TypeOK, NEW c \in Calls, NEW how \in {"done", "refused", "aborted"}, End(c, how)
  PROVE  /\ holder' \in [Rows -> Calls \cup {"free"}]
         /\ pc' \in [Calls -> Steps]
         /\ held' \in [Calls -> 0..3]
         /\ seen' \in [Calls -> [Users -> [balance : Int, reserved : Int]]]
         /\ DOMAIN todo' = Calls
         /\ \A d \in Calls :
              DOMAIN todo'[d] \subseteq Users /\ \A u \in DOMAIN todo'[d] : todo'[d][u] \in Int
<1>1. todo' = [todo EXCEPT ![c] = Nothing] BY DEF End
<1>2. ASSUME NEW d \in Calls
      PROVE  DOMAIN todo'[d] \subseteq Users /\ \A u \in DOMAIN todo'[d] : todo'[d][u] \in Int
  BY <1>1, <1>2 DEF TypeOK, Nothing
<1> QED BY <1>2 DEF End, TypeOK, Steps, Blank

(* Every other call keeps its locks, and the one that ends has none.       *)
LEMMA EndLocks ==
  ASSUME Typed, LockInv, NEW c \in Calls, NEW how \in {"done", "refused", "aborted"},
         End(c, how), NEW d \in Calls
  PROVE  Locked(d)' /\ Covers(d)'
<1> USE DEF Typed, LockInv
<1>1. CASE d = c
  <2>1. pc'[c] = how /\ held'[c] = 0 BY DEF End, TypeOK
  <2>2. Len(RowsOf(c)) \in 1..3 BY RowsTyped
  <2> QED BY <1>1, <2>1, <2>2 DEF Locked, Covers
<1>2. CASE d # c
  <2>1. pc'[d] = pc[d] /\ held'[d] = held[d] /\ todo'[d] = todo[d] BY <1>2 DEF End, TypeOK
  <2>2. \A r \in Rows : holder[r] = d => holder'[r] = d BY <1>2 DEF End
  <2>3. Locked(d)'
    <3>1. Locked(d) OBVIOUS
    <3>2. \A k \in 1..held[d] : holder[RowsOf(d)[k]] = d /\ RowsOf(d)[k] \in Rows
      BY <3>1, RowsTyped DEF Locked
    <3> QED BY <2>1, <2>2, <3>1, <3>2 DEF Locked
  <2>4. Covers(d)'
    <3>1. Covers(d) /\ \A u \in Touches(d) : pc[d] = "commit" => u \in Rows /\ holder[u] = d
      <4>1. Reserves(d) \subseteq Users BY CallCases DEF Reserves, OnItem
      <4> QED BY <4>1 DEF Covers, Touches, Rows, TypeOK
    <3>2. Touches(d)' = Touches(d) BY <2>1 DEF Touches, Reserves
    <3> QED BY <2>1, <2>2, <3>1, <3>2 DEF Covers
  <2> QED BY <2>3, <2>4
<1> QED BY <1>1, <1>2

LEMMA EndCurrent ==
  ASSUME Typed, LockInv, NEW c \in Calls, NEW how \in {"done", "refused", "aborted"},
         End(c, how), NEW d \in Calls, UNCHANGED <<balance, reserved>>
  PROVE  Current(d)'
<1> USE DEF Typed, LockInv
<1>1. \A u \in Users : holder'[u] = d => d # c /\ holder[u] = d
  BY WalletAssumption DEF End, Rows
<1>2. d # c => seen'[d] = seen[d] BY DEF End, TypeOK
<1>3. Current(d) OBVIOUS
<1> QED BY <1>1, <1>2, <1>3 DEF Current

LEMMA EndKeeps ==
  ASSUME Typed, LockInv, NEW c \in Calls, NEW how \in {"done", "refused", "aborted"},
         End(c, how), UNCHANGED data
  PROVE  Typed' /\ LockInv'
<1>1. TypeOK' BY EndTyped DEF TypeOK, Typed, data
<1>2. LedgerType' BY DEF LedgerType, Typed, data
<1>3. ASSUME NEW d \in Calls PROVE (Locked(d) /\ Current(d) /\ Covers(d))'
  BY EndLocks, EndCurrent DEF data
<1> QED BY <1>1, <1>2, <1>3 DEF Typed, LockInv

LEMMA NextIndex == \A n \in Nat, m \in 1..3 : n < m => n + 1 \in 1..m /\ n + 1 \in 1..3
  OBVIOUS

LEMMA AcquireKeeps ==
  ASSUME Typed, LockInv, NEW c \in Calls, Acquire(c)
  PROVE  Typed' /\ LockInv'
<1> USE DEF Typed, LockInv
<1> DEFINE r == RowsOf(c)[held[c] + 1]
<1>1. /\ pc[c] \in {"idle", "lock"} /\ holder[r] = "free"
      /\ holder' = [holder EXCEPT ![r] = c]
      /\ Read(c, r)
      /\ held' = [held EXCEPT ![c] = @ + 1]
      /\ pc' = [pc EXCEPT ![c] = IF held'[c] = Len(RowsOf(c)) THEN "check" ELSE "lock"]
      /\ UNCHANGED <<data, todo>>
  BY DEF Acquire, Open, NextRow
<1>2. /\ held[c] \in Nat /\ held[c] < Len(RowsOf(c)) /\ Len(RowsOf(c)) \in 1..3
      /\ r \in Rows
  <2>1. Locked(c) /\ Len(RowsOf(c)) \in 1..3 BY RowsTyped
  <2>2. held[c] \in Nat /\ held[c] < Len(RowsOf(c)) BY <1>1, <2>1 DEF Locked
  <2>3. held[c] + 1 \in 1..Len(RowsOf(c)) BY <2>1, <2>2, NextIndex
  <2> QED BY <2>1, <2>2, <2>3, RowsTyped
<1> HIDE DEF r
<1>3. held'[c] = held[c] + 1 /\ held'[c] \in 1..3
  <2>1. held'[c] = held[c] + 1 BY <1>1 DEF TypeOK
  <2> QED BY <1>2, <2>1, NextIndex
<1>4. TypeOK'
  <2>1. seen' \in [Calls -> [Users -> [balance : Int, reserved : Int]]]
    <3> DEFINE now == [balance |-> balance[r], reserved |-> reserved[r]]
               wallets == [seen[c] EXCEPT ![r] = now]
    <3>1. CASE r \in Users
      <4>1. now \in [balance : Int, reserved : Int] BY <3>1 DEF TypeOK
      <4>2. seen[c] \in [Users -> [balance : Int, reserved : Int]] BY DEF TypeOK
      <4> HIDE DEF now
      <4>3. wallets \in [Users -> [balance : Int, reserved : Int]] BY <4>1, <4>2
      <4> USE DEF now
      <4>4. seen' = [seen EXCEPT ![c] = wallets] BY <1>1, <3>1 DEF Read
      <4> HIDE DEF wallets
      <4> QED BY <4>3, <4>4 DEF TypeOK
    <3>2. CASE r \notin Users BY <1>1, <3>2 DEF Read, TypeOK
    <3> QED BY <3>1, <3>2
  <2>2. pc' \in [Calls -> Steps] BY <1>1 DEF TypeOK, Steps
  <2>3. held' \in [Calls -> 0..3] BY <1>1, <1>3 DEF TypeOK
  <2>4. holder' \in [Rows -> Calls \cup {"free"}] BY <1>1, <1>2 DEF TypeOK
  <2> QED BY <1>1, <2>1, <2>2, <2>3, <2>4 DEF TypeOK, data
<1>5. LedgerType' BY <1>1 DEF LedgerType, data
<1>6. ASSUME NEW d \in Calls PROVE (Locked(d) /\ Current(d) /\ Covers(d))'
  <2>0. "free" \notin Calls BY WalletAssumption
  <2>1. \A x \in Rows : holder[x] = d => holder'[x] = d BY <1>1, <2>0 DEF TypeOK
  <2>2. holder'[r] = c BY <1>1, <1>2 DEF TypeOK
  <2>3. Locked(d) /\ Current(d) /\ Covers(d) OBVIOUS
  <2>4. \A k \in 1..held[d] : holder[RowsOf(d)[k]] = d /\ RowsOf(d)[k] \in Rows
    BY <2>3, RowsTyped DEF Locked
  <2>5. Locked(d)'
    <3>1. CASE d = c
      <4>1. \A k \in 1..held'[c] : holder'[RowsOf(c)[k]] = c
        BY <1>2, <1>3, <2>1, <2>2, <2>4, <3>1 DEF r
      <4>2. pc'[c] = IF held'[c] = Len(RowsOf(c)) THEN "check" ELSE "lock"
        BY <1>1 DEF TypeOK
      <4> QED BY <1>2, <1>3, <3>1, <4>1, <4>2 DEF Locked
    <3>2. CASE d # c
      <4>1. pc'[d] = pc[d] /\ held'[d] = held[d] BY <1>1, <3>2 DEF TypeOK
      <4> QED BY <2>1, <2>3, <2>4, <4>1 DEF Locked
    <3> QED BY <3>1, <3>2
  <2>6. Current(d)'
    <3>1. ASSUME NEW u \in Users, holder'[u] = d
          PROVE  seen'[d][u] = [balance |-> balance[u], reserved |-> reserved[u]]
      <4>1. CASE u = r
        <5>1. d = c BY <2>2, <3>1, <4>1
        <5>2. seen' = [seen EXCEPT ![c][r] =
                         [balance |-> balance[r], reserved |-> reserved[r]]]
          BY <1>1, <4>1 DEF Read
        <5>3. seen[c] \in [Users -> [balance : Int, reserved : Int]] BY DEF TypeOK
        <5> QED BY <4>1, <5>1, <5>2, <5>3 DEF TypeOK
      <4>2. CASE u # r
        <5>1. holder[u] = d BY <1>1, <3>1, <4>2 DEF TypeOK, Rows
        <5>2. seen'[d][u] = seen[d][u]
          <6>1. seen[c] \in [Users -> [balance : Int, reserved : Int]] BY DEF TypeOK
          <6>2. CASE r \in Users
            <7>1. seen' = [seen EXCEPT ![c] = [seen[c] EXCEPT ![r] =
                             [balance |-> balance[r], reserved |-> reserved[r]]]]
              BY <1>1, <6>2 DEF Read
            <7> QED BY <4>2, <6>1, <7>1 DEF TypeOK
          <6>3. CASE r \notin Users BY <1>1, <6>3 DEF Read
          <6> QED BY <6>2, <6>3
        <5> QED BY <2>3, <5>1, <5>2 DEF Current
      <4> QED BY <4>1, <4>2
    <3> QED BY <1>1, <3>1 DEF Current, data
  <2>7. Covers(d)'
    <3>1. CASE d = c
      <4>1. pc'[c] \in {"check", "lock"} BY <1>1 DEF TypeOK
      <4> QED BY <3>1, <4>1 DEF Covers
    <3>2. CASE d # c
      <4>1. pc'[d] = pc[d] /\ todo' = todo BY <1>1, <3>2 DEF TypeOK
      <4>2. Touches(d)' = Touches(d) BY <4>1 DEF Touches, Reserves
      <4>3. Touches(d) \subseteq Rows
        BY CallCases DEF Touches, Reserves, OnItem, TypeOK, Rows
      <4> QED BY <2>1, <2>3, <4>1, <4>2, <4>3 DEF Covers
    <3> QED BY <3>1, <3>2
  <2> QED BY <2>5, <2>6, <2>7
<1> QED BY <1>4, <1>5, <1>6

(* A decision: the plan covers only wallets the call has locked.           *)
LEMMA CheckKeeps ==
  ASSUME Typed, LockInv, NEW c \in Calls, Check(c)
  PROVE  Typed' /\ LockInv'
<1> USE DEF Typed, LockInv
<1>1. CASE MayWrite(c) /\ Matches(c)
  <2>1. /\ pc[c] = "check" /\ UNCHANGED data
        /\ pc' = [pc EXCEPT ![c] = "commit"]
        /\ todo' = [todo EXCEPT ![c] = Writes(c)]
        /\ UNCHANGED <<holder, held, seen>>
    BY <1>1 DEF Check
  <2>2. TypeOK'
    <3>1. pc' \in [Calls -> Steps] BY <2>1 DEF TypeOK, Steps
    <3>2. ASSUME NEW d \in Calls
          PROVE  /\ DOMAIN todo'[d] \subseteq Users
                 /\ \A u \in DOMAIN todo'[d] : todo'[d][u] \in Int
      <4>1. CASE d = c
        <5>1. todo'[d] = Writes(c) BY <2>1, <4>1 DEF TypeOK
        <5> QED BY <5>1, WritesLocked DEF TypeOK
      <4>2. CASE d # c
        <5>1. todo'[d] = todo[d] BY <2>1, <4>2
        <5> QED BY <5>1 DEF TypeOK
      <4> QED BY <4>1, <4>2
    <3> QED BY <2>1, <3>1, <3>2 DEF TypeOK, data
  <2>3. LedgerType' BY <2>1 DEF LedgerType, data
  <2>4. ASSUME NEW d \in Calls PROVE (Locked(d) /\ Current(d) /\ Covers(d))'
    <3>1. Locked(d) /\ Current(d) /\ Covers(d) OBVIOUS
    <3>2. Locked(d)' BY <2>1, <3>1 DEF Locked, TypeOK
    <3>3. Current(d)' BY <2>1, <3>1 DEF Current, data
    <3>4. Covers(d)'
      <4>1. CASE d = c
        <5>1. Touches(c)' = DOMAIN Writes(c) \cup Reserves(c)
          BY <2>1 DEF Touches, Reserves, TypeOK
        <5>2. \A u \in Touches(c)' : \E k \in 1..held[c] : RowsOf(c)[k] = u
          BY <2>1, <3>1, <4>1, <5>1, WritesLocked DEF Locked
        <5> QED BY <2>1, <3>1, <4>1, <5>2 DEF Locked, Covers
      <4>2. CASE d # c
        <5>1. pc'[d] = pc[d] /\ todo'[d] = todo[d] BY <2>1, <4>2 DEF TypeOK
        <5>2. Touches(d)' = Touches(d) BY <5>1 DEF Touches, Reserves
        <5> QED BY <2>1, <3>1, <5>1, <5>2 DEF Covers
      <4> QED BY <4>1, <4>2
    <3> QED BY <3>2, <3>3, <3>4
  <2> QED BY <2>2, <2>3, <2>4
<1>2. CASE ~(MayWrite(c) /\ Matches(c))
  <2>1. PICK how \in {"done", "refused"} : End(c, how) BY <1>2 DEF Check
  <2>2. UNCHANGED data BY DEF Check
  <2> QED BY <2>1, <2>2, EndKeeps
<1> QED BY <1>1, <1>2

(* What a commit changes, in terms of the database alone.                  *)
Added(c, u) == IF u \in DOMAIN todo[c] THEN todo[c][u] ELSE 0
Reserved(c, u) == IF OnItem(c) /\ u = Owner[Op[c].item] THEN Held(c) ELSE 0

LEMMA HeldTyped ==
  ASSUME NEW c \in Calls
  PROVE  /\ OnItem(c) => Held(c) \in Int /\ NewState(c) \in States
         /\ Held(c) # 0 => Op[c].kind \in {"reserve", "charge", "release"}
<1>1. Held(c) # 0 => Op[c].kind \in {"reserve", "charge", "release"} BY DEF Held
<1>2. ASSUME OnItem(c) PROVE Held(c) \in Int
  <2>1. Amount[Op[c].item] \in Int BY <1>2, CallCases
  <2> QED BY <2>1 DEF Held
<1>3. ASSUME OnItem(c) PROVE NewState(c) \in States
  BY <1>3, CallCases DEF NewState, States, OnItem, Kinds
<1> QED BY <1>1, <1>2, <1>3

LEMMA CommitEffect ==
  ASSUME Typed, LockInv, NEW c \in Calls, Commit(c)
  PROVE  /\ End(c, "done")
         /\ balance' \in [Users -> Int] /\ reserved' \in [Users -> Int]
         /\ \A u \in Users :
              /\ Added(c, u) \in Int /\ Reserved(c, u) \in Int
              /\ balance'[u] = balance[u] + Added(c, u)
              /\ reserved'[u] = reserved[u] + Reserved(c, u)
              /\ holder[u] # c => balance'[u] = balance[u] /\ reserved'[u] = reserved[u]
         /\ ledger' = [u \in Users |->
              IF u \in DOMAIN todo[c]
                THEN Append(ledger[u], [ref |-> Ref(c, u), amount |-> Added(c, u),
                                        after |-> balance'[u]])
                ELSE ledger[u]]
         /\ state' \in [Items -> States]
         /\ bonusAt' \in [Intents -> BOOLEAN]
<1> USE DEF Typed, LockInv
<1> DEFINE after == [u \in DOMAIN todo[c] |-> seen[c][u].balance + todo[c][u]]
<1>1. /\ pc[c] = "commit" /\ End(c, "done")
      /\ balance' = [u \in Users |-> IF u \in DOMAIN after THEN after[u] ELSE balance[u]]
      /\ ledger' = [u \in Users |->
           IF u \in DOMAIN after
             THEN Append(ledger[u],
                    [ref |-> Ref(c, u), amount |-> todo[c][u], after |-> after[u]])
             ELSE ledger[u]]
      /\ IF OnItem(c)
           THEN /\ reserved' = [reserved EXCEPT ![Owner[Op[c].item]] = @ + Held(c)]
                /\ state' = [state EXCEPT ![Op[c].item] = NewState(c)]
           ELSE UNCHANGED <<reserved, state>>
      /\ bonusAt' = IF Op[c].kind = "bonus" THEN [bonusAt EXCEPT ![Op[c].item] = TRUE]
                    ELSE bonusAt
  BY DEF Commit
<1>2. \A u \in DOMAIN todo[c] :
        /\ u \in Users /\ holder[u] = c /\ todo[c][u] \in Int
        /\ seen[c][u].balance = balance[u] /\ balance[u] \in Int
  <2>1. Current(c) /\ Covers(c) OBVIOUS
  <2>2. ASSUME NEW u \in DOMAIN todo[c]
        PROVE  u \in Users /\ todo[c][u] \in Int /\ balance[u] \in Int
    BY DEF TypeOK
  <2>3. ASSUME NEW u \in DOMAIN todo[c] PROVE holder[u] = c
    BY <1>1, <2>1 DEF Covers, Touches
  <2>4. ASSUME NEW u \in DOMAIN todo[c] PROVE seen[c][u].balance = balance[u]
    <3>1. u \in Users /\ holder[u] = c BY <2>2, <2>3
    <3>2. seen[c][u] = [balance |-> balance[u], reserved |-> reserved[u]]
      BY <2>1, <3>1 DEF Current
    <3> QED BY ONLY <3>2
  <2> QED BY <2>2, <2>3, <2>4
<1>3. \A u \in DOMAIN todo[c] : after[u] = balance[u] + todo[c][u] BY <1>2
<1>4. DOMAIN after = DOMAIN todo[c] OBVIOUS
<1> HIDE DEF after
<1>5. ASSUME NEW u \in Users
      PROVE  /\ Added(c, u) \in Int
             /\ balance'[u] = balance[u] + Added(c, u) /\ balance'[u] \in Int
             /\ holder[u] # c => balance'[u] = balance[u]
  BY <1>1, <1>2, <1>3, <1>4 DEF Added, TypeOK
<1>6. ASSUME NEW u \in Users
      PROVE  /\ Reserved(c, u) \in Int
             /\ reserved'[u] = reserved[u] + Reserved(c, u) /\ reserved'[u] \in Int
             /\ holder[u] # c => reserved'[u] = reserved[u]
  <2>1. CASE OnItem(c)
    <3> DEFINE w == Owner[Op[c].item]
    <3>1. Held(c) \in Int /\ w \in Users BY <2>1, HeldTyped, CallCases
    <3>2. reserved' = [reserved EXCEPT ![w] = @ + Held(c)] BY <1>1, <2>1
    <3>3. Held(c) # 0 => holder[w] = c
      <4>1. Covers(c) OBVIOUS
      <4> QED BY <1>1, <4>1, HeldTyped DEF Covers, Touches, Reserves
    <3>4. Reserved(c, u) = IF u = w THEN Held(c) ELSE 0 BY <2>1 DEF Reserved
    <3> HIDE DEF w
    <3> QED BY <3>1, <3>2, <3>3, <3>4 DEF TypeOK
  <2>2. CASE ~OnItem(c) BY <1>1, <2>2 DEF Reserved, TypeOK
  <2> QED BY <2>1, <2>2
<1>7. balance' \in [Users -> Int] BY <1>1, <1>5
<1>8. reserved' \in [Users -> Int]
  <2>1. DOMAIN reserved' = Users BY <1>1 DEF TypeOK
  <2>2. reserved' = [u \in Users |-> reserved'[u]] BY <1>1, <2>1 DEF TypeOK
  <2> QED BY <1>6, <2>2
<1>9. \A u \in DOMAIN todo[c] : Added(c, u) = todo[c][u] /\ after[u] = balance'[u]
  BY <1>1, <1>2, <1>4 DEF Added
<1>10. ledger' = [u \in Users |->
              IF u \in DOMAIN todo[c]
                THEN Append(ledger[u], [ref |-> Ref(c, u), amount |-> Added(c, u),
                                        after |-> balance'[u]])
                ELSE ledger[u]]
  BY <1>1, <1>4, <1>9
<1>11. state' \in [Items -> States]
  <2>1. CASE OnItem(c) BY <1>1, <2>1, HeldTyped DEF TypeOK
  <2>2. CASE ~OnItem(c) BY <1>1, <2>2 DEF TypeOK
  <2> QED BY <2>1, <2>2
<1>12. bonusAt' \in [Intents -> BOOLEAN] BY <1>1 DEF TypeOK
<1> QED BY <1>1, <1>5, <1>6, <1>7, <1>8, <1>10, <1>11, <1>12

LEMMA CommitKeeps ==
  ASSUME Typed, LockInv, NEW c \in Calls, Commit(c)
  PROVE  Typed' /\ LockInv'
<1> USE CommitEffect
<1>1. LedgerType'
  <2>1. ASSUME NEW u \in Users
        PROVE  (IF u \in DOMAIN todo[c]
                  THEN Append(ledger[u], [ref |-> Ref(c, u), amount |-> Added(c, u),
                                          after |-> balance'[u]])
                  ELSE ledger[u]) \in Seq(Entry)
    <3>1. ledger[u] \in Seq(Entry) BY DEF LedgerType, Typed
    <3>2. [ref |-> Ref(c, u), amount |-> Added(c, u), after |-> balance'[u]] \in Entry
      <4>1. Added(c, u) \in Int /\ balance'[u] \in Int OBVIOUS
      <4> QED BY <4>1 DEF Entry
    <3> QED BY <3>1, <3>2
  <2> QED BY <2>1 DEF LedgerType
<1>2. TypeOK'
  <2>1. \A u \in Users : \A k \in DOMAIN ledger'[u] :
          ledger'[u][k].amount \in Int /\ ledger'[u][k].after \in Int
    <3>1. ASSUME NEW u \in Users, NEW k \in DOMAIN ledger'[u] PROVE ledger'[u][k] \in Entry
      BY <1>1 DEF LedgerType
    <3> QED BY <3>1 DEF Entry
  <2>2. /\ holder' \in [Rows -> Calls \cup {"free"}]
        /\ pc' \in [Calls -> Steps]
        /\ held' \in [Calls -> 0..3]
        /\ seen' \in [Calls -> [Users -> [balance : Int, reserved : Int]]]
        /\ DOMAIN todo' = Calls
        /\ \A d \in Calls :
             DOMAIN todo'[d] \subseteq Users /\ \A u \in DOMAIN todo'[d] : todo'[d][u] \in Int
    BY EndTyped DEF Typed
  <2> QED BY <2>1, <2>2 DEF TypeOK
<1>3. ASSUME NEW d \in Calls PROVE (Locked(d) /\ Current(d) /\ Covers(d))'
  <2>1. Locked(d)' /\ Covers(d)' BY EndLocks
  <2>2. \A u \in Users : holder'[u] = d => d # c /\ holder[u] = d
    BY WalletAssumption DEF End, Rows
  <2>3. d # c => seen'[d] = seen[d] BY DEF End, TypeOK, Typed
  <2>4. Current(d) BY DEF LockInv
  <2>5. Current(d)' BY <2>2, <2>3, <2>4 DEF Current
  <2> QED BY <2>1, <2>5
<1> QED BY <1>1, <1>2, <1>3 DEF Typed, LockInv

LEMMA NextKeeps == Typed /\ LockInv /\ [Next]_vars => Typed' /\ LockInv'
<1> SUFFICES ASSUME Typed, LockInv, [Next]_vars PROVE Typed' /\ LockInv' OBVIOUS
<1>1. ASSUME NEW c \in Calls, Acquire(c) PROVE Typed' /\ LockInv'
  BY <1>1, AcquireKeeps
<1>2. ASSUME NEW c \in Calls, NoRow(c) PROVE Typed' /\ LockInv'
  BY <1>2, EndKeeps DEF NoRow
<1>3. ASSUME NEW c \in Calls, Check(c) PROVE Typed' /\ LockInv'
  BY <1>3, CheckKeeps
<1>4. ASSUME NEW c \in Calls, Commit(c) PROVE Typed' /\ LockInv'
  BY <1>4, CommitKeeps
<1>5. ASSUME NEW c \in Calls, Duplicate(c) \/ Victim(c) \/ Crash(c)
      PROVE  Typed' /\ LockInv'
  BY <1>5, EndKeeps DEF Duplicate, Victim, Crash
<1>6. CASE UNCHANGED vars
  BY <1>6 DEF vars, data, calls, Typed, LockInv, TypeOK, LedgerType, Locked, Current,
              Covers, Touches, Reserves
<1> QED BY <1>1, <1>2, <1>3, <1>4, <1>5, <1>6 DEF Next, Work

(* Types, whatever the calls and however many of them run at once.         *)
THEOREM WalletTyped == Spec => []TypeOK
<1>1. Typed => TypeOK BY DEF Typed
<1> QED BY <1>1, InitLocks, NextKeeps, PTL DEF Spec

(* While a call has a wallet's row locked, what it read there is the truth,*)
(* and it never commits a change to a wallet it has not locked.            *)
THEOREM ReadsStayTrue == Spec => []LockInv
BY InitLocks, NextKeeps, PTL DEF Spec

-----------------------------------------------------------------------------
(* The audit trail.                                                        *)

(* Only a commit changes the database.                                     *)
LEMMA DataSteps == [Next]_vars => UNCHANGED data \/ \E c \in Calls : Commit(c)
BY DEF Next, Work, Acquire, NoRow, Check, Duplicate, Victim, Crash, vars

LEMMA InitChains == Init => LedgerChains
<1> SUFFICES ASSUME Init, NEW u \in Users
             PROVE  /\ balance[u] = Before(u, Len(ledger[u]) + 1)
                    /\ \A k \in 1..Len(ledger[u]) :
                         ledger[u][k].after = Before(u, k) + ledger[u][k].amount
  BY DEF LedgerChains
<1>1. ledger[u] = <<>> /\ balance[u] = Funds[u] BY DEF Init
<1>2. Len(ledger[u]) = 0 BY <1>1
<1> QED BY <1>1, <1>2 DEF Before

LEMMA CommitChains ==
  ASSUME Typed, LockInv, LedgerChains, NEW c \in Calls, Commit(c)
  PROVE  LedgerChains'
<1> SUFFICES ASSUME NEW u \in Users
             PROVE  /\ balance'[u] = Before(u, Len(ledger[u]) + 1)'
                    /\ \A k \in 1..Len(ledger'[u]) :
                         ledger'[u][k].after = Before(u, k)' + ledger'[u][k].amount
  BY DEF LedgerChains
<1> DEFINE old == ledger[u]
           row == [ref |-> Ref(c, u), amount |-> Added(c, u), after |-> balance'[u]]
<1>1. /\ Added(c, u) \in Int /\ balance[u] \in Int
      /\ balance'[u] = balance[u] + Added(c, u)
      /\ ledger'[u] = IF u \in DOMAIN todo[c] THEN Append(old, row) ELSE old
  <2>1. balance[u] \in Int BY DEF Typed, TypeOK
  <2> QED BY <2>1, CommitEffect
<1>2. old \in Seq(Entry) /\ Len(old) \in Nat BY DEF Typed, LedgerType
<1>3. PICK n \in Nat : n = Len(old) BY <1>2
<1>4. /\ balance[u] = Before(u, n + 1)
      /\ \A k \in 1..n : old[k].after = Before(u, k) + old[k].amount
  BY <1>3 DEF LedgerChains
<1>5. CASE u \in DOMAIN todo[c]
  <2>1. row.after = balance[u] + row.amount /\ row.after = balance'[u] BY <1>1
  <2> HIDE DEF row
  <2>2. /\ Len(ledger'[u]) = n + 1
        /\ ledger'[u][n + 1] = row
        /\ \A k \in 1..n : ledger'[u][k] = old[k]
    BY <1>1, <1>2, <1>3, <1>5
  <2>3. ASSUME NEW k \in 1..(n + 1) PROVE Before(u, k)' = Before(u, k)
    <3>1. k = 1 \/ k - 1 \in 1..n OBVIOUS
    <3> QED BY <2>2, <3>1 DEF Before
  <2>4. Before(u, n + 2)' = row.after
    <3>1. n + 2 # 1 /\ (n + 2) - 1 = n + 1 OBVIOUS
    <3> QED BY <2>2, <3>1 DEF Before
  <2>5. balance'[u] = Before(u, Len(ledger[u]) + 1)'
    <3>1. Len(ledger'[u]) + 1 = n + 2 BY <2>2
    <3> QED BY <2>1, <2>4, <3>1 DEF Before
  <2>6. ASSUME NEW k \in 1..Len(ledger'[u])
        PROVE  ledger'[u][k].after = Before(u, k)' + ledger'[u][k].amount
    <3>1. k \in 1..(n + 1) /\ (k \in 1..n \/ k = n + 1) BY <2>2
    <3>2. Before(u, k)' = Before(u, k) BY <2>3, <3>1
    <3>3. CASE k \in 1..n BY <1>4, <2>2, <3>2, <3>3
    <3>4. CASE k = n + 1 BY <1>4, <2>1, <2>2, <3>2, <3>4
    <3> QED BY <3>1, <3>3, <3>4
  <2> QED BY <2>5, <2>6
<1>6. CASE u \notin DOMAIN todo[c]
  <2>1. ledger'[u] = old /\ balance'[u] = balance[u]
    BY <1>1, <1>6 DEF Added
  <2>2. Len(ledger'[u]) = n BY <1>3, <2>1
  <2> QED BY <1>3, <1>4, <2>1, <2>2 DEF Before
<1> QED BY <1>5, <1>6

(* Every wallet's audit trail is a chain that ends in its balance: no      *)
(* interleaving of any number of calls loses an update.                    *)
THEOREM AuditTrail == Spec => []LedgerChains
<1>1. Typed /\ LockInv /\ LedgerChains /\ [Next]_vars => LedgerChains'
  <2> SUFFICES ASSUME Typed, LockInv, LedgerChains, [Next]_vars PROVE LedgerChains' OBVIOUS
  <2>1. CASE UNCHANGED data BY <2>1 DEF data, LedgerChains, Before
  <2>2. ASSUME NEW c \in Calls, Commit(c) PROVE LedgerChains' BY <2>2, CommitChains
  <2> QED BY <2>1, <2>2, DataSteps
<1> QED BY <1>1, InitChains, InitLocks, NextKeeps, PTL DEF Spec

-----------------------------------------------------------------------------
(* Reserved funds.                                                         *)

(* What a call is about to commit leaves the reservations covered.         *)
Sound(c) ==
  pc[c] = "commit" => \A u \in Users : holder[u] = c =>
    /\ 0 <= reserved[u] + Reserved(c, u)
    /\ reserved[u] + Reserved(c, u) <= balance[u] + Added(c, u)

FundsInv == FundsCovered /\ \A c \in Calls : Sound(c)

(* The decision, kind by kind, for one wallet the call has locked.         *)
LEMMA DecisionSound ==
  ASSUME Typed, NEW c \in Calls, NEW u \in Users, MayWrite(c),
         seen[c][u] = [balance |-> balance[u], reserved |-> reserved[u]],
         0 <= reserved[u], reserved[u] <= balance[u],
         NEW add, add = IF u \in DOMAIN Writes(c) THEN Writes(c)[u] ELSE 0
  PROVE  /\ 0 <= reserved[u] + Reserved(c, u)
         /\ reserved[u] + Reserved(c, u) <= balance[u] + add
<1> DEFINE o == Op[c]
           w == Owner[o.item]
           a == Amount[o.item]
<1>1. balance[u] \in Int /\ reserved[u] \in Int BY DEF Typed, TypeOK
<1>2. seen[c][u].balance = balance[u] /\ seen[c][u].reserved = reserved[u] OBVIOUS
<1>3. OnItem(c) => w \in Users /\ a \in Nat BY CallCases
<1>4. Reserved(c, u) = IF OnItem(c) /\ u = w THEN Held(c) ELSE 0 BY DEF Reserved
<1>5. CASE o.kind = "transfer"
  <2>1. Reserved(c, u) = 0 BY <1>5 DEF Reserved, OnItem
  <2>2. o.amount \in Nat BY <1>5, CallCases
  <2>3. Writes(c) = [v \in {o.from, o.to} |-> IF v = o.from THEN -o.amount ELSE o.amount]
    BY <1>5, WritesCases
  <2>4. add \in {0, o.amount, -o.amount} /\ (add = -o.amount => u = o.from \/ o.amount = 0)
    BY <2>2, <2>3
  <2>5. u = o.from => balance[u] - reserved[u] >= o.amount
    BY <1>2, <1>5 DEF MayWrite, MayTransfer, Available
  <2> HIDE DEF o
  <2> QED BY <1>1, <2>1, <2>2, <2>4, <2>5
<1>6. CASE o.kind = "adjust"
  <2> DEFINE d == TargetBalance(c) - seen[c][o.user].balance
  <2>1. Reserved(c, u) = 0 BY <1>6 DEF Reserved, OnItem
  <2>2. Writes(c) = [v \in (IF d = 0 THEN {} ELSE {o.user}) |-> d] BY <1>6, WritesCases
  <2>3. add = 0 \/ (u = o.user /\ add = TargetBalance(c) - balance[u])
    BY <1>2, <2>2
  <2>4. u = o.user => TargetBalance(c) \in Int /\ TargetBalance(c) >= reserved[u]
    <3>1. u = o.user => TargetBalance(c) \in Int
      BY <1>1, <1>2, <1>6, CallCases DEF TargetBalance
    <3>2. u = o.user => TargetBalance(c) >= reserved[u] BY <1>2, <1>6 DEF MayWrite, MayAdjust
    <3> QED BY <3>1, <3>2
  <2> HIDE DEF o, d
  <2> QED BY <1>1, <2>1, <2>3, <2>4
<1>7. CASE o.kind = "spin"
  <2>1. Reserved(c, u) = 0 BY <1>7 DEF Reserved, OnItem
  <2>2. o.amount \in Nat BY <1>7, CallCases
  <2>3. Writes(c) = [v \in {o.user} |-> o.amount] BY <1>7, WritesCases
  <2>4. add \in {0, o.amount} BY <2>3
  <2> HIDE DEF o
  <2> QED BY <1>1, <2>1, <2>2, <2>4
<1>8. CASE o.kind \in {"submit", "reject"}
  <2>1. Held(c) = 0 BY <1>8 DEF Held
  <2>2. add = 0 BY <1>8, WritesCases DEF Nothing
  <2> QED BY <1>1, <1>4, <2>1, <2>2
<1>9. CASE o.kind = "approve"
  <2>1. Held(c) = 0 /\ OnItem(c) BY <1>9 DEF Held, OnItem
  <2>2. Writes(c) = [v \in {w} |-> a] BY <1>9, WritesCases
  <2>3. add \in {0, a} /\ a \in Nat BY <1>3, <2>1, <2>2
  <2> HIDE DEF a
  <2> QED BY <1>1, <1>4, <2>1, <2>3
<1>10. CASE o.kind = "reserve"
  <2>1. Held(c) = a /\ OnItem(c) /\ a \in Nat BY <1>3, <1>10 DEF Held, OnItem
  <2>2. add = 0 BY <1>10, WritesCases DEF Nothing
  <2>3. u = w => balance[u] - reserved[u] >= a BY <1>2, <1>10 DEF MayWrite, MayReserve, Available
  <2> HIDE DEF a, w
  <2> QED BY <1>1, <1>4, <2>1, <2>2, <2>3
<1>11. CASE o.kind = "charge"
  <2>1. Held(c) = -a /\ OnItem(c) /\ a \in Nat BY <1>3, <1>11 DEF Held, OnItem
  <2>2. Writes(c) = [v \in {w} |-> -a] BY <1>11, WritesCases
  <2>3. add = IF u = w THEN -a ELSE 0 BY <2>2
  <2>4. u = w => reserved[u] >= a BY <1>2, <1>11 DEF MayWrite, MayCharge
  <2> HIDE DEF a, w
  <2> QED BY <1>1, <1>4, <2>1, <2>3, <2>4
<1>12. CASE o.kind = "release"
  <2>1. Held(c) = -a /\ OnItem(c) /\ a \in Nat BY <1>3, <1>12 DEF Held, OnItem
  <2>2. add = 0 BY <1>12, WritesCases DEF Nothing
  <2>3. u = w => reserved[u] >= a BY <1>2, <1>12 DEF MayWrite, MayRelease
  <2> HIDE DEF a, w
  <2> QED BY <1>1, <1>4, <2>1, <2>2, <2>3
<1>13. CASE o.kind = "bonus"
  <2>1. Held(c) = 0 BY <1>13 DEF Held
  <2>2. o.item \in Intents BY <1>13, CallCases
  <2>3. Writes(c) = [v \in Due(o.item) |-> IF v = w THEN Cashback[o.item] ELSE Bonus[o.item]]
    BY <1>13, WritesCases
  <2>4. add \in Nat BY <2>2, <2>3, WalletAssumption
  <2> QED BY <1>1, <1>4, <2>1, <2>4
<1> QED BY <1>5, <1>6, <1>7, <1>8, <1>9, <1>10, <1>11, <1>12, <1>13, CallCases DEF Kinds

(* A call that was not about to commit, or no longer is, or whose wallets  *)
(* and plan another call leaves alone, stays sound.                        *)
LEMMA StaysSound ==
  ASSUME Typed, NEW d \in Calls, Sound(d),
         pc'[d] = "commit" => pc[d] = "commit" /\ todo'[d] = todo[d],
         \A u \in Users : holder'[u] = d =>
           holder[u] = d /\ balance'[u] = balance[u] /\ reserved'[u] = reserved[u]
  PROVE  Sound(d)'
BY DEF Sound, Reserved, Added

LEMMA EndSound ==
  ASSUME Typed, FundsInv, NEW c \in Calls, NEW how \in {"done", "refused", "aborted"},
         End(c, how), NEW d \in Calls,
         \A u \in Users : holder[u] # c => balance'[u] = balance[u] /\ reserved'[u] = reserved[u]
  PROVE  Sound(d)'
<1>1. pc'[d] = "commit" => d # c /\ pc[d] = "commit" /\ todo'[d] = todo[d]
  BY DEF End, Typed, TypeOK
<1>2. \A u \in Users : holder'[u] = d => holder[u] = d /\ d # c
  BY WalletAssumption DEF End, Rows
<1>3. Sound(d) BY DEF FundsInv
<1> QED BY <1>1, <1>2, <1>3, StaysSound

LEMMA NextFunds == Typed /\ LockInv /\ FundsInv /\ [Next]_vars => FundsInv'
<1> SUFFICES ASSUME Typed, LockInv, FundsInv, [Next]_vars PROVE FundsInv' OBVIOUS
<1>1. ASSUME UNCHANGED data PROVE FundsCovered' BY <1>1 DEF data, FundsInv, FundsCovered
<1>2. ASSUME NEW c \in Calls, Acquire(c) PROVE FundsInv'
  <2>1. UNCHANGED data BY <1>2 DEF Acquire
  <2>2. ASSUME NEW d \in Calls PROVE Sound(d)'
    <3>1. pc'[d] = "commit" => pc[d] = "commit" /\ d # c BY <1>2 DEF Acquire, Typed, TypeOK
    <3>2. todo' = todo BY <1>2 DEF Acquire
    <3>3. ASSUME pc'[d] = "commit", NEW u \in Users, holder'[u] = d PROVE holder[u] = d
      BY <1>2, <3>1, <3>3 DEF Acquire, Typed, TypeOK, Rows
    <3>4. Sound(d) BY DEF FundsInv
    <3> QED BY <2>1, <3>1, <3>2, <3>3, <3>4 DEF Sound, Reserved, Added, data
  <2> QED BY <1>1, <2>1, <2>2 DEF FundsInv
<1>3. ASSUME NEW c \in Calls, NEW how \in {"done", "refused", "aborted"}, End(c, how),
             UNCHANGED data
      PROVE  FundsInv'
  BY <1>1, <1>3, EndSound DEF FundsInv, data
<1>4. ASSUME NEW c \in Calls, Check(c), MayWrite(c) /\ Matches(c) PROVE FundsInv'
  <2>1. /\ UNCHANGED data /\ UNCHANGED holder
        /\ pc' = [pc EXCEPT ![c] = "commit"]
        /\ todo' = [todo EXCEPT ![c] = Writes(c)]
    BY <1>4 DEF Check
  <2>2. ASSUME NEW d \in Calls PROVE Sound(d)'
    <3>1. CASE d = c
      <4>1. ASSUME NEW u \in Users, holder[u] = c
            PROVE  /\ 0 <= reserved[u] + Reserved(c, u)
                   /\ reserved[u] + Reserved(c, u) <= balance[u] + Added(c, u)'
        <5>1. seen[c][u] = [balance |-> balance[u], reserved |-> reserved[u]]
          BY <4>1 DEF LockInv, Current
        <5>2. 0 <= reserved[u] /\ reserved[u] <= balance[u] BY DEF FundsInv, FundsCovered
        <5>3. Added(c, u)' = IF u \in DOMAIN Writes(c) THEN Writes(c)[u] ELSE 0
          BY <2>1 DEF Added, Typed, TypeOK
        <5> QED BY <1>4, <5>1, <5>2, <5>3, DecisionSound
      <4> QED BY <2>1, <3>1, <4>1 DEF Sound, Reserved, data
    <3>2. CASE d # c
      <4>1. pc'[d] = pc[d] /\ todo'[d] = todo[d] BY <2>1, <3>2 DEF Typed, TypeOK
      <4>2. Sound(d) BY DEF FundsInv
      <4> QED BY <2>1, <4>1, <4>2 DEF Sound, Reserved, Added, data
    <3> QED BY <3>1, <3>2
  <2> QED BY <1>1, <2>1, <2>2 DEF FundsInv
<1>5. ASSUME NEW c \in Calls, Check(c), ~(MayWrite(c) /\ Matches(c)) PROVE FundsInv'
  <2>1. PICK how \in {"done", "refused"} : End(c, how) BY <1>5 DEF Check
  <2> QED BY <1>3, <1>5, <2>1 DEF Check
<1>6. ASSUME NEW c \in Calls, Commit(c) PROVE FundsInv'
  <2>1. ASSUME NEW u \in Users PROVE 0 <= reserved'[u] /\ reserved'[u] <= balance'[u]
    <3>1. 0 <= reserved[u] /\ reserved[u] <= balance[u] BY DEF FundsInv, FundsCovered
    <3>2. CASE holder[u] = c
      <4>1. pc[c] = "commit" BY <1>6 DEF Commit
      <4>2. /\ 0 <= reserved[u] + Reserved(c, u)
            /\ reserved[u] + Reserved(c, u) <= balance[u] + Added(c, u)
        BY <3>2, <4>1 DEF FundsInv, Sound
      <4> QED BY <1>6, <4>2, CommitEffect
    <3>3. CASE holder[u] # c
      <4>1. balance'[u] = balance[u] /\ reserved'[u] = reserved[u]
        BY <1>6, <3>3, CommitEffect
      <4> QED BY <3>1, <4>1
    <3> QED BY <3>2, <3>3
  <2>2. ASSUME NEW d \in Calls PROVE Sound(d)' BY <1>6, CommitEffect, EndSound
  <2> QED BY <2>1, <2>2 DEF FundsInv, FundsCovered
<1>7. CASE UNCHANGED vars
  BY <1>7 DEF vars, data, calls, FundsInv, FundsCovered, Sound, Reserved, Added
<1>8. ASSUME NEW c \in Calls, NoRow(c) \/ Duplicate(c) \/ Victim(c) \/ Crash(c)
      PROVE  FundsInv'
  BY <1>3, <1>8 DEF NoRow, Duplicate, Victim, Crash
<1> QED BY <1>2, <1>4, <1>5, <1>6, <1>7, <1>8 DEF Next, Work

(* No call ever takes what another has reserved, and no reservation is     *)
(* released below zero: the CHECK constraints of `users` are never needed. *)
THEOREM FundsSafe == Spec => []FundsCovered
<1>1. Init => FundsInv BY WalletAssumption DEF Init, FundsInv, FundsCovered, Sound
<1>2. FundsInv => FundsCovered BY DEF FundsInv
<1> QED BY <1>1, <1>2, InitLocks, NextKeeps, NextFunds, PTL DEF Spec

-----------------------------------------------------------------------------
(* Only bonuses deadlock.                                                  *)

Begun == {c \in Calls : pc[c] # "idle"}

(* A row is locked by a call that has come to it in its order, and a call  *)
(* that waits for a row has one already.                                   *)
Reached(c) ==
  /\ pc[c] = "lock" => held[c] # 0
  /\ \A r \in Rows : holder[r] = c => \E k \in 1..held[c] : RowsOf(c)[k] = r

CircleInv == IsFiniteSet(Begun) /\ \A c \in Calls : Reached(c)

LEMMA InitCircle == Init => CircleInv
<1> SUFFICES ASSUME Init PROVE CircleInv OBVIOUS
<1>1. Begun = {} BY DEF Init, Begun
<1>2. ASSUME NEW c \in Calls PROVE Reached(c) BY WalletAssumption DEF Init, Reached
<1> QED BY <1>1, <1>2, FS_EmptySet DEF CircleInv

LEMMA EndReached ==
  ASSUME Typed, NEW c \in Calls, NEW how \in {"done", "refused", "aborted"}, End(c, how),
         NEW d \in Calls, Reached(d)
  PROVE  Reached(d)'
<1>1. \A r \in Rows : holder'[r] = d => d # c /\ holder[r] = d
  BY WalletAssumption DEF End
<1>2. CASE d = c BY <1>1, <1>2 DEF End, Reached, Typed, TypeOK
<1>3. CASE d # c
  <2>1. pc'[d] = pc[d] /\ held'[d] = held[d] BY <1>3 DEF End, Typed, TypeOK
  <2> QED BY <1>1, <2>1 DEF Reached
<1> QED BY <1>2, <1>3

LEMMA AcquireReached ==
  ASSUME Typed, LockInv, NEW c \in Calls, Acquire(c), NEW d \in Calls, Reached(d)
  PROVE  Reached(d)'
<1> DEFINE r == RowsOf(c)[held[c] + 1]
<1>1. /\ holder' = [holder EXCEPT ![r] = c]
      /\ held' = [held EXCEPT ![c] = @ + 1]
      /\ pc' = [pc EXCEPT ![c] = IF held'[c] = Len(RowsOf(c)) THEN "check" ELSE "lock"]
  BY DEF Acquire, NextRow
<1>2. held[c] \in Nat
  <2>1. held \in [Calls -> 0..3] BY DEF Typed, TypeOK
  <2> QED BY <2>1
<1>3. CASE d = c
  <2>1. held'[c] = held[c] + 1 BY <1>1 DEF Typed, TypeOK
  <2>2. ASSUME NEW x \in Rows, holder'[x] = c PROVE \E k \in 1..held'[c] : RowsOf(c)[k] = x
    <3>1. CASE x = r BY <1>2, <2>1, <3>1
    <3>2. CASE x # r
      <4>1. holder[x] = c BY <1>1, <2>2, <3>2 DEF Typed, TypeOK
      <4>2. PICK k \in 1..held[c] : RowsOf(c)[k] = x BY <1>3, <4>1 DEF Reached
      <4>3. k \in 1..held'[c] BY <1>2, <2>1
      <4> QED BY <4>2, <4>3
    <3> QED BY <3>1, <3>2
  <2> HIDE DEF r
  <2> QED BY <1>2, <1>3, <2>1, <2>2 DEF Reached
<1>4. CASE d # c
  <2>1. pc'[d] = pc[d] /\ held'[d] = held[d] BY <1>1, <1>4 DEF Typed, TypeOK
  <2>2. \A x \in Rows : holder'[x] = d => holder[x] = d BY <1>1, <1>4 DEF Typed, TypeOK
  <2> QED BY <2>1, <2>2 DEF Reached
<1> QED BY <1>3, <1>4

(* Each step is one call's.                                                *)
LEMMA BegunGrows ==
  ASSUME Typed, [Next]_vars
  PROVE  Begun' = Begun \/ \E c \in Calls : Begun' \subseteq Begun \cup {c}
<1>1. CASE UNCHANGED vars BY <1>1 DEF vars, calls, Begun
<1>2. ASSUME NEW c \in Calls, Work(c) \/ Crash(c) PROVE Begun' \subseteq Begun \cup {c}
  <2>1. \E how \in Steps : pc' = [pc EXCEPT ![c] = how]
    BY <1>2 DEF Work, Acquire, NoRow, Check, Commit, Duplicate, Victim, Crash, End, Steps
  <2> QED BY <2>1 DEF Begun, Typed, TypeOK
<1> QED BY <1>1, <1>2 DEF Next

LEMMA NextCircle == Typed /\ LockInv /\ CircleInv /\ [Next]_vars => CircleInv'
<1> SUFFICES ASSUME Typed, LockInv, CircleInv, [Next]_vars PROVE CircleInv' OBVIOUS
<1>1. IsFiniteSet(Begun')
  <2>1. ASSUME NEW c \in Calls, Begun' \subseteq Begun \cup {c} PROVE IsFiniteSet(Begun')
    BY <2>1, FS_AddElement, FS_Subset DEF CircleInv
  <2> QED BY <2>1, BegunGrows DEF CircleInv
<1>2. ASSUME NEW d \in Calls PROVE Reached(d)'
  <2>1. Reached(d) BY DEF CircleInv
  <2>2. ASSUME NEW c \in Calls, Acquire(c) PROVE Reached(d)'
    BY <2>1, <2>2, AcquireReached
  <2>3. ASSUME NEW c \in Calls, NEW how \in {"done", "refused", "aborted"}, End(c, how)
        PROVE  Reached(d)'
    BY <2>1, <2>3, EndReached
  <2>4. ASSUME NEW c \in Calls, Check(c), MayWrite(c) /\ Matches(c) PROVE Reached(d)'
    <3>1. pc' = [pc EXCEPT ![c] = "commit"] /\ UNCHANGED <<holder, held>> BY <2>4 DEF Check
    <3> QED BY <2>1, <3>1 DEF Reached, Typed, TypeOK
  <2>5. ASSUME NEW c \in Calls, Check(c), ~(MayWrite(c) /\ Matches(c)) PROVE Reached(d)'
    BY <2>3, <2>5 DEF Check
  <2>6. ASSUME NEW c \in Calls, NoRow(c) \/ Commit(c) \/ Duplicate(c) \/ Victim(c) \/ Crash(c)
        PROVE  Reached(d)'
    BY <2>3, <2>6 DEF NoRow, Commit, Duplicate, Victim, Crash
  <2>7. CASE UNCHANGED vars BY <2>1, <2>7 DEF vars, calls, Reached
  <2> QED BY <2>2, <2>4, <2>5, <2>6, <2>7 DEF Next, Work
<1> QED BY <1>1, <1>2 DEF CircleInv

(* A call other than a bonus that waits has its first row and waits for    *)
(* the second, a wallet; of two wallets it has the lower one.              *)
LEMMA WaiterRows ==
  ASSUME Typed, LockInv, CircleInv, NEW c \in Waiting, Op[c].kind # "bonus"
  PROVE  /\ held[c] = 1 /\ NextRow(c) = RowsOf(c)[2] /\ NextRow(c) \in Users
         /\ RowsOf(c)[1] \in Users => RowsOf(c)[1] < NextRow(c)
<1>1. c \in Calls /\ pc[c] = "lock" BY DEF Waiting
<1>2. held[c] \in Nat /\ held[c] # 0 /\ held[c] < Len(RowsOf(c))
  BY <1>1 DEF CircleInv, Reached, LockInv, Locked, Typed, TypeOK
<1> USE CallCases, RowsCases
<1>3. CASE Op[c].kind = "transfer"
  <2> DEFINE a == Op[c].from
             b == Op[c].to
  <2>1. a \in Nat /\ b \in Nat /\ a # b /\ a \in Users /\ b \in Users
    BY <1>1, <1>3, WalletAssumption
  <2>2. RowsOf(c) = IF a < b THEN <<a, b>> ELSE <<b, a>> BY <1>3 DEF RowsOf, Ascending
  <2> HIDE DEF a, b
  <2>3. /\ Len(RowsOf(c)) = 2 /\ RowsOf(c)[1] < RowsOf(c)[2] /\ RowsOf(c)[2] \in Users
    BY <2>1, <2>2
  <2>4. held[c] = 1 BY <1>2, <2>3
  <2> QED BY <2>3, <2>4 DEF NextRow
<1>4. CASE Op[c].kind \in {"approve", "charge", "release"}
  <2> DEFINE x == Op[c].item
             u == Owner[x]
  <2>1. x \in Items /\ u \in Users BY <1>1, <1>4 DEF OnItem
  <2>2. RowsOf(c) = <<x, u>> BY <1>1, <1>4
  <2> HIDE DEF x, u
  <2>3. held[c] = 1 /\ RowsOf(c)[1] = x /\ RowsOf(c)[2] = u BY <1>2, <2>2
  <2> QED BY <2>1, <2>3, WalletAssumption DEF NextRow
<1>5. CASE Op[c].kind \in {"adjust", "spin", "submit", "reserve", "reject"}
  <2>1. \E r : RowsOf(c) = <<r>> BY <1>1, <1>5
  <2> QED BY <1>2, <2>1
<1> QED BY <1>1, <1>3, <1>4, <1>5 DEF Kinds

(* Transfers, receipts and purchases lock in an order that keeps them from *)
(* waiting for each other in a circle: the calls of a circle would wait    *)
(* for higher and higher wallets.                                          *)
THEOREM DeadlocksAreBonuses == Spec => []OnlyBonusesDeadlock
<1>1. Typed /\ LockInv /\ CircleInv => OnlyBonusesDeadlock
  <2> SUFFICES ASSUME Typed, LockInv, CircleInv, NEW S \in SUBSET Waiting, Circle(S),
                      \A c \in S : Op[c].kind # "bonus"
               PROVE  FALSE
    BY DEF OnlyBonusesDeadlock
  <2>1. ASSUME NEW c \in S
        PROVE  NextRow(c) \in Nat /\ \E d \in S : NextRow(c) < NextRow(d)
    <3>1. PICK d \in S : holder[NextRow(c)] = d BY DEF Circle, WaitsFor
    <3>2. NextRow(c) \in Users /\ NextRow(c) \in Rows BY WaiterRows DEF Rows
    <3>3. d \in Calls /\ held[d] = 1 BY WaiterRows DEF Waiting
    <3>4. PICK k \in 1..held[d] : RowsOf(d)[k] = NextRow(c)
      BY <3>1, <3>2, <3>3 DEF CircleInv, Reached
    <3>5. RowsOf(d)[1] = NextRow(c) BY <3>3, <3>4
    <3>6. NextRow(c) < NextRow(d) BY <3>2, <3>5, WaiterRows
    <3> QED BY <3>2, <3>6, WalletAssumption
  <2> DEFINE up(c) == {d \in S : NextRow(c) <= NextRow(d)}
             T == {up(c) : c \in S}
  <2>2. IsFiniteSet(S)
    <3>1. S \subseteq Begun BY DEF Begun, Waiting
    <3> QED BY <3>1, FS_Subset DEF CircleInv
  <2>3. T \subseteq SUBSET S /\ T # {} BY DEF Circle
  <2> HIDE DEF T
  <2>4. PICK x \in T : \A y \in T : y \subseteq x => y = x BY <2>2, <2>3, SmallestSet
  <2> USE DEF T
  <2>5. PICK c \in S : x = up(c) OBVIOUS
  <2>6. PICK d \in S : NextRow(c) < NextRow(d) BY <2>1
  <2>7. \A e \in S : NextRow(e) \in Nat BY <2>1
  <2>8. up(d) \subseteq up(c) /\ c \notin up(d) /\ c \in up(c) BY <2>6, <2>7
  <2> QED BY <2>4, <2>5, <2>8
<1> QED BY <1>1, InitLocks, NextKeeps, InitCircle, NextCircle, PTL DEF Spec

-----------------------------------------------------------------------------
(* What a call has decided.                                                *)

(* The call whose row locks protect the status of its item: the item's row *)
(* once it has it, or its owner's when the item is about to be written.    *)
Guards(c) ==
  OnItem(c) /\ IF Op[c].kind \in {"submit", "reserve"} THEN pc[c] = "commit" ELSE held[c] # 0

(* What it decided on is so until it commits.                              *)
Decided(c) ==
  /\ Guards(c) => state[Op[c].item] = Required(c)
  /\ pc[c] = "commit" =>
       /\ todo[c] = Writes(c)
       /\ Op[c].kind = "submit" => OnePending(Receipts, Op[c].item)
       /\ Op[c].kind = "reserve" => OnePending(Intents, Op[c].item)
       /\ Op[c].kind = "spin" => MaySpin(c)

(* The ledger tells which bonuses were processed.                          *)
BonusOnce ==
  \A i \in Intents :
    /\ Used(<<"cashback", i>>) <=> bonusAt[i] /\ Cashback[i] > 0
    /\ Used(<<"ref_bonus", i>>) <=> bonusAt[i] /\ Promised(i)

DecisionInv == BonusOnce /\ \A c \in Calls : Decided(c)

(* Nothing decides before there is a row.                                  *)
LEMMA InitDecisions == Init => DecisionInv
<1> SUFFICES ASSUME Init PROVE DecisionInv OBVIOUS
<1>1. \A u \in Users : DOMAIN ledger[u] = {} BY DEF Init
<1>2. \A ref : ~Used(ref) BY <1>1 DEF Used
<1>3. \A i \in Intents : bonusAt[i] = FALSE BY DEF Init
<1>4. BonusOnce BY <1>2, <1>3 DEF BonusOnce
<1>5. ASSUME NEW c \in Calls PROVE Decided(c)
  <2>1. pc[c] = "idle" /\ held[c] = 0 BY DEF Init
  <2> QED BY <2>1 DEF Decided, Guards
<1> QED BY <1>4, <1>5 DEF DecisionInv

(* Which call writes which reference.                                      *)
LEMMA RefKinds ==
  ASSUME NEW c \in Calls, NEW u
  PROVE  /\ \A i : Ref(c, u) = <<"cashback", i>> <=>
                     Op[c].kind = "bonus" /\ Op[c].item = i /\ u = Owner[i]
         /\ \A i : Ref(c, u) = <<"ref_bonus", i>> <=>
                     Op[c].kind = "bonus" /\ Op[c].item = i /\ u # Owner[i]
         /\ Ref(c, u)[1] = "spin" <=> Op[c].kind = "spin"
         /\ Ref(c, u)[1] = "adjust" <=> Op[c].kind = "adjust"
<1> DEFINE o == Op[c]
<1>1. CASE o.kind = "transfer"
  <2>1. Ref(c, u) = <<"sent", o.ref>> \/ Ref(c, u) = <<"recv", o.ref>> BY <1>1 DEF Ref
  <2> QED BY <1>1, <2>1
<1>2. CASE o.kind = "adjust"
  <2>1. Ref(c, u) = <<"adjust", o.ref>> BY <1>2 DEF Ref
  <2> QED BY <1>2, <2>1
<1>3. CASE o.kind = "spin"
  <2>1. Ref(c, u) = <<"spin", c>> BY <1>3 DEF Ref
  <2> QED BY <1>3, <2>1
<1>4. CASE o.kind = "bonus"
  <2>1. Ref(c, u) = <<IF u = Owner[o.item] THEN "cashback" ELSE "ref_bonus", o.item>>
    BY <1>4 DEF Ref
  <2> QED BY <1>4, <2>1
<1>5. CASE o.kind \in Kinds \ {"transfer", "adjust", "spin", "bonus"}
  <2>1. Ref(c, u) = <<o.kind, o.item>> BY <1>5 DEF Ref, Kinds
  <2>2. o.kind \notin {"cashback", "ref_bonus", "spin", "adjust", "bonus"} BY <1>5 DEF Kinds
  <2> QED BY <2>1, <2>2
<1> QED BY <1>1, <1>2, <1>3, <1>4, <1>5, CallCases

(* What a commit adds to the ledger.                                       *)
LEMMA LedgerGrows ==
  ASSUME Typed, LockInv, NEW c \in Calls, Commit(c), NEW u \in Users
  PROVE  /\ DOMAIN ledger[u] = 1..Len(ledger[u]) /\ Len(ledger[u]) \in Nat
         /\ u \notin DOMAIN todo[c] => ledger'[u] = ledger[u]
         /\ u \in DOMAIN todo[c] =>
              /\ DOMAIN ledger'[u] = DOMAIN ledger[u] \cup {Len(ledger[u]) + 1}
              /\ \A k \in DOMAIN ledger[u] : ledger'[u][k] = ledger[u][k]
              /\ ledger'[u][Len(ledger[u]) + 1].ref = Ref(c, u)
              /\ ledger'[u][Len(ledger[u]) + 1].amount = Added(c, u)
<1> DEFINE row == [ref |-> Ref(c, u), amount |-> Added(c, u), after |-> balance'[u]]
<1>1. ledger[u] \in Seq(Entry) BY DEF Typed, LedgerType
<1>2. ledger'[u] = IF u \in DOMAIN todo[c] THEN Append(ledger[u], row) ELSE ledger[u]
  BY CommitEffect
<1>3. row.ref = Ref(c, u) /\ row.amount = Added(c, u) OBVIOUS
<1> HIDE DEF row
<1>4. u \in DOMAIN todo[c] =>
        /\ Len(ledger'[u]) = Len(ledger[u]) + 1
        /\ \A k \in 1..Len(ledger[u]) : ledger'[u][k] = ledger[u][k]
        /\ ledger'[u][Len(ledger[u]) + 1] = row
        /\ DOMAIN ledger'[u] = 1..(Len(ledger[u]) + 1)
  BY <1>1, <1>2
<1>5. Len(ledger[u]) \in Nat /\ DOMAIN ledger[u] = 1..Len(ledger[u]) BY <1>1
<1> QED BY <1>2, <1>3, <1>4, <1>5

LEMMA UsedGrows ==
  ASSUME Typed, LockInv, NEW c \in Calls, Commit(c), NEW ref
  PROVE  Used(ref)' <=> Used(ref) \/ \E u \in DOMAIN todo[c] : Ref(c, u) = ref
<1>1. DOMAIN todo[c] \subseteq Users BY DEF Typed, TypeOK
<1>2. ASSUME NEW u \in Users, NEW k \in DOMAIN ledger'[u], ledger'[u][k].ref = ref
      PROVE  Used(ref) \/ \E v \in DOMAIN todo[c] : Ref(c, v) = ref
  BY <1>2, LedgerGrows DEF Used
<1>3. ASSUME NEW u \in Users, NEW k \in DOMAIN ledger[u], ledger[u][k].ref = ref
      PROVE  k \in DOMAIN ledger'[u] /\ ledger'[u][k].ref = ref
  BY <1>3, LedgerGrows
<1>4. ASSUME NEW u \in DOMAIN todo[c], Ref(c, u) = ref PROVE Used(ref)'
  <2>1. u \in Users BY <1>1
  <2>2. /\ Len(ledger[u]) + 1 \in DOMAIN ledger'[u]
        /\ ledger'[u][Len(ledger[u]) + 1].ref = ref
    BY <1>4, <2>1, LedgerGrows
  <2> QED BY <2>1, <2>2 DEF Used
<1>5. Used(ref) => Used(ref)' BY <1>3 DEF Used
<1>6. Used(ref)' => Used(ref) \/ \E u \in DOMAIN todo[c] : Ref(c, u) = ref
  BY <1>2 DEF Used
<1> QED BY <1>4, <1>5, <1>6

(* A call that decides on an item holds the row that guards it.            *)
LEMMA GuardHeld ==
  ASSUME LockInv, NEW c \in Calls, Guards(c)
  PROVE  holder[IF Op[c].kind \in {"submit", "reserve"} THEN Owner[Op[c].item]
                ELSE Op[c].item] = c
<1>1. Locked(c) /\ Len(RowsOf(c)) \in 1..3 BY RowsTyped DEF LockInv
<1>2. held[c] # 0
  <2>1. pc[c] = "commit" => held[c] = Len(RowsOf(c)) BY <1>1 DEF Locked
  <2>2. Len(RowsOf(c)) # 0 BY <1>1
  <2> QED BY <2>1, <2>2 DEF Guards
<1>3. holder[RowsOf(c)[1]] = c
  <2>1. held[c] \in Nat /\ 1 \in 1..held[c] BY <1>1, <1>2 DEF Locked
  <2> QED BY <1>1, <2>1 DEF Locked
<1>4. OnItem(c) /\ Op[c].kind \in Kinds BY CallCases DEF Guards
<1>5. CASE Op[c].kind \in {"submit", "reserve"} BY <1>3, <1>5, RowsCases
<1>6. CASE Op[c].kind \in {"approve", "reject", "charge", "release"}
  BY <1>3, <1>6, RowsCases
<1>7. CASE Op[c].kind = "bonus"
  <2>1. RowsOf(c) = BonusRows(Op[c].item) /\ Op[c].item \in Intents
    BY <1>7, RowsCases, CallCases
  <2>2. BonusRows(Op[c].item)[1] = Op[c].item BY <2>1, BonusCases
  <2> QED BY <1>3, <1>7, <2>1, <2>2
<1> QED BY <1>4, <1>5, <1>6, <1>7 DEF OnItem, Kinds

(* Two calls never decide on the same item at once.                        *)
LEMMA ItemsApart ==
  ASSUME LockInv, NEW c \in Calls, NEW d \in Calls, c # d, Guards(c), Guards(d),
         Decided(c), Decided(d)
  PROVE  Op[c].item # Op[d].item
<1>1. state[Op[c].item] = Required(c) /\ state[Op[d].item] = Required(d) BY DEF Decided
<1>2. \A e \in {c, d} : Required(e) = "none" <=> Op[e].kind \in {"submit", "reserve"}
  BY DEF Required
<1> QED BY <1>1, <1>2, GuardHeld

LEMMA WritesSame ==
  ASSUME NEW c \in Calls, seen'[c] = seen[c],
         Op[c].kind = "bonus" => Due(Op[c].item)' = Due(Op[c].item)
  PROVE  Writes(c)' = Writes(c)
<1>1. TargetBalance(c)' = TargetBalance(c) BY DEF TargetBalance
<1> QED BY <1>1 DEF Writes, Transferred, Adjusted, Won, ToppedUp, Charged, Rewarded, Nothing

(* While nothing is committed a decision stands.                           *)
LEMMA DecisionStands ==
  ASSUME NEW d \in Calls, Decided(d), UNCHANGED data, pc'[d] = pc[d], held'[d] = held[d],
         todo'[d] = todo[d], seen'[d] = seen[d]
  PROVE  Decided(d)'
<1>1. Guards(d)' = Guards(d) BY DEF Guards
<1>2. Due(Op[d].item)' = Due(Op[d].item) BY DEF Due, Used, data
<1>3. Writes(d)' = Writes(d) BY <1>2, WritesSame
<1>4. MaySpin(d)' = MaySpin(d) BY DEF MaySpin, Spins, data
<1>5. \A S, x : OnePending(S, x)' = OnePending(S, x) BY DEF OnePending, data
<1> QED BY <1>1, <1>3, <1>4, <1>5 DEF Decided, data

LEMMA EndDecided ==
  ASSUME Typed, NEW c \in Calls, NEW how \in {"done", "refused", "aborted"}, End(c, how)
  PROVE  Decided(c)'
<1>1. pc'[c] = how /\ held'[c] = 0 BY DEF End, Typed, TypeOK
<1> QED BY <1>1 DEF Decided, Guards


LEMMA AcquireDecided ==
  ASSUME Typed, LockInv, NEW c \in Calls, Acquire(c), Decided(c)
  PROVE  Decided(c)'
<1> DEFINE r == NextRow(c)
<1>1. /\ held' = [held EXCEPT ![c] = @ + 1]
      /\ pc' = [pc EXCEPT ![c] = IF held'[c] = Len(RowsOf(c)) THEN "check" ELSE "lock"]
      /\ r \in Items => Matches(c)
      /\ UNCHANGED data
  BY DEF Acquire
<1>2. pc'[c] \in {"check", "lock"} BY <1>1 DEF Typed, TypeOK
<1>3. ASSUME Guards(c)' PROVE state[Op[c].item] = Required(c)
  <2>1. OnItem(c) /\ Op[c].kind \notin {"submit", "reserve"} BY <1>2, <1>3 DEF Guards
  <2>2. CASE held[c] # 0 BY <2>1, <2>2 DEF Decided, Guards
  <2>3. CASE held[c] = 0
    <3>1. r = RowsOf(c)[1] BY <2>3 DEF NextRow
    <3>2. RowsOf(c)[1] = Op[c].item
      <4>1. CASE Op[c].kind = "bonus"
        <5>1. RowsOf(c) = BonusRows(Op[c].item) /\ Op[c].item \in Intents
          BY <4>1, RowsCases, CallCases
        <5> QED BY <5>1, BonusCases
      <4>2. CASE Op[c].kind \in {"approve", "reject", "charge", "release"}
        BY <4>2, RowsCases
      <4> QED BY <2>1, <4>1, <4>2, CallCases DEF OnItem, Kinds
    <3>3. Op[c].item \in Items BY <2>1, CallCases
    <3> QED BY <1>1, <2>1, <3>1, <3>2, <3>3 DEF Matches
  <2> QED BY <2>2, <2>3
<1> QED BY <1>1, <1>2, <1>3 DEF Decided, data, Required

LEMMA CheckDecided ==
  ASSUME Typed, NEW c \in Calls, Check(c), MayWrite(c) /\ Matches(c)
  PROVE  Decided(c)'
<1>1. /\ UNCHANGED data /\ todo' = [todo EXCEPT ![c] = Writes(c)]
      /\ UNCHANGED <<holder, held, seen>>
  BY DEF Check
<1>2. todo'[c] = Writes(c) BY <1>1 DEF Typed, TypeOK
<1>3. Writes(c)' = Writes(c)
  <2>1. Due(Op[c].item)' = Due(Op[c].item) BY <1>1 DEF Due, Used, data
  <2> QED BY <1>1, <2>1, WritesSame
<1>4. MaySpin(c)' = MaySpin(c) BY <1>1 DEF MaySpin, Spins, data
<1>5. \A S, x : OnePending(S, x)' = OnePending(S, x) BY <1>1 DEF OnePending, data
<1>6. Guards(c)' => state'[Op[c].item] = Required(c)
  BY <1>1 DEF Guards, Matches, data
<1>7. /\ Op[c].kind = "submit" => OnePending(Receipts, Op[c].item)
      /\ Op[c].kind = "reserve" => OnePending(Intents, Op[c].item)
      /\ Op[c].kind = "spin" => MaySpin(c)
  BY DEF MayWrite, MayReserve
<1>8. Required(c)' = Required(c) BY DEF Required
<1> QED BY <1>2, <1>3, <1>4, <1>5, <1>6, <1>7, <1>8 DEF Decided

(* A call that commits does what it decided.                               *)
LEMMA CommitFacts ==
  ASSUME Typed, LockInv, DecisionInv, NEW c \in Calls, Commit(c)
  PROVE  /\ pc[c] = "commit" /\ todo[c] = Writes(c)
         /\ OnItem(c) => /\ Guards(c) /\ state[Op[c].item] = Required(c)
                         /\ state' = [state EXCEPT ![Op[c].item] = NewState(c)]
         /\ ~OnItem(c) => state' = state
         /\ \A u \in DOMAIN todo[c] : u \in Users /\ holder[u] = c
         /\ bonusAt' = IF Op[c].kind = "bonus" THEN [bonusAt EXCEPT ![Op[c].item] = TRUE]
                       ELSE bonusAt
<1>1. pc[c] = "commit" BY DEF Commit
<1>2. todo[c] = Writes(c) BY <1>1 DEF DecisionInv, Decided
<1>3. ASSUME OnItem(c) PROVE Guards(c)
  <2>1. held[c] = Len(RowsOf(c)) /\ Len(RowsOf(c)) \in 1..3
    BY <1>1, RowsTyped DEF LockInv, Locked
  <2>2. held[c] # 0 BY <2>1
  <2> QED BY <1>1, <1>3, <2>2 DEF Guards
<1>4. \A u \in DOMAIN todo[c] : u \in Users /\ holder[u] = c
  <2>1. DOMAIN todo[c] \subseteq Users BY DEF Typed, TypeOK
  <2> QED BY <1>1, <2>1 DEF LockInv, Covers, Touches
<1>5. IF OnItem(c) THEN state' = [state EXCEPT ![Op[c].item] = NewState(c)]
      ELSE state' = state
  BY DEF Commit
<1>6. bonusAt' = IF Op[c].kind = "bonus" THEN [bonusAt EXCEPT ![Op[c].item] = TRUE]
                 ELSE bonusAt
  BY DEF Commit
<1> QED BY <1>1, <1>2, <1>3, <1>4, <1>5, <1>6 DEF DecisionInv, Decided

LEMMA Pending ==
  ASSUME NEW c \in Calls, OnItem(c)
  PROVE  NewState(c) = "pending" <=> Op[c].kind \in {"submit", "reserve"}
BY CallCases DEF NewState, OnItem, Kinds

(* The bonus of a purchase is on the ledger exactly when it is marked.     *)
LEMMA CommitBonus ==
  ASSUME Typed, LockInv, DecisionInv, NEW c \in Calls, Commit(c)
  PROVE  BonusOnce'
<1> SUFFICES ASSUME NEW i \in Intents
             PROVE  /\ Used(<<"cashback", i>>)' <=> bonusAt'[i] /\ Cashback[i] > 0
                    /\ Used(<<"ref_bonus", i>>)' <=> bonusAt'[i] /\ Promised(i)
  BY DEF BonusOnce, Promised
<1>1. /\ Used(<<"cashback", i>>) <=> bonusAt[i] /\ Cashback[i] > 0
      /\ Used(<<"ref_bonus", i>>) <=> bonusAt[i] /\ Promised(i)
  BY DEF DecisionInv, BonusOnce
<1>2. CASE Op[c].kind = "bonus" /\ Op[c].item = i
  <2>1. bonusAt'[i] = TRUE BY <1>2, CommitFacts DEF Typed, TypeOK
  <2>2. DOMAIN todo[c] = Due(i)
    <3>1. todo[c] = Writes(c) BY CommitFacts
    <3>2. DOMAIN Writes(c) = Due(Op[c].item)
      <4>1. Writes(c) = [u \in Due(Op[c].item) |->
                           IF u = Owner[Op[c].item] THEN Cashback[Op[c].item]
                           ELSE Bonus[Op[c].item]]
        BY <1>2, WritesCases
      <4> QED BY <4>1
    <3> QED BY <1>2, <3>1, <3>2
  <2>3. /\ Owner[i] \in Due(i) <=> Cashback[i] > 0 /\ ~Used(<<"cashback", i>>)
        /\ (\E u \in Due(i) : u # Owner[i]) <=> Promised(i) /\ ~Used(<<"ref_bonus", i>>)
    BY WalletAssumption DEF Due
  <2>4. Used(<<"cashback", i>>)' <=> Used(<<"cashback", i>>) \/ Owner[i] \in Due(i)
    <3>1. (\E u \in DOMAIN todo[c] : Ref(c, u) = <<"cashback", i>>) <=> Owner[i] \in Due(i)
      BY <1>2, <2>2, RefKinds
    <3> QED BY <3>1, UsedGrows
  <2>5. Used(<<"ref_bonus", i>>)' <=> Used(<<"ref_bonus", i>>) \/ \E u \in Due(i) : u # Owner[i]
    <3>1. (\E u \in DOMAIN todo[c] : Ref(c, u) = <<"ref_bonus", i>>)
            <=> \E u \in Due(i) : u # Owner[i]
      BY <1>2, <2>2, RefKinds
    <3> QED BY <3>1, UsedGrows
  <2> QED BY <1>1, <2>1, <2>3, <2>4, <2>5
<1>3. CASE ~(Op[c].kind = "bonus" /\ Op[c].item = i)
  <2>1. bonusAt'[i] = bonusAt[i] BY <1>3, CommitFacts DEF Typed, TypeOK
  <2>2. \A u : Ref(c, u) # <<"cashback", i>> /\ Ref(c, u) # <<"ref_bonus", i>>
    BY <1>3, RefKinds
  <2> QED BY <1>1, <2>1, <2>2, UsedGrows
<1> QED BY <1>2, <1>3

(* The decisions of the others stand when a call commits.                  *)
LEMMA CommitDecided ==
  ASSUME Typed, LockInv, DecisionInv, NEW c \in Calls, Commit(c), NEW d \in Calls, d # c
  PROVE  Decided(d)'
<1>0. Decided(c) /\ Decided(d) /\ End(c, "done") BY CommitEffect DEF DecisionInv
<1>1. pc'[d] = pc[d] /\ held'[d] = held[d] /\ todo'[d] = todo[d] /\ seen'[d] = seen[d]
  BY <1>0 DEF End, Typed, TypeOK
<1>2. Guards(d)' = Guards(d) /\ Required(d)' = Required(d) BY <1>1 DEF Guards, Required
<1>3. Guards(d) /\ OnItem(c) => Op[c].item # Op[d].item
  BY <1>0, CommitFacts, ItemsApart
<1>4. ASSUME Guards(d) PROVE state'[Op[d].item] = Required(d)
  <2>1. Op[d].item \in Items BY <1>4, CallCases DEF Guards
  <2>2. state'[Op[d].item] = state[Op[d].item]
    BY <1>3, <1>4, <2>1, CommitFacts DEF Typed, TypeOK
  <2> QED BY <1>0, <1>4, <2>2 DEF Decided
<1>5. ASSUME pc[d] = "commit", OnItem(d) PROVE Guards(d)
  <2>1. held[d] = Len(RowsOf(d)) /\ Len(RowsOf(d)) \in 1..3
    BY <1>5, RowsTyped DEF LockInv, Locked
  <2>2. held[d] # 0 BY <2>1
  <2> QED BY <1>5, <2>2 DEF Guards
<1>6. ASSUME pc[d] = "commit" PROVE todo[d] = Writes(d)'
  <2>1. ASSUME Op[d].kind = "bonus" PROVE Due(Op[d].item)' = Due(Op[d].item)
    <3> DEFINE i == Op[d].item
    <3>1. OnItem(d) BY <2>1 DEF OnItem
    <3>2. ~(Op[c].kind = "bonus" /\ Op[c].item = i) BY <1>3, <1>5, <1>6, <3>1 DEF OnItem
    <3>3. \A u : Ref(c, u) # <<"cashback", i>> /\ Ref(c, u) # <<"ref_bonus", i>>
      BY <3>2, RefKinds
    <3>4. /\ Used(<<"cashback", i>>)' <=> Used(<<"cashback", i>>)
          /\ Used(<<"ref_bonus", i>>)' <=> Used(<<"ref_bonus", i>>)
      BY <3>3, UsedGrows
    <3> QED BY <3>4 DEF Due, Promised
  <2>2. Writes(d)' = Writes(d) BY <1>1, <2>1, WritesSame
  <2> QED BY <1>0, <1>6, <2>2 DEF Decided
<1>7. ASSUME pc[d] = "commit", Op[d].kind = "spin" PROVE MaySpin(d)'
  <2> DEFINE u == Op[d].user
  <2>1. u \in Users /\ RowsOf(d) = <<u>> BY <1>7, CallCases, RowsCases
  <2>2. holder[u] = d
    <3>1. held[d] = Len(RowsOf(d)) /\ \A k \in 1..held[d] : holder[RowsOf(d)[k]] = d
      BY <1>7 DEF LockInv, Locked
    <3> HIDE DEF u
    <3> QED BY <2>1, <3>1
  <2>3. u \notin DOMAIN todo[c] BY <2>2, CommitFacts
  <2>4. ledger'[u] = ledger[u] BY <2>1, <2>3, LedgerGrows
  <2> QED BY <1>0, <1>7, <2>4 DEF Decided, MaySpin, Spins
<1>8. ASSUME pc[d] = "commit", Op[d].kind \in {"submit", "reserve"}, NEW S \in SUBSET Items,
             OnePending(S, Op[d].item)
      PROVE  OnePending(S, Op[d].item)'
  <2> SUFFICES ASSUME NEW y \in S, Owner[y] = Owner[Op[d].item] PROVE state'[y] # "pending"
    BY DEF OnePending
  <2>1. state[y] # "pending" BY <1>8 DEF OnePending
  <2>2. CASE OnItem(c) /\ y = Op[c].item
    <3>1. state'[y] = NewState(c) BY <2>2, CommitFacts DEF Typed, TypeOK
    <3>2. Guards(d) /\ Guards(c) BY <1>5, <1>8, <2>2, CommitFacts DEF OnItem
    <3>3. Op[c].kind \notin {"submit", "reserve"} BY <1>8, <2>2, <3>2, GuardHeld
    <3> QED BY <2>2, <3>1, <3>3, Pending
  <2>3. CASE ~(OnItem(c) /\ y = Op[c].item)
    <3>1. state'[y] = state[y] BY <2>3, CommitFacts DEF Typed, TypeOK
    <3> QED BY <2>1, <3>1
  <2> QED BY <2>2, <2>3
<1> QED BY <1>0, <1>1, <1>2, <1>4, <1>6, <1>7, <1>8 DEF Decided, Items

LEMMA NextDecisions == Typed /\ LockInv /\ DecisionInv /\ [Next]_vars => DecisionInv'
<1> SUFFICES ASSUME Typed, LockInv, DecisionInv, [Next]_vars PROVE DecisionInv' OBVIOUS
<1>1. ASSUME UNCHANGED data PROVE BonusOnce'
  BY <1>1 DEF data, DecisionInv, BonusOnce, Used, Promised
<1>2. ASSUME NEW c \in Calls, UNCHANGED data, Decided(c)',
             \A d \in Calls \ {c} : /\ pc'[d] = pc[d] /\ held'[d] = held[d]
                                    /\ todo'[d] = todo[d] /\ seen'[d] = seen[d]
      PROVE  DecisionInv'
  BY <1>1, <1>2, DecisionStands DEF DecisionInv
<1>3. ASSUME NEW c \in Calls, NEW how \in {"done", "refused", "aborted"}, End(c, how),
             UNCHANGED data
      PROVE  DecisionInv'
  <2>1. \A d \in Calls \ {c} : /\ pc'[d] = pc[d] /\ held'[d] = held[d]
                               /\ todo'[d] = todo[d] /\ seen'[d] = seen[d]
    BY <1>3 DEF End, Typed, TypeOK
  <2> QED BY <1>2, <1>3, <2>1, EndDecided
<1>4. ASSUME NEW c \in Calls, Acquire(c) PROVE DecisionInv'
  <2>1. \A d \in Calls \ {c} : /\ pc'[d] = pc[d] /\ held'[d] = held[d]
                               /\ todo'[d] = todo[d] /\ seen'[d] = seen[d]
    BY <1>4 DEF Acquire, Read, Typed, TypeOK
  <2>2. UNCHANGED data BY <1>4 DEF Acquire
  <2> QED BY <1>2, <1>4, <2>1, <2>2, AcquireDecided DEF DecisionInv
<1>5. ASSUME NEW c \in Calls, Check(c), MayWrite(c) /\ Matches(c) PROVE DecisionInv'
  <2>1. \A d \in Calls \ {c} : /\ pc'[d] = pc[d] /\ held'[d] = held[d]
                               /\ todo'[d] = todo[d] /\ seen'[d] = seen[d]
    BY <1>5 DEF Check, Typed, TypeOK
  <2>2. UNCHANGED data BY <1>5 DEF Check
  <2> QED BY <1>2, <1>5, <2>1, <2>2, CheckDecided
<1>6. ASSUME NEW c \in Calls, Check(c), ~(MayWrite(c) /\ Matches(c)) PROVE DecisionInv'
  <2>1. PICK how \in {"done", "refused"} : End(c, how) BY <1>6 DEF Check
  <2> QED BY <1>3, <1>6, <2>1 DEF Check
<1>7. ASSUME NEW c \in Calls, Commit(c) PROVE DecisionInv'
  <2>1. Decided(c)' BY <1>7, CommitEffect, EndDecided
  <2> QED BY <1>7, <2>1, CommitBonus, CommitDecided DEF DecisionInv
<1>8. ASSUME NEW c \in Calls, NoRow(c) \/ Duplicate(c) \/ Victim(c) \/ Crash(c)
      PROVE  DecisionInv'
  BY <1>3, <1>8 DEF NoRow, Duplicate, Victim, Crash
<1>9. CASE UNCHANGED vars
  BY <1>1, <1>9, DecisionStands DEF vars, data, calls, DecisionInv
<1> QED BY <1>4, <1>5, <1>6, <1>7, <1>8, <1>9 DEF Next, Work

-----------------------------------------------------------------------------
(* The limits.                                                             *)

LEMMA LimitParts ==
  LimitsHold <=>
    /\ \A x, y \in Items :
         (/\ Owner[x] = Owner[y] /\ state[x] = "pending" /\ state[y] = "pending"
          /\ x \in Receipts <=> y \in Receipts)
         => x = y
    /\ \A u \in Users : Cardinality(Spins(u)) <= MaxSpins
BY DEF LimitsHold

LEMMA CommitPending ==
  ASSUME Typed, LockInv, DecisionInv, LimitsHold, NEW c \in Calls, Commit(c),
         NEW x \in Items, NEW y \in Items,
         Owner[x] = Owner[y], state'[x] = "pending", state'[y] = "pending",
         x \in Receipts <=> y \in Receipts
  PROVE  x = y
<1>1. ASSUME NEW z \in Items, ~OnItem(c) \/ z # Op[c].item PROVE state'[z] = state[z]
  BY <1>1, CommitFacts DEF Typed, TypeOK
<1>2. CASE OnItem(c) /\ state'[Op[c].item] = "pending" /\ Op[c].item \in {x, y}
  <2> DEFINE z == Op[c].item
  <2>1. PICK v \in {x, y} : {x, y} = {z, v} BY <1>2
  <2>2. state'[z] = NewState(c) BY <1>2, CommitFacts DEF Typed, TypeOK
  <2>3. Op[c].kind \in {"submit", "reserve"} BY <1>2, <2>2, Pending
  <2>4. (z \in Receipts <=> Op[c].kind = "submit") /\ z \in Items
    BY <2>3, CallAssumption, WalletAssumption DEF Items
  <2>5. OnePending(IF z \in Receipts THEN Receipts ELSE Intents, z)
    BY <2>3, <2>4, CommitFacts DEF DecisionInv, Decided
  <2>6. v \in (IF z \in Receipts THEN Receipts ELSE Intents)
    BY <2>1, <2>4, WalletAssumption DEF Items
  <2>7. state[v] # "pending" BY <2>1, <2>5, <2>6 DEF OnePending
  <2>8. v = z BY <1>1, <2>1, <2>7
  <2> QED BY <2>1, <2>8
<1>3. CASE ~(OnItem(c) /\ Op[c].item \in {x, y})
  <2>1. state[x] = "pending" /\ state[y] = "pending" BY <1>1, <1>3
  <2> QED BY <2>1, LimitParts
<1> QED BY <1>2, <1>3

LEMMA CommitSpins ==
  ASSUME Typed, LockInv, DecisionInv, LimitsHold, NEW c \in Calls, Commit(c),
         NEW u \in Users
  PROVE  Cardinality(Spins(u)') <= MaxSpins
<1> DEFINE n == Len(ledger[u]) + 1
<1>1. /\ DOMAIN ledger[u] = 1..Len(ledger[u]) /\ Len(ledger[u]) \in Nat
      /\ u \notin DOMAIN todo[c] => ledger'[u] = ledger[u]
      /\ u \in DOMAIN todo[c] =>
           /\ DOMAIN ledger'[u] = DOMAIN ledger[u] \cup {n}
           /\ \A k \in DOMAIN ledger[u] : ledger'[u][k] = ledger[u][k]
           /\ ledger'[u][n].ref = Ref(c, u)
  BY LedgerGrows
<1>2. IsFiniteSet(Spins(u)) /\ Cardinality(Spins(u)) \in Nat
  <2>1. Spins(u) \subseteq 1..Len(ledger[u]) BY <1>1 DEF Spins
  <2>2. IsFiniteSet(1..Len(ledger[u])) BY <1>1, FS_Interval
  <2> QED BY <2>1, <2>2, FS_Subset, FS_CardinalityType
<1>3. Cardinality(Spins(u)) <= MaxSpins BY LimitParts
<1>4. CASE u \in DOMAIN todo[c] /\ Op[c].kind = "spin"
  <2>1. u = Op[c].user
    <3>1. DOMAIN Writes(c) = {Op[c].user}
      <4>1. Writes(c) = [v \in {Op[c].user} |-> Op[c].amount] BY <1>4, WritesCases
      <4> QED BY <4>1
    <3> QED BY <1>4, <3>1, CommitFacts
  <2>2. Cardinality(Spins(u)) < MaxSpins
    BY <1>4, <2>1, CommitFacts DEF DecisionInv, Decided, MaySpin
  <2>3. Spins(u)' \subseteq Spins(u) \cup {n} BY <1>1, <1>4 DEF Spins
  <2>4. /\ IsFiniteSet(Spins(u) \cup {n})
        /\ Cardinality(Spins(u) \cup {n}) <= Cardinality(Spins(u)) + 1
        /\ Cardinality(Spins(u) \cup {n}) \in Nat
    <3>1. /\ IsFiniteSet(Spins(u) \cup {n})
          /\ Cardinality(Spins(u) \cup {n}) =
               IF n \in Spins(u) THEN Cardinality(Spins(u)) ELSE Cardinality(Spins(u)) + 1
      BY <1>2, FS_AddElement
    <3> QED BY <1>2, <3>1
  <2>5. /\ Cardinality(Spins(u)') <= Cardinality(Spins(u) \cup {n})
        /\ Cardinality(Spins(u)') \in Nat
    BY <2>3, <2>4, FS_Subset, FS_CardinalityType
  <2> QED BY <1>2, <2>2, <2>4, <2>5, WalletAssumption
<1>5. CASE ~(u \in DOMAIN todo[c] /\ Op[c].kind = "spin")
  <2>1. u \in DOMAIN todo[c] => ledger'[u][n].ref[1] # "spin" BY <1>1, <1>5, RefKinds
  <2>2. Spins(u)' = Spins(u) BY <1>1, <2>1 DEF Spins
  <2> QED BY <1>3, <2>2
<1> QED BY <1>4, <1>5

(* One pending receipt and one pending purchase for each user, and no more *)
(* spins than allowed, by the row locks under which they are counted.      *)
THEOREM LimitsSafe == Spec => []LimitsHold
<1>1. Init => LimitsHold
  <2> SUFFICES ASSUME Init PROVE LimitsHold OBVIOUS
  <2>1. \A u \in Users : Spins(u) = {} BY DEF Init, Spins
  <2>2. \A x \in Items : state[x] # "pending" BY DEF Init
  <2>3. \A u \in Users : Cardinality(Spins(u)) <= MaxSpins
    <3>1. Cardinality({}) <= MaxSpins BY FS_EmptySet, WalletAssumption
    <3> QED BY <2>1, <3>1
  <2> QED BY <2>2, <2>3, LimitParts
<1>2. Typed /\ LockInv /\ DecisionInv /\ LimitsHold /\ [Next]_vars => LimitsHold'
  <2> SUFFICES ASSUME Typed, LockInv, DecisionInv, LimitsHold, [Next]_vars
               PROVE  LimitsHold'
    OBVIOUS
  <2>1. CASE UNCHANGED data BY <2>1 DEF data, LimitsHold, Spins
  <2>2. ASSUME NEW c \in Calls, Commit(c) PROVE LimitsHold'
    BY <2>2, CommitPending, CommitSpins DEF LimitsHold
  <2> QED BY <2>1, <2>2, DataSteps
<1> QED BY <1>1, <1>2, InitLocks, NextKeeps, InitDecisions, NextDecisions, PTL DEF Spec

-----------------------------------------------------------------------------
(* Every balance is explained.                                             *)

(* Only so much has happened: the sums are finite.                         *)
Started == {x \in Items : state[x] # "none"}
Processed == {i \in Intents : bonusAt[i]}
FewInv == IsFiniteSet(Started) /\ IsFiniteSet(Processed)

LEMMA NextFew == Typed /\ LockInv /\ DecisionInv /\ FewInv /\ [Next]_vars => FewInv'
<1> SUFFICES ASSUME Typed, LockInv, DecisionInv, FewInv, [Next]_vars PROVE FewInv' OBVIOUS
<1>1. CASE UNCHANGED data BY <1>1 DEF data, FewInv, Started, Processed
<1>2. ASSUME NEW c \in Calls, Commit(c) PROVE FewInv'
  <2> DEFINE x == Op[c].item
  <2>1. Started' \subseteq Started \cup {x} /\ Processed' \subseteq Processed \cup {x}
    BY <1>2, CommitFacts DEF Started, Processed, Typed, TypeOK
  <2> HIDE DEF x
  <2> QED BY <2>1, FS_AddElement, FS_Subset DEF FewInv
<1> QED BY <1>1, <1>2, DataSteps

Few == FewInv /\ CircleInv

(* What is summed is finite, and made of integers.                         *)
LEMMA SumsDefined ==
  ASSUME Typed, Few, NEW u \in Users
  PROVE  /\ IsFiniteSet(Mine(Receipts, u, "approved"))
         /\ IsFiniteSet(Mine(Intents, u, "completed"))
         /\ IsFiniteSet(Earned(u)) /\ IsFiniteSet(Referred(u))
         /\ IsFiniteSet(Transfers("recv", u)) /\ IsFiniteSet(Transfers("sent", u))
         /\ IsFiniteSet(Entered(u))
         /\ \A x \in Items : Amount[x] \in Int
         /\ \A i \in Intents : Cashback[i] \in Int /\ Bonus[i] \in Int
         /\ \A c \in Calls : Op[c].kind = "transfer" => AmountMoved[c] \in Int
         /\ \A k \in DOMAIN ledger[u] : Written(u)[k] \in Int
<1>1. /\ Mine(Receipts, u, "approved") \subseteq Started
      /\ Mine(Intents, u, "completed") \subseteq Started
      /\ Earned(u) \subseteq Processed /\ Referred(u) \subseteq Processed
      /\ Transfers("recv", u) \subseteq Begun /\ Transfers("sent", u) \subseteq Begun
  BY DEF Mine, Started, Earned, Referred, Processed, Transfers, Begun, Items
<1>2. IsFiniteSet(Entered(u))
  <2>1. ledger[u] \in Seq(Entry) BY DEF Typed, LedgerType
  <2>2. Len(ledger[u]) \in Nat /\ Entered(u) \subseteq 1..Len(ledger[u])
    BY <2>1 DEF Entered
  <2>3. IsFiniteSet(1..Len(ledger[u])) BY <2>2, FS_Interval
  <2> QED BY <2>2, <2>3, FS_Subset
<1>3. \A k \in DOMAIN ledger[u] : Written(u)[k] \in Int BY DEF Written, Typed, TypeOK
<1>4. \A c \in Calls : Op[c].kind = "transfer" => AmountMoved[c] \in Int
  BY CallCases DEF AmountMoved
<1>5. \A x \in Items : Amount[x] \in Int BY WalletAssumption
<1>6. \A i \in Intents : Cashback[i] \in Int /\ Bonus[i] \in Int BY WalletAssumption
<1>7. IsFiniteSet(Started) /\ IsFiniteSet(Processed) /\ IsFiniteSet(Begun)
  BY DEF Few, FewInv, CircleInv
<1> QED BY <1>1, <1>2, <1>3, <1>4, <1>5, <1>6, <1>7, FS_Subset

(* How each sum grows when a call commits.                                 *)
LEMMA CommitReceipts ==
  ASSUME Typed, LockInv, DecisionInv, Few, NEW c \in Calls, Commit(c), NEW u \in Users
  PROVE  /\ SumOver(Amount, Mine(Receipts, u, "approved")') =
              SumOver(Amount, Mine(Receipts, u, "approved"))
              + (IF Op[c].kind = "approve" /\ Owner[Op[c].item] = u
                   THEN Amount[Op[c].item] ELSE 0)
         /\ SumOver(Amount, Mine(Intents, u, "completed")') =
              SumOver(Amount, Mine(Intents, u, "completed"))
              + (IF Op[c].kind = "charge" /\ Owner[Op[c].item] = u
                   THEN Amount[Op[c].item] ELSE 0)
<1> DEFINE x == Op[c].item
           R == Mine(Receipts, u, "approved")
           I == Mine(Intents, u, "completed")
<1>1. /\ IsFiniteSet(R) /\ IsFiniteSet(I) /\ \A y \in R \cup I : Amount[y] \in Int
      /\ SumOver(Amount, R) \in Int /\ SumOver(Amount, I) \in Int
  BY SumsDefined, SumType DEF Mine, Items
<1>2. \A y \in Items : ~OnItem(c) \/ y # x => state'[y] = state[y]
  BY CommitFacts DEF Typed, TypeOK
<1>3. OnItem(c) => x \in Items /\ state[x] = Required(c) /\ state'[x] = NewState(c)
  BY CommitFacts, CallCases DEF Typed, TypeOK
<1>4. CASE Op[c].kind = "approve"
  <2>1. x \in Receipts /\ x \notin Intents /\ OnItem(c) /\ Amount[x] \in Int
    BY <1>4, CallAssumption, WalletAssumption DEF OnItem, Items
  <2>2. state[x] = "pending" /\ state'[x] = "approved"
    BY <1>3, <1>4, <2>1 DEF Required, NewState
  <2>3. x \notin R /\ R' = IF Owner[x] = u THEN R \cup {x} ELSE R
    BY <1>2, <2>1, <2>2 DEF Mine, Items
  <2>4. I' = I BY <1>2, <2>1 DEF Mine, Items
  <2> HIDE DEF x, R, I
  <2>5. SumOver(Amount, R \cup {x}) = SumOver(Amount, R) + Amount[x]
    BY <1>1, <2>1, <2>3, SumAdd
  <2>6. /\ SumOver(Amount, R') = SumOver(Amount, R) + (IF Owner[x] = u THEN Amount[x] ELSE 0)
        /\ SumOver(Amount, I') = SumOver(Amount, I) + 0
    BY <1>1, <2>1, <2>3, <2>4, <2>5
  <2> QED BY <1>4, <2>6 DEF x, R, I
<1>5. CASE Op[c].kind = "charge"
  <2>1. x \in Intents /\ x \notin Receipts /\ OnItem(c) /\ Amount[x] \in Int
    BY <1>5, CallAssumption, WalletAssumption DEF OnItem, Items
  <2>2. state[x] = "pending" /\ state'[x] = "completed"
    BY <1>3, <1>5, <2>1 DEF Required, NewState
  <2>3. x \notin I /\ I' = IF Owner[x] = u THEN I \cup {x} ELSE I
    BY <1>2, <2>1, <2>2 DEF Mine, Items
  <2>4. R' = R BY <1>2, <2>1 DEF Mine, Items
  <2> HIDE DEF x, R, I
  <2>5. SumOver(Amount, I \cup {x}) = SumOver(Amount, I) + Amount[x]
    BY <1>1, <2>1, <2>3, SumAdd
  <2>6. /\ SumOver(Amount, I') = SumOver(Amount, I) + (IF Owner[x] = u THEN Amount[x] ELSE 0)
        /\ SumOver(Amount, R') = SumOver(Amount, R) + 0
    BY <1>1, <2>1, <2>3, <2>4, <2>5
  <2> QED BY <1>5, <2>6 DEF x, R, I
<1>6. CASE Op[c].kind \notin {"approve", "charge"}
  <2>1. OnItem(c) => \/ state'[x] \notin {"approved", "completed"}
                        /\ state[x] \notin {"approved", "completed"}
                     \/ state'[x] = state[x]
    <3>1. OnItem(c) => Op[c].kind \in {"submit", "reserve", "reject", "release", "bonus"}
      BY <1>6, CallCases DEF OnItem, Kinds
    <3>2. CASE Op[c].kind = "bonus"
      BY <1>3, <3>2 DEF Required, NewState
    <3>3. CASE Op[c].kind \in {"submit", "reserve", "reject", "release"}
      BY <1>3, <3>3 DEF Required, NewState
    <3> QED BY <3>1, <3>2, <3>3
  <2>2. R' = R /\ I' = I BY <1>2, <1>3, <2>1 DEF Mine, Items
  <2> HIDE DEF x, R, I
  <2> QED BY <1>1, <1>6, <2>2 DEF R, I
<1> QED BY <1>4, <1>5, <1>6

LEMMA CommitEarned ==
  ASSUME Typed, LockInv, DecisionInv, Few, NEW c \in Calls, Commit(c), NEW u \in Users
  PROVE  LET i == Op[c].item
             first == Op[c].kind = "bonus" /\ ~bonusAt[i]
         IN  /\ SumOver(Cashback, Earned(u)') = SumOver(Cashback, Earned(u))
                  + (IF first /\ Owner[i] = u THEN Cashback[i] ELSE 0)
             /\ SumOver(Bonus, Referred(u)') = SumOver(Bonus, Referred(u))
                  + (IF first /\ Referrer[i] = u THEN Bonus[i] ELSE 0)
<1> DEFINE i == Op[c].item
           E == Earned(u)
           F == Referred(u)
           first == Op[c].kind = "bonus" /\ ~bonusAt[i]
<1>1. /\ IsFiniteSet(E) /\ IsFiniteSet(F)
      /\ \A j \in E : Cashback[j] \in Int
      /\ \A j \in F : Bonus[j] \in Int
      /\ SumOver(Cashback, E) \in Int /\ SumOver(Bonus, F) \in Int
  <2>1. /\ \A j \in E : Cashback[j] \in Int
        /\ \A j \in F : Bonus[j] \in Int
    BY WalletAssumption DEF Earned, Referred
  <2>2. IsFiniteSet(E) /\ IsFiniteSet(F) BY SumsDefined
  <2> QED BY <2>1, <2>2, SumType
<1>2. CASE first
  <2>1. i \in Intents /\ Cashback[i] \in Int /\ Bonus[i] \in Int
    BY <1>2, CallCases, WalletAssumption
  <2>2. bonusAt' = [bonusAt EXCEPT ![i] = TRUE] BY <1>2, CommitFacts
  <2>3. /\ E' = IF Owner[i] = u THEN E \cup {i} ELSE E
        /\ F' = IF Referrer[i] = u THEN F \cup {i} ELSE F
        /\ i \notin E /\ i \notin F
    BY <1>2, <2>1, <2>2 DEF Earned, Referred, Typed, TypeOK
  <2>4. /\ SumOver(Cashback, E \cup {i}) = SumOver(Cashback, E) + Cashback[i]
        /\ SumOver(Bonus, F \cup {i}) = SumOver(Bonus, F) + Bonus[i]
    <3> HIDE DEF i, E, F
    <3> QED BY <1>1, <2>1, <2>3, SumAdd
  <2> HIDE DEF i, E, F
  <2> QED BY <1>1, <1>2, <2>3, <2>4 DEF i, E, F
<1>3. CASE ~first
  <2>1. \A j \in Intents : bonusAt'[j] <=> bonusAt[j]
    BY <1>3, CommitFacts DEF Typed, TypeOK
  <2>2. E' = E /\ F' = F BY <2>1 DEF Earned, Referred
  <2> HIDE DEF E, F
  <2> QED BY <1>1, <1>3, <2>2 DEF E, F
<1> QED BY <1>2, <1>3

LEMMA CommitTransfers ==
  ASSUME Typed, LockInv, DecisionInv, Few, NEW c \in Calls, Commit(c), NEW u \in Users
  PROVE  LET o == Op[c] IN
         /\ SumOver(AmountMoved, Transfers("recv", u)') =
              SumOver(AmountMoved, Transfers("recv", u))
              + (IF o.kind = "transfer" /\ o.to = u THEN o.amount ELSE 0)
         /\ SumOver(AmountMoved, Transfers("sent", u)') =
              SumOver(AmountMoved, Transfers("sent", u))
              + (IF o.kind = "transfer" /\ o.from = u THEN o.amount ELSE 0)
<1> DEFINE T == Transfers("recv", u)
           S == Transfers("sent", u)
<1>1. /\ IsFiniteSet(T) /\ IsFiniteSet(S) /\ \A d \in T \cup S : AmountMoved[d] \in Int
      /\ SumOver(AmountMoved, T) \in Int /\ SumOver(AmountMoved, S) \in Int
  <2>1. \A d \in T \cup S : AmountMoved[d] \in Int BY SumsDefined DEF Transfers
  <2>2. IsFiniteSet(T) /\ IsFiniteSet(S) BY SumsDefined
  <2> QED BY <2>1, <2>2, SumType
<1>2. pc' = [pc EXCEPT ![c] = "done"] /\ pc[c] = "commit"
  BY CommitEffect, CommitFacts DEF End
<1>3. /\ T' = IF Op[c].kind = "transfer" /\ Op[c].to = u THEN T \cup {c} ELSE T
      /\ S' = IF Op[c].kind = "transfer" /\ Op[c].from = u THEN S \cup {c} ELSE S
      /\ c \notin T /\ c \notin S
  BY <1>2 DEF Transfers, Typed, TypeOK
<1>4. Op[c].kind = "transfer" => AmountMoved[c] = Op[c].amount /\ AmountMoved[c] \in Int
  BY CallCases DEF AmountMoved
<1> HIDE DEF T, S
<1>5. CASE Op[c].kind = "transfer"
  <2>1. SumOver(AmountMoved, T \cup {c}) = SumOver(AmountMoved, T) + AmountMoved[c]
    BY <1>1, <1>3, <1>4, <1>5, SumAdd
  <2>2. SumOver(AmountMoved, S \cup {c}) = SumOver(AmountMoved, S) + AmountMoved[c]
    BY <1>1, <1>3, <1>4, <1>5, SumAdd
  <2>3. /\ SumOver(AmountMoved, T') = SumOver(AmountMoved, T)
             + (IF Op[c].to = u THEN AmountMoved[c] ELSE 0)
        /\ SumOver(AmountMoved, S') = SumOver(AmountMoved, S)
             + (IF Op[c].from = u THEN AmountMoved[c] ELSE 0)
    BY <1>1, <1>3, <1>5, <2>1, <2>2
  <2> QED BY <1>4, <1>5, <2>3 DEF T, S
<1>6. CASE Op[c].kind # "transfer" BY <1>1, <1>3, <1>6 DEF T, S
<1> QED BY <1>5, <1>6

LEMMA CommitEntered ==
  ASSUME Typed, LockInv, DecisionInv, Few, NEW c \in Calls, Commit(c), NEW u \in Users
  PROVE  SumOver(Written(u)', Entered(u)') = SumOver(Written(u), Entered(u))
           + (IF Op[c].kind \in {"adjust", "spin"} THEN Added(c, u) ELSE 0)
<1> DEFINE n == Len(ledger[u]) + 1
           E == Entered(u)
           f == Written(u)
           g == Written(u)'
<1>1. /\ DOMAIN ledger[u] = 1..Len(ledger[u]) /\ Len(ledger[u]) \in Nat
      /\ u \notin DOMAIN todo[c] => ledger'[u] = ledger[u]
      /\ u \in DOMAIN todo[c] =>
           /\ DOMAIN ledger'[u] = DOMAIN ledger[u] \cup {n}
           /\ \A k \in DOMAIN ledger[u] : ledger'[u][k] = ledger[u][k]
           /\ ledger'[u][n].ref = Ref(c, u)
           /\ ledger'[u][n].amount = Added(c, u)
  BY LedgerGrows
<1>2. /\ IsFiniteSet(E) /\ E \subseteq DOMAIN ledger[u]
      /\ \A k \in E : f[k] \in Int
      /\ SumOver(f, E) \in Int
  <2>1. IsFiniteSet(E) BY SumsDefined
  <2>2. E \subseteq DOMAIN ledger[u] BY DEF Entered
  <2>3. \A k \in E : f[k] \in Int BY <2>2, SumsDefined
  <2> HIDE DEF E, f
  <2> QED BY <2>1, <2>2, <2>3, SumType
<1>3. \A k \in E : g[k] = f[k] BY <1>1, <1>2 DEF Written
<1>4. SumOver(g, E) = SumOver(f, E)
  <2> HIDE DEF E, f, g
  <2> QED BY <1>2, <1>3, SumAgree
<1>5. CASE u \in DOMAIN todo[c] /\ Op[c].kind \in {"adjust", "spin"}
  <2>1. n \notin E /\ E' = E \cup {n}
    <3>1. Ref(c, u)[1] \in {"adjust", "spin"} BY <1>5, RefKinds
    <3> QED BY <1>1, <1>5, <3>1 DEF Entered
  <2>2. g[n] = Added(c, u) /\ Added(c, u) \in Int
    BY <1>1, <1>5, CommitEffect DEF Written
  <2>3. \A k \in E \cup {n} : g[k] \in Int BY <1>2, <1>3, <2>2
  <2> HIDE DEF E, f, g, n
  <2>4. SumOver(g, E \cup {n}) = SumOver(g, E) + g[n] BY <1>2, <2>1, <2>3, SumAdd
  <2> QED BY <1>4, <1>5, <2>1, <2>2, <2>4 DEF E, f, g
<1>6. CASE u \in DOMAIN todo[c] /\ Op[c].kind \notin {"adjust", "spin"}
  <2>1. Ref(c, u)[1] \notin {"adjust", "spin"} BY <1>6, RefKinds
  <2>2. E' = E BY <1>1, <1>6, <2>1 DEF Entered
  <2> HIDE DEF E, f, g
  <2> QED BY <1>2, <1>4, <1>6, <2>2 DEF E, f, g
<1>7. CASE u \notin DOMAIN todo[c]
  <2>1. E' = E BY <1>1, <1>7 DEF Entered
  <2>2. Added(c, u) = 0 BY <1>7 DEF Added
  <2> HIDE DEF E, f, g
  <2> QED BY <1>2, <1>4, <2>1, <2>2 DEF E, f, g
<1> QED BY <1>5, <1>6, <1>7

(* What a commit adds to a wallet, and why.                                *)
LEMMA AddedCases ==
  ASSUME Typed, LockInv, DecisionInv, NEW c \in Calls, Commit(c), NEW u \in Users
  PROVE  LET o == Op[c]
             i == o.item
             first == o.kind = "bonus" /\ ~bonusAt[i]
         IN  Added(c, u) =
               (IF o.kind = "approve" /\ Owner[i] = u THEN Amount[i] ELSE 0)
               - (IF o.kind = "charge" /\ Owner[i] = u THEN Amount[i] ELSE 0)
               + (IF first /\ Owner[i] = u THEN Cashback[i] ELSE 0)
               + (IF first /\ Referrer[i] = u THEN Bonus[i] ELSE 0)
               + (IF o.kind = "transfer" /\ o.to = u THEN o.amount ELSE 0)
               - (IF o.kind = "transfer" /\ o.from = u THEN o.amount ELSE 0)
               + (IF o.kind \in {"adjust", "spin"} THEN Added(c, u) ELSE 0)
<1> DEFINE o == Op[c]
           i == o.item
<1>1. todo[c] = Writes(c) BY CommitFacts
<1>2. Added(c, u) \in Int BY CommitEffect
<1>3. CASE o.kind = "transfer"
  <2>1. o.from # o.to /\ o.amount \in Int BY <1>3, CallCases
  <2>2. todo[c] = [v \in {o.from, o.to} |-> IF v = o.from THEN -o.amount ELSE o.amount]
    BY <1>1, <1>3, WritesCases
  <2>3. Added(c, u) = IF u = o.from THEN -o.amount ELSE IF u = o.to THEN o.amount ELSE 0
    BY <2>2 DEF Added
  <2> HIDE DEF o, i
  <2>4. Added(c, u) = (IF o.to = u THEN o.amount ELSE 0) - (IF o.from = u THEN o.amount ELSE 0)
    BY <2>1, <2>3
  <2> QED BY <1>2, <1>3, <2>1, <2>4 DEF o
<1>4. CASE o.kind \in {"adjust", "spin"} BY <1>2, <1>4
<1>5. CASE o.kind \in {"submit", "reject", "reserve", "release"}
  <2>1. todo[c] = Nothing BY <1>1, <1>5, WritesCases
  <2>2. Added(c, u) = 0 BY <2>1 DEF Added, Nothing
  <2> QED BY <1>5, <2>2
<1>6. CASE o.kind = "approve"
  <2>1. todo[c] = [v \in {Owner[i]} |-> Amount[i]] BY <1>1, <1>6, WritesCases
  <2>2. Added(c, u) = IF Owner[i] = u THEN Amount[i] ELSE 0 BY <2>1 DEF Added
  <2> QED BY <1>2, <1>6, <2>2
<1>7. CASE o.kind = "charge"
  <2>1. todo[c] = [v \in {Owner[i]} |-> -Amount[i]] BY <1>1, <1>7, WritesCases
  <2>2. Added(c, u) = IF Owner[i] = u THEN -Amount[i] ELSE 0 BY <2>1 DEF Added
  <2>3. Amount[i] \in Int BY <1>7, CallCases DEF OnItem
  <2> QED BY <1>7, <2>2, <2>3
<1>8. CASE o.kind = "bonus"
  <2>1. /\ i \in Intents /\ Cashback[i] \in Nat /\ Bonus[i] \in Nat
        /\ Owner[i] # Referrer[i] /\ u # 0
    BY <1>8, CallCases, WalletAssumption
  <2>2. todo[c] = [v \in Due(i) |-> IF v = Owner[i] THEN Cashback[i] ELSE Bonus[i]]
    BY <1>1, <1>8, WritesCases
  <2>3. Added(c, u) = IF u \in Due(i) THEN IF u = Owner[i] THEN Cashback[i] ELSE Bonus[i]
                      ELSE 0
    BY <2>2 DEF Added
  <2>4. /\ Used(<<"cashback", i>>) <=> bonusAt[i] /\ Cashback[i] > 0
        /\ Used(<<"ref_bonus", i>>) <=> bonusAt[i] /\ Promised(i)
    BY <2>1 DEF DecisionInv, BonusOnce
  <2>5. CASE bonusAt[i]
    <3>1. Due(i) = {} BY <2>4, <2>5 DEF Due
    <3>2. Added(c, u) = 0 BY <2>3, <3>1
    <3> QED BY <1>8, <2>5, <3>2
  <2>6. CASE ~bonusAt[i]
    <3>1. /\ u = Owner[i] => (u \in Due(i) <=> Cashback[i] > 0)
          /\ u = Referrer[i] => (u \in Due(i) <=> Bonus[i] > 0)
          /\ u \notin {Owner[i], Referrer[i]} => u \notin Due(i)
      BY <2>1, <2>4, <2>6 DEF Due, Promised
    <3>2. Added(c, u) = (IF Owner[i] = u THEN Cashback[i] ELSE 0)
                        + (IF Referrer[i] = u THEN Bonus[i] ELSE 0)
      BY <2>1, <2>3, <3>1
    <3> QED BY <1>2, <1>8, <2>1, <2>6, <3>2
  <2> QED BY <2>5, <2>6
<1> QED BY <1>3, <1>4, <1>5, <1>6, <1>7, <1>8, CallCases DEF Kinds

LEMMA CommitExplained ==
  ASSUME Typed, LockInv, DecisionInv, Few, BalanceExplained, NEW c \in Calls, Commit(c)
  PROVE  BalanceExplained'
<1> SUFFICES ASSUME NEW u \in Users
             PROVE  balance'[u] = Funds[u]
               + SumOver(Amount, Mine(Receipts, u, "approved")')
               - SumOver(Amount, Mine(Intents, u, "completed")')
               + SumOver(Cashback, Earned(u)') + SumOver(Bonus, Referred(u)')
               + SumOver(AmountMoved, Transfers("recv", u)')
               - SumOver(AmountMoved, Transfers("sent", u)')
               + SumOver(Written(u)', Entered(u)')
  BY DEF BalanceExplained
<1> DEFINE o == Op[c]
           i == o.item
           first == o.kind = "bonus" /\ ~bonusAt[i]
           a1 == SumOver(Amount, Mine(Receipts, u, "approved"))
           a2 == SumOver(Amount, Mine(Intents, u, "completed"))
           a3 == SumOver(Cashback, Earned(u))
           a4 == SumOver(Bonus, Referred(u))
           a5 == SumOver(AmountMoved, Transfers("recv", u))
           a6 == SumOver(AmountMoved, Transfers("sent", u))
           a7 == SumOver(Written(u), Entered(u))
           d1 == IF o.kind = "approve" /\ Owner[i] = u THEN Amount[i] ELSE 0
           d2 == IF o.kind = "charge" /\ Owner[i] = u THEN Amount[i] ELSE 0
           d3 == IF first /\ Owner[i] = u THEN Cashback[i] ELSE 0
           d4 == IF first /\ Referrer[i] = u THEN Bonus[i] ELSE 0
           d5 == IF o.kind = "transfer" /\ o.to = u THEN o.amount ELSE 0
           d6 == IF o.kind = "transfer" /\ o.from = u THEN o.amount ELSE 0
           d7 == IF o.kind \in {"adjust", "spin"} THEN Added(c, u) ELSE 0
<1>1. /\ SumOver(Amount, Mine(Receipts, u, "approved")') = a1 + d1
      /\ SumOver(Amount, Mine(Intents, u, "completed")') = a2 + d2
  BY CommitReceipts
<1>2. /\ SumOver(Cashback, Earned(u)') = a3 + d3
      /\ SumOver(Bonus, Referred(u)') = a4 + d4
  BY CommitEarned
<1>3. /\ SumOver(AmountMoved, Transfers("recv", u)') = a5 + d5
      /\ SumOver(AmountMoved, Transfers("sent", u)') = a6 + d6
  BY CommitTransfers
<1>4. SumOver(Written(u)', Entered(u)') = a7 + d7 BY CommitEntered
<1>5. Added(c, u) = d1 - d2 + d3 + d4 + d5 - d6 + d7 BY AddedCases
<1>6. balance'[u] = balance[u] + Added(c, u) /\ Added(c, u) \in Int BY CommitEffect
<1>7. balance[u] = Funds[u] + a1 - a2 + a3 + a4 + a5 - a6 + a7 BY DEF BalanceExplained
<1>8. a1 \in Int /\ a2 \in Int /\ a3 \in Int /\ a4 \in Int /\ a5 \in Int /\ a6 \in Int /\ a7 \in Int
  <2>1. /\ \A x \in Mine(Receipts, u, "approved") : Amount[x] \in Int
        /\ \A x \in Mine(Intents, u, "completed") : Amount[x] \in Int
        /\ \A j \in Earned(u) : Cashback[j] \in Int
        /\ \A j \in Referred(u) : Bonus[j] \in Int
        /\ \A e \in Transfers("recv", u) : AmountMoved[e] \in Int
        /\ \A e \in Transfers("sent", u) : AmountMoved[e] \in Int
        /\ \A k \in Entered(u) : Written(u)[k] \in Int
    BY SumsDefined DEF Mine, Items, Earned, Referred, Transfers, Entered
  <2> QED BY <2>1, SumsDefined, SumType
<1>9. d1 \in Int /\ d2 \in Int /\ d3 \in Int /\ d4 \in Int /\ d5 \in Int /\ d6 \in Int /\ d7 \in Int
  <2>1. o.kind \in {"approve", "charge"} => Amount[i] \in Int BY CallCases DEF OnItem
  <2>2. o.kind = "bonus" => Cashback[i] \in Int /\ Bonus[i] \in Int
    BY CallCases, WalletAssumption
  <2>3. o.kind = "transfer" => o.amount \in Int BY CallCases
  <2> QED BY <1>6, <2>1, <2>2, <2>3
<1>10. Funds[u] \in Int BY WalletAssumption
<1> HIDE DEF o, i, first, a1, a2, a3, a4, a5, a6, a7, d1, d2, d3, d4, d5, d6, d7
<1> QED BY <1>1, <1>2, <1>3, <1>4, <1>5, <1>6, <1>7, <1>8, <1>9, <1>10

(* Only a commit completes a transfer.                                     *)
LEMMA TransfersStay ==
  ASSUME Typed, [Next]_vars
  PROVE  \/ \E c \in Calls : Commit(c)
         \/ /\ UNCHANGED data
            /\ \A d \in Calls : Op[d].kind = "transfer" => (pc'[d] = "done" <=> pc[d] = "done")
<1>1. CASE UNCHANGED vars BY <1>1 DEF vars, calls
<1>2. ASSUME NEW c \in Calls, Work(c) \/ Crash(c), ~Commit(c)
      PROVE  /\ UNCHANGED data
             /\ \A d \in Calls :
                  Op[d].kind = "transfer" => (pc'[d] = "done" <=> pc[d] = "done")
  <2>1. ASSUME NEW how \in {"refused", "aborted"}, End(c, how), pc[c] # "done"
        PROVE  \A d \in Calls : pc'[d] = "done" <=> pc[d] = "done"
    BY <2>1 DEF End, Typed, TypeOK
  <2>2. CASE Acquire(c) BY <2>2 DEF Acquire, Open, Typed, TypeOK
  <2>3. CASE NoRow(c) BY <2>1, <2>3 DEF NoRow, Open
  <2>4. CASE Duplicate(c) \/ Victim(c) \/ Crash(c)
    BY <2>1, <2>4 DEF Duplicate, Victim, Crash
  <2>5. CASE Check(c)
    <3>1. UNCHANGED data /\ pc[c] = "check" BY <2>5 DEF Check
    <3>2. \/ pc' = [pc EXCEPT ![c] = "commit"]
          \/ End(c, "refused")
          \/ Op[c].kind = "adjust" /\ pc' = [pc EXCEPT ![c] = "done"]
      BY <2>5 DEF Check, End, Repeats
    <3> QED BY <2>1, <3>1, <3>2 DEF Typed, TypeOK
  <2> QED BY <1>2, <2>2, <2>3, <2>4, <2>5 DEF Work
<1> QED BY <1>1, <1>2 DEF Next

(* Every balance is made of what was approved, bought, rewarded, moved and *)
(* adjusted, each exactly once, however the calls interleave and crash.    *)
THEOREM BalancesExplained == Spec => []BalanceExplained
<1>1. Init => BalanceExplained /\ FewInv
  <2> SUFFICES ASSUME Init PROVE BalanceExplained /\ FewInv OBVIOUS
  <2>1. ASSUME NEW u \in Users
        PROVE  /\ Mine(Receipts, u, "approved") = {} /\ Mine(Intents, u, "completed") = {}
               /\ Earned(u) = {} /\ Referred(u) = {} /\ Entered(u) = {}
               /\ Transfers("recv", u) = {} /\ Transfers("sent", u) = {}
    BY DEF Init, Mine, Earned, Referred, Transfers, Entered, Items
  <2>2. ASSUME NEW u \in Users PROVE balance[u] = Funds[u] /\ Funds[u] \in Int
    BY WalletAssumption DEF Init
  <2>3. /\ SumOver(Amount, {}) = 0 /\ SumOver(Cashback, {}) = 0 /\ SumOver(Bonus, {}) = 0
        /\ SumOver(AmountMoved, {}) = 0 /\ \A u \in Users : SumOver(Written(u), {}) = 0
    BY SumEmpty
  <2>5. BalanceExplained
    <3>1. ASSUME NEW u \in Users
          PROVE  balance[u] = Funds[u]
                   + SumOver(Amount, Mine(Receipts, u, "approved"))
                   - SumOver(Amount, Mine(Intents, u, "completed"))
                   + SumOver(Cashback, Earned(u)) + SumOver(Bonus, Referred(u))
                   + SumOver(AmountMoved, Transfers("recv", u))
                   - SumOver(AmountMoved, Transfers("sent", u))
                   + SumOver(Written(u), Entered(u))
      <4>1. Funds[u] = Funds[u] + 0 - 0 + 0 + 0 + 0 - 0 + 0 BY <2>2
      <4>2. SumOver(Written(u), Entered(u)) = 0
        <5>1. Entered(u) = {} BY <2>1
        <5> QED BY <5>1, SumEmpty
      <4> QED BY <2>1, <2>2, <2>3, <4>1, <4>2
    <3> QED BY <3>1 DEF BalanceExplained
  <2>4. Started = {} /\ Processed = {} BY DEF Init, Started, Processed
  <2> QED BY <2>4, <2>5, FS_EmptySet DEF FewInv
<1>2. Typed /\ LockInv /\ DecisionInv /\ CircleInv /\ FewInv /\ BalanceExplained /\ [Next]_vars
      => BalanceExplained'
  <2> SUFFICES ASSUME Typed, LockInv, DecisionInv, CircleInv, FewInv, BalanceExplained,
                      [Next]_vars
               PROVE  BalanceExplained'
    OBVIOUS
  <2>1. ASSUME UNCHANGED data,
               \A d \in Calls : Op[d].kind = "transfer" => (pc'[d] = "done" <=> pc[d] = "done")
        PROVE  BalanceExplained'
    <3>1. ASSUME NEW u \in Users
          PROVE  /\ Mine(Receipts, u, "approved")' = Mine(Receipts, u, "approved")
                 /\ Mine(Intents, u, "completed")' = Mine(Intents, u, "completed")
                 /\ Earned(u)' = Earned(u) /\ Referred(u)' = Referred(u)
                 /\ Entered(u)' = Entered(u) /\ Written(u)' = Written(u)
                 /\ balance'[u] = balance[u]
      BY <2>1 DEF data, Mine, Earned, Referred, Entered, Written
    <3>2. ASSUME NEW u \in Users
          PROVE  /\ Transfers("recv", u)' = Transfers("recv", u)
                 /\ Transfers("sent", u)' = Transfers("sent", u)
      BY <2>1 DEF Transfers
    <3> QED BY <3>1, <3>2 DEF BalanceExplained
  <2>2. ASSUME NEW c \in Calls, Commit(c) PROVE BalanceExplained'
    BY <2>2, CommitExplained DEF Few
  <2> QED BY <2>1, <2>2, TransfersStay
<1> QED BY <1>1, <1>2, InitLocks, NextKeeps, InitCircle, NextCircle, InitDecisions,
           NextDecisions, NextFew, PTL DEF Spec
=============================================================================
