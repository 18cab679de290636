--------------------------- MODULE CheckoutProofs ---------------------------
(***************************************************************************)
(* Proofs about Checkout, for any checkouts, buyers and taps, and about    *)
(* Orphans, for any scans, administrators and bounds; the last one is about*)
(* the two side by side, as MCCheckout runs them.                          *)
(***************************************************************************)
EXTENDS MCCheckout, TLAPS

(* A recovery that has judged a checkout has it locked, stuck and stale,   *)
(* and its judgement still stands: it saw a completed purchase, or it saw  *)
(* none, and then only a tap that slept can have reserved since.           *)
Judged(c) ==
  locker[c] # "free" =>
    /\ status[c] = "processing" /\ stale[c] /\ verdict[c] \in Statuses
    /\ verdict[c] = "completed" => Bought(c, "completed")
    /\ verdict[c] \in {"pending", "expired"} =>
         \A t \in TapsOf(c) : purchase[t] # "none" => t \in slept

(* A tap with a claim has the checkout's five minutes, has slept, or finds *)
(* the checkout closed by another tap.                                     *)
ClaimHolds(t) ==
  pc[t] = "claimed" /\ t \notin slept =>
    /\ status[Of[t]] \in {"processing", "completed", "failed"}
    /\ status[Of[t]] = "processing" => ~stale[Of[t]]

(* A tap that reports success has paid.                                    *)
PaidTap(t) == pc[t] = "completing" => purchase[t] = "completed"

Protocol ==
  /\ \A c \in Checkouts : Judged(c)
  /\ \A t \in Taps : ClaimHolds(t) /\ PaidTap(t)

CInv == TypeOK /\ Protocol

-----------------------------------------------------------------------------
LEMMA InitCInv == Init => CInv
BY CheckoutAssumption DEF Init, CInv, TypeOK, Protocol, Judged, ClaimHolds, PaidTap,
   Statuses, Outcomes, Steps, Ended

(* How the purchases of the taps may change in one step.                   *)
PurchaseStep ==
  \A t \in Taps :
    \/ purchase'[t] = purchase[t]
    \/ purchase[t] = "pending" /\ purchase'[t] \in {"completed", "failed"}
    \/ Reserve(t) /\ purchase[t] = "none" /\ purchase'[t] = "pending"

LEMMA PurchasesMove == TypeOK /\ [Next]_vars => PurchaseStep
<1> SUFFICES ASSUME TypeOK, [Next]_vars, NEW t \in Taps
             PROVE  \/ purchase'[t] = purchase[t]
                    \/ purchase[t] = "pending" /\ purchase'[t] \in {"completed", "failed"}
                    \/ Reserve(t) /\ purchase[t] = "none" /\ purchase'[t] = "pending"
  BY DEF PurchaseStep
<1> USE DEF TypeOK
<1>1. ASSUME NEW s \in Taps, Reserve(s) PROVE
        purchase'[t] = purchase[t] \/ (s = t /\ purchase[t] = "none" /\ purchase'[t] = "pending")
  BY <1>1, CheckoutAssumption DEF Reserve, TapsOf
<1>2. ASSUME NEW s \in Taps, SagaReturns(s) \/ SagaThrows(s) \/ Settle(s)
      PROVE  \/ purchase'[t] = purchase[t]
             \/ purchase[t] = "pending" /\ purchase'[t] \in {"completed", "failed"}
  BY <1>2 DEF SagaReturns, SagaThrows, Settle
<1>3. ASSUME NEW s \in Taps,
             \/ Claim(s) \/ ClaimMisses(s) \/ Look(s) \/ Relook(s) \/ Expire(s)
             \/ Recover(s, Of[s]) \/ RecoverNothing(s) \/ GiveUp(s)
             \/ Complete(s) \/ Fail(s) \/ Crash(s)
      PROVE  UNCHANGED purchase
  BY <1>3 DEF Claim, ClaimMisses, Look, Relook, Expire, Recover, RecoverRead, RecoverWrite,
              RecoverNothing, GiveUp, Complete, Fail, Crash
<1>4. ASSUME NEW c \in Checkouts,
             Recover("sweep", c) \/ SweepAborts(c) \/ FiveMinutes(c) \/ Lapse(c)
      PROVE  UNCHANGED purchase
  BY <1>4 DEF Recover, RecoverRead, RecoverWrite, SweepAborts, FiveMinutes, Lapse
<1>5. CASE UNCHANGED vars BY <1>5 DEF vars
<1> QED BY <1>1, <1>2, <1>3, <1>4, <1>5 DEF Next, Tap

(* What is bought stays bought.                                            *)
LEMMA BoughtStays ==
  ASSUME PurchaseStep, NEW c, Bought(c, "completed")
  PROVE  Bought(c, "completed")'
BY DEF PurchaseStep, Bought, TapsOf

-----------------------------------------------------------------------------
(* Every step keeps the types.                                             *)
Recoverers == Taps \cup {"sweep"}

LEMMA TypesKept == CInv /\ [Next]_vars => TypeOK'
<1> SUFFICES ASSUME TypeOK, Protocol, [Next]_vars PROVE TypeOK' BY DEF CInv
<1> USE CheckoutAssumption DEF TypeOK, Goto, Statuses, Outcomes, Steps, Ended
<1>1. ASSUME NEW t \in Taps, Claim(t) \/ ClaimMisses(t) \/ Look(t) \/ Relook(t) \/ Expire(t)
      PROVE  TypeOK'
  <2>1. CASE Claim(t) BY <2>1 DEF Claim, lock
  <2>2. CASE ClaimMisses(t) BY <2>2 DEF ClaimMisses, row, lock
  <2>3. CASE Look(t) BY <2>3 DEF Look, row, lock
  <2>4. CASE Relook(t) BY <2>4 DEF Relook, row, lock
  <2>5. CASE Expire(t) BY <2>5 DEF Expire, lock
  <2> QED BY <1>1, <2>1, <2>2, <2>3, <2>4, <2>5
<1>2. ASSUME NEW c \in Checkouts, NEW a \in Recoverers, RecoverRead(a, c)
      PROVE  TypeOK'
  BY <1>2 DEF RecoverRead, Verdict, row, Recoverers
<1>3. ASSUME NEW c \in Checkouts, NEW a \in Recoverers, RecoverWrite(a, c)
      PROVE  TypeOK'
  <2>1. verdict[c] \in Statuses
    <3>1. locker[c] # "free" BY <1>3 DEF RecoverWrite, Recoverers
    <3> QED BY <3>1 DEF Protocol, Judged
  <2> QED BY <1>3, <2>1 DEF RecoverWrite, Unlock, Returns, Recoverers
<1>4. ASSUME NEW t \in Taps, RecoverNothing(t) \/ GiveUp(t) \/ Reserve(t)
      PROVE  TypeOK'
  BY <1>4 DEF RecoverNothing, GiveUp, Reserve, row, lock
<1>5. ASSUME NEW t \in Taps, SagaReturns(t) \/ SagaThrows(t) \/ Settle(t)
      PROVE  TypeOK'
  BY <1>5 DEF SagaReturns, SagaThrows, Settle, row, lock
<1>6. ASSUME NEW t \in Taps, Complete(t) \/ Fail(t)
      PROVE  TypeOK'
  BY <1>6 DEF Complete, Fail, AfterFail, lock
<1>7. ASSUME NEW t \in Taps, Crash(t)
      PROVE  TypeOK'
  BY <1>7 DEF Crash, Unlock, row, lock
<1>8. ASSUME NEW c \in Checkouts, SweepAborts(c) \/ FiveMinutes(c) \/ Lapse(c)
      PROVE  TypeOK'
  BY <1>8 DEF SweepAborts, FiveMinutes, Lapse, Unlock, row, lock, TapsOf
<1>9. CASE UNCHANGED vars BY <1>9 DEF vars, row, lock
<1> QED BY <1>1, <1>2, <1>3, <1>4, <1>5, <1>6, <1>7, <1>8, <1>9
        DEF Next, Tap, Recover, Recoverers

-----------------------------------------------------------------------------
(* Every step keeps the protocol.                                          *)

(* A judgement stands as long as its lock is kept, the row is left alone   *)
(* and no tap that kept its five minutes reserves.                         *)
LEMMA JudgedKept ==
  ASSUME TypeOK, NEW c \in Checkouts, Judged(c), PurchaseStep,
         locker'[c] # "free" => locker[c] # "free" /\ verdict'[c] = verdict[c],
         locker[c] # "free" /\ locker'[c] # "free" =>
           status'[c] = status[c] /\ stale'[c] = stale[c],
         slept \subseteq slept',
         \A t \in TapsOf(c) : purchase'[t] # purchase[t] /\ purchase[t] = "none" =>
           t \in slept \/ locker[c] = "free"
  PROVE  Judged(c)'
<1> SUFFICES ASSUME locker'[c] # "free"
             PROVE  /\ status'[c] = "processing" /\ stale'[c] /\ verdict'[c] \in Statuses
                    /\ verdict'[c] = "completed" => Bought(c, "completed")'
                    /\ verdict'[c] \in {"pending", "expired"} =>
                         \A t \in TapsOf(c) : purchase'[t] # "none" => t \in slept'
  BY DEF Judged, TapsOf
<1>1. /\ status[c] = "processing" /\ stale[c] /\ verdict[c] \in Statuses
      /\ verdict[c] = "completed" => Bought(c, "completed")
      /\ verdict[c] \in {"pending", "expired"} =>
           \A t \in TapsOf(c) : purchase[t] # "none" => t \in slept
  BY DEF Judged
<1>2. verdict'[c] = "completed" => Bought(c, "completed")' BY <1>1, BoughtStays
<1> QED BY <1>1, <1>2

(* What a tap knows stands unless its row is claimed, opened or grows      *)
(* stale under it.                                                         *)
LEMMA ClaimKept ==
  ASSUME TypeOK, NEW t \in Taps, ClaimHolds(t),
         pc'[t] = "claimed" => pc[t] = "claimed",
         t \in slept => t \in slept',
         pc[t] = "claimed" /\ t \notin slept' =>
           \/ status'[Of[t]] = status[Of[t]] /\ stale'[Of[t]] = stale[Of[t]]
           \/ status'[Of[t]] \in {"completed", "failed"}
  PROVE  ClaimHolds(t)'
BY DEF ClaimHolds

LEMMA PaidKept ==
  ASSUME TypeOK, NEW t \in Taps, PaidTap(t), PurchaseStep,
         pc'[t] = "completing" => pc[t] = "completing"
  PROVE  PaidTap(t)'
BY DEF PaidTap, PurchaseStep

LEMMA ProtocolKept == CInv /\ [Next]_vars => Protocol'
<1> SUFFICES ASSUME TypeOK, Protocol, [Next]_vars, PurchaseStep PROVE Protocol'
  BY PurchasesMove DEF CInv
<1> USE CheckoutAssumption
<1> DEFINE Keeps == /\ \A c \in Checkouts : Judged(c)'
                    /\ \A t \in Taps : ClaimHolds(t)' /\ PaidTap(t)'
<1>0. \A t \in Taps : Of[t] \in Checkouts OBVIOUS
<1>1. ASSUME NEW s \in Taps,
             \/ ClaimMisses(s) \/ Look(s) \/ Relook(s) \/ RecoverNothing(s) \/ GiveUp(s)
             \/ SagaThrows(s) \/ Settle(s)
      PROVE  Keeps
  <2>1. /\ UNCHANGED <<row, lock, slept>>
        /\ \A t \in Taps : pc'[t] \in {"claimed", "completing"} => pc'[t] = pc[t]
        /\ \A t \in Taps : purchase[t] = "none" => purchase'[t] = purchase[t]
    BY <1>1 DEF ClaimMisses, Look, Relook, RecoverNothing, GiveUp, SagaThrows, Settle,
                Goto, TypeOK
  <2>2. ASSUME NEW c \in Checkouts PROVE Judged(c)'
    BY <2>1, JudgedKept DEF Protocol, row, lock, TapsOf
  <2>3. ASSUME NEW t \in Taps PROVE ClaimHolds(t)' /\ PaidTap(t)'
    BY <2>1, ClaimKept, PaidKept DEF Protocol, row
  <2> QED BY <2>2, <2>3
<1>2. ASSUME NEW s \in Taps, Claim(s) PROVE Keeps
  <2> DEFINE d == Of[s]
  <2>1. /\ status[d] = "pending" /\ d \in Checkouts
        /\ status' = [status EXCEPT ![d] = "processing"]
        /\ stale' = [stale EXCEPT ![d] = FALSE]
        /\ pc' = [pc EXCEPT ![s] = "claimed"]
        /\ UNCHANGED <<lock, purchase, slept>>
    BY <1>2 DEF Claim, Claimable, Goto
  <2>2. ASSUME NEW c \in Checkouts PROVE Judged(c)'
    <3>1. locker[d] = "free" BY <2>1 DEF Protocol, Judged
    <3> QED BY <2>1, <3>1, JudgedKept DEF Protocol, TypeOK, lock
  <2>3. ASSUME NEW t \in Taps PROVE ClaimHolds(t)'
    <3>1. CASE t = s BY <2>1, <3>1 DEF ClaimHolds, TypeOK
    <3>2. CASE t # s /\ Of[t] = d BY <2>1, <3>2 DEF Protocol, ClaimHolds, TypeOK
    <3>3. CASE t # s /\ Of[t] # d
      BY <1>0, <2>1, <3>3, ClaimKept DEF Protocol, TypeOK
    <3> QED BY <3>1, <3>2, <3>3
  <2>4. ASSUME NEW t \in Taps PROVE PaidTap(t)'
    BY <2>1, PaidKept DEF Protocol, TypeOK
  <2> QED BY <2>2, <2>3, <2>4
<1>3. ASSUME NEW s \in Taps, Expire(s) \/ Complete(s) \/ Fail(s) PROVE Keeps
  <2> DEFINE d == Of[s]
  <2>1. /\ d \in Checkouts
        /\ \A c \in Checkouts \ {d} : status'[c] = status[c]
        /\ \/ status'[d] = status[d]
           \/ status[d] = "pending"
           \/ locker[d] = "free" /\ status'[d] \in {"completed", "failed"}
        /\ UNCHANGED <<stale, lock, purchase, slept>>
        /\ \A t \in Taps : pc'[t] \in {"claimed", "completing"} => pc'[t] = pc[t]
    BY <1>3 DEF Expire, Complete, Fail, AfterFail, Goto, TypeOK
  <2>2. ASSUME NEW c \in Checkouts PROVE Judged(c)'
    <3>1. status[d] = "pending" => locker[d] = "free" BY <2>1 DEF Protocol, Judged
    <3>2. locker[c] # "free" => status'[c] = status[c] BY <2>1, <3>1
    <3> QED BY <2>1, <3>2, JudgedKept DEF Protocol, lock
  <2>3. ASSUME NEW t \in Taps PROVE ClaimHolds(t)'
    <3>1. pc[t] = "claimed" /\ t \notin slept => status[Of[t]] # "pending"
      BY DEF Protocol, ClaimHolds
    <3> QED BY <1>0, <2>1, <3>1, ClaimKept DEF Protocol
  <2>4. ASSUME NEW t \in Taps PROVE PaidTap(t)' BY <2>1, PaidKept DEF Protocol
  <2> QED BY <2>2, <2>3, <2>4
<1>4. ASSUME NEW d \in Checkouts, NEW a \in Recoverers, RecoverRead(a, d) PROVE Keeps
  <2>1. /\ status[d] = "processing" /\ stale[d] /\ Verdict(d) # "none"
        /\ locker' = [locker EXCEPT ![d] = a]
        /\ verdict' = [verdict EXCEPT ![d] = Verdict(d)]
        /\ UNCHANGED <<row, purchase, pc, slept>>
    BY <1>4 DEF RecoverRead
  <2>2. ASSUME NEW c \in Checkouts PROVE Judged(c)'
    <3>1. CASE c = d
      <4>1. /\ Verdict(d) \in Statuses
            /\ Verdict(d) = "completed" => Bought(d, "completed")
            /\ Verdict(d) \in {"pending", "expired"} =>
                 \A t \in TapsOf(d) : purchase[t] = "none"
        BY <2>1 DEF Verdict, Statuses, Bought, TapsOf, TypeOK, Outcomes
      <4>2. Bought(d, "completed")' <=> Bought(d, "completed") BY <2>1 DEF Bought, TapsOf
      <4> QED BY <2>1, <3>1, <4>1, <4>2 DEF Judged, TapsOf, TypeOK, row
    <3>2. CASE c # d BY <2>1, <3>2, JudgedKept DEF Protocol, TypeOK, row
    <3> QED BY <3>1, <3>2
  <2>3. ASSUME NEW t \in Taps PROVE ClaimHolds(t)' /\ PaidTap(t)'
    BY <2>1, ClaimKept, PaidKept DEF Protocol, row
  <2> QED BY <2>2, <2>3
<1>5. ASSUME NEW d \in Checkouts, NEW a \in Recoverers, RecoverWrite(a, d) PROVE Keeps
  <2>1. /\ locker[d] # "free"
        /\ status' = [status EXCEPT ![d] = verdict[d]]
        /\ locker' = [locker EXCEPT ![d] = "free"]
        /\ verdict' = [verdict EXCEPT ![d] = "none"]
        /\ UNCHANGED <<stale, purchase, slept>>
        /\ \A t \in Taps : pc'[t] \in {"claimed", "completing"} => pc'[t] = pc[t]
    BY <1>5 DEF RecoverWrite, Unlock, Returns, Goto, Recoverers, TypeOK
  <2>2. ASSUME NEW c \in Checkouts PROVE Judged(c)'
    BY <2>1, JudgedKept DEF Protocol, TypeOK
  <2>3. ASSUME NEW t \in Taps PROVE ClaimHolds(t)'
    <3>1. status[d] = "processing" /\ stale[d] BY <2>1 DEF Protocol, Judged
    <3>2. pc[t] = "claimed" /\ t \notin slept => Of[t] # d
      BY <3>1 DEF Protocol, ClaimHolds
    <3> QED BY <1>0, <2>1, <3>2, ClaimKept DEF Protocol, TypeOK
  <2>4. ASSUME NEW t \in Taps PROVE PaidTap(t)' BY <2>1, PaidKept DEF Protocol
  <2> QED BY <2>2, <2>3, <2>4
<1>6. ASSUME NEW s \in Taps, Reserve(s) PROVE Keeps
  <2>1. /\ pc[s] = "claimed"
        /\ purchase' = [purchase EXCEPT ![s] = "pending"]
        /\ UNCHANGED <<row, lock, slept>>
        /\ \A t \in Taps : pc'[t] \in {"claimed", "completing"} => pc'[t] = pc[t]
    BY <1>6 DEF Reserve, Goto, TypeOK
  <2>2. ASSUME NEW c \in Checkouts PROVE Judged(c)'
    <3>1. Of[s] = c => s \in slept \/ locker[c] = "free"
      BY <2>1 DEF Protocol, Judged, ClaimHolds
    <3>2. \A t \in TapsOf(c) : purchase'[t] # purchase[t] => t = s /\ Of[s] = c
      BY <2>1 DEF TapsOf, TypeOK
    <3> QED BY <2>1, <3>1, <3>2, JudgedKept DEF Protocol, row, lock
  <2>3. ASSUME NEW t \in Taps PROVE ClaimHolds(t)' /\ PaidTap(t)'
    BY <2>1, ClaimKept, PaidKept DEF Protocol, row
  <2> QED BY <2>2, <2>3
<1>7. ASSUME NEW s \in Taps, SagaReturns(s) PROVE Keeps
  <2>1. /\ UNCHANGED <<row, lock, slept>>
        /\ purchase' = [purchase EXCEPT ![s] = "completed"] /\ purchase[s] # "none"
        /\ pc' = [pc EXCEPT ![s] = "completing"]
    BY <1>7 DEF SagaReturns, Goto
  <2>2. ASSUME NEW c \in Checkouts PROVE Judged(c)'
    BY <2>1, JudgedKept DEF Protocol, row, lock, TapsOf, TypeOK
  <2>3. ASSUME NEW t \in Taps PROVE ClaimHolds(t)'
    BY <2>1, ClaimKept DEF Protocol, row, TypeOK
  <2>4. ASSUME NEW t \in Taps PROVE PaidTap(t)'
    BY <2>1 DEF Protocol, PaidTap, TypeOK
  <2> QED BY <2>2, <2>3, <2>4
<1>8. ASSUME NEW s \in Taps, Crash(s) PROVE Keeps
  <2>1. /\ UNCHANGED <<row, purchase, slept>>
        /\ pc' = [pc EXCEPT ![s] = "dead"]
        /\ \A c \in Checkouts : locker'[c] # "free" =>
             locker'[c] = locker[c] /\ verdict'[c] = verdict[c]
    BY <1>8 DEF Crash, Goto, Unlock, lock, TypeOK
  <2>2. ASSUME NEW c \in Checkouts PROVE Judged(c)'
    BY <2>1, JudgedKept DEF Protocol, row
  <2>3. ASSUME NEW t \in Taps PROVE ClaimHolds(t)' /\ PaidTap(t)'
    BY <2>1, ClaimKept, PaidKept DEF Protocol, row, TypeOK
  <2> QED BY <2>2, <2>3
<1>9. ASSUME NEW d \in Checkouts, SweepAborts(d) \/ Lapse(d) PROVE Keeps
  <2>1. /\ UNCHANGED <<status, stale, purchase, pc, slept>>
        /\ \A c \in Checkouts : locker'[c] # "free" =>
             locker'[c] = locker[c] /\ verdict'[c] = verdict[c]
    BY <1>9 DEF SweepAborts, Lapse, Unlock, row, lock, TypeOK
  <2>2. ASSUME NEW c \in Checkouts PROVE Judged(c)' BY <2>1, JudgedKept DEF Protocol
  <2>3. ASSUME NEW t \in Taps PROVE ClaimHolds(t)' /\ PaidTap(t)'
    BY <2>1, ClaimKept, PaidKept DEF Protocol
  <2> QED BY <2>2, <2>3
<1>10. ASSUME NEW d \in Checkouts, FiveMinutes(d) PROVE Keeps
  <2>1. /\ ~stale[d] /\ stale' = [stale EXCEPT ![d] = TRUE]
        /\ UNCHANGED <<status, lock, purchase, pc>>
        /\ slept \subseteq slept'
        /\ \A t \in Taps : Of[t] = d /\ pc[t] = "claimed" => t \in slept'
    BY <1>10 DEF FiveMinutes, TapsOf
  <2>2. ASSUME NEW c \in Checkouts PROVE Judged(c)'
    <3>1. locker[d] = "free" BY <2>1 DEF Protocol, Judged
    <3> QED BY <2>1, <3>1, JudgedKept DEF Protocol, lock, TypeOK
  <2>3. ASSUME NEW t \in Taps PROVE ClaimHolds(t)' /\ PaidTap(t)'
    <3>1. PaidTap(t)' BY <2>1, PaidKept DEF Protocol
    <3>2. Of[t] # d => stale'[Of[t]] = stale[Of[t]] BY <1>0, <2>1 DEF TypeOK
    <3> QED BY <2>1, <3>1, <3>2, ClaimKept DEF Protocol
  <2> QED BY <2>2, <2>3
<1>11. CASE UNCHANGED vars
  BY <1>11 DEF vars, row, lock, Protocol, Judged, ClaimHolds, PaidTap, Bought, TapsOf
<1>12. Keeps => Protocol' BY DEF Protocol
<1> QED BY <1>1, <1>2, <1>3, <1>4, <1>5, <1>6, <1>7, <1>8, <1>9, <1>10, <1>11, <1>12
        DEF Next, Tap, Recover, Recoverers

LEMMA CInvHolds == Spec => []CInv
<1>1. CInv /\ [Next]_vars => CInv' BY TypesKept, ProtocolKept DEF CInv
<1> QED BY InitCInv, <1>1, PTL DEF Spec

-----------------------------------------------------------------------------
(* How the statuses of the checkouts may change in one step.               *)
StatusStep ==
  \A c \in Checkouts :
    \/ status'[c] = status[c]
    \/ status[c] = "pending" /\ status'[c] \in {"processing", "expired"}
    \/ status[c] = "processing" /\ status'[c] = "failed"
    \/ status[c] = "processing" /\ status'[c] = "completed" /\ Bought(c, "completed")
    \/ status[c] = "processing" /\ locker[c] # "free" /\ status'[c] = verdict[c]

LEMMA StatusesMove == CInv /\ [Next]_vars => StatusStep
<1> SUFFICES ASSUME TypeOK, Protocol, [Next]_vars PROVE StatusStep BY DEF CInv
<1> USE CheckoutAssumption DEF StatusStep
<1>1. ASSUME NEW t \in Taps, Claim(t) \/ Expire(t) \/ Fail(t) PROVE StatusStep
  BY <1>1 DEF Claim, Claimable, Expire, Fail, TypeOK
<1>2. ASSUME NEW t \in Taps, Complete(t) PROVE StatusStep
  <2>1. purchase[t] = "completed" BY <1>2 DEF Complete, Protocol, PaidTap
  <2>2. Bought(Of[t], "completed") BY <2>1 DEF Bought, TapsOf
  <2> QED BY <1>2, <2>2 DEF Complete, TypeOK
<1>3. ASSUME NEW d \in Checkouts, NEW a \in Recoverers, RecoverWrite(a, d) PROVE StatusStep
  <2>1. locker[d] # "free" BY <1>3 DEF RecoverWrite, Recoverers
  <2>2. status[d] = "processing" BY <2>1 DEF Protocol, Judged
  <2> QED BY <1>3, <2>1, <2>2 DEF RecoverWrite, TypeOK
<1>4. ASSUME NEW t \in Taps,
             \/ ClaimMisses(t) \/ Look(t) \/ Relook(t) \/ RecoverNothing(t) \/ GiveUp(t)
             \/ Reserve(t) \/ SagaReturns(t) \/ SagaThrows(t) \/ Crash(t) \/ Settle(t)
      PROVE  UNCHANGED status
  BY <1>4 DEF ClaimMisses, Look, Relook, RecoverNothing, GiveUp, Reserve, SagaReturns,
              SagaThrows, Crash, Settle, row
<1>5. ASSUME NEW c \in Checkouts, NEW a \in Recoverers,
             RecoverRead(a, c) \/ SweepAborts(c) \/ FiveMinutes(c) \/ Lapse(c)
      PROVE  UNCHANGED status
  BY <1>5 DEF RecoverRead, SweepAborts, FiveMinutes, Lapse, row
<1>6. CASE UNCHANGED vars BY <1>6 DEF vars, row
<1>7. /\ \A t \in Taps : t \in Recoverers /\ Of[t] \in Checkouts
      /\ "sweep" \in Recoverers
  BY DEF Recoverers
<1> QED BY <1>1, <1>2, <1>3, <1>4, <1>5, <1>6, <1>7 DEF Next, Tap, Recover

LEMMA SleptStays == [Next]_vars => slept \subseteq slept'
<1> SUFFICES ASSUME [Next]_vars PROVE slept \subseteq slept' OBVIOUS
<1>1. ASSUME NEW t \in Taps, Tap(t) \/ Crash(t) \/ Settle(t) PROVE UNCHANGED slept
  BY <1>1 DEF Tap, Claim, ClaimMisses, Look, Relook, Expire, Recover, RecoverRead, RecoverWrite,
              RecoverNothing, GiveUp, Reserve, SagaReturns, SagaThrows, Complete, Fail, Crash,
              Settle
<1>2. ASSUME NEW c \in Checkouts,
             Recover("sweep", c) \/ SweepAborts(c) \/ FiveMinutes(c) \/ Lapse(c)
      PROVE  slept \subseteq slept'
  BY <1>2 DEF Recover, RecoverRead, RecoverWrite, SweepAborts, FiveMinutes, Lapse
<1> QED BY <1>1, <1>2 DEF Next, vars

-----------------------------------------------------------------------------
(* The database and the handlers hold the values the model gives them, for *)
(* any number of checkouts and confirmations.                              *)
THEOREM CheckoutTyped == Spec => []TypeOK
BY CInvHolds, PTL DEF CInv

(* A checkout buys once (PurchaseCheckoutService with the unique index on  *)
(* purchase_intents.checkout_id): however often it is confirmed, recovered *)
(* and opened again, one tap at most inserts a purchase intent.            *)
THEOREM BuysOnce == Spec => []OnePurchase
<1>1. Init => OnePurchase BY DEF Init, OnePurchase
<1>2. CInv /\ OnePurchase /\ [Next]_vars => OnePurchase'
  <2> SUFFICES ASSUME TypeOK, OnePurchase, PurchaseStep,
                      NEW s \in Taps, NEW t \in Taps, Of[s] = Of[t], s # t,
                      purchase'[s] # "none", purchase'[t] # "none"
               PROVE  FALSE
    BY PurchasesMove DEF CInv, OnePurchase
  <2>1. ASSUME NEW a \in Taps, NEW b \in Taps, Of[a] = Of[b], a # b, Reserve(a)
        PROVE  purchase'[b] = "none"
    BY <2>1 DEF Reserve, TapsOf, TypeOK
  <2>2. ~Reserve(s) /\ ~Reserve(t) BY <2>1
  <2>3. purchase[s] # "none" /\ purchase[t] # "none" BY <2>2 DEF PurchaseStep
  <2> QED BY <2>3 DEF OnePurchase
<1> QED BY <1>1, <1>2, CInvHolds, PTL DEF Spec

(* Whoever records a checkout as completed, its handler or a recovery that *)
(* decided earlier, there is a completed purchase of that checkout.        *)
THEOREM PaidIfCompleted == Spec => []CompletedIsPaid
<1>1. Init => CompletedIsPaid BY DEF Init, CompletedIsPaid
<1>2. CInv /\ CompletedIsPaid /\ [Next]_vars => CompletedIsPaid'
  <2> SUFFICES ASSUME TypeOK, Protocol, CompletedIsPaid, PurchaseStep, StatusStep,
                      NEW c \in Checkouts, status'[c] = "completed"
               PROVE  Bought(c, "completed")'
    BY PurchasesMove, StatusesMove DEF CInv, CompletedIsPaid
  <2>1. \/ status[c] = "completed"
        \/ Bought(c, "completed")
        \/ locker[c] # "free" /\ verdict[c] = "completed"
    BY DEF StatusStep
  <2>2. Bought(c, "completed") BY <2>1 DEF CompletedIsPaid, Protocol, Judged
  <2> QED BY <2>2, BoughtStays
<1> QED BY <1>1, <1>2, CInvHolds, PTL DEF Spec

(* A recorded outcome is final: `complete`, `fail` and both recoveries only*)
(* write a checkout that is still processing, and a recovery that has      *)
(* judged it keeps it locked.                                              *)
THEOREM OutcomesFinal == Spec => OutcomeIsFinal
<1>1. CInv /\ [Next]_vars =>
        [\A c \in Checkouts :
           status[c] \in {"completed", "failed", "expired"} => status'[c] = status[c]]_vars
  BY StatusesMove DEF StatusStep
<1> QED BY <1>1, CInvHolds, PTL DEF Spec, OutcomeIsFinal

(* "Never blindly re-opened": a checkout with a purchase intent is neither *)
(* offered again nor expired, unless the tap that bought had slept for five*)
(* minutes between its claim and its reservation.                          *)
THEOREM NeverReopened == Spec => []NotReopened
<1>1. Init => NotReopened BY DEF Init, NotReopened
<1>2. CInv /\ NotReopened /\ [Next]_vars => NotReopened'
  <2> SUFFICES ASSUME TypeOK, Protocol, NotReopened, [Next]_vars, PurchaseStep, StatusStep,
                      NEW t \in Taps, purchase'[t] # "none", t \notin slept'
               PROVE  status'[Of[t]] \notin {"pending", "expired"}
    BY PurchasesMove, StatusesMove DEF CInv, NotReopened
  <2> DEFINE c == Of[t]
  <2>1. c \in Checkouts BY CheckoutAssumption
  <2>2. t \notin slept BY SleptStays
  <2>3. CASE purchase[t] # "none"
    <3>1. status[c] \notin {"pending", "expired"} BY <2>2, <2>3 DEF NotReopened
    <3>2. locker[c] # "free" => verdict[c] \notin {"pending", "expired"}
      BY <2>1, <2>2, <2>3 DEF Protocol, Judged, TapsOf
    <3> QED BY <2>1, <3>1, <3>2 DEF StatusStep
  <2>4. CASE purchase[t] = "none"
    <3>1. Reserve(t) BY <2>4 DEF PurchaseStep
    <3>2. pc[t] = "claimed" /\ status'[c] = status[c] BY <3>1 DEF Reserve, row
    <3> QED BY <2>2, <3>2 DEF Protocol, ClaimHolds
  <2> QED BY <2>3, <2>4
<1> QED BY <1>1, <1>2, CInvHolds, PTL DEF Spec

-----------------------------------------------------------------------------
(* While no tap of a checkout has slept, the taps take turns: one at most  *)
(* is between its claim and its last write, the others have bought nothing,*)
(* and nobody else closes the checkout under a claim.                      *)
NoneSlept(c) == \A t \in TapsOf(c) : t \notin slept
Live(t) == pc[t] \in {"claimed", "bought", "completing", "failing", "unsure"}
Unbought(t) == pc[t] = "claimed" \/ (pc[t] = "failing" /\ purchase[t] = "none")

Turns(c) ==
  NoneSlept(c) => \A s, t \in TapsOf(c) :
                    s # t /\ Live(s) => ~Live(t) /\ purchase[t] = "none"
Exclusive(t) ==
  NoneSlept(Of[t]) /\ Unbought(t) => status[Of[t]] = "processing" /\ ~stale[Of[t]]

(* What the step of a tap says of its purchase.                            *)
StepTells(t) ==
  /\ pc[t] \in {"idle", "look", "recover", "relook", "again", "expire", "claimed"}
       => purchase[t] = "none"
  /\ pc[t] \in {"bought", "completing", "unsure"} => purchase[t] # "none"
  /\ pc[t] = "failing" => purchase[t] \in {"none", "failed"}

(* A recovery that judges a checkout failed has seen a failed purchase.    *)
JudgedFailed(c) == locker[c] # "free" /\ verdict[c] = "failed" => Bought(c, "failed")

(* A tap holds the lock of its own checkout, while it recovers it.         *)
Holds(c) == locker[c] \in Taps => pc[locker[c]] = "recover" /\ Of[locker[c]] = c

(* Recorded as failed, a purchase that has not failed is the tap's own.    *)
FailedKnown(t) ==
  /\ status[Of[t]] = "failed" /\ purchase[t] \in {"pending", "completed"}
  /\ NoneSlept(Of[t])
  => pc[t] = "unknown"

Order ==
  /\ \A c \in Checkouts : Turns(c) /\ JudgedFailed(c) /\ Holds(c)
  /\ \A t \in Taps : Exclusive(t) /\ StepTells(t) /\ FailedKnown(t)

OInv == CInv /\ OnePurchase /\ NotReopened /\ Order

LEMMA InitOrder == Init => Order
BY CheckoutAssumption DEF Init, Order, Turns, JudgedFailed, Exclusive, StepTells, FailedKnown,
   Live, Unbought, Holds, TapsOf

(* Nobody awakes.                                                          *)
LEMMA StillNoneSlept ==
  ASSUME [Next]_vars, NEW c, NoneSlept(c)'
  PROVE  NoneSlept(c)
BY SleptStays DEF NoneSlept, TapsOf

LEMMA FailedStays ==
  ASSUME PurchaseStep, NEW c, Bought(c, "failed")
  PROVE  Bought(c, "failed")'
BY DEF PurchaseStep, Bought, TapsOf

LEMMA StepTellsKept ==
  ASSUME OInv, [Next]_vars, NEW t \in Taps
  PROVE  StepTells(t)'
<1> USE DEF StepTells
<1>1. StepTells(t) /\ TypeOK BY DEF OInv, CInv, Order
<1>2. ASSUME NEW s \in Taps, Claim(s) \/ ClaimMisses(s) \/ Look(s) \/ Relook(s) \/ Expire(s)
      PROVE  StepTells(t)'
  BY <1>1, <1>2 DEF Claim, ClaimMisses, Look, Relook, Expire, Goto, TypeOK
<1>3. ASSUME NEW s \in Taps, RecoverNothing(s) \/ GiveUp(s) \/ Complete(s) \/ Fail(s) \/ Crash(s)
      PROVE  StepTells(t)'
  BY <1>1, <1>3 DEF RecoverNothing, GiveUp, Complete, Fail, AfterFail, Crash, Goto, TypeOK
<1>4. ASSUME NEW s \in Taps, Reserve(s) \/ SagaReturns(s) \/ SagaThrows(s) \/ Settle(s)
      PROVE  StepTells(t)'
  BY <1>1, <1>4 DEF Reserve, SagaReturns, SagaThrows, Settle, Goto, TypeOK
<1>5. ASSUME NEW c \in Checkouts, NEW a \in Recoverers, RecoverRead(a, c) \/ RecoverWrite(a, c)
      PROVE  StepTells(t)'
  <2>1. CASE RecoverRead(a, c) BY <1>1, <2>1 DEF RecoverRead
  <2>2. CASE RecoverWrite(a, c)
    <3>1. a \in Taps => pc[a] = "recover" BY <2>2 DEF RecoverWrite, OInv, Order, Holds
    <3> QED BY <1>1, <2>2, <3>1 DEF RecoverWrite, Returns, Goto, TypeOK, Recoverers
  <2> QED BY <1>5, <2>1, <2>2
<1>6. ASSUME NEW c \in Checkouts, SweepAborts(c) \/ FiveMinutes(c) \/ Lapse(c)
      PROVE  StepTells(t)'
  BY <1>1, <1>6 DEF SweepAborts, FiveMinutes, Lapse
<1>7. CASE UNCHANGED vars BY <1>1, <1>7 DEF vars
<1> QED BY <1>2, <1>3, <1>4, <1>5, <1>6, <1>7, CheckoutAssumption DEF Next, Tap, Recover, Recoverers

LEMMA HoldsKept ==
  ASSUME OInv, [Next]_vars, NEW c \in Checkouts
  PROVE  Holds(c)'
<1> USE CheckoutAssumption DEF Holds
<1>1. Holds(c) /\ TypeOK BY DEF OInv, CInv, Order
<1>2. ASSUME NEW s \in Taps, Claim(s) \/ ClaimMisses(s) \/ Look(s) \/ Relook(s) \/ Expire(s)
      PROVE  Holds(c)'
  BY <1>1, <1>2 DEF Claim, ClaimMisses, Look, Relook, Expire, Goto, TypeOK, lock
<1>3. ASSUME NEW s \in Taps, RecoverNothing(s) \/ GiveUp(s) \/ Complete(s) \/ Fail(s)
      PROVE  Holds(c)'
  BY <1>1, <1>3 DEF RecoverNothing, GiveUp, Complete, Fail, AfterFail, Goto, TypeOK, lock
<1>4. ASSUME NEW s \in Taps, Crash(s) PROVE Holds(c)'
  BY <1>1, <1>4 DEF Crash, Goto, Unlock, TypeOK, lock
<1>5. ASSUME NEW s \in Taps, Reserve(s) \/ SagaReturns(s) \/ SagaThrows(s) \/ Settle(s)
      PROVE  Holds(c)'
  BY <1>1, <1>5 DEF Reserve, SagaReturns, SagaThrows, Settle, Goto, TypeOK, lock
<1>6. ASSUME NEW d \in Checkouts, NEW a \in Recoverers, RecoverRead(a, d) PROVE Holds(c)'
  BY <1>1, <1>6 DEF RecoverRead, Recovering, Recoverers, TypeOK
<1>7. ASSUME NEW d \in Checkouts, NEW a \in Recoverers, RecoverWrite(a, d) PROVE Holds(c)'
  <2>1. Holds(d) BY DEF OInv, Order
  <2> QED BY <1>1, <1>7, <2>1 DEF RecoverWrite, Unlock, Returns, Goto, Recoverers, TypeOK
<1>8. ASSUME NEW d \in Checkouts, SweepAborts(d) \/ FiveMinutes(d) \/ Lapse(d)
      PROVE  Holds(c)'
  BY <1>1, <1>8 DEF SweepAborts, FiveMinutes, Lapse, Unlock, TypeOK, lock
<1>9. CASE UNCHANGED vars BY <1>1, <1>9 DEF vars, lock
<1> QED BY <1>2, <1>3, <1>4, <1>5, <1>6, <1>7, <1>8, <1>9 DEF Next, Tap, Recover, Recoverers

LEMMA JudgedFailedKept ==
  ASSUME OInv, [Next]_vars, NEW c \in Checkouts
  PROVE  JudgedFailed(c)'
<1>1. JudgedFailed(c) /\ TypeOK /\ PurchaseStep
  BY PurchasesMove DEF OInv, CInv, Order
<1>2. SUFFICES ASSUME locker'[c] # "free", verdict'[c] = "failed" PROVE Bought(c, "failed")'
  BY DEF JudgedFailed
<1>3. ASSUME NEW a \in Recoverers, NEW d \in Checkouts, RecoverRead(a, d)
      PROVE  Bought(c, "failed")
  <2>1. CASE c = d
    <3>1. Verdict(c) = "failed" BY <1>2, <1>3, <2>1, <1>1 DEF RecoverRead, TypeOK
    <3> QED BY <3>1 DEF Verdict
  <2>2. CASE c # d BY <1>1, <1>2, <1>3, <2>2 DEF RecoverRead, JudgedFailed, TypeOK
  <2> QED BY <2>1, <2>2
<1>4. ASSUME locker'[c] # "free" => locker[c] = locker'[c] /\ verdict[c] = verdict'[c]
      PROVE  Bought(c, "failed")
  BY <1>1, <1>2, <1>4 DEF JudgedFailed
<1>5. ASSUME ~ \E a \in Recoverers, d \in Checkouts : RecoverRead(a, d)
      PROVE  locker'[c] # "free" => locker[c] = locker'[c] /\ verdict[c] = verdict'[c]
  <2>1. ASSUME NEW t \in Taps,
               \/ Claim(t) \/ ClaimMisses(t) \/ Look(t) \/ Relook(t) \/ Expire(t)
               \/ RecoverNothing(t) \/ GiveUp(t) \/ Reserve(t) \/ SagaReturns(t) \/ SagaThrows(t)
               \/ Complete(t) \/ Fail(t) \/ Settle(t)
        PROVE  UNCHANGED lock
    BY <2>1 DEF Claim, ClaimMisses, Look, Relook, Expire, RecoverNothing, GiveUp, Reserve,
                SagaReturns, SagaThrows, Complete, Fail, Settle
  <2>2. ASSUME NEW t \in Taps, Crash(t)
        PROVE  locker'[c] # "free" => locker[c] = locker'[c] /\ verdict[c] = verdict'[c]
    BY <1>1, <2>2, CheckoutAssumption DEF Crash, Unlock, lock, TypeOK
  <2>3. ASSUME NEW a \in Recoverers, NEW d \in Checkouts,
               RecoverWrite(a, d) \/ SweepAborts(d) \/ FiveMinutes(d) \/ Lapse(d)
        PROVE  locker'[c] # "free" => locker[c] = locker'[c] /\ verdict[c] = verdict'[c]
    BY <1>1, <2>3 DEF RecoverWrite, SweepAborts, FiveMinutes, Lapse, Unlock, lock, TypeOK
  <2>4. /\ \A t \in Taps : t \in Recoverers /\ Of[t] \in Checkouts
        /\ "sweep" \in Recoverers
    BY CheckoutAssumption DEF Recoverers
  <2> QED BY <1>5, <2>1, <2>2, <2>3, <2>4 DEF Next, Tap, Recover, vars, lock
<1> QED BY <1>1, <1>3, <1>4, <1>5, FailedStays

(* How a tap comes to be live, and how it leaves the state it ends in.     *)
LEMMA TapsMove ==
  ASSUME OInv, [Next]_vars, NEW t \in Taps
  PROVE  /\ Live(t)' => Live(t) \/ Claim(t)
         /\ Unbought(t)' => Unbought(t) \/ Claim(t)
         /\ pc[t] = "unknown" => pc'[t] = "unknown"
<1> DEFINE Goal == /\ Live(t)' => Live(t) \/ Claim(t)
                   /\ Unbought(t)' => Unbought(t) \/ Claim(t)
                   /\ pc[t] = "unknown" => pc'[t] = "unknown"
<1> USE CheckoutAssumption DEF Live, Unbought
<1>1. TypeOK BY DEF OInv, CInv
<1>2. ASSUME NEW s \in Taps, Claim(s) \/ ClaimMisses(s) \/ Look(s) \/ Relook(s) \/ Expire(s)
      PROVE  Goal
  BY <1>1, <1>2 DEF Claim, ClaimMisses, Look, Relook, Expire, Goto, TypeOK
<1>3. ASSUME NEW s \in Taps, RecoverNothing(s) \/ GiveUp(s) \/ Complete(s) \/ Fail(s)
      PROVE  Goal
  BY <1>1, <1>3 DEF RecoverNothing, GiveUp, Complete, Fail, AfterFail, Goto, TypeOK
<1>4. ASSUME NEW s \in Taps, Crash(s) PROVE Goal
  BY <1>1, <1>4 DEF Crash, Goto, TypeOK, Ended
<1>5. ASSUME NEW s \in Taps, Reserve(s) \/ SagaReturns(s) \/ SagaThrows(s)
      PROVE  Goal
  BY <1>1, <1>5 DEF Reserve, SagaReturns, SagaThrows, Goto, TypeOK
<1>6. ASSUME NEW s \in Taps, Settle(s) PROVE Goal
  BY <1>1, <1>6 DEF Settle, TypeOK
<1>7. ASSUME NEW d \in Checkouts, NEW a \in Recoverers, RecoverRead(a, d) PROVE Goal
  BY <1>7 DEF RecoverRead
<1>8. ASSUME NEW d \in Checkouts, NEW a \in Recoverers, RecoverWrite(a, d) PROVE Goal
  <2>1. a \in Taps => pc[a] = "recover" BY <1>8 DEF RecoverWrite, OInv, Order, Holds
  <2> QED BY <1>1, <1>8, <2>1 DEF RecoverWrite, Returns, Goto, Recoverers, TypeOK
<1>9. ASSUME NEW d \in Checkouts, SweepAborts(d) \/ FiveMinutes(d) \/ Lapse(d) PROVE Goal
  BY <1>9 DEF SweepAborts, FiveMinutes, Lapse
<1>10. CASE UNCHANGED vars BY <1>10 DEF vars
<1> QED BY <1>2, <1>3, <1>4, <1>5, <1>6, <1>7, <1>8, <1>9, <1>10 DEF Next, Tap, Recover, Recoverers

(* How a row changes, and who changes it.                                  *)
LEMMA RowsMove ==
  ASSUME OInv, [Next]_vars, NEW c \in Checkouts
  PROVE  \/ status'[c] = status[c] /\ stale'[c] = stale[c]
         \/ status[c] = "pending" /\ status'[c] # "failed"
         \/ \E s \in TapsOf(c) : Complete(s) /\ status'[c] = "completed"
         \/ \E s \in TapsOf(c) : Fail(s)
         \/ locker[c] # "free" /\ stale[c] /\ status'[c] = verdict[c] /\ UNCHANGED purchase
         \/ FiveMinutes(c) /\ status'[c] = status[c]
<1> DEFINE Goal ==
  \/ status'[c] = status[c] /\ stale'[c] = stale[c]
  \/ status[c] = "pending" /\ status'[c] # "failed"
  \/ \E s \in TapsOf(c) : Complete(s) /\ status'[c] = "completed"
  \/ \E s \in TapsOf(c) : Fail(s)
  \/ locker[c] # "free" /\ stale[c] /\ status'[c] = verdict[c] /\ UNCHANGED purchase
  \/ FiveMinutes(c) /\ status'[c] = status[c]
<1> USE CheckoutAssumption
<1>1. TypeOK /\ Judged(c) BY DEF OInv, CInv, Protocol
<1>2. ASSUME NEW s \in Taps, Claim(s) \/ Expire(s) PROVE Goal
  BY <1>1, <1>2 DEF Claim, Claimable, Expire, TypeOK
<1>3. ASSUME NEW s \in Taps, Complete(s) PROVE Goal
  BY <1>1, <1>3 DEF Complete, TapsOf, TypeOK
<1>4. ASSUME NEW s \in Taps, Fail(s) PROVE Goal
  BY <1>1, <1>4 DEF Fail, TapsOf, TypeOK
<1>5. ASSUME NEW d \in Checkouts, NEW a \in Recoverers, RecoverWrite(a, d) PROVE Goal
  BY <1>1, <1>5 DEF RecoverWrite, Recoverers, Judged, TypeOK
<1>6. ASSUME NEW d \in Checkouts, FiveMinutes(d) PROVE Goal
  BY <1>1, <1>6 DEF FiveMinutes, TypeOK
<1>7. ASSUME NEW s \in Taps,
             \/ ClaimMisses(s) \/ Look(s) \/ Relook(s) \/ RecoverNothing(s) \/ GiveUp(s)
             \/ Reserve(s) \/ SagaReturns(s) \/ SagaThrows(s) \/ Crash(s) \/ Settle(s)
      PROVE  UNCHANGED <<status, stale>>
  BY <1>7 DEF ClaimMisses, Look, Relook, RecoverNothing, GiveUp, Reserve, SagaReturns,
              SagaThrows, Crash, Settle, row
<1>8. ASSUME NEW d \in Checkouts, NEW a \in Recoverers,
             RecoverRead(a, d) \/ SweepAborts(d) \/ Lapse(d)
      PROVE  UNCHANGED <<status, stale>>
  BY <1>8 DEF RecoverRead, SweepAborts, Lapse, row
<1>9. CASE UNCHANGED vars BY <1>9 DEF vars, row
<1>10. /\ \A t \in Taps : t \in Recoverers /\ Of[t] \in Checkouts
       /\ "sweep" \in Recoverers
  BY DEF Recoverers
<1> QED BY <1>2, <1>3, <1>4, <1>5, <1>6, <1>7, <1>8, <1>9, <1>10 DEF Next, Tap, Recover

(* A checkout is offered only when nobody is at it and nothing was bought. *)
LEMMA OfferedIsFree ==
  ASSUME OInv, NEW c \in Checkouts, NoneSlept(c), status[c] = "pending", NEW t \in TapsOf(c)
  PROVE  ~Live(t) /\ purchase[t] = "none"
<1>1. t \in Taps /\ Of[t] = c /\ t \notin slept BY DEF TapsOf, NoneSlept
<1>2. purchase[t] = "none" BY <1>1 DEF OInv, NotReopened
<1>3. Exclusive(t) /\ StepTells(t) BY <1>1 DEF OInv, Order
<1> QED BY <1>1, <1>2, <1>3 DEF Exclusive, StepTells, Live, Unbought

LEMMA TurnsKept ==
  ASSUME OInv, [Next]_vars, NEW c \in Checkouts
  PROVE  Turns(c)'
<1>1. Turns(c) /\ TypeOK /\ PurchaseStep BY PurchasesMove DEF OInv, CInv, Order
<1> SUFFICES ASSUME NoneSlept(c)', NEW s \in TapsOf(c), NEW t \in TapsOf(c), s # t, Live(s)'
             PROVE  ~Live(t)' /\ purchase'[t] = "none"
  BY DEF Turns, TapsOf
<1>2. NoneSlept(c) /\ s \in Taps /\ t \in Taps /\ Of[s] = c /\ Of[t] = c
  BY StillNoneSlept DEF TapsOf
<1>3. ASSUME NEW q \in TapsOf(c), Claim(q) PROVE status[c] = "pending" /\ UNCHANGED purchase
  BY <1>3 DEF Claim, Claimable, TapsOf
<1>4. Reserve(t) => Live(t) BY DEF Reserve, Live
<1>5. CASE Claim(s)
  <2>1. ~Live(t) /\ purchase[t] = "none" /\ UNCHANGED purchase
    BY <1>2, <1>3, <1>5, OfferedIsFree
  <2>2. ~Claim(t) BY <1>1, <1>2, <1>5 DEF Claim, Goto, TypeOK
  <2> QED BY <1>2, <2>1, <2>2, TapsMove
<1>6. CASE ~Claim(s)
  <2>1. Live(s) BY <1>2, <1>6, TapsMove
  <2>2. ~Live(t) /\ purchase[t] = "none" BY <1>1, <1>2, <2>1 DEF Turns
  <2>3. ~Claim(t) BY <1>2, <1>3, <2>1, OfferedIsFree
  <2>4. purchase'[t] = "none" BY <1>1, <1>2, <1>4, <2>2 DEF PurchaseStep
  <2> QED BY <1>2, <2>2, <2>3, <2>4, TapsMove
<1> QED BY <1>5, <1>6

LEMMA ExclusiveKept ==
  ASSUME OInv, [Next]_vars, NEW t \in Taps
  PROVE  Exclusive(t)'
<1> DEFINE c == Of[t]
<1>1. c \in Checkouts /\ t \in TapsOf(c) BY CheckoutAssumption DEF TapsOf
<1>2. Turns(c) /\ Exclusive(t) /\ TypeOK BY <1>1 DEF OInv, CInv, Order
<1> SUFFICES ASSUME NoneSlept(c)', Unbought(t)'
             PROVE  status'[c] = "processing" /\ ~stale'[c]
  BY DEF Exclusive
<1>3. NoneSlept(c) BY StillNoneSlept
<1>4. CASE Claim(t) BY <1>1, <1>2, <1>4 DEF Claim, TypeOK
<1>5. CASE ~Claim(t)
  <2>1. Unbought(t) /\ Live(t) BY <1>5, TapsMove DEF Unbought, Live
  <2>2. status[c] = "processing" /\ ~stale[c] BY <1>2, <1>3, <2>1 DEF Exclusive
  <2>3. ASSUME NEW s \in TapsOf(c), Complete(s) \/ Fail(s) PROVE FALSE
    <3>1. Live(s) BY <2>3 DEF Complete, Fail, Live
    <3>2. s = t BY <1>1, <1>2, <1>3, <2>1, <3>1 DEF Turns
    <3> QED BY <1>2, <2>3, <3>2 DEF Complete, Fail, AfterFail, Goto, Unbought, TypeOK
  <2>4. ~FiveMinutes(c)
    BY <1>1, <2>1 DEF FiveMinutes, NoneSlept, Unbought, TapsOf
  <2> QED BY <1>1, <2>2, <2>3, <2>4, RowsMove
<1> QED BY <1>4, <1>5

LEMMA FailedKnownKept ==
  ASSUME OInv, [Next]_vars, NEW t \in Taps
  PROVE  FailedKnown(t)'
<1> DEFINE c == Of[t]
<1>1. c \in Checkouts /\ t \in TapsOf(c) BY CheckoutAssumption DEF TapsOf
<1>2. TypeOK /\ PurchaseStep /\ OnePurchase BY PurchasesMove DEF OInv, CInv
<1>3. Turns(c) /\ JudgedFailed(c) /\ Exclusive(t) /\ StepTells(t) /\ FailedKnown(t)
  BY <1>1 DEF OInv, Order
<1> SUFFICES ASSUME status'[c] = "failed", purchase'[t] \in {"pending", "completed"},
                    NoneSlept(c)'
             PROVE  pc'[t] = "unknown"
  BY DEF FailedKnown
<1>4. NoneSlept(c) BY StillNoneSlept
<1>5. CASE status[c] = "failed"
  <2>1. ~Reserve(t) BY <1>3, <1>4, <1>5 DEF Reserve, Exclusive, Unbought
  <2>2. purchase[t] \in {"pending", "completed"} BY <1>2, <2>1 DEF PurchaseStep
  <2> QED BY <1>3, <1>4, <1>5, <2>2, TapsMove DEF FailedKnown
<1>6. CASE status[c] # "failed"
  <2>1. ASSUME NEW s \in TapsOf(c), Fail(s) PROVE pc'[t] = "unknown"
    <3>1. Live(s) /\ UNCHANGED purchase BY <2>1 DEF Fail, Live
    <3>2. s = t BY <1>1, <1>3, <1>4, <3>1 DEF Turns
    <3>3. pc[t] = "unsure" BY <1>3, <2>1, <3>1, <3>2 DEF Fail, StepTells
    <3> QED BY <1>2, <2>1, <3>2, <3>3 DEF Fail, AfterFail, Goto, TypeOK
  <2>2. ASSUME locker[c] # "free", verdict[c] = "failed", UNCHANGED purchase PROVE FALSE
    <3>1. PICK s \in TapsOf(c) : purchase[s] = "failed"
      BY <1>3, <2>2 DEF JudgedFailed, Bought
    <3>2. s \in Taps /\ Of[s] = Of[t] BY DEF TapsOf
    <3>3. purchase[t] # "none" /\ purchase[s] # "none" /\ s # t BY <2>2, <3>1
    <3> QED BY <1>2, <3>2, <3>3 DEF OnePurchase
  <2> QED BY <1>1, <1>6, <2>1, <2>2, RowsMove
<1> QED BY <1>5, <1>6

(* The invariant that knows whose failure is on record, for any number of  *)
(* checkouts and taps.                                                     *)
LEMMA OInvHolds == Spec => []OInv
<1>1. Init => Order BY InitOrder
<1>2. OInv /\ [Next]_vars => Order'
  <2> SUFFICES ASSUME OInv, [Next]_vars PROVE Order' OBVIOUS
  <2>1. ASSUME NEW c \in Checkouts PROVE Turns(c)' /\ JudgedFailed(c)' /\ Holds(c)'
    BY TurnsKept, JudgedFailedKept, HoldsKept
  <2>2. ASSUME NEW t \in Taps PROVE Exclusive(t)' /\ StepTells(t)' /\ FailedKnown(t)'
    BY ExclusiveKept, StepTellsKept, FailedKnownKept
  <2> QED BY <2>1, <2>2 DEF Order
<1> QED BY <1>1, <1>2, CInvHolds, BuysOnce, NeverReopened, PTL DEF OInv, Spec

(* A checkout recorded as failed was not paid, unless its own tap had to   *)
(* record an outcome it did not know, or a tap had slept.                  *)
THEOREM UnpaidIfFailed == Spec => []FailedIsUnpaid
<1>1. OInv => FailedIsUnpaid
  BY CheckoutAssumption DEF OInv, Order, FailedKnown, FailedIsUnpaid, NoneSlept, TapsOf
<1> QED BY <1>1, OInvHolds, PTL

(* What a row of purchase_checkouts says of a purchase is true: completed  *)
(* means paid, failed means unpaid, offered or expired means not bought.   *)
THEOREM RowTellsTheTruth == Spec => []RowTellsPurchase
BY PaidIfCompleted, UnpaidIfFailed, NeverReopened, PTL DEF RowTellsPurchase

-----------------------------------------------------------------------------
(***************************************************************************)
(* That a repair removes a binding only when its panel user is gone, for   *)
(* any number of scans and administrators.  The invariant says what of a   *)
(* row a scan or a repair may rely on although it was read long ago: the   *)
(* incarnation a row was made for and what it has to show never change,    *)
(* and an incarnation that is gone does not come back.                     *)
(***************************************************************************)
(* What the steps below need to know of the types.                         *)
Typed ==
  /\ made \in 0..MaxMade /\ bound \in 0..MaxBound
  /\ remote \in 0..made /\ sale \in 0..made
  /\ binding \in Bindings
  /\ copy \in [Scanners -> Bindings]
  /\ missing \in Missing /\ missing.id \in 0..bound
  /\ unbound \in Unbound
  /\ noted \in [Admins -> Issue]
  /\ glance \in [Actors -> 0..MaxMade]
  /\ at \in [Actors -> Stands]

(* A row is made for a panel user there has been, and bears its mark only. *)
Sound(b) ==
  /\ b.id \in 0..bound
  /\ b.id # 0 => b.of \in 1..made /\ b.mark \in {0, b.of}

RowSound == Sound(binding) /\ (binding.id = 0 => binding = NoBinding)

(* What a scan has read of the row that is still there.                    *)
CopySound(s) ==
  /\ Sound(copy[s])
  /\ at[s] \in {"verify", "detail", "cache"} => copy[s].id # 0
  /\ copy[s].id # 0 /\ copy[s].id = binding.id =>
       /\ copy[s].of = binding.of /\ copy[s].proof = binding.proof
       /\ copy[s].mark # 0 => binding.mark # 0

(* A repair that has checked the panel: if the panel user of the row that  *)
(* its issue names is there, then the repair has seen it, and has stopped. *)
Named(a) == binding.id # 0 /\ noted[a].id = binding.id

RepairSound(a) ==
  /\ noted[a].id \in 0..bound
  /\ at[a] = "bind" => glance[a] \in 1..made
  /\ at[a] = "judge" /\ Named(a) /\ remote = binding.of => glance[a] = remote
  /\ at[a] = "erase" /\ Named(a) => ~Proves(binding, remote, TRUE)

ReadsSound ==
  /\ \A s \in Scanners : CopySound(s)
  /\ \A a \in Admins : RepairSound(a)

RInv == Typed /\ RowSound /\ ReadsSound

-----------------------------------------------------------------------------
LEMMA InitRInv == OrphansInit => RInv
BY OrphansAssumption DEF OrphansInit, RInv, Typed, RowSound, ReadsSound, Sound, CopySound,
   RepairSound, Bindings, NoBinding, Issue, NoIssue, NoMissing, NoUnbound, Missing, Unbound,
   States, Actors, Owners, Stands

(* How the panel and the row of the username may change in one step.       *)
PanelStep ==
  /\ made' \in {made, made + 1}
  /\ remote' \in {remote, 0} \/ (remote' = made + 1 /\ made' = made + 1)

RowStays ==
  /\ bound' = bound
  /\ binding'.id = binding.id /\ binding'.of = binding.of /\ binding'.proof = binding.proof
  /\ \/ binding'.mark = binding.mark
     \/ binding.mark = 0 /\ binding'.mark = binding.of /\ binding.proof # "none"
  /\ binding.id = 0 => binding' = binding

RowStep ==
  \/ RowStays
  \/ binding' = NoBinding /\ bound' = bound
  \/ /\ bound' = bound + 1 /\ binding'.id = bound + 1
     /\ binding'.of \in 1..made /\ binding'.mark = binding'.of

LEMMA SameRow == binding' = binding /\ bound' = bound => RowStays
BY DEF RowStays

(* A row gets the mark of the panel user it was made for.                  *)
LEMMA Establishes ==
  ASSUME RInv, NEW b \in Bindings, NEW user, NEW withNote \in BOOLEAN, Verified(b, user, withNote),
         Sound(b), b.id # 0,
         b.id = binding.id => /\ b.of = binding.of /\ b.proof = binding.proof
                              /\ b.mark # 0 => binding.mark # 0,
         binding' = Established(b, user), bound' = bound
  PROVE  RowStays /\ user = b.of /\ binding' \in Bindings
<1>1. binding \in Bindings /\ RowSound BY DEF RInv, Typed
<1>2. user = b.of /\ (b.mark = 0 => b.proof # "none")
  BY DEF Verified, Proves, Sound
<1>3. b.of \in 0..MaxMade BY DEF Bindings
<1>4. CASE b.id # binding.id BY <1>1, <1>2, <1>4 DEF Established, RowStays
<1>5. CASE b.id = binding.id
  <2>1. binding' = [binding EXCEPT !.mark = user] BY <1>5 DEF Established
  <2>2. binding.mark \in {0, binding.of} BY <1>1, <1>5 DEF RowSound, Sound
  <2>3. binding.of = user /\ (binding.mark = 0 => binding.proof # "none") BY <1>2, <1>5
  <2> QED BY <1>1, <1>2, <1>3, <1>5, <2>1, <2>2, <2>3 DEF RowStays, Bindings
<1> QED BY <1>4, <1>5, <1>2

-----------------------------------------------------------------------------
(* What each kind of step does to the panel, the row and the types.        *)
Moved == PanelStep /\ RowStep /\ Typed'

LEMMA MissingTyped == NoMissing \in Missing /\ NoMissing.id = 0
BY OrphansAssumption DEF NoMissing, Missing, States

LEMMA UnboundTyped ==
  /\ NoUnbound \in Unbound
  /\ \A user \in 0..MaxMade :
       /\ Upserted(user) \in Unbound
       /\ [state |-> "ignored", mark |-> user] \in Unbound
BY OrphansAssumption DEF NoUnbound, Unbound, Upserted, States

LEMMA ScansMove ==
  ASSUME RInv, NEW s \in Scanners, Scan(s)
  PROVE  Moved
<1> USE OrphansAssumption DEF Actors
<1>1. Typed /\ RowSound /\ CopySound(s) BY DEF RInv, ReadsSound
<1>2. CASE Begin(s) \/ ListAll(s) \/ Rows(s)
  <2>1. UNCHANGED outside /\ UNCHANGED <<remote, binding, missing, unbound, noted>>
    BY <1>2 DEF Begin, ListAll, Rows
  <2>2. AfterRows(s) \in Stands BY DEF AfterRows, Stands
  <2>3. at' \in [Actors -> Stands] BY <1>1, <1>2, <2>2 DEF Begin, ListAll, Rows, Goes, Typed, Stands
  <2>4. glance' \in [Actors -> 0..MaxMade]
    <3>1. glance \in [Actors -> 0..MaxMade] /\ remote \in 0..MaxMade /\ 0 \in 0..MaxMade
      BY <1>1 DEF Typed
    <3>2. CASE ListAll(s)
      <4>1. PICK user \in {remote, 0} : glance' = [glance EXCEPT ![s] = user]
        BY <3>2 DEF ListAll
      <4> QED BY <3>1, <4>1
    <3>3. CASE Begin(s) \/ Rows(s) BY <3>1, <3>3 DEF Begin, Rows
    <3> QED BY <1>2, <3>2, <3>3
  <2>5. copy' \in [Scanners -> Bindings] BY <1>1, <1>2 DEF Begin, ListAll, Rows, Typed
  <2> QED BY <1>1, <2>1, <2>3, <2>4, <2>5, SameRow DEF Moved, PanelStep, RowStep, Typed, outside
<1>3. CASE Verify(s) \/ Detail(s)
  <2>1. UNCHANGED <<remote, made, bound, sale, missing, unbound, noted, glance>>
    BY <1>3 DEF Verify, Detail, outside
  <2>2. AfterVerify(s) \in Stands BY DEF AfterVerify, Stands
  <2>3. at' \in [Actors -> Stands]
    BY <1>1, <1>3, <2>2 DEF Verify, Detail, Verifies, Goes, Typed, Stands
  <2>4. ASSUME NEW user \in 0..MaxMade, NEW withNote \in BOOLEAN, at[s] \in {"verify", "detail"},
               Verifies(s, user, withNote)
        PROVE  RowStays /\ binding' \in Bindings /\ copy' \in [Scanners -> Bindings]
    <3>1. copy[s] \in Bindings BY <1>1 DEF Typed
    <3>2. RowStays /\ binding' \in Bindings
      BY <1>1, <2>1, <2>4, <3>1, Establishes DEF Verifies, CopySound
    <3>3. [copy[s] EXCEPT !.mark = user] \in Bindings BY <3>1 DEF Bindings
    <3> QED BY <1>1, <2>4, <3>2, <3>3 DEF Verifies, Typed
  <2>5. RowStays /\ binding' \in Bindings /\ copy' \in [Scanners -> Bindings]
    <3>1. glance[s] \in 0..MaxMade /\ remote \in 0..MaxMade BY <1>1 DEF Typed
    <3>2. CASE UNCHANGED <<binding, copy>> BY <1>1, <2>1, <3>2, SameRow DEF Typed
    <3>3. CASE Verify(s) /\ Verifies(s, glance[s], FALSE)
      BY <2>4, <3>1, <3>3 DEF Verify
    <3>4. CASE Detail(s) /\ Verifies(s, remote, TRUE) BY <2>4, <3>1, <3>4 DEF Detail
    <3> QED BY <1>3, <3>2, <3>3, <3>4 DEF Verify, Detail
  <2> QED BY <1>1, <2>1, <2>3, <2>5 DEF Moved, PanelStep, RowStep, Typed
<1>4. CASE CacheStatus(s)
  <2>1. UNCHANGED <<remote, made, bound, sale, missing, unbound, noted, glance, copy>>
    BY <1>4 DEF CacheStatus, outside
  <2>2. at' \in [Actors -> Stands] BY <1>1, <1>4 DEF CacheStatus, Goes, Typed, Stands
  <2>3. RowStays /\ binding' \in Bindings
    <3>1. CASE binding.id = copy[s].id
      <4>1. binding.id # 0 BY <1>1, <1>4, <3>1 DEF CacheStatus, CopySound
      <4>2. binding' = [binding EXCEPT !.active = Matches(s)] BY <1>4, <3>1 DEF CacheStatus
      <4>3. Matches(s) \in BOOLEAN BY DEF Matches
      <4> QED BY <1>1, <2>1, <4>1, <4>2, <4>3 DEF RowStays, Bindings, Typed
    <3>2. CASE binding.id # copy[s].id
      BY <1>1, <1>4, <2>1, <3>2, SameRow DEF CacheStatus, Typed
    <3> QED BY <3>1, <3>2
  <2> QED BY <1>1, <2>1, <2>2, <2>3 DEF Moved, PanelStep, RowStep, Typed
<1>5. CASE ReportMissing(s)
  <2>1. UNCHANGED <<remote, made, bound, binding, sale, unbound, noted, glance, copy>>
    BY <1>5 DEF ReportMissing, outside
  <2>2. at' \in [Actors -> Stands] BY <1>1, <1>5 DEF ReportMissing, Goes, Typed, Stands
  <2>3. copy[s].id \in 0..bound /\ copy[s].id \in 0..MaxBound /\ copy[s].owner \in Owners \cup {NoOwner}
    BY <1>1 DEF Typed, CopySound, Sound, Bindings
  <2>4. missing' \in Missing /\ missing'.id \in 0..bound
    <3>1. CASE Matches(s)
      BY <1>1, <1>5, <3>1, MissingTyped DEF ReportMissing, Typed
    <3>2. CASE ~Matches(s)
      BY <1>1, <1>5, <2>3, <3>2 DEF ReportMissing, Missing, States
    <3> QED BY <3>1, <3>2
  <2> QED BY <1>1, <2>1, <2>2, <2>4, SameRow DEF Moved, PanelStep, RowStep, Typed
<1>6. CASE ReportUnbound(s) \/ IgnoreUnbound(s)
  <2>1. UNCHANGED <<remote, made, bound, binding, sale, noted, glance, copy, missing>>
    BY <1>6 DEF ReportUnbound, IgnoreUnbound, outside
  <2>2. at' \in [Actors -> Stands]
    BY <1>1, <1>6 DEF ReportUnbound, IgnoreUnbound, Goes, Typed, Stands
  <2>3. unbound' \in Unbound
    BY <1>1, <1>6, UnboundTyped DEF ReportUnbound, IgnoreUnbound, Typed
  <2> QED BY <1>1, <2>1, <2>2, <2>3, SameRow DEF Moved, PanelStep, RowStep, Typed
<1>7. CASE ResolveStale(s) \/ ScanFails(s)
  <2>1. UNCHANGED <<remote, made, bound, binding, sale, noted, missing>> /\ Over(s)
    BY <1>7 DEF ResolveStale, ScanFails, outside
  <2>2. at' \in [Actors -> Stands] BY <1>1, <2>1 DEF Over, Goes, Typed, Stands
  <2>3. glance' \in [Actors -> 0..MaxMade] BY <1>1, <2>1 DEF Over, Typed
  <2>4. copy' \in [Scanners -> Bindings]
    BY <1>1, <2>1 DEF Over, Typed, NoBinding, Bindings, Owners
  <2>5. unbound' \in Unbound
    BY <1>1, <1>7, UnboundTyped DEF ResolveStale, ScanFails, Typed
  <2> QED BY <1>1, <2>1, <2>2, <2>3, <2>4, <2>5, SameRow DEF Moved, PanelStep, RowStep, Typed
<1> QED BY <1>2, <1>3, <1>4, <1>5, <1>6, <1>7 DEF Scan

LEMMA RepairsMove ==
  ASSUME RInv, NEW a \in Admins, Repair(a)
  PROVE  Moved
<1> USE OrphansAssumption DEF Actors
<1>1. Typed /\ RowSound /\ RepairSound(a) BY DEF RInv, ReadsSound
<1>2. ASSUME RepairOver(a)
      PROVE  /\ at' \in [Actors -> Stands] /\ glance' \in [Actors -> 0..MaxMade]
             /\ noted' \in [Admins -> Issue]
  <2>1. 0 \in 0..MaxMade /\ "idle" \in Stands /\ NoIssue \in Issue
    BY DEF Stands, NoIssue, Issue, Owners
  <2> QED BY <1>1, <1>2, <2>1 DEF RepairOver, Goes, Typed
<1>3. CASE OpenIssue(a)
  <2>1. UNCHANGED <<remote, made, bound, binding, sale, glance, copy, missing, unbound>>
    BY <1>3 DEF OpenIssue, outside
  <2>2. at' \in [Actors -> Stands] BY <1>1, <1>3 DEF OpenIssue, Goes, Typed, Stands
  <2>3. missing.id \in 0..MaxBound BY <1>1 DEF Typed
  <2>4. noted' \in [Admins -> Issue] BY <1>1, <1>3, <2>3 DEF OpenIssue, Issue, Missing, Unbound, Typed
  <2> QED BY <1>1, <2>1, <2>2, <2>4, SameRow DEF Moved, PanelStep, RowStep, Typed
<1>4. CASE CheckPanel(a)
  <2>1. UNCHANGED <<remote, made, bound, binding, sale, noted, copy, missing, unbound>>
    BY <1>4 DEF CheckPanel, outside
  <2>2. at' \in [Actors -> Stands] BY <1>1, <1>4 DEF CheckPanel, Goes, Typed, Stands
  <2>3. remote \in 0..MaxMade BY <1>1 DEF Typed
  <2>4. glance' \in [Actors -> 0..MaxMade] BY <1>1, <1>4, <2>3 DEF CheckPanel, Typed
  <2> QED BY <1>1, <2>1, <2>2, <2>4, SameRow DEF Moved, PanelStep, RowStep, Typed
<1>5. CASE Judge(a)
  <2>1. UNCHANGED <<remote, made, bound, sale, copy, unbound>> BY <1>5 DEF Judge, outside
  <2>2. CASE Reappeared(a)
    <3>1. RepairOver(a) /\ missing' = NoMissing /\ binding' = Established(binding, glance[a])
      BY <1>5, <2>2 DEF Judge
    <3>2. binding \in Bindings /\ Verified(binding, glance[a], TRUE)
      BY <1>1, <2>2 DEF Reappeared, Typed
    <3>3. binding.id # 0
      BY <1>1, <3>2 DEF Verified, Proves, RowSound, NoBinding
    <3>4. RowStays /\ binding' \in Bindings
      BY <1>1, <2>1, <3>1, <3>2, <3>3, Establishes DEF RowSound
    <3>5. missing' \in Missing /\ missing'.id \in 0..bound
      BY <1>1, <2>1, <3>1, MissingTyped DEF Typed
    <3> QED BY <1>1, <1>2, <2>1, <3>1, <3>4, <3>5 DEF Moved, PanelStep, RowStep, Typed
  <2>3. CASE ~Reappeared(a)
    <3>1. UNCHANGED <<binding, missing, glance, noted>> /\ Goes(a, "erase")
      BY <1>5, <2>3 DEF Judge
    <3>2. at' \in [Actors -> Stands] BY <1>1, <3>1 DEF Goes, Typed, Stands
    <3> QED BY <1>1, <2>1, <3>1, <3>2, SameRow DEF Moved, PanelStep, RowStep, Typed
  <2> QED BY <2>2, <2>3
<1>6. CASE Erase(a)
  <2>1. UNCHANGED <<remote, made, bound, sale, copy, unbound>> /\ RepairOver(a)
    BY <1>6 DEF Erase, outside
  <2>2. \/ binding' = NoBinding /\ missing' = NoMissing
        \/ UNCHANGED <<binding, missing>>
    BY <1>6 DEF Erase
  <2>3. NoBinding \in Bindings BY DEF NoBinding, Bindings, Owners
  <2>4. binding' \in Bindings /\ missing' \in Missing /\ missing'.id \in 0..bound
    BY <1>1, <2>2, <2>3, MissingTyped DEF Typed
  <2>5. RowStep BY <2>1, <2>2, SameRow DEF RowStep
  <2> QED BY <1>1, <1>2, <2>1, <2>4, <2>5 DEF Moved, PanelStep, Typed
<1>7. CASE FetchUnbound(a)
  <2>1. UNCHANGED <<remote, made, bound, binding, sale, copy, missing>>
    BY <1>7 DEF FetchUnbound, outside
  <2>2. remote \in 0..MaxMade BY <1>1 DEF Typed
  <2>3. CASE noted[a].mark = remote
    <3>1. /\ glance' = [glance EXCEPT ![a] = remote] /\ Goes(a, "bind")
          /\ noted' = noted /\ unbound' = unbound
      BY <1>7, <2>3 DEF FetchUnbound
    <3>2. at' \in [Actors -> Stands] BY <1>1, <3>1 DEF Goes, Typed, Stands
    <3>3. glance' \in [Actors -> 0..MaxMade] BY <1>1, <2>2, <3>1 DEF Typed
    <3> QED BY <1>1, <2>1, <3>1, <3>2, <3>3, SameRow DEF Moved, PanelStep, RowStep, Typed
  <2>4. CASE noted[a].mark # remote
    <3>1. RepairOver(a) /\ unbound' \in Unbound
      BY <1>7, <2>2, <2>4, UnboundTyped DEF FetchUnbound
    <3> QED BY <1>1, <1>2, <2>1, <3>1, SameRow DEF Moved, PanelStep, RowStep, Typed
  <2> QED BY <2>3, <2>4
<1>8. CASE AssignUnbound(a)
  <2>1. UNCHANGED <<remote, made, sale, copy, missing>> /\ RepairOver(a) /\ unbound' \in Unbound
    BY <1>1, <1>8, UnboundTyped DEF AssignUnbound, Typed
  <2>2. CASE UNCHANGED <<binding, bound>>
    BY <1>1, <1>2, <2>1, <2>2, SameRow DEF Moved, PanelStep, RowStep, Typed
  <2>3. CASE binding.id = 0 /\ bound < MaxBound /\ binding' = NewBinding(glance[a])
             /\ bound' = bound + 1
    <3>1. glance[a] \in 1..made /\ glance[a] \in 0..MaxMade
      BY <1>1, <1>8 DEF AssignUnbound, RepairSound, Typed
    <3>2. binding' \in Bindings
      BY <1>1, <2>3, <3>1 DEF NewBinding, Bindings, Owners, Typed
    <3>3. RowStep BY <2>3, <3>1 DEF RowStep, NewBinding
    <3>4. bound' \in 0..MaxBound /\ missing'.id \in 0..bound'
      BY <1>1, <2>1, <2>3 DEF Typed
    <3> QED BY <1>1, <1>2, <2>1, <3>2, <3>3, <3>4 DEF Moved, PanelStep, Typed
  <2> QED BY <1>8, <2>2, <2>3 DEF AssignUnbound
<1>9. CASE RepairFails(a)
  <2>1. UNCHANGED <<remote, made, bound, binding, sale, copy, missing, unbound>> /\ RepairOver(a)
    BY <1>9 DEF RepairFails, outside
  <2> QED BY <1>1, <1>2, <2>1, SameRow DEF Moved, PanelStep, RowStep, Typed
<1> QED BY <1>3, <1>4, <1>5, <1>6, <1>7, <1>8, <1>9 DEF Repair

LEMMA OthersMove ==
  ASSUME RInv, IgnoreIssue \/ Others \/ UNCHANGED orphanVars
  PROVE  Moved /\ UNCHANGED <<copy, noted, glance, at>>
<1> USE OrphansAssumption
<1>1. Typed /\ RowSound BY DEF RInv
<1>2. UNCHANGED <<copy, noted, glance, at>>
  BY DEF IgnoreIssue, Others, PanelAdmin, SaleCreates, SaleBinds, OwnerUnbinds, OwnerTransfers,
         Calm, watching, orphanVars
<1>3. CASE IgnoreIssue
  <2>1. UNCHANGED <<remote, made, bound, binding, sale>> BY <1>3 DEF IgnoreIssue, outside
  <2>2. missing' \in Missing /\ missing'.id = missing.id /\ unbound' \in Unbound
    BY <1>1, <1>3 DEF IgnoreIssue, Missing, Unbound, States, Typed
  <2> QED BY <1>1, <1>2, <2>1, <2>2, SameRow DEF Moved, PanelStep, RowStep, Typed
<1>4. CASE PanelAdmin \/ SaleCreates
  <2>1. UNCHANGED <<bound, binding, missing, unbound>> BY <1>4 DEF PanelAdmin, SaleCreates, watching
  <2>2. PanelStep /\ made' \in 0..MaxMade /\ remote' \in 0..made' /\ sale' \in 0..made'
    BY <1>1, <1>4 DEF PanelAdmin, SaleCreates, PanelStep, Typed
  <2> QED BY <1>1, <1>2, <2>1, <2>2, SameRow DEF Moved, RowStep, Typed
<1>5. CASE SaleBinds
  <2>1. UNCHANGED <<made, missing, unbound>> /\ sale' = 0 /\ remote' \in {remote, 0}
    BY <1>5 DEF SaleBinds, watching
  <2>2. CASE UNCHANGED <<binding, bound>>
    BY <1>1, <1>2, <2>1, <2>2, SameRow DEF Moved, PanelStep, RowStep, Typed
  <2>3. CASE binding.id = 0 /\ bound < MaxBound /\ binding' = NewBinding(sale)
             /\ bound' = bound + 1
    <3>1. sale \in 1..made /\ sale \in 0..MaxMade BY <1>1, <1>5 DEF SaleBinds, Typed
    <3>2. binding' \in Bindings
      BY <1>1, <2>3, <3>1 DEF NewBinding, Bindings, Owners, Typed
    <3>3. RowStep BY <2>3, <3>1 DEF RowStep, NewBinding
    <3>4. bound' \in 0..MaxBound /\ missing'.id \in 0..bound'
      BY <1>1, <2>1, <2>3 DEF Typed
    <3> QED BY <1>1, <1>2, <2>1, <3>2, <3>3, <3>4 DEF Moved, PanelStep, Typed
  <2> QED BY <1>5, <2>2, <2>3 DEF SaleBinds
<1>6. CASE OwnerUnbinds
  <2>1. UNCHANGED <<remote, made, bound, sale, missing, unbound>> /\ binding' = NoBinding
    BY <1>6 DEF OwnerUnbinds, watching
  <2>2. NoBinding \in Bindings BY DEF NoBinding, Bindings, Owners
  <2> QED BY <1>1, <1>2, <2>1, <2>2 DEF Moved, PanelStep, RowStep, Typed
<1>7. CASE OwnerTransfers
  <2>1. UNCHANGED <<remote, made, bound, sale, missing, unbound>>
    BY <1>7 DEF OwnerTransfers, watching
  <2>2. binding' = [binding EXCEPT !.owner = Heir, !.mark = remote] /\ Proves(binding, remote, TRUE)
    BY <1>7 DEF OwnerTransfers
  <2>3. binding.id # 0 BY <1>1, <2>2 DEF RowSound, Proves, NoBinding
  <2>4. remote = binding.of /\ (binding.mark = 0 => binding.proof # "none")
    BY <1>1, <2>2, <2>3 DEF Proves, RowSound, Sound
  <2>5. binding' \in Bindings
    <3>1. remote \in 0..MaxMade BY <1>1 DEF Typed
    <3> QED BY <1>1, <2>2, <3>1 DEF Typed, Bindings, Owners
  <2>6. RowStays
    BY <1>1, <2>1, <2>2, <2>3, <2>4 DEF RowStays, RowSound, Sound, Typed, Bindings
  <2> QED BY <1>1, <1>2, <2>1, <2>5, <2>6 DEF Moved, PanelStep, RowStep, Typed
<1>8. CASE Calm \/ UNCHANGED orphanVars
  <2>1. UNCHANGED <<remote, made, bound, binding, sale, missing, unbound>>
    BY <1>8 DEF Calm, watching, orphanVars, outside
  <2> QED BY <1>1, <1>2, <2>1, SameRow DEF Moved, PanelStep, RowStep, Typed
<1> QED BY <1>2, <1>3, <1>4, <1>5, <1>6, <1>7, <1>8 DEF Others

-----------------------------------------------------------------------------
(* What the reads are worth after such a step.                             *)
LEMMA RowStaysSound ==
  ASSUME RInv, Moved
  PROVE  RowSound'
<1>1. Typed /\ Typed' /\ PanelStep /\ RowSound BY DEF RInv, Moved
<1>2. CASE RowStays BY <1>1, <1>2 DEF RowStays, RowSound, Sound, Typed, PanelStep, Bindings
<1>3. CASE binding' = NoBinding /\ bound' = bound
  BY <1>1, <1>3, OrphansAssumption DEF RowSound, Sound, NoBinding, Typed
<1>4. CASE /\ bound' = bound + 1 /\ binding'.id = bound + 1
           /\ binding'.of \in 1..made /\ binding'.mark = binding'.of
  BY <1>1, <1>4, OrphansAssumption DEF RowSound, Sound, Typed, PanelStep
<1> QED BY <1>2, <1>3, <1>4 DEF Moved, RowStep

LEMMA SoundStays ==
  ASSUME RInv, Moved, NEW b, Sound(b)
  PROVE  Sound(b)'
BY OrphansAssumption DEF RInv, Moved, Typed, Sound, PanelStep, RowStep, RowStays

(* A copy of the row: nobody makes another one with its id.                *)
LEMMA CopyStays ==
  ASSUME RInv, Moved, NEW s \in Scanners, copy'[s] = copy[s],
         at'[s] \in {"verify", "detail", "cache"} => copy[s].id # 0
  PROVE  CopySound(s)'
<1>1. Typed /\ RowSound /\ CopySound(s) BY DEF RInv, ReadsSound
<1>2. Sound(copy[s])' BY <1>1, SoundStays DEF CopySound
<1>3. CASE RowStays BY <1>1, <1>2, <1>3 DEF CopySound, RowStays
<1>4. CASE binding' = NoBinding BY <1>1, <1>2, <1>4 DEF CopySound, NoBinding
<1>5. CASE binding'.id = bound + 1
  BY <1>1, <1>2, <1>5, OrphansAssumption DEF CopySound, Sound, Typed
<1> QED BY <1>3, <1>4, <1>5 DEF Moved, RowStep

LEMMA CopyKept ==
  ASSUME RInv, Moved, NEW s \in Scanners, Scan(s)
  PROVE  CopySound(s)'
<1> USE DEF Actors
<1>1. Typed /\ Typed' /\ RowSound /\ RowSound' /\ CopySound(s)
  BY RowStaysSound DEF RInv, ReadsSound, Moved
<1>2. s \in Actors OBVIOUS
<1>3. CASE Begin(s) \/ ListAll(s)
  BY <1>1, <1>3, CopyStays DEF Begin, ListAll, Goes, Typed
<1>4. CASE Rows(s)
  <2>1. copy'[s] = binding /\ binding' = binding /\ at'[s] = AfterRows(s)
    BY <1>1, <1>4 DEF Rows, Goes, Typed
  <2>2. AfterRows(s) \in {"verify", "detail", "cache"} => binding.id # 0 BY DEF AfterRows
  <2> QED BY <1>1, <2>1, <2>2 DEF CopySound, RowSound, Sound
<1>5. ASSUME NEW user, NEW withNote \in BOOLEAN, at[s] \in {"verify", "detail"},
             Verifies(s, user, withNote), bound' = bound
      PROVE  CopySound(s)'
  <2>1. copy[s] \in Bindings /\ copy[s].id # 0 BY <1>1, <1>5 DEF Typed, CopySound
  <2>2. RowStays /\ user = copy[s].of BY <1>1, <1>5, <2>1, Establishes DEF Verifies, CopySound
  <2>3. copy'[s] = [copy[s] EXCEPT !.mark = user] BY <1>1, <1>5 DEF Verifies, Typed
  <2>4. /\ copy'[s].id = copy[s].id /\ copy'[s].of = copy[s].of
        /\ copy'[s].proof = copy[s].proof /\ copy'[s].mark = user
    BY <2>1, <2>3 DEF Bindings
  <2>5. /\ copy[s].id \in 0..bound' /\ copy[s].of \in 1..made'
    BY <1>1, <2>1, SoundStays DEF CopySound, Sound
  <2>6. binding.id = copy[s].id => binding'.mark = user
    BY <1>1, <1>5 DEF Verifies, Established, Typed, Bindings
  <2>7. copy[s].of # 0 BY <1>1, <2>1 DEF CopySound, Sound, Typed
  <2> QED BY <1>1, <2>1, <2>2, <2>4, <2>5, <2>6, <2>7 DEF CopySound, Sound, RowStays
<1>6. CASE Verify(s)
  <2>1. CASE Verifies(s, glance[s], FALSE) BY <1>5, <1>6, <2>1 DEF Verify, outside
  <2>2. CASE Goes(s, "detail") /\ UNCHANGED <<binding, copy>>
    BY <1>1, <1>6, <2>2, CopyStays DEF Verify, CopySound
  <2> QED BY <1>6, <2>1, <2>2 DEF Verify
<1>7. CASE Detail(s)
  <2>1. CASE Verifies(s, remote, TRUE) BY <1>5, <1>7, <2>1 DEF Detail, outside
  <2>2. CASE Goes(s, AfterVerify(s)) /\ UNCHANGED <<binding, copy>>
    BY <1>1, <1>7, <2>2, CopyStays DEF Detail, CopySound
  <2> QED BY <1>7, <2>1, <2>2 DEF Detail
<1>8. CASE CacheStatus(s) \/ ReportMissing(s) \/ ReportUnbound(s) \/ IgnoreUnbound(s)
  BY <1>1, <1>8, CopyStays
     DEF CacheStatus, ReportMissing, ReportUnbound, IgnoreUnbound, Goes, Typed
<1>9. CASE ResolveStale(s) \/ ScanFails(s)
  <2>1. Over(s) BY <1>9 DEF ResolveStale, ScanFails
  <2>2. copy'[s] = NoBinding /\ at'[s] = "idle" BY <1>1, <2>1 DEF Over, Goes, Typed
  <2> QED BY <1>1, <2>2, OrphansAssumption DEF CopySound, Sound, NoBinding, Typed
<1> QED BY <1>3, <1>4, <1>6, <1>7, <1>8, <1>9 DEF Scan

(* What a repair knows of the panel outlives the steps of the others.      *)
LEMMA RepairStays ==
  ASSUME RInv, Moved, NEW a \in Admins, noted'[a] = noted[a], glance'[a] = glance[a],
         at'[a] \in {at[a], "idle"}
  PROVE  RepairSound(a)'
<1>1. Typed /\ Typed' /\ RowSound /\ RepairSound(a) /\ PanelStep BY DEF RInv, ReadsSound, Moved
<1>2. /\ noted'[a].id \in 0..bound'
      /\ at'[a] = "bind" => glance'[a] \in 1..made'
  BY <1>1, OrphansAssumption DEF RepairSound, PanelStep, Moved, RowStep, RowStays, Typed
<1>3. CASE RowStays
  <2>1. ASSUME Named(a)' PROVE Named(a) /\ binding.of \in 1..made /\ binding.mark \in {0, binding.of}
    BY <1>1, <1>3, <2>1 DEF Named, RowStays, RowSound, Sound
  <2>2. ASSUME Named(a)', remote' = binding'.of PROVE remote = binding.of
    BY <1>1, <1>3, <2>1, <2>2, OrphansAssumption DEF PanelStep, RowStays, Typed
  <2>3. ASSUME Named(a)', Proves(binding, remote, TRUE)' PROVE Proves(binding, remote, TRUE)
    <3>1. binding'.of \in 1..made /\ remote' = binding'.of /\ remote' # 0
      BY <1>3, <2>1, <2>3 DEF Proves, RowStays
    <3>2. remote = binding.of BY <2>2, <2>3, <3>1
    <3>3. binding.mark = 0 => binding.proof # "none"
      BY <1>3, <2>3 DEF Proves, RowStays
    <3>4. binding.proof \in {"url", "note", "none"} BY <1>1 DEF Typed, Bindings
    <3> QED BY <2>1, <2>3, <3>2, <3>3, <3>4 DEF Proves
  <2> QED BY <1>1, <1>2, <2>1, <2>2, <2>3, <1>3 DEF RepairSound, RowStays
<1>4. CASE binding' = NoBinding BY <1>2, <1>4 DEF RepairSound, Named, NoBinding
<1>5. CASE binding'.id = bound + 1
  <2>1. ~Named(a)' BY <1>1, <1>5, OrphansAssumption DEF Named, RepairSound, Typed
  <2> QED BY <1>2, <2>1 DEF RepairSound
<1> QED BY <1>3, <1>4, <1>5 DEF Moved, RowStep

LEMMA RepairKept ==
  ASSUME RInv, Moved, NEW a \in Admins, Repair(a)
  PROVE  RepairSound(a)'
<1> USE DEF Actors
<1>1. Typed /\ Typed' /\ RowSound /\ RepairSound(a) BY DEF RInv, ReadsSound, Moved
<1>2. ASSUME RepairOver(a) PROVE RepairSound(a)'
  <2>1. noted'[a].id = 0 /\ at'[a] = "idle" BY <1>1, <1>2 DEF RepairOver, Goes, NoIssue, Typed
  <2> QED BY <1>1, <2>1, OrphansAssumption DEF RepairSound, Typed
<1>3. CASE OpenIssue(a)
  <2>1. noted'[a].id \in {missing.id, noted[a].id} /\ at'[a] \in {"check", "fetch"}
    BY <1>1, <1>3 DEF OpenIssue, Goes, Typed, Issue
  <2>2. bound' = bound BY <1>3 DEF OpenIssue, outside
  <2> QED BY <1>1, <2>1, <2>2 DEF RepairSound, Typed
<1>4. CASE CheckPanel(a)
  <2>1. /\ glance'[a] = remote /\ UNCHANGED <<noted, binding, remote, bound>>
        /\ at'[a] = (IF remote = 0 THEN "erase" ELSE "judge")
    BY <1>1, <1>4 DEF CheckPanel, Goes, Typed, outside
  <2> QED BY <1>1, <2>1 DEF RepairSound, Proves
<1>5. CASE Judge(a)
  <2>1. CASE Reappeared(a) BY <1>2, <1>5, <2>1 DEF Judge
  <2>2. CASE ~Reappeared(a)
    <3>1. UNCHANGED <<binding, glance, noted, remote, bound>> /\ at'[a] = "erase" /\ at[a] = "judge"
      BY <1>1, <1>5, <2>2 DEF Judge, Goes, Typed, outside
    <3>2. ASSUME Named(a), Proves(binding, remote, TRUE) PROVE FALSE
      <4>1. remote = binding.of
        BY <1>1, <3>2 DEF Proves, RowSound, Sound, Named
      <4>2. glance[a] = remote BY <1>1, <3>1, <3>2, <4>1 DEF RepairSound
      <4> QED BY <2>2, <3>2, <4>2 DEF Reappeared, Verified, Named
    <3> QED BY <1>1, <3>1, <3>2 DEF RepairSound, Named
  <2> QED BY <2>1, <2>2
<1>6. CASE Erase(a) \/ AssignUnbound(a) \/ RepairFails(a)
  BY <1>2, <1>6 DEF Erase, AssignUnbound, RepairFails
<1>7. CASE FetchUnbound(a)
  <2>1. CASE RepairOver(a) BY <1>2, <2>1
  <2>2. CASE glance' = [glance EXCEPT ![a] = remote] /\ Goes(a, "bind") /\ noted' = noted
    <3>1. /\ glance'[a] = remote /\ at'[a] = "bind" /\ noted'[a] = noted[a]
          /\ made' = made /\ bound' = bound /\ remote # 0
      BY <1>1, <1>7, <2>2 DEF FetchUnbound, Goes, Typed, outside
    <3> QED BY <1>1, <3>1, OrphansAssumption DEF RepairSound, Typed
  <2> QED BY <1>7, <2>1, <2>2 DEF FetchUnbound
<1> QED BY <1>3, <1>4, <1>5, <1>6, <1>7 DEF Repair

(* A step of one actor is no step of another.                              *)
LEMMA OthersStay ==
  ASSUME RInv, NEW p \in Actors, NEW q \in Actors, p # q,
         \/ p \in Scanners /\ Scan(p)
         \/ p \in Admins /\ Repair(p)
  PROVE  /\ at'[q] = at[q] /\ glance'[q] = glance[q]
         /\ q \in Scanners => copy'[q] = copy[q]
         /\ q \in Admins => noted'[q] = noted[q]
<1>1. Typed BY DEF RInv
<1>2. CASE Scan(p) /\ p \in Scanners
  BY <1>1, <1>2 DEF Scan, Begin, ListAll, Rows, Verify, Detail, CacheStatus, ReportMissing,
     ReportUnbound, IgnoreUnbound, ResolveStale, ScanFails, Verifies, Over, Goes, Typed
<1>3. CASE Repair(p) /\ p \in Admins
  BY <1>1, <1>3 DEF Repair, OpenIssue, CheckPanel, Judge, Erase, FetchUnbound, AssignUnbound,
     RepairFails, RepairOver, Goes, Typed
<1> QED BY <1>2, <1>3

LEMMA RInvHolds == OrphansSpec => []RInv
<1>1. RInv /\ [OrphansNext]_orphanVars => RInv'
  <2> SUFFICES ASSUME RInv, [OrphansNext]_orphanVars PROVE RInv' OBVIOUS
  <2>1. ASSUME NEW p \in Scanners, Scan(p) PROVE ReadsSound' /\ Moved
    <3>1. Moved BY <2>1, ScansMove
    <3>2. ASSUME NEW s \in Scanners PROVE CopySound(s)'
      <4>1. CASE s = p BY <2>1, <3>1, <4>1, CopyKept
      <4>2. CASE s # p
        BY <2>1, <3>1, <4>2, OthersStay, CopyStays DEF Actors, RInv, ReadsSound, CopySound
      <4> QED BY <4>1, <4>2
    <3>3. ASSUME NEW a \in Admins PROVE RepairSound(a)'
      <4>1. a # p BY OrphansAssumption
      <4> QED BY <2>1, <3>1, <4>1, OthersStay, RepairStays DEF Actors
    <3> QED BY <3>1, <3>2, <3>3 DEF ReadsSound
  <2>2. ASSUME NEW p \in Admins, Repair(p) PROVE ReadsSound' /\ Moved
    <3>1. Moved BY <2>2, RepairsMove
    <3>2. ASSUME NEW s \in Scanners PROVE CopySound(s)'
      <4>1. s # p BY OrphansAssumption
      <4> QED BY <2>2, <3>1, <4>1, OthersStay, CopyStays DEF Actors, RInv, ReadsSound, CopySound
    <3>3. ASSUME NEW a \in Admins PROVE RepairSound(a)'
      <4>1. CASE a = p BY <2>2, <3>1, <4>1, RepairKept
      <4>2. CASE a # p BY <2>2, <3>1, <4>2, OthersStay, RepairStays DEF Actors
      <4> QED BY <4>1, <4>2
    <3> QED BY <3>1, <3>2, <3>3 DEF ReadsSound
  <2>3. ASSUME IgnoreIssue \/ Others \/ UNCHANGED orphanVars PROVE ReadsSound' /\ Moved
    <3>1. Moved /\ UNCHANGED <<copy, noted, glance, at>> BY <2>3, OthersMove
    <3> QED BY <3>1, CopyStays, RepairStays DEF RInv, ReadsSound, CopySound
  <2>4. ReadsSound' /\ Moved
    BY <2>1, <2>2, <2>3 DEF OrphansNext
  <2> QED BY <2>4, RowStaysSound DEF RInv, Moved
<1> QED BY <1>1, InitRInv, PTL DEF OrphansSpec

(* A repair removes a binding only when its panel user is gone or cannot be*)
(* shown to be its own, however old the listing, the issue and the check   *)
(* that led to it, and from the owner the issue names.                     *)
THEOREM RemovalsJustified == OrphansSpec => RemovalJustified
<1>1. RInv /\ [OrphansNext]_orphanVars =>
        [\A a \in Admins :
           at[a] = "erase" /\ at'[a] = "idle" /\ binding' # binding
             => Lost /\ binding.owner = noted[a].owner]_orphanVars
  <2> SUFFICES ASSUME RInv, OrphansNext, NEW a \in Admins,
                      at[a] = "erase", at'[a] = "idle", binding' # binding
               PROVE  Lost /\ binding.owner = noted[a].owner
    OBVIOUS
  <2>1. Erase(a)
    <3>1. at' # at BY OrphansAssumption
    <3>2. ~IgnoreIssue /\ ~Others
      BY <3>1, OthersMove
    <3>3. PICK p \in Actors : (p \in Scanners /\ Scan(p)) \/ (p \in Admins /\ Repair(p))
      BY <3>2 DEF OrphansNext, Actors
    <3>4. p = a BY <3>3, OthersStay DEF Actors
    <3>5. Repair(a) BY <3>3, <3>4, OrphansAssumption
    <3> QED BY <3>5 DEF Repair, OpenIssue, CheckPanel, Judge, FetchUnbound, AssignUnbound, RepairFails
  <2>2. binding.id = noted[a].id /\ binding.owner = noted[a].owner /\ binding' = NoBinding
    BY <2>1 DEF Erase
  <2>3. binding.id # 0 BY <2>2 DEF RInv, RowSound
  <2>4. RepairSound(a) BY DEF RInv, ReadsSound
  <2> QED BY <2>2, <2>3, <2>4 DEF RepairSound, Named, Lost
<1> QED BY <1>1, RInvHolds, PTL DEF OrphansSpec, RemovalJustified

-----------------------------------------------------------------------------
(* The rest of the types: the order of the scans, and what others do.      *)
ScansTyped ==
  /\ began \in [Scanners -> SUBSET Scanners] /\ fresh \subseteq Scanners
  /\ mode \in [Scanners -> {"scan", "baseline"}]
  /\ moves \in 0..MaxMoves

LEMMA ScansTypedStep ==
  ASSUME ScansTyped, [OrphansNext]_orphanVars
  PROVE  ScansTyped'
<1> USE OrphansAssumption DEF ScansTyped
<1>1. ASSUME NEW s \in Scanners, Over(s) PROVE ScansTyped' \/ moves' # moves
  BY <1>1 DEF Over
<1>2. UnderWay \subseteq Scanners BY DEF UnderWay
<1>3. ASSUME NEW s \in Scanners, Scan(s) PROVE ScansTyped'
  <2>1. moves' = moves
    BY <1>3 DEF Scan, Begin, ListAll, Rows, Verify, Detail, CacheStatus, ReportMissing,
       ReportUnbound, IgnoreUnbound, ResolveStale, ScanFails, outside
  <2>2. CASE Begin(s) BY <1>2, <2>1, <2>2 DEF Begin
  <2>3. CASE ReportUnbound(s) BY <2>1, <2>3 DEF ReportUnbound
  <2>4. CASE ResolveStale(s) \/ ScanFails(s)
    BY <1>1, <2>1, <2>4 DEF ResolveStale, ScanFails
  <2>5. CASE \/ ListAll(s) \/ Rows(s) \/ Verify(s) \/ Detail(s) \/ CacheStatus(s)
             \/ ReportMissing(s) \/ IgnoreUnbound(s)
    BY <2>1, <2>5 DEF ListAll, Rows, Verify, Detail, CacheStatus, ReportMissing, IgnoreUnbound
  <2> QED BY <1>3, <2>2, <2>3, <2>4, <2>5 DEF Scan
<1>4. ASSUME NEW a \in Admins, Repair(a) PROVE ScansTyped'
  <2>1. UNCHANGED <<began, mode, moves>> /\ fresh' \in {fresh, UnderWay}
    BY <1>4 DEF Repair, OpenIssue, CheckPanel, Judge, Erase, FetchUnbound, AssignUnbound,
       RepairFails, outside
  <2> QED BY <1>2, <2>1
<1>5. CASE IgnoreIssue \/ Others \/ UNCHANGED orphanVars
  <2>1. UNCHANGED <<began, fresh, mode>> /\ (moves' = moves \/ Moves \/ moves' = MaxMoves)
    BY <1>5 DEF IgnoreIssue, Others, PanelAdmin, SaleCreates, SaleBinds, OwnerUnbinds,
       OwnerTransfers, Calm, watching, orphanVars, outside
  <2>2. moves' \in 0..MaxMoves BY <2>1 DEF Moves, calm
  <2> QED BY <2>1, <2>2
<1> QED BY <1>3, <1>4, <1>5 DEF OrphansNext

LEMMA OrphansTyped == OrphansSpec => []OrphansTypeOK
<1>1. OrphansInit => ScansTyped
  BY OrphansAssumption DEF OrphansInit, ScansTyped
<1>2. ScansTyped /\ [OrphansNext]_orphanVars => ScansTyped' BY ScansTypedStep
<1>3. RInv /\ ScansTyped => OrphansTypeOK
  BY OrphansAssumption DEF RInv, Typed, ScansTyped, OrphansTypeOK
<1> QED BY <1>1, <1>2, <1>3, RInvHolds, PTL DEF OrphansSpec

(* The desk runs Checkout and Orphans side by side: a step of one is a     *)
(* stutter of the other.                                                   *)
LEMMA DeskIsBoth == DeskSpec => Spec /\ OrphansSpec
<1>1. DeskInit => Init /\ OrphansInit BY DEF DeskInit
<1>2. [DeskNext]_<<part, vars, orphanVars>> => [Next]_vars /\ [OrphansNext]_orphanVars
  BY DEF DeskNext, OrphanStep, OrphansNext
<1> QED BY <1>1, <1>2, PTL DEF DeskSpec, Spec, OrphansSpec

(* Every variable keeps its type: the checkouts with their taps and        *)
(* recoveries, and the panel user with its row, its issues and what the    *)
(* scans and repairs have read.                                            *)
THEOREM DeskTyped == DeskSpec => []DeskTypeOK
BY DeskIsBoth, CheckoutTyped, OrphansTyped, PTL DEF DeskTypeOK
=============================================================================
