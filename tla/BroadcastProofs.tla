--------------------------- MODULE BroadcastProofs ---------------------------
(***************************************************************************)
(* The books of a broadcast, for any audience, replicas and batch size.    *)
(* The invariant says who is behind a claim: a claimed recipient that no   *)
(* run lost is in the hands of one consumer, of the replica that has the   *)
(* advisory lock and waits for its batch, and has no message before it.    *)
(***************************************************************************)
EXTENDS Broadcast, TLAPS, FiniteSetTheorems

(* One consumer has a recipient in hand, for the holder of the lock.       *)
OneHand ==
  \A t \in flight : t.to \notin astray =>
    /\ t.by \in Replicas /\ t.by = seat /\ step[t.by] = "sending"
    /\ delivery[t.to] = "sending"
    /\ t.is = "queued" => mail[t.to] = 0
    /\ \A s \in flight : s.to = t.to => s = t

(* A claim that no run lost is in somebody's hands.                        *)
ClaimHeld ==
  \A r \in Recipients : delivery[r] = "sending" /\ r \notin astray
                          => \E t \in flight : t.to = r

(* Who got a message, and who did not.                                     *)
MailTold ==
  /\ \A t \in flight : t.is = "told" => mail[t.to] > 0
  /\ \A r \in Recipients :
       /\ delivery[r] = "sent" => mail[r] > 0
       /\ r \notin astray => mail[r] <= 1
       /\ r \notin astray /\ delivery[r] \in {"out", "pending", "cancelled"} => mail[r] = 0

HandInv == OneHand /\ ClaimHeld /\ MailTold

(* The counters are the rows.                                              *)
Counted ==
  job.sent = Cardinality(With("sent")) /\ job.failed = Cardinality(With("failed"))

(* Once nobody is open, nobody will be; a run that saw so may end the job. *)
OpenGone ==
  /\ Over => Open = {}
  /\ \A w \in Replicas : step[w] \in {"complete", "cancelled"} /\ note[w] = {} => Open = {}

(* Before there is a job there are neither rows nor runs beyond the look.  *)
NotYet ==
  job.status = "none" => /\ \A r \in Recipients : delivery[r] = "out"
                         /\ \A w \in Replicas : step[w] \in {"idle", "requeue", "next"}

BroadcastInv == BroadcastTypeOK /\ HandInv /\ Counted /\ OpenGone /\ NotYet

LEMMA BroadcastBegins == BroadcastInit => BroadcastInv
<1> SUFFICES ASSUME BroadcastInit PROVE BroadcastInv OBVIOUS
<1>1. BroadcastTypeOK
  <2>1. 0 \in 0..MailCap BY DEF MailCap
  <2>2. job \in [status : {"none", "queued", "running", "cancel_requested", "cancelled",
                          "completed"}, sent : Nat, failed : Nat]
    BY DEF BroadcastInit
  <2>3. note \in [Replicas -> SUBSET Recipients] BY DEF BroadcastInit
  <2> QED BY <2>1, <2>2, <2>3 DEF BroadcastInit, BroadcastTypeOK
<1>2. HandInv BY DEF BroadcastInit, HandInv, OneHand, ClaimHeld, MailTold
<1>3. With("sent") = {} /\ With("failed") = {} BY DEF BroadcastInit, With
<1>4. Counted BY <1>3, FS_EmptySet DEF BroadcastInit, Counted
<1>5. OpenGone /\ NotYet BY DEF BroadcastInit, OpenGone, NotYet, Over
<1> QED BY <1>1, <1>2, <1>4, <1>5 DEF BroadcastInv

-----------------------------------------------------------------------------
(* Types.                                                                  *)

LEMMA AdminTyped ==
  ASSUME BroadcastTypeOK, CreateJob \/ RequestCancel \/ TenMinutes \/ Steady
  PROVE  BroadcastTypeOK'
BY DEF BroadcastTypeOK, CreateJob, RequestCancel, TenMinutes, Steady, Settles, RowsKept,
       MailKept, With

LEMMA RunTyped ==
  ASSUME BroadcastTypeOK, NEW w \in Replicas,
         RunStep(w) \/ CrashReplica(w) \/ RunFails(w) \/ LoseLock(w)
  PROVE  BroadcastTypeOK'
<1> USE DEF BroadcastTypeOK, Steps, Leaves, RowsKept, MailKept
<1>1. CASE Acquire(w) BY <1>1 DEF Acquire
<1>2. CASE Requeue(w) BY <1>2 DEF Requeue, Settles, GivenUp, With
<1>3. CASE NextJob(w) BY <1>3 DEF NextJob
<1>4. CASE MarkRunning(w) BY <1>4 DEF MarkRunning
<1>5. CASE Loop(w) BY <1>5 DEF Loop
<1>6. CASE Claim(w) BY <1>6 DEF Claim, With
<1>7. CASE Take(w) BY <1>7 DEF Take, Settles, With, Tasks
<1>8. CASE BatchDone(w) BY <1>8 DEF BatchDone
<1>9. CASE CountOpen(w) BY <1>9 DEF CountOpen, Open, With
<1>10. CASE FinalizeCompleted(w) BY <1>10 DEF FinalizeCompleted
<1>11. CASE FinalizeCancelled(w)
  <2> DEFINE rest == IF note[w] = {} THEN {} ELSE Open
  <2>1. rest \subseteq Recipients BY DEF Open, With
  <2>2. /\ Settles(rest, "cancelled")
        /\ astray' = IF seat = w THEN astray ELSE astray \cup rest
        /\ job' = [job EXCEPT !.status =
             IF @ = "cancel_requested"
               THEN IF note[w] = {} THEN "completed" ELSE "cancelled" ELSE @]
        /\ Leaves(w) /\ note' = [note EXCEPT ![w] = {}]
        /\ MailKept /\ UNCHANGED steady
    BY <1>11 DEF FinalizeCancelled
  <2> HIDE DEF rest
  <2> QED BY <2>1, <2>2 DEF Settles
<1>12. CASE CrashReplica(w) BY <1>12 DEF CrashReplica, InHand, To, Tasks
<1>13. CASE RunFails(w) BY <1>13 DEF RunFails
<1>14. CASE LoseLock(w) BY <1>14 DEF LoseLock, InHand, To, Tasks
<1> QED
  BY <1>1, <1>2, <1>3, <1>4, <1>5, <1>6, <1>7, <1>8, <1>9, <1>10, <1>11, <1>12, <1>13, <1>14
  DEF RunStep

LEMMA PutsTyped ==
  ASSUME BroadcastTypeOK, NEW t \in flight, NEW is \in {"queued", "told", "refused"},
         Puts(t, is)
  PROVE  flight' \subseteq Tasks
<1>1. t \in Tasks BY DEF BroadcastTypeOK
<1>2. [t EXCEPT !.is = is] \in Tasks BY <1>1 DEF Tasks
<1> QED BY <1>2 DEF Puts, BroadcastTypeOK

LEMMA ConsumerTyped ==
  ASSUME BroadcastTypeOK, NEW t \in flight,
         Send(t) \/ MarkSent(t) \/ MarkRecipientFailed(t)
  PROVE  BroadcastTypeOK'
<1>1. t \in Tasks BY DEF BroadcastTypeOK
<1>2. t.to \in Recipients /\ t.by \in Replicas \cup {Stray} BY <1>1 DEF Tasks
<1>3. CASE Send(t)
  <2>1. flight' \subseteq Tasks BY <1>3, PutsTyped DEF Send
  <2>2. mail' \in [Recipients -> 0..MailCap]
    BY <1>2, <1>3 DEF Send, Gets, MailCap, BroadcastTypeOK
  <2> QED BY <1>3, <2>1, <2>2 DEF Send, RowsKept, BroadcastTypeOK
<1>4. ASSUME NEW status \in {"sent", "failed"}, Finishes(t, status)
      PROVE  /\ flight' \subseteq Tasks /\ job' \in [status : {"none", "queued", "running",
                   "cancel_requested", "cancelled", "completed"}, sent : Nat, failed : Nat]
             /\ delivery' \in [Recipients -> {"out", "pending", "sending", "sent", "failed",
                                              "cancelled"}]
             /\ stale' \subseteq Recipients
  BY <1>2, <1>4 DEF Finishes, Settles, RowsKept, BroadcastTypeOK
<1>5. CASE MarkSent(t)
  BY <1>4, <1>5, PutsTyped DEF MarkSent, RowsKept, BroadcastTypeOK
<1>6. CASE MarkRecipientFailed(t)
  <2>1. CASE Finishes(t, "failed") /\ UNCHANGED <<seat, step, astray>>
    BY <1>4, <1>6, <2>1 DEF MarkRecipientFailed, BroadcastTypeOK
  <2>2. CASE Throws(t) /\ RowsKept /\ UNCHANGED job
    <3>1. \A r \in InHand(t.by) \ {t} : [r EXCEPT !.by = Stray] \in Tasks
      BY DEF BroadcastTypeOK, InHand, Tasks
    <3>2. flight' \subseteq Tasks
      BY <2>2, <3>1 DEF Throws, BroadcastTypeOK
    <3>3. astray' \subseteq Recipients
      BY <2>2 DEF Throws, BroadcastTypeOK, InHand, To, Tasks
    <3>4. step' \in [Replicas -> {"idle", "requeue", "next", "mark", "loop", "claim", "take",
                       "sending", "count", "complete", "cancel", "cancelled"}]
          /\ seat' \in Replicas \cup {NoReplica}
      BY <1>2, <2>2 DEF Throws, Leaves, Steps, BroadcastTypeOK
    <3> QED
      BY <1>6, <2>2, <3>2, <3>3, <3>4 DEF MarkRecipientFailed, RowsKept, BroadcastTypeOK
  <2> QED BY <1>6, <2>1, <2>2 DEF MarkRecipientFailed
<1> QED BY <1>3, <1>5, <1>6

-----------------------------------------------------------------------------
(* The hands.                                                              *)

(* A step of a replica without a task in hand that changes no row.         *)
LEMMA QuietKeepsHands ==
  ASSUME BroadcastTypeOK, HandInv, NEW w \in Replicas,
         step[w] = "sending" => InHand(w) = {},
         UNCHANGED <<delivery, flight, mail, astray>>,
         seat' = seat \/ seat \in {NoReplica, w},
         \A v \in Replicas \ {w} : step'[v] = step[v]
  PROVE  HandInv'
<1>1. ASSUME NEW t \in flight, t.to \notin astray
      PROVE  t.by # w /\ seat' = seat /\ step'[t.by] = step[t.by]
  <2>1. t.by \in Replicas /\ t.by = seat /\ step[t.by] = "sending"
    BY <1>1 DEF HandInv, OneHand
  <2>2. t.by # w BY <2>1 DEF InHand
  <2> QED BY <2>1, <2>2, BroadcastAssumption
<1>2. OneHand' BY <1>1 DEF HandInv, OneHand
<1>3. ClaimHeld' /\ MailTold' BY DEF HandInv, ClaimHeld, MailTold
<1> QED BY <1>2, <1>3 DEF HandInv

(* The holder of the lock that waits for no batch: every open claim that   *)
(* no run lost would be its own, so there is none.                         *)
LEMMA HolderAlone ==
  ASSUME BroadcastTypeOK, HandInv, NEW w \in Replicas, seat = w, step[w] # "sending"
  PROVE  /\ \A t \in flight : t.to \in astray
         /\ \A r \in Recipients : delivery[r] = "sending" => r \in astray
BY DEF HandInv, OneHand, ClaimHeld

LEMMA CreateKeepsHands ==
  ASSUME BroadcastTypeOK, HandInv, NotYet, CreateJob
  PROVE  HandInv'
<1>1. \A r \in Recipients : delivery[r] = "out" BY DEF CreateJob, NotYet
<1>2. PICK audience \in SUBSET Recipients : Settles(audience, "pending")
  BY DEF CreateJob
<1>3. \A r \in Recipients : delivery'[r] \in {"out", "pending"}
  BY <1>1, <1>2 DEF Settles
<1>4. UNCHANGED <<flight, mail, seat, step, astray>> BY DEF CreateJob, MailKept
<1>5. \A t \in flight : t.to \in astray
  BY <1>1 DEF HandInv, OneHand, BroadcastTypeOK, Tasks
<1>6. OneHand' BY <1>4, <1>5 DEF OneHand
<1>7. ClaimHeld' BY <1>3 DEF ClaimHeld
<1>8. MailTold' BY <1>1, <1>3, <1>4 DEF HandInv, MailTold
<1> QED BY <1>6, <1>7, <1>8 DEF HandInv

LEMMA RequeueKeepsHands ==
  ASSUME BroadcastTypeOK, HandInv, NEW w \in Replicas, Requeue(w)
  PROVE  HandInv'
<1>1. /\ step[w] = "requeue" /\ step' = [step EXCEPT ![w] = "next"]
      /\ UNCHANGED <<flight, mail, seat>>
      /\ astray' = IF seat = w THEN astray ELSE astray \cup GivenUp
      /\ delivery' = [r \in Recipients |-> IF r \in GivenUp THEN "pending" ELSE delivery[r]]
  BY DEF Requeue, Steps, MailKept, Settles
<1>2. \A r \in GivenUp : r \in Recipients /\ delivery[r] = "sending" /\ r \in astray'
  BY <1>1, HolderAlone DEF GivenUp, With
<1>3. astray \subseteq astray' BY <1>1
<1>4. \A r \in Recipients : r \notin astray' => delivery'[r] = delivery[r]
  BY <1>1, <1>2
<1>5. \A t \in flight : t.to \in Recipients BY DEF BroadcastTypeOK, Tasks
<1>6. OneHand' BY <1>1, <1>3, <1>4, <1>5 DEF HandInv, OneHand, BroadcastTypeOK
<1>7. ClaimHeld' BY <1>1, <1>3, <1>4 DEF HandInv, ClaimHeld
<1>8. MailTold' BY <1>1, <1>2, <1>3, <1>4 DEF HandInv, MailTold
<1> QED BY <1>6, <1>7, <1>8 DEF HandInv

LEMMA TakeKeepsHands ==
  ASSUME BroadcastTypeOK, HandInv, NEW w \in Replicas, Take(w)
  PROVE  HandInv'
<1> DEFINE rs == note[w] \cap With("pending")
           new == [by : {w}, to : rs, is : {"queued"}]
<1>1. /\ step[w] = "take"
      /\ step' = [step EXCEPT ![w] = IF rs = {} THEN "count" ELSE "sending"]
      /\ UNCHANGED <<mail, seat>>
      /\ astray' = IF seat = w THEN astray ELSE astray \cup rs
      /\ flight' = flight \cup new
      /\ delivery' = [r \in Recipients |-> IF r \in rs THEN "sending" ELSE delivery[r]]
  BY DEF Take, Steps, Settles
<1>2. \A r \in rs : r \in Recipients /\ delivery[r] = "pending" BY DEF With
<1>3. \A t \in new : t.by = w /\ t.to \in rs /\ t.is = "queued" OBVIOUS
<1>4. \A s, t \in new : s.to = t.to => s = t OBVIOUS
<1>5. \A r \in rs : [by |-> w, to |-> r, is |-> "queued"] \in new OBVIOUS
<1> HIDE DEF rs, new
<1>6. \A t \in flight : t.to \in Recipients BY DEF BroadcastTypeOK, Tasks
<1>7. \A t \in flight : t.to \in rs => t.to \in astray
  BY <1>2 DEF HandInv, OneHand
<1>8. OneHand'
  <2>1. ASSUME NEW t \in flight', t.to \notin astray'
        PROVE  /\ t.by \in Replicas /\ t.by = seat' /\ step'[t.by] = "sending"
               /\ delivery'[t.to] = "sending"
               /\ t.is = "queued" => mail'[t.to] = 0
               /\ \A s \in flight' : s.to = t.to => s = t
    <3>1. CASE t \in new
      <4>1. t.by = w /\ t.to \in rs /\ t.to \in Recipients BY <1>2, <1>3, <3>1
      <4>2. seat = w /\ t.to \notin astray BY <1>1, <2>1, <4>1
      <4>3. step'[w] = "sending" BY <1>1, <4>1 DEF BroadcastTypeOK
      <4>4. delivery'[t.to] = "sending" BY <1>1, <4>1
      <4>5. mail'[t.to] = 0 BY <1>1, <1>2, <4>1, <4>2 DEF HandInv, MailTold
      <4>6. \A s \in flight' : s.to = t.to => s = t
        BY <1>1, <1>4, <1>7, <3>1, <4>1, <4>2
      <4> QED BY <1>1, <4>1, <4>2, <4>3, <4>4, <4>5, <4>6
    <3>2. CASE t \in flight
      <4>1. t.to \notin astray BY <1>1, <2>1
      <4>2. t.to \notin rs BY <1>7, <3>2, <4>1
      <4>3. /\ t.by \in Replicas /\ t.by = seat /\ step[t.by] = "sending"
            /\ delivery[t.to] = "sending"
            /\ t.is = "queued" => mail[t.to] = 0
            /\ \A s \in flight : s.to = t.to => s = t
        BY <3>2, <4>1 DEF HandInv, OneHand
      <4>4. t.by # w BY <1>1, <4>3
      <4>5. step'[t.by] = "sending" BY <1>1, <4>3, <4>4 DEF BroadcastTypeOK
      <4>6. delivery'[t.to] = "sending" BY <1>1, <1>6, <3>2, <4>2, <4>3
      <4>7. \A s \in flight' : s.to = t.to => s = t BY <1>1, <1>3, <4>2, <4>3
      <4> QED BY <1>1, <4>3, <4>5, <4>6, <4>7
    <3> QED BY <1>1, <3>1, <3>2
  <2> QED BY <2>1 DEF OneHand
<1>9. ClaimHeld'
  <2>1. ASSUME NEW r \in Recipients, delivery'[r] = "sending", r \notin astray'
        PROVE  \E t \in flight' : t.to = r
    <3>1. CASE r \in rs
      <4> DEFINE t == [by |-> w, to |-> r, is |-> "queued"]
      <4>1. t \in flight' BY <1>1, <1>5, <3>1
      <4>2. t.to = r OBVIOUS
      <4> QED BY <4>1, <4>2
    <3>2. CASE r \notin rs
      <4>1. delivery[r] = "sending" /\ r \notin astray BY <1>1, <2>1, <3>2
      <4> QED BY <1>1, <4>1 DEF HandInv, ClaimHeld
    <3> QED BY <3>1, <3>2
  <2> QED BY <2>1 DEF ClaimHeld
<1>10. MailTold'
  <2>1. \A t \in flight' : t.is = "told" => mail'[t.to] > 0
    BY <1>1, <1>3 DEF HandInv, MailTold
  <2>2. ASSUME NEW r \in Recipients
        PROVE  /\ delivery'[r] = "sent" => mail'[r] > 0
               /\ r \notin astray' => mail'[r] <= 1
               /\ r \notin astray' /\ delivery'[r] \in {"out", "pending", "cancelled"}
                    => mail'[r] = 0
    BY <1>1 DEF HandInv, MailTold
  <2> QED BY <2>1, <2>2 DEF MailTold
<1> QED BY <1>8, <1>9, <1>10 DEF HandInv

LEMMA CancelledKeepsHands ==
  ASSUME BroadcastTypeOK, HandInv, NEW w \in Replicas, FinalizeCancelled(w)
  PROVE  HandInv'
<1> DEFINE rest == IF note[w] = {} THEN {} ELSE Open
<1>1. /\ step[w] = "cancelled" /\ step' = [step EXCEPT ![w] = "idle"]
      /\ UNCHANGED <<flight, mail>>
      /\ seat' = IF seat = w THEN NoReplica ELSE seat
      /\ astray' = IF seat = w THEN astray ELSE astray \cup rest
      /\ delivery' = [r \in Recipients |-> IF r \in rest THEN "cancelled" ELSE delivery[r]]
  BY DEF FinalizeCancelled, Leaves, Steps, MailKept, Settles
<1>2. \A r \in rest : r \in Recipients /\ delivery[r] \in {"pending", "sending"}
  BY DEF Open, With
<1> HIDE DEF rest
<1>3. \A r \in rest : r \in astray' \/ delivery[r] = "pending"
  BY <1>1, <1>2, HolderAlone
<1>4. \A t \in flight : t.to \in Recipients BY DEF BroadcastTypeOK, Tasks
<1>5. ASSUME NEW t \in flight, t.to \notin astray'
      PROVE  /\ t.by \in Replicas /\ t.by = seat' /\ step'[t.by] = "sending"
             /\ delivery'[t.to] = "sending"
             /\ t.is = "queued" => mail'[t.to] = 0
             /\ \A s \in flight : s.to = t.to => s = t
  <2>1. /\ t.to \notin astray
        /\ t.by \in Replicas /\ t.by = seat /\ step[t.by] = "sending"
        /\ delivery[t.to] = "sending"
        /\ t.is = "queued" => mail[t.to] = 0
        /\ \A s \in flight : s.to = t.to => s = t
    BY <1>1, <1>5 DEF HandInv, OneHand
  <2>2. t.by # w /\ t.to \notin rest BY <1>1, <1>3, <1>5, <2>1
  <2> QED BY <1>1, <1>4, <2>1, <2>2 DEF BroadcastTypeOK
<1>6. OneHand' BY <1>1, <1>5 DEF OneHand
<1>7. ClaimHeld' BY <1>1 DEF HandInv, ClaimHeld
<1>8. MailTold' BY <1>1, <1>2, <1>3 DEF HandInv, MailTold
<1> QED BY <1>6, <1>7, <1>8 DEF HandInv

(* A run is cut off: what it has in hand is in doubt from then on.         *)
LEMMA CutOffKeepsHands ==
  ASSUME BroadcastTypeOK, HandInv, NEW w \in Replicas, NEW lost \in {{}, InHand(Stray)},
         flight' = flight \/ flight' = flight \ (InHand(w) \cup lost),
         astray' = astray \cup To(InHand(w)),
         UNCHANGED <<delivery, mail>>,
         seat' = IF seat = w THEN NoReplica ELSE seat,
         \A v \in Replicas \ {w} : step'[v] = step[v]
  PROVE  HandInv'
<1>1. flight' \subseteq flight OBVIOUS
<1>2. ASSUME NEW t \in flight, t.to \notin astray'
      PROVE  /\ t.by # w /\ t.by # Stray /\ t.to \notin astray /\ t \in flight'
             /\ t.by \in Replicas /\ t.by = seat' /\ step'[t.by] = "sending"
  <2>1. t.to \notin astray /\ t \notin InHand(w) BY <1>2 DEF To
  <2>2. t.by \in Replicas /\ t.by = seat /\ step[t.by] = "sending"
    BY <2>1 DEF HandInv, OneHand
  <2>3. t.by # w /\ t.by # Stray BY <2>1, <2>2, BroadcastAssumption DEF InHand
  <2>4. t \in flight' BY <2>1, <2>3 DEF InHand
  <2> QED BY <2>1, <2>2, <2>3, <2>4
<1>3. OneHand' BY <1>1, <1>2 DEF HandInv, OneHand
<1>4. ClaimHeld' BY <1>2 DEF HandInv, ClaimHeld
<1>5. MailTold' BY <1>1 DEF HandInv, MailTold
<1> QED BY <1>3, <1>4, <1>5 DEF HandInv

LEMMA RunKeepsHands ==
  ASSUME BroadcastTypeOK, HandInv, NEW w \in Replicas,
         RunStep(w) \/ CrashReplica(w) \/ RunFails(w) \/ LoseLock(w)
  PROVE  HandInv'
<1> USE DEF Steps, Leaves, RowsKept, MailKept, BroadcastTypeOK
<1>1. CASE Acquire(w)
  BY <1>1, QuietKeepsHands DEF Acquire, LetIn
<1>2. CASE NextJob(w)
  BY <1>2, QuietKeepsHands DEF NextJob
<1>3. CASE MarkRunning(w)
  BY <1>3, QuietKeepsHands DEF MarkRunning
<1>4. CASE Loop(w)
  BY <1>4, QuietKeepsHands DEF Loop
<1>5. CASE Claim(w)
  BY <1>5, QuietKeepsHands DEF Claim
<1>6. CASE BatchDone(w)
  BY <1>6, QuietKeepsHands DEF BatchDone
<1>7. CASE CountOpen(w)
  BY <1>7, QuietKeepsHands DEF CountOpen
<1>8. CASE FinalizeCompleted(w)
  BY <1>8, QuietKeepsHands DEF FinalizeCompleted
<1>9. CASE RunFails(w)
  BY <1>9, QuietKeepsHands DEF RunFails
<1>10. CASE CrashReplica(w)
  <2>1. PICK lost \in {{}, InHand(Stray)} : flight' = flight \ (InHand(w) \cup lost)
    BY <1>10 DEF CrashReplica
  <2> QED BY <1>10, <2>1, CutOffKeepsHands DEF CrashReplica
<1>11. CASE LoseLock(w)
  <2>1. seat' = IF seat = w THEN NoReplica ELSE seat BY <1>11 DEF LoseLock
  <2>2. /\ flight' = flight /\ astray' = astray \cup To(InHand(w))
        /\ UNCHANGED <<delivery, mail, step>>
    BY <1>11 DEF LoseLock
  <2> QED BY <2>1, <2>2, CutOffKeepsHands
<1> QED
  BY <1>1, <1>2, <1>3, <1>4, <1>5, <1>6, <1>7, <1>8, <1>9, <1>10, <1>11,
     RequeueKeepsHands, TakeKeepsHands, CancelledKeepsHands
  DEF RunStep

(* What a consumer does to its own task.                                   *)
LEMMA PutsOne ==
  ASSUME BroadcastTypeOK, NEW t \in flight, NEW is \in {"queued", "told", "refused"},
         Puts(t, is)
  PROVE  \E u \in Tasks :
           /\ u.by = t.by /\ u.to = t.to /\ u.is = is
           /\ flight' = (flight \ {t}) \cup {u}
<1>1. t \in Tasks BY DEF BroadcastTypeOK
<1> DEFINE u == [t EXCEPT !.is = is]
<1>2. u \in Tasks /\ u.by = t.by /\ u.to = t.to /\ u.is = is BY <1>1 DEF Tasks
<1>3. flight' = (flight \ {t}) \cup {u} BY DEF Puts
<1> HIDE DEF u
<1> QED BY <1>2, <1>3

LEMMA SendKeepsHands ==
  ASSUME BroadcastTypeOK, HandInv, NEW t \in flight, Send(t)
  PROVE  HandInv'
<1>1. UNCHANGED <<delivery, seat, step, astray>> /\ t.is = "queued"
  BY DEF Send, RowsKept
<1>2. PICK is \in {"told", "refused"} :
        /\ Puts(t, is)
        /\ Gets(t.to) \/ (is = "refused" /\ UNCHANGED mail)
  BY DEF Send
<1>3. PICK u \in Tasks : /\ u.by = t.by /\ u.to = t.to /\ u.is = is
                         /\ flight' = (flight \ {t}) \cup {u}
  BY <1>2, PutsOne
<1>4. t.to \in Recipients /\ mail \in [Recipients -> 0..2] /\ mail[t.to] \in 0..2
  BY <1>3 DEF Tasks, BroadcastTypeOK, MailCap
<1>5. /\ \A r \in Recipients : r # t.to => mail'[r] = mail[r]
      /\ mail'[t.to] = mail[t.to]
           \/ mail'[t.to] = (IF mail[t.to] < 2 THEN mail[t.to] + 1 ELSE mail[t.to])
      /\ is = "told"
           => mail'[t.to] = (IF mail[t.to] < 2 THEN mail[t.to] + 1 ELSE mail[t.to])
  BY <1>2, <1>4 DEF Gets, MailCap
<1>6. t.to \notin astray => /\ delivery[t.to] = "sending" /\ mail[t.to] = 0
                            /\ \A s \in flight : s.to = t.to => s = t
  BY <1>1 DEF HandInv, OneHand
<1>7. \A s \in flight : s.to \in Recipients BY DEF BroadcastTypeOK, Tasks
<1>8. OneHand'
  <2>1. ASSUME NEW s \in flight', s.to \notin astray'
        PROVE  /\ s.by \in Replicas /\ s.by = seat' /\ step'[s.by] = "sending"
               /\ delivery'[s.to] = "sending"
               /\ s.is = "queued" => mail'[s.to] = 0
               /\ \A v \in flight' : v.to = s.to => v = s
    <3>1. CASE s = u
      <4>1. /\ t.by \in Replicas /\ t.by = seat /\ step[t.by] = "sending"
            /\ delivery[t.to] = "sending"
        BY <1>1, <1>3, <2>1, <3>1 DEF HandInv, OneHand
      <4>2. \A v \in flight' : v.to = s.to => v = s
        BY <1>1, <1>3, <1>6, <2>1, <3>1
      <4> QED BY <1>1, <1>2, <1>3, <3>1, <4>1, <4>2
    <3>2. CASE s \in flight \ {t}
      <4>1. /\ s.by \in Replicas /\ s.by = seat /\ step[s.by] = "sending"
            /\ delivery[s.to] = "sending"
            /\ s.is = "queued" => mail[s.to] = 0
            /\ \A v \in flight : v.to = s.to => v = s
        BY <1>1, <2>1, <3>2 DEF HandInv, OneHand
      <4>2. s.to # t.to BY <3>2, <4>1
      <4>3. mail'[s.to] = mail[s.to] BY <1>5, <1>7, <3>2, <4>2
      <4>4. \A v \in flight' : v.to = s.to => v = s BY <1>3, <4>1, <4>2
      <4> QED BY <1>1, <4>1, <4>3, <4>4
    <3> QED BY <1>3, <3>1, <3>2
  <2> QED BY <2>1 DEF OneHand
<1>9. ClaimHeld'
  BY <1>1, <1>3 DEF HandInv, ClaimHeld
<1>10. MailTold'
  <2>1. ASSUME NEW s \in flight', s.is = "told" PROVE mail'[s.to] > 0
    <3>1. CASE s = u BY <1>2, <1>3, <1>4, <1>5, <2>1, <3>1
    <3>2. CASE s \in flight
      <4>1. mail[s.to] > 0 /\ s.to \in Recipients
        BY <1>7, <2>1, <3>2 DEF HandInv, MailTold
      <4> QED BY <1>4, <1>5, <4>1
    <3> QED BY <1>3, <3>1, <3>2
  <2>2. ASSUME NEW r \in Recipients
        PROVE  /\ delivery'[r] = "sent" => mail'[r] > 0
               /\ r \notin astray' => mail'[r] <= 1
               /\ r \notin astray' /\ delivery'[r] \in {"out", "pending", "cancelled"}
                    => mail'[r] = 0
    <3>1. CASE r = t.to
      BY <1>1, <1>4, <1>5, <1>6, <3>1 DEF HandInv, MailTold
    <3>2. CASE r # t.to
      BY <1>1, <1>5, <3>2 DEF HandInv, MailTold
    <3> QED BY <3>1, <3>2
  <2> QED BY <2>1, <2>2 DEF MailTold
<1> QED BY <1>8, <1>9, <1>10 DEF HandInv

(* A task is put away, and its row settled if it is still claimed.         *)
LEMMA FinishKeepsHands ==
  ASSUME BroadcastTypeOK, HandInv, NEW t \in flight, NEW status \in {"sent", "failed"},
         status = "sent" => t.is = "told",
         Finishes(t, status), UNCHANGED <<seat, step, astray, mail>>
  PROVE  HandInv'
<1>1. t.to \in Recipients BY DEF BroadcastTypeOK, Tasks
<1>2. /\ flight' = flight \ {t}
      /\ \A r \in Recipients : r # t.to => delivery'[r] = delivery[r]
      /\ delivery'[t.to] = IF delivery[t.to] = "sending" THEN status ELSE delivery[t.to]
  BY <1>1 DEF Finishes, StillClaimed, Settles, RowsKept, BroadcastTypeOK
<1>3. \A s \in flight : s.to \in Recipients BY DEF BroadcastTypeOK, Tasks
<1>4. OneHand'
  <2>1. ASSUME NEW s \in flight', s.to \notin astray'
        PROVE  /\ s.by \in Replicas /\ s.by = seat' /\ step'[s.by] = "sending"
               /\ delivery'[s.to] = "sending"
               /\ s.is = "queued" => mail'[s.to] = 0
               /\ \A v \in flight' : v.to = s.to => v = s
    <3>1. s.to # t.to BY <1>2, <2>1 DEF HandInv, OneHand
    <3> QED BY <1>2, <1>3, <2>1, <3>1 DEF HandInv, OneHand
  <2> QED BY <2>1 DEF OneHand
<1>5. ClaimHeld'
  <2>1. ASSUME NEW r \in Recipients, delivery'[r] = "sending", r \notin astray'
        PROVE  \E s \in flight' : s.to = r
    <3>1. r # t.to BY <1>2, <2>1
    <3> QED BY <1>2, <2>1, <3>1 DEF HandInv, ClaimHeld
  <2> QED BY <2>1 DEF ClaimHeld
<1>6. MailTold'
  <2>1. \A s \in flight' : s.is = "told" => mail'[s.to] > 0
    BY <1>2 DEF HandInv, MailTold
  <2>2. ASSUME NEW r \in Recipients
        PROVE  /\ delivery'[r] = "sent" => mail'[r] > 0
               /\ r \notin astray' => mail'[r] <= 1
               /\ r \notin astray' /\ delivery'[r] \in {"out", "pending", "cancelled"}
                    => mail'[r] = 0
    BY <1>1, <1>2 DEF HandInv, MailTold
  <2> QED BY <2>1, <2>2 DEF MailTold
<1> QED BY <1>4, <1>5, <1>6 DEF HandInv

LEMMA ThrowKeepsHands ==
  ASSUME BroadcastTypeOK, HandInv, NEW t \in flight, Throws(t),
         UNCHANGED <<delivery, mail>>
  PROVE  HandInv'
<1> DEFINE rest == InHand(t.by) \ {t}
           left == {[r EXCEPT !.by = Stray] : r \in rest}
<1>1. /\ flight' = (flight \ InHand(t.by)) \cup left
      /\ astray' = astray \cup To(InHand(t.by))
      /\ IF t.by = Stray THEN UNCHANGED <<step, seat>> ELSE Leaves(t.by)
  BY DEF Throws
<1>2. \A u \in left : \E r \in InHand(t.by) : u.to = r.to /\ u.is = r.is
  BY DEF InHand, BroadcastTypeOK, Tasks
<1> HIDE DEF rest, left
<1>3. \A r \in InHand(t.by) : r.to \in astray' BY <1>1 DEF To
<1>4. \A u \in left : u.to \in astray' BY <1>2, <1>3
<1>5. ASSUME NEW s \in flight, s.to \notin astray'
      PROVE  /\ s \in flight' /\ s.to \notin astray /\ s.by # t.by
             /\ s.by \in Replicas /\ s.by = seat' /\ step'[s.by] = "sending"
  <2>1. s.to \notin astray /\ s \notin InHand(t.by) BY <1>1, <1>3, <1>5
  <2>2. s.by # t.by BY <2>1 DEF InHand
  <2>3. s.by \in Replicas /\ s.by = seat /\ step[s.by] = "sending"
    BY <2>1 DEF HandInv, OneHand
  <2>4. s.by = seat' /\ step'[s.by] = "sending"
    BY <1>1, <2>2, <2>3 DEF Leaves, Steps, BroadcastTypeOK
  <2> QED BY <1>1, <2>1, <2>2, <2>3, <2>4
<1>6. OneHand'
  <2>1. ASSUME NEW s \in flight', s.to \notin astray'
        PROVE  /\ s.by \in Replicas /\ s.by = seat' /\ step'[s.by] = "sending"
               /\ delivery'[s.to] = "sending"
               /\ s.is = "queued" => mail'[s.to] = 0
               /\ \A v \in flight' : v.to = s.to => v = s
    <3>1. s \in flight BY <1>1, <1>4, <2>1
    <3>2. \A v \in flight' : v.to = s.to => v \in flight BY <1>1, <1>4, <2>1
    <3> QED BY <1>5, <2>1, <3>1, <3>2 DEF HandInv, OneHand
  <2> QED BY <2>1 DEF OneHand
<1>7. ClaimHeld' BY <1>1, <1>5 DEF HandInv, ClaimHeld
<1>8. MailTold'
  <2>1. \A s \in flight' : s.is = "told" => mail'[s.to] > 0
    BY <1>1, <1>2 DEF HandInv, MailTold, InHand
  <2> QED BY <1>1, <2>1 DEF HandInv, MailTold
<1> QED BY <1>6, <1>7, <1>8 DEF HandInv

LEMMA ConsumerKeepsHands ==
  ASSUME BroadcastTypeOK, HandInv, NEW t \in flight,
         Send(t) \/ MarkSent(t) \/ MarkRecipientFailed(t)
  PROVE  HandInv'
<1>1. CASE Send(t) BY <1>1, SendKeepsHands
<1>2. CASE MarkSent(t)
  <2>1. CASE Finishes(t, "sent")
    BY <1>2, <2>1, FinishKeepsHands DEF MarkSent
  <2>2. CASE Puts(t, "refused") /\ RowsKept
    <3>1. PICK u \in Tasks : /\ u.by = t.by /\ u.to = t.to /\ u.is = "refused"
                             /\ flight' = (flight \ {t}) \cup {u}
      BY <2>2, PutsOne
    <3>2. UNCHANGED <<delivery, seat, step, mail, astray>> BY <1>2, <2>2 DEF MarkSent, RowsKept
    <3>3. OneHand'
      <4>1. ASSUME NEW s \in flight', s.to \notin astray'
            PROVE  /\ s.by \in Replicas /\ s.by = seat' /\ step'[s.by] = "sending"
                   /\ delivery'[s.to] = "sending"
                   /\ s.is = "queued" => mail'[s.to] = 0
                   /\ \A v \in flight' : v.to = s.to => v = s
        <5>1. CASE s = u BY <3>1, <3>2, <4>1, <5>1 DEF HandInv, OneHand
        <5>2. CASE s \in flight \ {t}
          <6>1. s.to # t.to BY <3>2, <4>1, <5>2 DEF HandInv, OneHand
          <6> QED BY <3>1, <3>2, <4>1, <5>2, <6>1 DEF HandInv, OneHand
        <5> QED BY <3>1, <5>1, <5>2
      <4> QED BY <4>1 DEF OneHand
    <3>4. ClaimHeld' BY <3>1, <3>2 DEF HandInv, ClaimHeld
    <3>5. MailTold' BY <3>1, <3>2 DEF HandInv, MailTold
    <3> QED BY <3>3, <3>4, <3>5 DEF HandInv
  <2> QED BY <1>2, <2>1, <2>2 DEF MarkSent
<1>3. CASE MarkRecipientFailed(t)
  <2>1. CASE Finishes(t, "failed") /\ UNCHANGED <<seat, step, astray>>
    BY <1>3, <2>1, FinishKeepsHands DEF MarkRecipientFailed
  <2>2. CASE Throws(t) /\ RowsKept
    BY <1>3, <2>2, ThrowKeepsHands DEF MarkRecipientFailed, RowsKept
  <2> QED BY <1>3, <2>1, <2>2 DEF MarkRecipientFailed
<1> QED BY <1>1, <1>2, <1>3

LEMMA HandStep == BroadcastTypeOK /\ HandInv /\ NotYet /\ [BroadcastNext]_broadcastVars => HandInv'
<1> SUFFICES ASSUME BroadcastTypeOK, HandInv, NotYet, [BroadcastNext]_broadcastVars
             PROVE  HandInv'
  OBVIOUS
<1>1. CASE RequestCancel \/ TenMinutes \/ Steady \/ UNCHANGED broadcastVars
  <2>1. UNCHANGED <<delivery, flight, mail, astray, seat, step>>
    BY <1>1 DEF RequestCancel, TenMinutes, Steady, RowsKept, MailKept, broadcastVars
  <2> QED BY <2>1 DEF HandInv, OneHand, ClaimHeld, MailTold
<1> QED
  BY <1>1, CreateKeepsHands, RunKeepsHands, ConsumerKeepsHands DEF BroadcastNext

-----------------------------------------------------------------------------
(* The counters.                                                           *)

LEMMA RowsFinite == \A status : IsFiniteSet(With(status))
<1>1. \A status : With(status) \subseteq Recipients BY DEF With
<1> QED BY <1>1, BroadcastAssumption, FS_Subset

(* Only a consumer settles a row as sent or failed, and such a row stays.  *)
LEMMA RowsAsCounted ==
  ASSUME BroadcastTypeOK, Counted, NEW rs, NEW status \in {"pending", "sending", "cancelled"},
         \/ Settles(rs, status) \/ UNCHANGED delivery,
         \A r \in rs \cap Recipients : delivery[r] \notin {"sent", "failed"},
         job'.sent = job.sent, job'.failed = job.failed
  PROVE  Counted'
<1>1. With("sent")' = With("sent") /\ With("failed")' = With("failed")
  BY DEF With, Settles, BroadcastTypeOK
<1> QED BY <1>1 DEF Counted

LEMMA FinishCounts ==
  ASSUME BroadcastTypeOK, Counted, NEW t \in flight, NEW status \in {"sent", "failed"},
         Finishes(t, status)
  PROVE  Counted'
<1>1. t.to \in Recipients BY DEF BroadcastTypeOK, Tasks
<1>2. CASE ~StillClaimed(t.to)
  BY <1>2 DEF Finishes, RowsKept, Counted, With
<1>3. CASE StillClaimed(t.to)
  <2>1. /\ Settles({t.to}, status) /\ delivery[t.to] = "sending"
        /\ job' = IF status = "sent" THEN [job EXCEPT !.sent = @ + 1]
                                     ELSE [job EXCEPT !.failed = @ + 1]
    BY <1>3 DEF Finishes, StillClaimed
  <2> DEFINE other == IF status = "sent" THEN "failed" ELSE "sent"
  <2>2. With(status)' = With(status) \cup {t.to} /\ t.to \notin With(status)
    BY <1>1, <2>1 DEF With, Settles, BroadcastTypeOK
  <2>3. With(other)' = With(other)
    BY <1>1, <2>1 DEF With, Settles, BroadcastTypeOK
  <2>4. Cardinality(With(status)') = Cardinality(With(status)) + 1
    BY <2>2, RowsFinite, FS_AddElement
  <2>5. CASE status = "sent"
    <3>1. job'.sent = job.sent + 1 /\ job'.failed = job.failed
      BY <2>1, <2>5 DEF BroadcastTypeOK
    <3> QED BY <2>3, <2>4, <2>5, <3>1 DEF Counted
  <2>6. CASE status = "failed"
    <3>1. job'.failed = job.failed + 1 /\ job'.sent = job.sent
      BY <2>1, <2>6 DEF BroadcastTypeOK
    <3> QED BY <2>3, <2>4, <2>6, <3>1 DEF Counted
  <2> QED BY <2>5, <2>6
<1> QED BY <1>2, <1>3

LEMMA CountStep ==
  BroadcastTypeOK /\ NotYet /\ Counted /\ [BroadcastNext]_broadcastVars => Counted'
<1> SUFFICES ASSUME BroadcastTypeOK, NotYet, Counted, [BroadcastNext]_broadcastVars
             PROVE  Counted'
  OBVIOUS
<1>1. CASE CreateJob
  <2>1. PICK audience \in SUBSET Recipients : Settles(audience, "pending")
    BY <1>1 DEF CreateJob
  <2>2. \A r \in Recipients : delivery[r] = "out" BY <1>1 DEF CreateJob, NotYet
  <2>3. job'.sent = job.sent /\ job'.failed = job.failed
    BY <1>1 DEF CreateJob, BroadcastTypeOK
  <2> QED BY <2>1, <2>2, <2>3, RowsAsCounted
<1>2. CASE RequestCancel \/ TenMinutes \/ Steady \/ UNCHANGED broadcastVars
  <2>1. UNCHANGED delivery /\ job'.sent = job.sent /\ job'.failed = job.failed
    BY <1>2 DEF RequestCancel, TenMinutes, Steady, RowsKept, broadcastVars, BroadcastTypeOK
  <2> QED BY <2>1 DEF Counted, With
<1>3. ASSUME NEW w \in Replicas, RunStep(w) \/ CrashReplica(w) \/ RunFails(w) \/ LoseLock(w)
      PROVE  Counted'
  <2>1. job'.sent = job.sent /\ job'.failed = job.failed
    BY <1>3
    DEF RunStep, Acquire, Requeue, NextJob, MarkRunning, Loop, Claim, Take, BatchDone,
        CountOpen, FinalizeCompleted, FinalizeCancelled, CrashReplica, RunFails, LoseLock,
        BroadcastTypeOK
  <2>2. CASE Requeue(w)
    <3>1. \A r \in GivenUp \cap Recipients : delivery[r] \notin {"sent", "failed"}
      BY DEF GivenUp, With
    <3>2. Settles(GivenUp, "pending") BY <2>2 DEF Requeue
    <3> QED BY <2>1, <3>1, <3>2, RowsAsCounted
  <2>3. CASE Take(w)
    <3> DEFINE rs == note[w] \cap With("pending")
    <3>1. \A r \in rs \cap Recipients : delivery[r] \notin {"sent", "failed"} BY DEF With
    <3>2. Settles(rs, "sending") BY <2>3 DEF Take
    <3> HIDE DEF rs
    <3> QED BY <2>1, <3>1, <3>2, RowsAsCounted
  <2>4. CASE FinalizeCancelled(w)
    <3> DEFINE rest == IF note[w] = {} THEN {} ELSE Open
    <3>1. \A r \in rest \cap Recipients : delivery[r] \notin {"sent", "failed"}
      BY DEF Open, With
    <3>2. Settles(rest, "cancelled") BY <2>4 DEF FinalizeCancelled
    <3> HIDE DEF rest
    <3> QED BY <2>1, <3>1, <3>2, RowsAsCounted
  <2>5. CASE ~Requeue(w) /\ ~Take(w) /\ ~FinalizeCancelled(w)
    <3>1. UNCHANGED delivery
      BY <1>3, <2>5
      DEF RunStep, Acquire, NextJob, MarkRunning, Loop, Claim, BatchDone, CountOpen,
          FinalizeCompleted, CrashReplica, RunFails, LoseLock, RowsKept
    <3> QED BY <2>1, <3>1 DEF Counted, With
  <2> QED BY <2>2, <2>3, <2>4, <2>5
<1>4. ASSUME NEW t \in flight, Send(t) \/ MarkSent(t) \/ MarkRecipientFailed(t)
      PROVE  Counted'
  <2>1. CASE Finishes(t, "sent") \/ Finishes(t, "failed") BY <2>1, FinishCounts
  <2>2. CASE RowsKept /\ UNCHANGED job BY <2>2 DEF RowsKept, Counted, With
  <2> QED BY <1>4, <2>1, <2>2 DEF Send, MarkSent, MarkRecipientFailed
<1> QED BY <1>1, <1>2, <1>3, <1>4 DEF BroadcastNext

-----------------------------------------------------------------------------
(* The end.                                                                *)

(* Who is open was open, unless the job is created or a claim given up.    *)
LEMMA NobodyOpens ==
  ASSUME BroadcastTypeOK, [BroadcastNext]_broadcastVars, ~CreateJob, Open = {}
  PROVE  Open' = {}
<1>1. \A r \in Recipients : delivery[r] \notin {"pending", "sending"} BY DEF Open, With
<1>2. CASE RequestCancel \/ TenMinutes \/ Steady \/ UNCHANGED broadcastVars
  BY <1>2 DEF RequestCancel, TenMinutes, Steady, RowsKept, broadcastVars, Open, With
<1>3. ASSUME NEW w \in Replicas, RunStep(w) \/ CrashReplica(w) \/ RunFails(w) \/ LoseLock(w)
      PROVE  Open' = {}
  <2>1. CASE Requeue(w)
    BY <1>1, <2>1 DEF Requeue, Settles, GivenUp, Open, With
  <2>2. CASE Take(w)
    BY <1>1, <2>2 DEF Take, Settles, Open, With
  <2>3. CASE FinalizeCancelled(w)
    <3> DEFINE rest == IF note[w] = {} THEN {} ELSE Open
    <3>1. Settles(rest, "cancelled") BY <2>3 DEF FinalizeCancelled
    <3> HIDE DEF rest
    <3> QED BY <1>1, <3>1 DEF Settles, Open, With
  <2>4. CASE ~Requeue(w) /\ ~Take(w) /\ ~FinalizeCancelled(w)
    <3>1. UNCHANGED delivery
      BY <1>3, <2>4
      DEF RunStep, Acquire, NextJob, MarkRunning, Loop, Claim, BatchDone, CountOpen,
          FinalizeCompleted, CrashReplica, RunFails, LoseLock, RowsKept
    <3> QED BY <3>1 DEF Open, With
  <2> QED BY <2>1, <2>2, <2>3, <2>4
<1>4. ASSUME NEW t \in flight, Send(t) \/ MarkSent(t) \/ MarkRecipientFailed(t)
      PROVE  Open' = {}
  <2>1. ASSUME NEW status \in {"sent", "failed"}, Finishes(t, status) PROVE Open' = {}
    BY <1>1, <2>1 DEF Finishes, Settles, RowsKept, Open, With
  <2>2. CASE RowsKept BY <2>2 DEF RowsKept, Open, With
  <2> QED BY <1>4, <2>1, <2>2 DEF Send, MarkSent, MarkRecipientFailed
<1> QED BY <1>2, <1>3, <1>4 DEF BroadcastNext

(* A job ends by one of the two finalizations, or without an audience.     *)
LEMMA OverStep ==
  BroadcastTypeOK /\ OpenGone /\ NotYet /\ [BroadcastNext]_broadcastVars => OpenGone' /\ NotYet'
<1> SUFFICES ASSUME BroadcastTypeOK, OpenGone, NotYet, [BroadcastNext]_broadcastVars
             PROVE  OpenGone' /\ NotYet'
  OBVIOUS
<1>1. CASE CreateJob
  <2>1. PICK audience \in SUBSET Recipients :
          /\ Settles(audience, "pending")
          /\ job' = [job EXCEPT !.status = IF audience = {} THEN "completed" ELSE "queued"]
    BY <1>1 DEF CreateJob
  <2>2. job'.status = (IF audience = {} THEN "completed" ELSE "queued")
    BY <2>1 DEF BroadcastTypeOK
  <2>3. /\ \A r \in Recipients : delivery[r] = "out"
        /\ \A w \in Replicas : step[w] \in {"idle", "requeue", "next"}
    BY <1>1 DEF CreateJob, NotYet
  <2>4. UNCHANGED step BY <1>1 DEF CreateJob
  <2>5. audience = {} => Open' = {} BY <2>1, <2>3 DEF Settles, Open, With
  <2> QED BY <2>2, <2>3, <2>4, <2>5 DEF OpenGone, NotYet, Over
<1>2. CASE RequestCancel \/ TenMinutes \/ Steady \/ UNCHANGED broadcastVars
  <2>1. UNCHANGED <<delivery, step, note>>
        /\ (job' = job \/ (job.status # "none" /\ job'.status = "cancel_requested"))
    BY <1>2 DEF RequestCancel, TenMinutes, Steady, RowsKept, broadcastVars, BroadcastTypeOK
  <2>2. Open' = Open BY <2>1 DEF Open, With
  <2> QED BY <2>1, <2>2 DEF OpenGone, NotYet, Over
<1>3. ASSUME NEW w \in Replicas, RunStep(w) \/ CrashReplica(w) \/ RunFails(w) \/ LoseLock(w)
      PROVE  OpenGone' /\ NotYet'
  <2> USE DEF BroadcastTypeOK, Steps, Leaves
  <2>1. CreateJob => OpenGone' /\ NotYet' BY <1>1
  <2>2. SUFFICES ASSUME ~CreateJob PROVE OpenGone' /\ NotYet' BY <2>1
  <2>3. Open = {} => Open' = {} BY <2>2, NobodyOpens
  <2>4. CASE FinalizeCompleted(w)
    <3>1. /\ step[w] = "complete" /\ UNCHANGED delivery
          /\ job'.status =
               (IF note[w] = {} /\ job.status = "running" THEN "completed" ELSE job.status)
          /\ step' = [step EXCEPT ![w] = "idle"] /\ note' = [note EXCEPT ![w] = {}]
      BY <2>4 DEF FinalizeCompleted, RowsKept
    <3> QED BY <2>3, <3>1 DEF OpenGone, NotYet, Over
  <2>5. CASE FinalizeCancelled(w)
    <3> DEFINE outcome == IF note[w] = {} THEN "completed" ELSE "cancelled"
               rest == IF note[w] = {} THEN {} ELSE Open
    <3>1. /\ step[w] = "cancelled"
          /\ job'.status = (IF job.status = "cancel_requested" THEN outcome ELSE job.status)
          /\ Settles(rest, "cancelled")
          /\ step' = [step EXCEPT ![w] = "idle"] /\ note' = [note EXCEPT ![w] = {}]
      BY <2>5 DEF FinalizeCancelled
    <3>2. Open' = {}
      <4>1. CASE note[w] = {} BY <2>3, <3>1, <4>1 DEF OpenGone
      <4>2. CASE note[w] # {} BY <3>1, <4>2 DEF Settles, Open, With
      <4> QED BY <4>1, <4>2
    <3> HIDE DEF rest, outcome
    <3>3. job.status # "none" BY <3>1 DEF NotYet
    <3>4. job'.status # "none" BY <3>1, <3>3 DEF outcome
    <3> QED BY <3>1, <3>2, <3>4 DEF OpenGone, NotYet
  <2>6. CASE CountOpen(w)
    <3>1. /\ step[w] \in {"count", "cancel"} /\ UNCHANGED <<delivery, job>>
          /\ \A v \in Replicas \ {w} : step'[v] = step[v] /\ note'[v] = note[v]
          /\ step'[w] = "idle" \/ note'[w] = Open
      BY <2>6 DEF CountOpen, RowsKept, Open, With
    <3>2. Open' = Open BY <3>1 DEF Open, With
    <3> QED BY <3>1, <3>2 DEF OpenGone, NotYet, Over
  <2>7. CASE ~FinalizeCompleted(w) /\ ~FinalizeCancelled(w) /\ ~CountOpen(w)
    <3>1. /\ step'[w] \notin {"complete", "cancelled"} \/ UNCHANGED <<step, note>>
          /\ \A v \in Replicas \ {w} : step'[v] = step[v] /\ note'[v] = note[v]
          /\ job'.status = job.status
               \/ (step[w] = "mark" /\ job.status = "queued" /\ job'.status = "running")
      BY <1>3, <2>7
      DEF RunStep, Acquire, Requeue, NextJob, MarkRunning, Loop, Claim, Take, BatchDone,
          CrashReplica, RunFails, LoseLock
    <3>2. job.status = "none"
            => UNCHANGED delivery /\ step'[w] \in {"idle", "requeue", "next"}
      <4>1. SUFFICES ASSUME job.status = "none"
                     PROVE  UNCHANGED delivery /\ step'[w] \in {"idle", "requeue", "next"}
        OBVIOUS
      <4>2. step[w] \in {"idle", "requeue", "next"} BY <4>1 DEF NotYet
      <4>3. \A r \in Recipients : delivery[r] = "out" BY <4>1 DEF NotYet
      <4>4. CASE Requeue(w)
        BY <4>3, <4>4 DEF Requeue, Settles, GivenUp, With
      <4>5. CASE ~Requeue(w)
        BY <1>3, <2>7, <4>1, <4>2, <4>5
        DEF RunStep, Acquire, NextJob, MarkRunning, Loop, Claim, Take, BatchDone,
            CrashReplica, RunFails, LoseLock, RowsKept, Over
      <4> QED BY <4>4, <4>5
    <3> QED BY <2>3, <3>1, <3>2 DEF OpenGone, NotYet, Over
  <2> QED BY <2>4, <2>5, <2>6, <2>7
<1>4. ASSUME NEW t \in flight, Send(t) \/ MarkSent(t) \/ MarkRecipientFailed(t)
      PROVE  OpenGone' /\ NotYet'
  <2>1. job'.status = job.status /\ UNCHANGED note
    BY <1>4
    DEF Send, MarkSent, MarkRecipientFailed, Finishes, BroadcastTypeOK
  <2>2. \A w \in Replicas : step'[w] = step[w] \/ step'[w] = "idle"
    BY <1>4
    DEF Send, MarkSent, MarkRecipientFailed, Finishes, Throws, Leaves, Steps, BroadcastTypeOK
  <2>3. CASE CreateJob BY <1>1, <2>3
  <2>4. CASE ~CreateJob
    <3>1. Open = {} => Open' = {} BY <2>4, NobodyOpens
    <3>2. job.status = "none" => \A r \in Recipients : delivery'[r] = "out"
      BY <1>4
      DEF NotYet, Send, MarkSent, MarkRecipientFailed, Finishes, StillClaimed, RowsKept,
          BroadcastTypeOK, Tasks
    <3> QED BY <2>1, <2>2, <3>1, <3>2 DEF OpenGone, NotYet, Over
  <2> QED BY <2>3, <2>4
<1> QED BY <1>1, <1>2, <1>3, <1>4 DEF BroadcastNext

-----------------------------------------------------------------------------
LEMMA TypeStep == BroadcastTypeOK /\ [BroadcastNext]_broadcastVars => BroadcastTypeOK'
<1> SUFFICES ASSUME BroadcastTypeOK, [BroadcastNext]_broadcastVars PROVE BroadcastTypeOK'
  OBVIOUS
<1>1. CASE UNCHANGED broadcastVars BY <1>1 DEF broadcastVars, BroadcastTypeOK
<1> QED BY <1>1, AdminTyped, RunTyped, ConsumerTyped DEF BroadcastNext

LEMMA BroadcastStep == BroadcastInv /\ [BroadcastNext]_broadcastVars => BroadcastInv'
BY TypeStep, HandStep, CountStep, OverStep DEF BroadcastInv

(* The state of a broadcast is always of its type.                         *)
THEOREM BroadcastTyped == BroadcastSpec => []BroadcastTypeOK
<1>1. BroadcastInv => BroadcastTypeOK BY DEF BroadcastInv
<1> QED BY <1>1, BroadcastBegins, BroadcastStep, PTL DEF BroadcastSpec

(* The counters of a broadcast are its rows, a broadcast that is over      *)
(* leaves nobody open, who is shown as sent got the message, and only      *)
(* recipients in the hands of a run that was cut off get it twice, or get  *)
(* it and are shown as cancelled: for any audience, replicas and batches,  *)
(* and whatever subset of them loses the lock.                             *)
THEOREM BooksBalance == BroadcastSpec => []BroadcastBooks
<1>1. BroadcastInv => BroadcastBooks
  <2> SUFFICES ASSUME BroadcastInv PROVE BroadcastBooks OBVIOUS
  <2>1. Counted /\ (Over => Open = {}) BY DEF BroadcastInv, OpenGone
  <2>2. ASSUME NEW r \in Recipients
        PROVE  /\ delivery[r] = "sent" => mail[r] > 0
               /\ mail[r] > 1 \/ (delivery[r] = "cancelled" /\ mail[r] > 0) => r \in astray
    <3>1. mail[r] \in Nat BY DEF BroadcastInv, BroadcastTypeOK, MailCap
    <3> QED BY <3>1 DEF BroadcastInv, HandInv, MailTold
  <2> QED BY <2>1, <2>2 DEF BroadcastBooks, Counted
<1> QED BY <1>1, BroadcastBegins, BroadcastStep, PTL DEF BroadcastSpec
=============================================================================
