------------------------------ MODULE Broadcast ------------------------------
(***************************************************************************)
(* A broadcast (BroadcastService, jobs/broadcast.ts, jobs/workerRuntime.ts):*)
(* replicas that take turns under the advisory lock of the job, claim its  *)
(* recipients in batches and send to them concurrently.  A consumer of     *)
(* forEachConcurrent outlives its run when another one has thrown.         *)
(***************************************************************************)
EXTENDS Naturals, FiniteSets

CONSTANTS
  Recipients,      \* users that may be in the audience
  Replicas,        \* processes that poll for work
  Stray,           \* consumers whose run has ended under them
  NoReplica,       \* nobody holds the advisory lock
  BatchSize,       \* recipients claimed at once
  BroadcastFaults, \* subset of {"crash", "db", "doubt"}
  LosesLock        \* replicas whose session with the lock may end

ASSUME BroadcastAssumption ==
  /\ IsFiniteSet(Recipients) /\ BatchSize \in Nat \ {0}
  /\ Stray \notin Replicas /\ NoReplica \notin Replicas
  /\ BroadcastFaults \subseteq {"crash", "db", "doubt"} /\ LosesLock \subseteq Replicas

VARIABLES
  job,       \* the row of broadcast_jobs
  delivery,  \* status of the rows of broadcast_recipients; "out": no row
  stale,     \* claims older than ten minutes
  flight,    \* what consumers have in hand
  seat,      \* who holds the advisory lock
  step,      \* where the run of a replica stands
  note,      \* the recipients a run has just read
  mail,      \* messages a recipient got, up to MailCap
  astray,    \* history: recipients in the hands of a run that was cut off
  steady     \* the faults are over

broadcastVars == <<job, delivery, stale, flight, seat, step, note, mail, astray, steady>>

MailCap == 2
Tasks == [by : Replicas \cup {Stray}, to : Recipients, is : {"queued", "told", "refused"}]

BroadcastTypeOK ==
  /\ job \in [status : {"none", "queued", "running", "cancel_requested", "cancelled",
                        "completed"},
              sent : Nat, failed : Nat]
  /\ delivery \in [Recipients -> {"out", "pending", "sending", "sent", "failed", "cancelled"}]
  /\ stale \subseteq Recipients /\ astray \subseteq Recipients
  /\ flight \subseteq Tasks
  /\ seat \in Replicas \cup {NoReplica}
  /\ step \in [Replicas -> {"idle", "requeue", "next", "mark", "loop", "claim", "take",
                            "sending", "count", "complete", "cancel", "cancelled"}]
  /\ note \in [Replicas -> SUBSET Recipients]
  /\ mail \in [Recipients -> 0..MailCap]
  /\ steady \in BOOLEAN

BroadcastInit ==
  /\ job = [status |-> "none", sent |-> 0, failed |-> 0]
  /\ delivery = [r \in Recipients |-> "out"]
  /\ stale = {} /\ flight = {} /\ astray = {}
  /\ seat = NoReplica
  /\ step = [w \in Replicas |-> "idle"]
  /\ note = [w \in Replicas |-> {}]
  /\ mail = [r \in Recipients |-> 0]
  /\ steady = FALSE

Fails(f) == ~steady /\ f \in BroadcastFaults
With(status) == {r \in Recipients : delivery[r] = status}
Open == With("pending") \cup With("sending")
InHand(by) == {t \in flight : t.by = by}
To(tasks) == {t.to : t \in tasks}
Over == job.status \in {"cancelled", "completed"}

Steps(w, place) == step' = [step EXCEPT ![w] = place]
Leaves(w) == Steps(w, "idle") /\ seat' = IF seat = w THEN NoReplica ELSE seat
RowsKept == UNCHANGED <<delivery, stale>>
MailKept == UNCHANGED <<flight, mail>>
Settles(rs, status) ==
  /\ delivery' = [r \in Recipients |-> IF r \in rs THEN status ELSE delivery[r]]
  /\ stale' = stale \ rs

-----------------------------------------------------------------------------
(* Administrators.                                                         *)

CreateJob ==
  /\ job.status = "none"
  /\ \E audience \in SUBSET Recipients :
       /\ Settles(audience, "pending")
       /\ job' = [job EXCEPT !.status = IF audience = {} THEN "completed" ELSE "queued"]
  /\ MailKept /\ UNCHANGED <<seat, step, note, astray, steady>>

RequestCancel ==
  /\ job.status \in {"queued", "running"}
  /\ job' = [job EXCEPT !.status = "cancel_requested"]
  /\ RowsKept /\ MailKept /\ UNCHANGED <<seat, step, note, astray, steady>>

-----------------------------------------------------------------------------
(* A run: JobRunner.run around processNextBroadcast.                       *)

(* Mutant: without the advisory lock every replica is let in.              *)
LetInAll(w) == TRUE

LetIn(w) == seat = NoReplica

Acquire(w) ==
  /\ step[w] = "idle" /\ LetIn(w)
  /\ seat' = w
  /\ Steps(w, "requeue")
  /\ RowsKept /\ MailKept /\ UNCHANGED <<job, note, astray, steady>>

(* Mutant: the claims of a run that died are left to it.                   *)
GivenUpNever == {}

(* requeueStaleClaims.                                                     *)
GivenUp == stale \cap With("sending")

Requeue(w) ==
  /\ step[w] = "requeue"
  /\ Settles(GivenUp, "pending")
  /\ astray' = IF seat = w THEN astray ELSE astray \cup GivenUp
  /\ Steps(w, "next")
  /\ MailKept /\ UNCHANGED <<job, seat, note, steady>>

NextJob(w) ==
  /\ step[w] = "next"
  /\ \/ /\ job.status = "none" \/ Over
        /\ Leaves(w)
     \/ /\ job.status = "cancel_requested"
        /\ Steps(w, "cancel") /\ UNCHANGED seat
     \/ /\ job.status \in {"queued", "running"}
        /\ Steps(w, "mark") /\ UNCHANGED seat
  /\ RowsKept /\ MailKept /\ UNCHANGED <<job, note, astray, steady>>

MarkRunning(w) ==
  /\ step[w] = "mark"
  /\ job' = [job EXCEPT !.status = IF @ = "queued" THEN "running" ELSE @]
  /\ Steps(w, IF job.status = "cancel_requested" THEN "cancel" ELSE "loop")
  /\ RowsKept /\ MailKept /\ UNCHANGED <<seat, note, astray, steady>>

Loop(w) ==
  /\ step[w] = "loop"
  /\ \/ Over /\ Leaves(w)
     \/ job.status = "cancel_requested" /\ Steps(w, "cancel") /\ UNCHANGED seat
     \/ job.status \in {"queued", "running"} /\ Steps(w, "claim") /\ UNCHANGED seat
  /\ RowsKept /\ MailKept /\ UNCHANGED <<job, note, astray, steady>>

(* claimBatch: the candidates, and those of them that are still pending.   *)
Claim(w) ==
  /\ step[w] = "claim"
  /\ \E rs \in SUBSET With("pending") :
       /\ Cardinality(rs) <= BatchSize
       /\ Cardinality(rs) < BatchSize => rs = With("pending")
       /\ note' = [note EXCEPT ![w] = rs]
  /\ Steps(w, "take")
  /\ RowsKept /\ MailKept /\ UNCHANGED <<job, seat, astray, steady>>

Take(w) ==
  LET rs == note[w] \cap With("pending") IN
  /\ step[w] = "take"
  /\ Settles(rs, "sending")
  /\ flight' = flight \cup [by : {w}, to : rs, is : {"queued"}]
  /\ astray' = IF seat = w THEN astray ELSE astray \cup rs
  /\ Steps(w, IF rs = {} THEN "count" ELSE "sending")
  /\ note' = [note EXCEPT ![w] = {}]
  /\ UNCHANGED <<job, seat, mail, steady>>

BatchDone(w) ==
  /\ step[w] = "sending" /\ InHand(w) = {}
  /\ Steps(w, "loop")
  /\ RowsKept /\ MailKept /\ UNCHANGED <<job, seat, note, astray, steady>>

(* finalizeCompleted and finalizeCancelled count what is open first ...    *)
CountOpen(w) ==
  /\ step[w] \in {"count", "cancel"}
  /\ IF step[w] = "cancel" /\ job.status # "cancel_requested"
       THEN Leaves(w) /\ UNCHANGED note
       ELSE /\ Steps(w, IF step[w] = "count" THEN "complete" ELSE "cancelled")
            /\ note' = [note EXCEPT ![w] = Open]
            /\ UNCHANGED seat
  /\ RowsKept /\ MailKept /\ UNCHANGED <<job, astray, steady>>

(* ... and write afterwards.                                               *)
FinalizeCompleted(w) ==
  /\ step[w] = "complete"
  /\ job' = [job EXCEPT !.status = IF note[w] = {} /\ @ = "running" THEN "completed" ELSE @]
  /\ Leaves(w)
  /\ note' = [note EXCEPT ![w] = {}]
  /\ RowsKept /\ MailKept /\ UNCHANGED <<astray, steady>>

FinalizeCancelled(w) ==
  LET outcome == IF note[w] = {} THEN "completed" ELSE "cancelled"
      rest == IF note[w] = {} THEN {} ELSE Open IN
  /\ step[w] = "cancelled"
  /\ job' = [job EXCEPT !.status = IF @ = "cancel_requested" THEN outcome ELSE @]
  /\ Settles(rest, "cancelled")
  /\ astray' = IF seat = w THEN astray ELSE astray \cup rest
  /\ Leaves(w)
  /\ note' = [note EXCEPT ![w] = {}]
  /\ MailKept /\ UNCHANGED steady

-----------------------------------------------------------------------------
(* The consumers.                                                          *)

Puts(t, is) == flight' = (flight \ {t}) \cup {[t EXCEPT !.is = is]}
Gets(r) == mail' = [mail EXCEPT ![r] = IF @ < MailCap THEN @ + 1 ELSE @]

(* sendMessage: delivered, refused, or delivered without an answer.        *)
Send(t) ==
  /\ t.is = "queued"
  /\ \/ Puts(t, "told") /\ Gets(t.to)
     \/ Puts(t, "refused") /\ UNCHANGED mail
     \/ Fails("doubt") /\ Puts(t, "refused") /\ Gets(t.to)
  /\ RowsKept /\ UNCHANGED <<job, seat, step, note, astray, steady>>

(* The run of t throws: what it has in hand goes on without it.            *)
Throws(t) ==
  LET rest == InHand(t.by) \ {t} IN
  /\ flight' = (flight \ InHand(t.by)) \cup {[r EXCEPT !.by = Stray] : r \in rest}
  /\ astray' = astray \cup To(InHand(t.by))
  /\ IF t.by = Stray THEN UNCHANGED <<step, seat>> ELSE Leaves(t.by)

StillClaimed(r) == delivery[r] = "sending"

Finishes(t, status) ==
  /\ flight' = flight \ {t}
  /\ IF StillClaimed(t.to)
       THEN /\ Settles({t.to}, status)
            /\ job' = IF status = "sent" THEN [job EXCEPT !.sent = @ + 1]
                                         ELSE [job EXCEPT !.failed = @ + 1]
       ELSE RowsKept /\ UNCHANGED job

MarkSent(t) ==
  /\ t.is = "told"
  /\ \/ Finishes(t, "sent")
     \/ Fails("db") /\ Puts(t, "refused") /\ RowsKept /\ UNCHANGED job
  /\ UNCHANGED <<seat, step, note, mail, astray, steady>>

MarkRecipientFailed(t) ==
  /\ t.is = "refused"
  /\ \/ Finishes(t, "failed") /\ UNCHANGED <<seat, step, astray>>
     \/ Fails("db") /\ Throws(t) /\ RowsKept /\ UNCHANGED job
  /\ UNCHANGED <<note, mail, steady>>

-----------------------------------------------------------------------------
(* Faults and time.                                                        *)

(* A replica dies with what it has in hand, strays included.               *)
CrashReplica(w) ==
  /\ Fails("crash") /\ step[w] # "idle"
  /\ \E lost \in {{}, InHand(Stray)} : flight' = flight \ (InHand(w) \cup lost)
  /\ astray' = astray \cup To(InHand(w))
  /\ Leaves(w)
  /\ note' = [note EXCEPT ![w] = {}]
  /\ RowsKept /\ UNCHANGED <<job, mail, steady>>

(* The database fails the run between two batches.                         *)
RunFails(w) ==
  /\ Fails("db") /\ step[w] \notin {"idle", "sending"}
  /\ Leaves(w)
  /\ note' = [note EXCEPT ![w] = {}]
  /\ RowsKept /\ MailKept /\ UNCHANGED <<job, astray, steady>>

(* The session of the advisory lock ends; its run does not notice.         *)
LoseLock(w) ==
  /\ ~steady /\ w \in LosesLock /\ seat = w
  /\ seat' = NoReplica
  /\ astray' = astray \cup To(InHand(w))
  /\ RowsKept /\ MailKept /\ UNCHANGED <<job, step, note, steady>>

(* Ten minutes; a consumer may sleep that long on a rate limit, until the  *)
(* faults are over.                                                        *)
TenMinutes ==
  /\ steady => flight = {}
  /\ With("sending") \ stale # {}
  /\ stale' = With("sending")
  /\ MailKept /\ UNCHANGED <<job, delivery, seat, step, note, astray, steady>>

Steady ==
  /\ ~steady /\ steady' = TRUE
  /\ RowsKept /\ MailKept /\ UNCHANGED <<job, seat, step, note, astray>>

RunStep(w) ==
  \/ Acquire(w) \/ Requeue(w) \/ NextJob(w) \/ MarkRunning(w) \/ Loop(w) \/ Claim(w)
  \/ Take(w) \/ BatchDone(w) \/ CountOpen(w) \/ FinalizeCompleted(w) \/ FinalizeCancelled(w)

Consumers == \E t \in flight : Send(t) \/ MarkSent(t) \/ MarkRecipientFailed(t)

BroadcastNext ==
  \/ CreateJob \/ RequestCancel
  \/ \E w \in Replicas : RunStep(w) \/ CrashReplica(w) \/ RunFails(w) \/ LoseLock(w)
  \/ \E t \in flight : Send(t) \/ MarkSent(t) \/ MarkRecipientFailed(t)
  \/ TenMinutes \/ Steady

BroadcastSpec == BroadcastInit /\ [][BroadcastNext]_broadcastVars

-----------------------------------------------------------------------------
(* Properties.                                                             *)

(* The books of a broadcast: its counters are its rows, one that is over   *)
(* leaves nobody open, who is shown as sent got the message, and nobody    *)
(* gets it twice, or gets it and is shown as cancelled, but the recipients *)
(* in the hands of a run that died, threw or lost its lock.                *)
BroadcastBooks ==
  /\ job.sent = Cardinality(With("sent")) /\ job.failed = Cardinality(With("failed"))
  /\ Over => Open = {}
  /\ \A r \in Recipients :
       /\ delivery[r] = "sent" => mail[r] > 0
       /\ mail[r] > 1 \/ (delivery[r] = "cancelled" /\ mail[r] > 0) => r \in astray

(* A broadcast ends, cancelled or not, whatever runs died on the way.      *)
BroadcastEnds == job.status = "queued" ~> Over
=============================================================================
