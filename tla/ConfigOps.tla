------------------------------ MODULE ConfigOps ------------------------------
(***************************************************************************)
(* The operations on a configuration other than its refund: reading it     *)
(* again, enabling and disabling, deletion by its owner or by the trial    *)
(* cleanup, transfer, consent to auto-renewal, renewal by hand or by the   *)
(* auto-renewal sweep, the subscription sync and the claim of a link.      *)
(* Each is a pipeline list - assess - read - lock - look - act - write, of *)
(* which it takes the steps that the code takes.                           *)
(***************************************************************************)
EXTENDS ConfigState

Owned == {"refresh", "consent", "transfer", "renew", "refund"}

(* Who pays for a renewal: the sweep takes the owner it has listed.        *)
Payer(p) == IF Kind(p) = "auto" THEN seen[p].row.owner ELSE op[p].by

(* The sweeps list rows before they turn to any of them.                   *)
List(p) ==
  /\ pc[p] = "list"
  /\ IF row.id # 0 /\ (Kind(p) = "auto" => row.auto # NoOne)
       THEN SeesRow(p) /\ Goes(p, "assess")
       ELSE ~Resident(p) /\ Ends(p, "done") /\ UNCHANGED seen
  /\ UNCHANGED <<panel, row, born, op, renewed>>

(* An operation that gives up; the sync turns to the next configuration.   *)
Leaves(p) == IF Resident(p) THEN Goes(p, "list") ELSE Ends(p, "refused")

(* What a sweep or a claim decides on, outside the config lock.            *)
AfterAssess(p) ==
  CASE Kind(p) = "sync" -> {"write"}
    [] Kind(p) = "claim" -> IF Gone \/ row.id # 0 THEN {"refused"} ELSE {"write"}
    [] Kind(p) = "cleanup" -> IF Gone \/ panel.ends = "past" THEN {"read"} ELSE {"done"}
    [] Kind(p) = "auto" -> IF Gone THEN {"done"} ELSE {"done", "off", "lock"}

Assess(p) ==
  /\ pc[p] = "assess"
  /\ \/ SeesPanel(p) /\ \E next \in AfterAssess(p) : Goes(p, next)
     \/ Faulty /\ Leaves(p) /\ UNCHANGED seen
  /\ UNCHANGED <<panel, row, born, op, renewed>>

(* The package is gone or dearer than agreed: auto-renewal is switched off *)
(* for the row listed, whatever has become of it since.                    *)
SwitchOff(p) ==
  /\ pc[p] = "off"
  /\ row' = IF SameRow(p) THEN [row EXCEPT !.auto = NoOne] ELSE row
  /\ Ends(p, "done")
  /\ UNCHANGED <<panel, born, op, seen, renewed>>

Read(p) ==
  /\ pc[p] = "read"
  /\ IF row.id # 0 /\ (Kind(p) \in Owned => row.owner = op[p].by)
       THEN SeesRow(p) /\ Goes(p, IF Kind(p) = "refund" THEN "judge" ELSE "lock")
       ELSE Ends(p, "refused") /\ UNCHANGED seen
  /\ UNCHANGED <<panel, row, born, op, renewed>>

Lock(p) ==
  /\ TakeLock(p, CASE Kind(p) = "refund" -> "acquire"
                   [] Kind(p) = "consent" -> "write"
                   [] OTHER -> "locked")
  /\ UNCHANGED <<panel, row, born, op, seen, renewed>>

-----------------------------------------------------------------------------
(* Under the lock.                                                         *)

(* Refresh and the purchase saga read the binding again, the others rely   *)
(* on the row they have read before.                                       *)
Renews(p) == Kind(p) \in {"renew", "auto"}
Binding(p) == IF Renews(p) THEN row ELSE seen[p].row
StillBound(p) ==
  /\ Kind(p) \in {"refresh", "renew", "auto"} => row.id # 0 /\ row.owner = Payer(p)
  /\ Kind(p) = "refresh" => SameRow(p)

Deletes(p) == Kind(p) \in {"delete", "cleanup"}

MarkStale(p) == row' = IF SameRow(p) THEN [row EXCEPT !.status = "deleted"] ELSE row

Look(p) ==
  /\ pc[p] = "locked"
  /\ \/ /\ StillBound(p) /\ ~Gone /\ Ours(Binding(p))
        /\ SeesPanel(p)
        /\ Goes(p, IF Kind(p) \in {"refresh", "transfer"} THEN "write" ELSE "act")
        /\ UNCHANGED row
     \/ /\ StillBound(p) /\ (Gone \/ ~Ours(Binding(p)))
        /\ IF Deletes(p) THEN Goes(p, "write") ELSE Ends(p, "refused")
        /\ IF ~Gone /\ Kind(p) \in {"toggle", "refresh"} THEN MarkStale(p) ELSE UNCHANGED row
        /\ UNCHANGED seen
     \/ /\ Faulty \/ ~StillBound(p)
        /\ Ends(p, "refused")
        /\ UNCHANGED <<row, seen>>
  /\ UNCHANGED <<panel, born, op, renewed>>

(* The panel user after the remote call of this operation.                 *)
Acted(p) ==
  CASE Deletes(p) -> [panel EXCEPT !.state = "gone"]
    [] Kind(p) = "toggle" ->
         [panel EXCEPT !.state = IF seen[p].panel.state = "disabled"
                                   THEN "active" ELSE "disabled"]
    [] Renews(p) ->
         [panel EXCEPT !.state = "active", !.used = FALSE, !.ends = "future"]

(* A call that fails may have been applied; a deletion takes a 404 for     *)
(* success.  A renewal whose answer is lost is left to the purchase saga.  *)
Act(p) ==
  /\ pc[p] = "act"
  /\ \/ /\ ~Gone
        /\ panel' = Acted(p)
        /\ seen' = [seen EXCEPT ![p].panel = GlanceAt(Acted(p))]
        /\ Goes(p, "write")
     \/ /\ Gone
        /\ IF Deletes(p) THEN Goes(p, "write") ELSE Ends(p, "refused")
        /\ UNCHANGED <<panel, seen>>
     \/ /\ Faulty
        /\ panel' \in {panel} \cup
             (IF Gone \/ Renews(p) THEN {} ELSE {Acted(p)})
        /\ Ends(p, "refused")
        /\ UNCHANGED seen
  /\ UNCHANGED <<row, born, op, renewed>>

-----------------------------------------------------------------------------
(* The transaction at the end of each operation.                           *)

Observed(r) == IF r.state = "gone" THEN "deleted" ELSE r.state

(* Mutant: a missing panel user is not worth an update.                    *)
CacheLive(p) ==
  /\ Kind(p) \in {"toggle", "refresh", "sync"}
  /\ row' = IF SameRow(p) /\ seen[p].panel.state # "gone"
              THEN [row EXCEPT !.status = Observed(seen[p].panel)] ELSE row
  /\ IF SameRow(p) /\ ~Resident(p) THEN Ends(p, "done") ELSE Leaves(p)
  /\ UNCHANGED <<born, renewed>>

Cache(p) ==
  /\ Kind(p) \in {"toggle", "refresh", "sync"}
  /\ row' = IF SameRow(p) THEN [row EXCEPT !.status = Observed(seen[p].panel)] ELSE row
  /\ IF SameRow(p) /\ ~Resident(p) THEN Ends(p, "done") ELSE Leaves(p)
  /\ UNCHANGED <<born, renewed>>

Unbind(p) ==
  /\ Deletes(p)
  /\ row' = IF SameRow(p) THEN NoRow ELSE row
  /\ Ends(p, "done")
  /\ UNCHANGED <<born, renewed>>

Move(p) ==
  /\ Kind(p) = "transfer"
  /\ IF SameRow(p) /\ row.owner = seen[p].row.owner
       THEN /\ row' = [row EXCEPT !.owner = op[p].to, !.auto = NoOne]
            /\ Ends(p, "done")
       ELSE UNCHANGED row /\ Ends(p, "refused")
  /\ UNCHANGED <<born, renewed>>

(* Mutant: the UPDATE finds its row by id alone.                           *)
ConsentById(p) ==
  /\ Kind(p) = "consent"
  /\ IF SameRow(p)
       THEN /\ \E who \in {op[p].by, NoOne} : row' = [row EXCEPT !.auto = who]
            /\ Ends(p, "done")
       ELSE UNCHANGED row /\ Ends(p, "refused")
  /\ UNCHANGED <<born, renewed>>

Consent(p) ==
  /\ Kind(p) = "consent"
  /\ IF SameRow(p) /\ row.owner = op[p].by
       THEN /\ \E who \in {op[p].by, NoOne} : row' = [row EXCEPT !.auto = who]
            /\ Ends(p, "done")
       ELSE UNCHANGED row /\ Ends(p, "refused")
  /\ UNCHANGED <<born, renewed>>

(* INSERT ... ON CONFLICT DO NOTHING.                                      *)
Bind(p) ==
  /\ Kind(p) = "claim"
  /\ IF row.id = 0
       THEN /\ born < MaxRow
            /\ born' = born + 1
            /\ row' = [id |-> born', owner |-> op[p].by, made |-> seen[p].panel.made,
                       status |-> Observed(seen[p].panel), auto |-> NoOne]
            /\ Ends(p, "done")
       ELSE UNCHANGED <<row, born>> /\ Ends(p, "refused")
  /\ UNCHANGED renewed

(* The commit of the purchase saga: the binding must still be the payer's. *)
Charge(p) ==
  /\ Renews(p)
  /\ IF row.id # 0 /\ row.owner = Payer(p)
       THEN renewed' = renewed \cup {p} /\ Ends(p, "done")
       ELSE UNCHANGED renewed /\ Ends(p, "refused")
  /\ UNCHANGED <<row, born>>

Write(p) ==
  /\ pc[p] = "write"
  /\ Cache(p) \/ Unbind(p) \/ Move(p) \/ Consent(p) \/ Bind(p) \/ Charge(p)
  /\ UNCHANGED <<panel, op, seen>>

ConfigStep(p) ==
  \/ List(p) \/ Assess(p) \/ SwitchOff(p) \/ Read(p)
  \/ Lock(p) \/ LockBusy(p) \/ Look(p) \/ Act(p) \/ Write(p)
=============================================================================
