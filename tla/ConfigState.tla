----------------------------- MODULE ConfigState -----------------------------
(***************************************************************************)
(* What the operations on one sold configuration share: the user on the    *)
(* Rebecca panel, the row of user_configs that binds it to its owner, the  *)
(* advisory config lock, and what every running operation has read so far. *)
(* ConfigOps and Refund add the operations, ConfigLife composes them.      *)
(***************************************************************************)
EXTENDS Naturals, FiniteSets

CONSTANTS
  Users,      \* buyers and owners
  NoOne,      \* no user
  Seller,     \* owner of the configuration when the behaviour begins
  Procs,      \* operations that may run at the same time
  Mixes,      \* which operations these are: a set of functions on Procs
  Faults,     \* subset of {"panel", "crash", "stall", "db"}
  MaxRow      \* bound on how many rows bind the username, one after the other

Kinds == {"toggle", "refresh", "delete", "cleanup", "transfer", "consent", "renew",
          "auto", "sync", "claim", "refund", "sweeper", "bonus"}

ASSUME ConfigAssumption ==
  /\ Seller \in Users
  /\ NoOne \notin Users
  /\ "free" \notin Procs
  /\ MaxRow \in Nat \ {0}
  /\ Mixes \subseteq [Procs -> [kind : Kinds, by : Users, to : Users]]
  /\ Faults \subseteq {"panel", "crash", "stall", "db"}

VARIABLES
  panel,   \* the panel user: "gone" is a 404 and the status deleted alike
  row,     \* the binding; id 0 is no row, auto is who agreed to auto-renewal
  born,    \* how many rows there have been
  lock,    \* holder of the config lock
  op,      \* the operation each process runs
  pc,      \* and how far it got
  seen,    \* the row and the panel user it has read
  renewed  \* renewals that were charged

configVars == <<panel, row, born, lock, op, pc, seen, renewed>>

(* The panel user and the row, and what operations remember of them.       *)
PanelUser == [state : {"active", "disabled", "gone"}, made : 0..1,
              used : BOOLEAN, ends : {"past", "future"}]
Row == [id : 0..MaxRow, owner : Users \cup {NoOne}, made : 0..1,
        status : {"active", "disabled", "deleted"}, auto : Users \cup {NoOne}]
Glance == [state : {"active", "disabled", "gone"}, made : 0..1]
Key == [id : 0..MaxRow, owner : Users \cup {NoOne}, made : 0..1]
NoRow == [id |-> 0, owner |-> NoOne, made |-> 0, status |-> "deleted", auto |-> NoOne]

Steps == {"list", "assess", "read", "lock", "locked", "act", "write", "off",
          "judge", "price", "acquire", "arm", "verify", "armDelete", "erase", "settle", "mark",
          "claim", "peek", "finish", "abandon", "award", "pay",
          "done", "refused", "pending", "dead"}

First(kind) ==
  CASE kind \in {"sync", "auto", "cleanup"} -> "list"
    [] kind = "claim" -> "assess"
    [] kind = "sweeper" -> "claim"
    [] kind = "bonus" -> "award"
    [] OTHER -> "read"

KeyOf(r) == [id |-> r.id, owner |-> r.owner, made |-> r.made]
GlanceAt(r) == [state |-> r.state, made |-> r.made]

ConfigInit ==
  /\ panel = [state |-> "active", made |-> 0, used |-> FALSE, ends |-> "future"]
  /\ row = [id |-> 1, owner |-> Seller, made |-> 0, status |-> "active", auto |-> NoOne]
  /\ born = 1
  /\ lock = "free"
  /\ op \in Mixes
  /\ pc = [p \in Procs |-> First(op[p].kind)]
  /\ seen = [p \in Procs |-> [row |-> KeyOf(row), panel |-> GlanceAt(panel)]]
  /\ renewed = {}

ConfigTypeOK ==
  /\ panel \in PanelUser
  /\ row \in Row
  /\ born \in 1..MaxRow
  /\ lock \in Procs \cup {"free"}
  /\ op \in [Procs -> [kind : Kinds, by : Users, to : Users]]
  /\ pc \in [Procs -> Steps]
  /\ seen \in [Procs -> [row : Key, panel : Glance]]
  /\ renewed \subseteq Procs

Kind(p) == op[p].kind
Ended == {"done", "refused", "pending", "dead"}

Goes(p, step) == pc' = [pc EXCEPT ![p] = step] /\ UNCHANGED lock
Ends(p, how) ==
  /\ pc' = [pc EXCEPT ![p] = how]
  /\ lock' = IF lock = p THEN "free" ELSE lock

Gone == panel.state = "gone"
Faulty == "panel" \in Faults

(* verifyOrEstablishConfigIncarnation with a stored created: fingerprint.  *)
Ours(r) == panel.made = r.made

(* The row this operation has read is still there.                         *)
SameRow(p) == row.id # 0 /\ row.id = seen[p].row.id

SeesRow(p) == seen' = [seen EXCEPT ![p].row = KeyOf(row)]
SeesPanel(p) == seen' = [seen EXCEPT ![p].panel = GlanceAt(panel)]

(* withConfigLock: a contender does not wait.                              *)
TakeLock(p, next) ==
  /\ pc[p] = "lock" /\ lock = "free"
  /\ lock' = p
  /\ pc' = [pc EXCEPT ![p] = next]
LockBusy(p) ==
  /\ pc[p] = "lock" /\ lock # "free"
  /\ Ends(p, "refused")
  /\ UNCHANGED <<panel, row, born, op, seen, renewed>>

(* The process dies; PostgreSQL frees the lock of its session.  The sweeps *)
(* of the reconciliation run again.                                        *)
Resident(p) == Kind(p) \in {"sync", "sweeper"}

Crash(p) ==
  /\ "crash" \in Faults /\ pc[p] \notin Ended
  /\ Ends(p, IF Resident(p) THEN First(Kind(p)) ELSE "dead")
  /\ UNCHANGED <<panel, row, born, op, seen, renewed>>

-----------------------------------------------------------------------------
(* The world outside: the owner uses the service, time passes, and the     *)
(* administrator of the panel edits, removes and re-creates the user.  Of  *)
(* use only refunds take notice, and of the expiry only the trial cleanup. *)
World ==
  /\ \/ /\ panel.state = "active" /\ \E p \in Procs : Kind(p) = "refund"
        /\ panel' = [panel EXCEPT !.used = TRUE]
     \/ /\ ~Gone /\ \E p \in Procs : Kind(p) = "cleanup"
        /\ panel' = [panel EXCEPT !.ends = "past"]
     \/ /\ ~Gone /\ panel' = [panel EXCEPT !.state = "gone"]
     \/ /\ Gone /\ panel.made = 0
        /\ panel' = [state |-> "active", made |-> 1, used |-> FALSE, ends |-> "future"]
  /\ panel' # panel
  /\ UNCHANGED <<row, born, lock, op, pc, seen, renewed>>
=============================================================================
