-------------------------------- MODULE Trial --------------------------------
(***************************************************************************)
(* The free trial of one user (TrialService): calls of claimTrial, each    *)
(* with a config name of its own, and the sweep that recovers claims whose *)
(* outcome is unknown, around the one row of trial_claims that a user has. *)
(* A process goes from one await to the next; the finalization is a        *)
(* transaction that reads the claim before it locks anything.              *)
(***************************************************************************)
EXTENDS FiniteSets

CONSTANTS
  Claimants,    \* calls of claimTrial; a call is also the name it asks for
  Sweeper,      \* the recovery sweep
  NoClaim,      \* no config name
  TrialFaults   \* subset of {"panel", "late", "crash", "db", "stall"}

ASSUME TrialAssumption ==
  /\ Sweeper \notin Claimants
  /\ NoClaim \notin Claimants \cup {Sweeper}
  /\ TrialFaults \subseteq {"panel", "late", "crash", "db", "stall"}

VARIABLES
  claim,     \* the row of trial_claims; old: updated_at is five minutes ago
  used,      \* users.has_used_trial, set together with the audit row
  bound,     \* config names bound to the user
  account,   \* what the panel has under each name
  late,      \* creations the panel has received and not yet carried out
  at,        \* where each process stands
  copy,      \* the claim as a process has read it
  mode,      \* what it is about: "create", "recover" or "undo"
  answer,    \* what a caller was told
  calm,      \* the faults are over
  slept      \* history: a process stood still for five minutes

trialVars == <<claim, used, bound, account, late, at, copy, mode, answer, calm, slept>>

Workers == Claimants \cup {Sweeper}
ClaimStatus == {"none", "pending", "compensating", "review_required", "completed",
                "converted", "failed"}
ClaimRow == [status : ClaimStatus, name : Claimants \cup {NoClaim}, old : BOOLEAN]

Places == {"reserve", "existing", "list", "create", "inspect", "fail", "review", "read",
           "commit", "compensate", "recheck", "delete", "restore", "withdraw", "end", "dead"}

TrialTypeOK ==
  /\ claim \in ClaimRow
  /\ used \in BOOLEAN
  /\ bound \subseteq Claimants
  /\ account \in [Claimants -> {"absent", "ours", "foreign"}]
  /\ late \subseteq Claimants
  /\ at \in [Workers -> Places]
  /\ copy \in [Workers -> ClaimRow]
  /\ mode \in [Workers -> {"create", "recover", "undo"}]
  /\ answer \in [Claimants -> {"none", "success", "used", "failed"}]
  /\ calm \in BOOLEAN /\ slept \in BOOLEAN

Unclaimed == [status |-> "none", name |-> NoClaim, old |-> FALSE]

TrialInit ==
  /\ claim = Unclaimed
  /\ used = FALSE /\ bound = {} /\ late = {}
  /\ account \in [Claimants -> {"absent", "foreign"}]
  /\ at = [p \in Workers |-> IF p = Sweeper THEN "list" ELSE "reserve"]
  /\ copy = [p \in Workers |-> Unclaimed]
  /\ mode = [p \in Workers |-> "recover"]
  /\ answer = [p \in Claimants |-> "none"]
  /\ calm = FALSE /\ slept = FALSE

Fault(f) == ~calm /\ f \in TrialFaults

Moves(p, place) == at' = [at EXCEPT ![p] = place] /\ UNCHANGED answer

(* A call answers; the sweep turns to its next run.                        *)
Tells(p, what) ==
  IF p = Sweeper
    THEN Moves(p, "list")
    ELSE /\ at' = [at EXCEPT ![p] = "end"]
         /\ answer' = [answer EXCEPT ![p] = what]

Name(p) == copy[p].name
RowsSame == UNCHANGED <<used, bound>>
PanelSame == UNCHANGED <<account, late>>
SelfSame == UNCHANGED <<copy, mode, calm, slept>>
Still(p) == claim.status = "pending" /\ claim.name = Name(p)

(* UPDATE trial_claims SET status WHERE the name is p's and the status one *)
(* of `from`.                                                              *)
Turns(p, from, to) ==
  claim' = IF claim.status \in from /\ claim.name = Name(p)
             THEN [claim EXCEPT !.status = to, !.old = FALSE] ELSE claim

-----------------------------------------------------------------------------
(* reserveClaim: insert the row, or open a failed one again.               *)
Reservable == claim.status \in {"none", "failed"}

Reserve(p) ==
  /\ at[p] = "reserve"
  /\ \/ /\ used
        /\ Tells(p, "used")
        /\ UNCHANGED <<claim, copy, mode>>
     \/ /\ ~used /\ Reservable
        /\ claim' = [status |-> "pending", name |-> p, old |-> FALSE]
        /\ copy' = [copy EXCEPT ![p] = claim']
        /\ mode' = [mode EXCEPT ![p] = "create"]
        /\ Moves(p, "create")
     \/ /\ ~used /\ ~Reservable
        /\ Moves(p, "existing")
        /\ UNCHANGED <<claim, copy, mode>>
  /\ RowsSame /\ PanelSame /\ UNCHANGED <<calm, slept>>

(* Mutant: a compensation that broke off is nobody's to take up.           *)
RecoversPending(p, row) == row.status \notin {"review_required", "compensating"}

(* Where recoverClaim begins, for a claim as it was read.                  *)
Recovers(p, row) ==
  CASE row.status = "review_required" -> FALSE
    [] row.status = "compensating" -> p = Sweeper /\ row.old
    [] OTHER -> TRUE

Existing(p) ==
  /\ at[p] = "existing"
  /\ copy' = [copy EXCEPT ![p] = claim]
  /\ mode' = [mode EXCEPT ![p] = "recover"]
  /\ IF claim.status \in {"completed", "converted"}
       THEN Tells(p, "used")
       ELSE IF Recovers(p, claim) THEN Moves(p, "inspect") ELSE Tells(p, "failed")
  /\ RowsSame /\ PanelSame /\ UNCHANGED <<claim, calm, slept>>

List(p) ==
  /\ p = Sweeper /\ at[p] = "list"
  /\ claim.status \in {"pending", "compensating"} /\ Recovers(p, claim)
  /\ copy' = [copy EXCEPT ![p] = claim]
  /\ mode' = [mode EXCEPT ![p] = IF claim.status = "compensating" THEN "undo" ELSE "recover"]
  /\ Moves(p, "inspect")
  /\ RowsSame /\ PanelSame /\ UNCHANGED <<claim, calm, slept>>

-----------------------------------------------------------------------------
(* createUser.  An answer that does not come leaves the claim pending; the *)
(* panel may still carry the request out.                                  *)
Create(p) ==
  LET n == Name(p) IN
  /\ at[p] = "create"
  /\ \/ /\ account[n] = "absent"
        /\ \/ account' = [account EXCEPT ![n] = "ours"] /\ Moves(p, "read")
           \/ Fault("panel")
              /\ account' = [account EXCEPT ![n] = "ours"] /\ Tells(p, "failed")
        /\ UNCHANGED late
     \/ /\ account[n] # "absent" \/ Fault("panel")
        /\ Tells(p, "failed") /\ UNCHANGED <<account, late>>
     \/ /\ Fault("late") /\ account[n] = "absent"
        /\ late' = late \cup {n}
        /\ Tells(p, "failed") /\ UNCHANGED account
     \/ /\ Fault("panel")
        /\ Moves(p, "inspect") /\ UNCHANGED <<account, late>>
  /\ RowsSame /\ SelfSame /\ UNCHANGED claim

(* Mutant: a claim is released as soon as its account is not there.        *)
ReleasesHasty(p) ==
  CASE mode[p] = "create" -> TRUE
    [] mode[p] = "recover" -> p = Sweeper
    [] OTHER -> FALSE

(* Is a confirmed absence enough to release the claim?                     *)
Releases(p) ==
  CASE mode[p] = "create" -> TRUE
    [] mode[p] = "recover" -> p = Sweeper /\ copy[p].old
    [] OTHER -> FALSE

Inspect(p) ==
  LET found == account[Name(p)] IN
  /\ at[p] = "inspect"
  /\ \/ /\ found = "ours"
        /\ Moves(p, IF mode[p] = "undo" THEN "delete" ELSE "read")
     \/ /\ found = "foreign"
        /\ Moves(p, "review")
     \/ /\ found = "absent" /\ mode[p] = "undo"
        /\ Moves(p, "withdraw")
     \/ /\ found = "absent" /\ Releases(p)
        /\ Moves(p, "fail")
     \/ /\ found = "absent" /\ mode[p] # "undo" /\ ~Releases(p)
        /\ Tells(p, "failed")
     \/ /\ Fault("panel")
        /\ Tells(p, "failed")
  /\ RowsSame /\ PanelSame /\ SelfSame /\ UNCHANGED claim

MarkFailed(p) ==
  /\ at[p] = "fail"
  /\ Turns(p, {"pending"}, "failed")
  /\ Tells(p, "failed")
  /\ RowsSame /\ PanelSame /\ SelfSame

MarkForReview(p) ==
  /\ at[p] = "review"
  /\ Turns(p, {"pending", "compensating"}, "review_required")
  /\ Tells(p, "failed")
  /\ RowsSame /\ PanelSame /\ SelfSame

-----------------------------------------------------------------------------
(* finalizeCreatedTrial: the claim is read ...                             *)
FailsToBind(p) == IF mode[p] = "create" THEN Moves(p, "compensate") ELSE Tells(p, "failed")

ReadClaim(p) ==
  /\ at[p] = "read"
  /\ IF claim.status = "completed" /\ claim.name = Name(p) THEN Tells(p, "success")
     ELSE IF Still(p) THEN Moves(p, "commit") ELSE FailsToBind(p)
  /\ RowsSame /\ PanelSame /\ SelfSame /\ UNCHANGED claim

(* ... and after the user's row is locked, everything is written.  The     *)
(* claim is completed whatever its name is by then.                        *)
Finalize(p) ==
  /\ at[p] = "commit"
  /\ \/ /\ ~used /\ claim.status = "pending"
        /\ claim' = [claim EXCEPT !.status = "completed", !.old = FALSE]
        /\ used' = TRUE
        /\ bound' = bound \cup {Name(p)}
        /\ Tells(p, "success") \/ (Fault("db") /\ FailsToBind(p))
     \/ /\ used \/ claim.status # "pending" \/ Fault("db")
        /\ FailsToBind(p)
        /\ UNCHANGED claim /\ RowsSame
  /\ PanelSame /\ SelfSame

(* Mutant: the account is deleted whatever has become of the claim.        *)
CompensateAnyway(p) ==
  /\ at[p] = "compensate"
  /\ Turns(p, {"pending"}, "compensating")
  /\ Moves(p, "delete")
  /\ RowsSame /\ PanelSame /\ SelfSame

(* compensateFailedTrial: own the compensation, or see who has finished.   *)
Compensate(p) ==
  /\ at[p] = "compensate"
  /\ Turns(p, {"pending"}, "compensating")
  /\ Moves(p, IF Still(p) THEN "delete" ELSE "recheck")
  /\ RowsSame /\ PanelSame /\ SelfSame

Recheck(p) ==
  /\ at[p] = "recheck"
  /\ Tells(p, IF claim.status = "completed" /\ claim.name = Name(p)
                THEN "success" ELSE "failed")
  /\ RowsSame /\ PanelSame /\ SelfSame /\ UNCHANGED claim

(* deleteUser.  The sweep takes a 404 for done, a call does not.           *)
Delete(p) ==
  LET n == Name(p)
      gone == account' = [account EXCEPT ![n] = "absent"]
      fails == IF mode[p] = "undo" THEN Tells(p, "failed") ELSE Moves(p, "restore") IN
  /\ at[p] = "delete"
  /\ \/ account[n] # "absent" /\ gone /\ Moves(p, "withdraw")
     \/ /\ account[n] = "absent" /\ UNCHANGED account
        /\ IF mode[p] = "undo" THEN Moves(p, "withdraw") ELSE fails
     \/ Fault("panel") /\ gone /\ fails
     \/ Fault("panel") /\ UNCHANGED account /\ fails
  /\ RowsSame /\ SelfSame /\ UNCHANGED <<claim, late>>

Restore(p) ==
  /\ at[p] = "restore"
  /\ Turns(p, {"compensating"}, "pending")
  /\ Tells(p, "failed")
  /\ RowsSame /\ PanelSame /\ SelfSame

(* completeCompensationAsFailed; an error of it in a call restores.        *)
Withdraw(p) ==
  /\ at[p] = "withdraw"
  /\ \/ Turns(p, {"compensating"}, "failed") /\ Tells(p, "failed")
     \/ /\ Fault("db") /\ UNCHANGED claim
        /\ IF mode[p] = "undo" THEN Tells(p, "failed") ELSE Moves(p, "restore")
  /\ RowsSame /\ PanelSame /\ SelfSame

-----------------------------------------------------------------------------
(* The world: late requests, time, conversions and the panel's staff.      *)

Dies(p) ==
  /\ Fault("crash") /\ at[p] \notin {"reserve", "end", "dead"}
  /\ at' = [at EXCEPT ![p] = IF p = Sweeper THEN "list" ELSE "dead"]
  /\ RowsSame /\ PanelSame /\ SelfSame /\ UNCHANGED <<claim, answer>>

Lands(n) ==
  /\ n \in late
  /\ late' = late \ {n}
  /\ account' = [account EXCEPT ![n] = IF @ = "absent" THEN "ours" ELSE @]
  /\ RowsSame /\ SelfSame /\ UNCHANGED <<claim, at, answer>>

AtWork(p) == at[p] \notin {"reserve", "list", "end", "dead"}

(* Five minutes: what is under way is over by then, unless it stalls.      *)
FiveMinutes ==
  /\ ~claim.old
  /\ Fault("stall") \/ (late = {} /\ \A p \in Workers : ~AtWork(p))
  /\ claim' = [claim EXCEPT !.old = TRUE]
  /\ copy' = [p \in Workers |-> [copy[p] EXCEPT !.old = AtWork(p)]]
  /\ slept' = (slept \/ late # {} \/ \E p \in Workers : AtWork(p))
  /\ RowsSame /\ PanelSame /\ UNCHANGED <<at, mode, answer, calm>>

(* A renewal that was paid converts the trial.                             *)
Convert ==
  /\ claim.status = "completed" /\ claim.name \in bound
  /\ claim' = [claim EXCEPT !.status = "converted"]
  /\ RowsSame /\ PanelSame /\ SelfSame /\ UNCHANGED <<at, answer>>

FaultsEnd ==
  /\ ~calm /\ calm' = TRUE
  /\ RowsSame /\ PanelSame /\ UNCHANGED <<claim, at, copy, mode, answer, slept>>

Work(p) ==
  \/ Reserve(p) \/ Existing(p) \/ List(p) \/ Create(p) \/ Inspect(p)
  \/ MarkFailed(p) \/ MarkForReview(p) \/ ReadClaim(p) \/ Finalize(p)
  \/ Compensate(p) \/ Recheck(p) \/ Delete(p) \/ Restore(p) \/ Withdraw(p)

TrialNext ==
  \/ \E p \in Workers : Work(p) \/ Dies(p)
  \/ \E n \in Claimants : Lands(n)
  \/ FiveMinutes \/ Convert \/ FaultsEnd

TrialSpec == TrialInit /\ [][TrialNext]_trialVars

-----------------------------------------------------------------------------
(* Properties.                                                             *)

(* A user never has two trial accounts, however often the claim is retried,*)
(* recovered, compensated and opened again under another name - unless a   *)
(* process, or the panel, sat on a request for five minutes.               *)
OneTrial ==
  \/ slept
  \/ \A m, n \in Claimants : account[m] = "ours" /\ account[n] = "ours" => m = n

(* The service never deletes the account of a trial that is completed: a   *)
(* call whose own commit failed first owns the compensation, and looks     *)
(* whether somebody else has completed the claim.  Here, too, a process    *)
(* that stands still for five minutes is left out.                         *)
TrialStands ==
  [][\A n \in Claimants :
       account[n] = "ours" /\ account'[n] # "ours"
         => slept \/ ~(claim.name = n /\ claim.status \in {"completed", "converted"})]_trialVars

(* No claim stays open for ever: it is bound, released for another attempt *)
(* or handed to an administrator.                                          *)
TrialDecided ==
  claim.status \in {"pending", "compensating"}
    ~> claim.status \notin {"pending", "compensating"}
=============================================================================
