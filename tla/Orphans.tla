------------------------------- MODULE Orphans -------------------------------
(***************************************************************************)
(* ConfigReconciliationService for one username of one panel: scans compare*)
(* a listing of the panel with the rows of user_configs and keep an issue  *)
(* for a binding without its panel user and one for a panel user without a *)
(* binding; administrators repair them.  Scans of the reconciliation cron, *)
(* of an administrator and of a webhook overlap.                           *)
(***************************************************************************)
EXTENDS Naturals

CONSTANTS
  Seller,      \* who has the service when a behaviour begins
  Heir,        \* who buys it, is assigned it or has it transferred
  NoOwner,     \* no telegram id
  Scanners,    \* processes that scan
  Cron,        \* the one of the reconciliation cron
  Admins,      \* administrators who repair
  MaxMade,     \* bound on the incarnations of the panel user
  MaxBound,    \* bound on the rows that bind the username
  MaxMoves,    \* bound on what others do to them
  ScanFaults   \* subset of {"panel", "pages"}

Owners == {Seller, Heir}

ASSUME OrphansAssumption ==
  /\ Seller # Heir /\ NoOwner \notin Owners
  /\ Cron \in Scanners
  /\ Scanners \cap Admins = {}
  /\ MaxMade \in Nat \ {0} /\ MaxBound \in Nat \ {0} /\ MaxMoves \in Nat
  /\ ScanFaults \subseteq {"panel", "pages"}

VARIABLES
  remote,   \* the panel user: its incarnation, 0 for a 404 or the status deleted
  made,     \* incarnations there have been
  binding,  \* the row of user_configs; id 0 is no row, mark 0 no fingerprint
  bound,    \* rows there have been
  missing,  \* the issue local_missing_remote
  unbound,  \* the issue remote_unbound
  began,    \* for each scan under way those that began no later, by scanStartedAt
  fresh,    \* those that began no later than the unbound issue's lastSeenAt
  at,       \* step of each scan and of each repair
  mode,     \* is it a scan or the establishment of a baseline?
  glance,   \* the panel user it has read
  copy,     \* the row it has read
  noted,    \* the issue a repair has read
  sale,     \* the panel user that a purchase has created and not yet bound
  moves     \* what others have done to the service so far

outside == <<made, bound, sale, moves>>
orphanVars == <<remote, binding, missing, unbound, began, fresh, at, mode, glance, copy, noted,
                outside>>

Actors == Scanners \cup Admins

(* `of` is the panel user a row was made for; `proof` what a row without a *)
(* fingerprint still has to show for it: its subscription URL, which the   *)
(* listing repeats, the ownership note, which only getUser returns, or     *)
(* neither.                                                                *)
Bindings == [id : 0..MaxBound, owner : Owners \cup {NoOwner}, of : 0..MaxMade,
             mark : 0..MaxMade, proof : {"url", "note", "none"}, active : BOOLEAN]
NoBinding == [id |-> 0, owner |-> NoOwner, of |-> 0, mark |-> 0, proof |-> "none",
              active |-> FALSE]

(* To every handler a resolved issue is as good as none: "closed".         *)
States == {"closed", "open", "ignored"}
NoMissing == [state |-> "closed", id |-> 0, owner |-> NoOwner]
NoUnbound == [state |-> "closed", mark |-> 0]
Missing == [state : States, id : 0..MaxBound, owner : Owners \cup {NoOwner}]
Unbound == [state : States, mark : 0..MaxMade]
Issue == [id : 0..MaxBound, owner : Owners \cup {NoOwner}, mark : 0..MaxMade]
NoIssue == [id |-> 0, owner |-> NoOwner, mark |-> 0]

Stands == {"idle", "list", "rows", "verify", "detail", "cache", "report", "compare", "ignore",
           "stale", "check", "judge", "erase", "fetch", "bind"}

OrphansTypeOK ==
  /\ remote \in 0..MaxMade /\ made \in 0..MaxMade /\ sale \in 0..MaxMade
  /\ binding \in Bindings /\ bound \in 0..MaxBound
  /\ missing \in Missing /\ unbound \in Unbound
  /\ began \in [Scanners -> SUBSET Scanners] /\ fresh \subseteq Scanners
  /\ at \in [Actors -> Stands]
  /\ mode \in [Scanners -> {"scan", "baseline"}]
  /\ glance \in [Actors -> 0..MaxMade]
  /\ copy \in [Scanners -> Bindings]
  /\ noted \in [Admins -> Issue]
  /\ moves \in 0..MaxMoves

(* A row from before the fingerprints, or a new one.                       *)
OrphansInit ==
  /\ remote = 1 /\ made = 1 /\ bound = 1 /\ sale = 0
  /\ \E mark \in 0..1, proof \in {"url", "note", "none"} :
       /\ mark = 1 => proof = "none"
       /\ binding = [id |-> 1, owner |-> Seller, of |-> 1, mark |-> mark, proof |-> proof,
                     active |-> TRUE]
  /\ missing = NoMissing /\ unbound = NoUnbound
  /\ began = [s \in Scanners |-> {}] /\ fresh = {}
  /\ at = [p \in Actors |-> "idle"]
  /\ mode = [s \in Scanners |-> "scan"]
  /\ glance = [p \in Actors |-> 0]
  /\ copy = [s \in Scanners |-> NoBinding]
  /\ noted = [a \in Admins |-> NoIssue]
  /\ moves \in 0..MaxMoves

(* Nobody outside interferes any more.                                     *)
calm == moves = MaxMoves
Moves == ~calm /\ moves' = moves + 1

-----------------------------------------------------------------------------
(* verifyOrEstablishConfigIncarnation.                                     *)

(* What the row `c` shows for the panel user `user`, with its note or not. *)
Proves(c, user, withNote) ==
  /\ user # 0
  /\ IF c.mark # 0 THEN c.mark = user
     ELSE c.of = user /\ c.proof \in (IF withNote THEN {"url", "note"} ELSE {"url"})

(* A row without fingerprint gets it, unless it is gone: then the proof    *)
(* does not count.                                                         *)
Verified(c, user, withNote) ==
  Proves(c, user, withNote) /\ (c.mark = 0 => binding.id = c.id)
Established(c, user) ==
  IF binding.id = c.id THEN [binding EXCEPT !.mark = user] ELSE binding

-----------------------------------------------------------------------------
(* scan and establishRemoteBaseline, which share the listing, the rows and *)
(* the check of their incarnations.                                        *)

UnderWay == {s \in Scanners : at[s] # "idle"}

Goes(p, step) == at' = [at EXCEPT ![p] = step]

(* The scan is over; what it has read is forgotten.                        *)
Over(s) ==
  /\ Goes(s, "idle")
  /\ began' = [q \in Scanners |-> IF q = s THEN {} ELSE began[q] \ {s}]
  /\ fresh' = fresh \ {s}
  /\ mode' = [mode EXCEPT ![s] = "scan"]
  /\ glance' = [glance EXCEPT ![s] = 0]
  /\ copy' = [copy EXCEPT ![s] = NoBinding]

Begin(s) ==
  /\ at[s] = "idle"
  /\ Goes(s, "list")
  /\ began' = [began EXCEPT ![s] = UnderWay \cup {s}]
  /\ \E m \in {"scan", "baseline"} :
       /\ m = "baseline" => s # Cron /\ ~calm
       /\ mode' = [mode EXCEPT ![s] = m]
  /\ UNCHANGED <<remote, binding, missing, unbound, fresh, glance, copy, noted, outside>>

(* listAllRemoteUsers asks for one page after the other by offset: a user  *)
(* that moves up when an earlier one is removed is on none of them.        *)
ListAll(s) ==
  /\ at[s] = "list"
  /\ Goes(s, "rows")
  /\ \E user \in {remote} \cup (IF "pages" \in ScanFaults /\ ~calm THEN {0} ELSE {}) :
       glance' = [glance EXCEPT ![s] = user]
  /\ UNCHANGED <<remote, binding, missing, unbound, began, fresh, mode, copy, noted, outside>>

(* Where a scan goes with the row it has read.                             *)
AfterRows(s) ==
  IF glance[s] # 0 /\ binding.id # 0 /\ binding.mark = 0 THEN "verify"
  ELSE IF mode[s] = "baseline" THEN "ignore"
  ELSE IF binding.id # 0 THEN "cache" ELSE "compare"

Rows(s) ==
  /\ at[s] = "rows"
  /\ Goes(s, AfterRows(s))
  /\ copy' = [copy EXCEPT ![s] = binding]
  /\ UNCHANGED <<remote, binding, missing, unbound, began, fresh, mode, glance, noted, outside>>

AfterVerify(s) == IF mode[s] = "baseline" THEN "ignore" ELSE "cache"

Verifies(s, user, withNote) ==
  /\ Verified(copy[s], user, withNote)
  /\ binding' = Established(copy[s], user)
  /\ copy' = [copy EXCEPT ![s].mark = user]
  /\ Goes(s, AfterVerify(s))

(* verifyReconciliationIncarnation: the URL first, then the note.          *)
Verify(s) ==
  /\ at[s] = "verify"
  /\ \/ Verifies(s, glance[s], FALSE)
     \/ ~Verified(copy[s], glance[s], FALSE) /\ Goes(s, "detail") /\ UNCHANGED <<binding, copy>>
  /\ UNCHANGED <<remote, missing, unbound, began, fresh, mode, glance, noted, outside>>

(* A user that is gone by now is an error that ends the scan of the panel. *)
Detail(s) ==
  /\ at[s] = "detail" /\ remote # 0
  /\ \/ Verifies(s, remote, TRUE)
     \/ ~Verified(copy[s], remote, TRUE) /\ Goes(s, AfterVerify(s)) /\ UNCHANGED <<binding, copy>>
  /\ UNCHANGED <<remote, missing, unbound, began, fresh, mode, glance, noted, outside>>

Matches(s) == copy[s].mark # 0 /\ copy[s].mark = glance[s]

(* reconcileLocalBindings writes what it has found to the row ...          *)
CacheStatus(s) ==
  /\ at[s] = "cache"
  /\ Goes(s, "report")
  /\ binding' = IF binding.id = copy[s].id THEN [binding EXCEPT !.active = Matches(s)]
                                           ELSE binding
  /\ UNCHANGED <<remote, missing, unbound, began, fresh, mode, glance, copy, noted, outside>>

(* ... and to the issue; an ignored one stays ignored.                     *)
ReportMissing(s) ==
  /\ at[s] = "report"
  /\ Goes(s, "compare")
  /\ missing' =
       IF Matches(s)
         THEN IF missing.state = "open" THEN NoMissing ELSE missing
         ELSE [state |-> IF missing.state = "ignored" THEN "ignored" ELSE "open",
               id |-> copy[s].id, owner |-> copy[s].owner]
  /\ UNCHANGED <<remote, binding, unbound, began, fresh, mode, glance, copy, noted, outside>>

(* Mutant: an issue that is ignored is left alone.                         *)
UpsertedQuiet(user) ==
  IF unbound.state = "ignored" THEN unbound ELSE [state |-> "open", mark |-> user]

(* upsertIssue of a panel user without a binding: only its incarnation     *)
(* stays ignored.                                                          *)
Upserted(user) ==
  [state |-> IF unbound.state = "ignored" /\ unbound.mark = user THEN "ignored" ELSE "open",
   mark |-> user]

(* reconcileRemoteBindings.  To the eyes of a scan that began no later, an *)
(* issue last seen by this one is not stale.                               *)
ReportUnbound(s) ==
  /\ at[s] = "compare"
  /\ Goes(s, "stale")
  /\ IF glance[s] = 0 THEN UNCHANGED <<unbound, fresh>>
     ELSE IF Matches(s)
       THEN /\ unbound' = IF unbound.state = "open" THEN NoUnbound ELSE unbound
            /\ UNCHANGED fresh
       ELSE unbound' = Upserted(glance[s]) /\ fresh' = began[s]
  /\ UNCHANGED <<remote, binding, missing, began, mode, glance, copy, noted, outside>>

(* The transaction of establishRemoteBaseline.                             *)
IgnoreUnbound(s) ==
  /\ at[s] = "ignore"
  /\ Goes(s, "stale")
  /\ unbound' = IF glance[s] # 0 /\ ~Matches(s)
                  THEN [state |-> "ignored", mark |-> glance[s]] ELSE unbound
  /\ UNCHANGED <<remote, binding, missing, began, fresh, mode, glance, copy, noted, outside>>

(* resolveStaleObservations.                                               *)
ResolveStale(s) ==
  /\ at[s] = "stale"
  /\ unbound' = IF unbound.state = "open" /\ s \notin fresh
                  THEN NoUnbound ELSE unbound
  /\ Over(s)
  /\ UNCHANGED <<remote, binding, missing, noted, outside>>

(* The panel or the database fails, or another username does.              *)
ScanFails(s) ==
  /\ at[s] # "idle"
  /\ ("panel" \in ScanFaults /\ ~calm) \/ (at[s] = "detail" /\ remote = 0)
  /\ Over(s)
  /\ UNCHANGED <<remote, binding, missing, unbound, noted, outside>>

Scan(s) ==
  \/ Begin(s) \/ ListAll(s) \/ Rows(s) \/ Verify(s) \/ Detail(s) \/ CacheStatus(s)
  \/ ReportMissing(s) \/ ReportUnbound(s) \/ IgnoreUnbound(s) \/ ResolveStale(s)
  \/ ScanFails(s)

-----------------------------------------------------------------------------
(* Repairs.                                                                *)

RepairOver(a) ==
  /\ Goes(a, "idle")
  /\ glance' = [glance EXCEPT ![a] = 0]
  /\ noted' = [noted EXCEPT ![a] = NoIssue]

(* removeLocalMissing and assignRemoteUnbound read their issue.            *)
OpenIssue(a) ==
  /\ at[a] = "idle"
  /\ \/ /\ missing.state = "open" /\ Goes(a, "check")
        /\ noted' = [noted EXCEPT ![a].id = missing.id, ![a].owner = missing.owner]
     \/ /\ unbound.state = "open" /\ Goes(a, "fetch")
        /\ noted' = [noted EXCEPT ![a].mark = unbound.mark]
  /\ UNCHANGED <<remote, binding, missing, unbound, began, fresh, mode, glance, copy, outside>>

CheckPanel(a) ==
  /\ at[a] = "check"
  /\ glance' = [glance EXCEPT ![a] = remote]
  /\ Goes(a, IF remote = 0 THEN "erase" ELSE "judge")
  /\ UNCHANGED <<remote, binding, missing, unbound, began, fresh, mode, copy, noted, outside>>

(* Has the panel user of this very binding reappeared?                     *)
Reappeared(a) == binding.id = noted[a].id /\ Verified(binding, glance[a], TRUE)

Judge(a) ==
  /\ at[a] = "judge"
  /\ IF Reappeared(a)
       THEN /\ binding' = Established(binding, glance[a])
            /\ missing' = NoMissing
            /\ RepairOver(a)
       ELSE Goes(a, "erase") /\ UNCHANGED <<binding, missing, glance, noted>>
  /\ UNCHANGED <<remote, unbound, began, fresh, mode, copy, outside>>

(* Mutant: the row is deleted by its username.                             *)
EraseByName(a) ==
  /\ at[a] = "erase"
  /\ IF binding.id # 0 /\ missing.state = "open"
       THEN binding' = NoBinding /\ missing' = NoMissing
       ELSE UNCHANGED <<binding, missing>>
  /\ RepairOver(a)
  /\ UNCHANGED <<remote, unbound, began, fresh, mode, copy, outside>>

(* The transaction deletes the row the issue names, if its owner still has *)
(* it, and closes the issue, or does nothing.                              *)
Erase(a) ==
  /\ at[a] = "erase"
  /\ IF /\ binding.id = noted[a].id /\ binding.owner = noted[a].owner
        /\ missing.state = "open"
       THEN binding' = NoBinding /\ missing' = NoMissing
       ELSE UNCHANGED <<binding, missing>>
  /\ RepairOver(a)
  /\ UNCHANGED <<remote, unbound, began, fresh, mode, copy, outside>>

(* Another incarnation than the issue's is only reported.                  *)
FetchUnbound(a) ==
  /\ at[a] = "fetch" /\ remote # 0
  /\ IF noted[a].mark = remote
       THEN /\ glance' = [glance EXCEPT ![a] = remote] /\ Goes(a, "bind")
            /\ UNCHANGED <<unbound, fresh, noted>>
       ELSE /\ unbound' = Upserted(remote) /\ fresh' = UnderWay
            /\ RepairOver(a)
  /\ UNCHANGED <<remote, binding, missing, began, mode, copy, outside>>

NewBinding(user) ==
  [id |-> bound + 1, owner |-> Heir, of |-> user, mark |-> user, proof |-> "none",
   active |-> TRUE]

AssignUnbound(a) ==
  /\ at[a] = "bind"
  /\ \/ /\ binding.id = 0 /\ bound < MaxBound
        /\ binding' = NewBinding(glance[a])
        /\ bound' = bound + 1
        /\ unbound' = NoUnbound
     \/ binding.id # 0 /\ UNCHANGED <<binding, bound, unbound>>
  /\ RepairOver(a)
  /\ UNCHANGED <<remote, missing, began, fresh, mode, copy, made, sale, moves>>

(* The panel or the database fails, or there is nothing to assign.         *)
RepairFails(a) ==
  /\ at[a] # "idle"
  /\ "panel" \in ScanFaults \/ (at[a] = "fetch" /\ remote = 0)
  /\ RepairOver(a)
  /\ UNCHANGED <<remote, binding, missing, unbound, began, fresh, mode, copy, outside>>

Repair(a) ==
  \/ OpenIssue(a) \/ CheckPanel(a) \/ Judge(a) \/ Erase(a)
  \/ FetchUnbound(a) \/ AssignUnbound(a) \/ RepairFails(a)

IgnoreIssue ==
  /\ \/ /\ missing.state = "open" /\ missing' = [missing EXCEPT !.state = "ignored"]
        /\ UNCHANGED unbound
     \/ /\ unbound.state = "open" /\ unbound' = [unbound EXCEPT !.state = "ignored"]
        /\ UNCHANGED missing
  /\ UNCHANGED <<remote, binding, began, fresh, at, mode, glance, copy, noted, outside>>

-----------------------------------------------------------------------------
(* The others.                                                             *)

watching == <<missing, unbound, began, fresh, at, mode, glance, copy, noted>>

(* The administrator of the panel removes and creates users by hand.       *)
PanelAdmin ==
  /\ Moves
  /\ \/ remote # 0 /\ remote' = 0 /\ UNCHANGED made
     \/ remote = 0 /\ made < MaxMade /\ made' = made + 1 /\ remote' = made'
  /\ UNCHANGED <<binding, bound, sale, watching>>

(* A purchase creates the panel user and binds it in a later transaction;  *)
(* a binding of another owner makes it remove the user again.              *)
SaleCreates ==
  /\ Moves /\ sale = 0 /\ remote = 0 /\ made < MaxMade
  /\ made' = made + 1 /\ remote' = made' /\ sale' = made'
  /\ UNCHANGED <<binding, bound, watching>>

SaleBinds ==
  /\ sale # 0 /\ sale' = 0
  /\ \/ /\ binding.id = 0 /\ bound < MaxBound
        /\ binding' = NewBinding(sale)
        /\ bound' = bound + 1 /\ UNCHANGED remote
     \/ binding.id # 0 /\ remote' = 0 /\ UNCHANGED <<binding, bound>>
  /\ UNCHANGED <<made, moves, watching>>

(* The second half of a deletion, and a transfer (see ConfigOps).          *)
OwnerUnbinds ==
  /\ Moves /\ binding.id # 0 /\ remote # binding.of
  /\ binding' = NoBinding
  /\ UNCHANGED <<remote, made, bound, sale, watching>>

OwnerTransfers ==
  /\ Moves /\ binding.owner = Seller /\ Proves(binding, remote, TRUE)
  /\ binding' = [binding EXCEPT !.owner = Heir, !.mark = remote]
  /\ UNCHANGED <<remote, made, bound, sale, watching>>

Calm ==
  /\ ~calm /\ moves' = MaxMoves
  /\ UNCHANGED <<remote, made, binding, bound, sale, watching>>

Others == PanelAdmin \/ SaleCreates \/ SaleBinds \/ OwnerUnbinds \/ OwnerTransfers \/ Calm

OrphansNext ==
  \/ \E s \in Scanners : Scan(s)
  \/ \E a \in Admins : Repair(a)
  \/ IgnoreIssue
  \/ Others

OrphansSpec == OrphansInit /\ [][OrphansNext]_orphanVars

-----------------------------------------------------------------------------
(* Properties.                                                             *)

(* A binding whose panel user is another one by now, or cannot be shown to *)
(* be the one it was made for.                                             *)
Lost == binding.id # 0 /\ ~Proves(binding, remote, TRUE)
Held == binding.id # 0 /\ Proves(binding, remote, TRUE)

(* "A remote account with the same username only cancels the issue when it *)
(* is provably the SAME incarnation": whatever listing, scan or page the   *)
(* issue came from, a repair removes a binding only when it really is lost,*)
(* and from the owner the issue names.                                     *)
RemovalJustified ==
  [][\A a \in Admins :
       at[a] = "erase" /\ at'[a] = "idle" /\ binding' # binding
         => Lost /\ binding.owner = noted[a].owner]_orphanVars

(* Once the panel and the owners leave off, the issues come to tell the    *)
(* truth and the rows too: a lost binding is reported and cached as        *)
(* deleted, one that is held is not, and a panel user without a binding is *)
(* listed again and again (overlapping scans may close its issue between). *)
Truthful ==
  /\ Lost => missing.state \in {"open", "ignored"} /\ missing.id = binding.id /\ ~binding.active
  /\ Held => missing.state # "open" /\ binding.active /\ binding.mark # 0
  /\ Held \/ remote = 0 => unbound.state # "open"
Listed == unbound.state \in {"open", "ignored"} /\ unbound.mark = remote

DriftSettles == <>[]Truthful /\ []<>(remote # 0 /\ ~Held => Listed)
=============================================================================
