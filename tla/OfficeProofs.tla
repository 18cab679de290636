---------------------------- MODULE OfficeProofs ----------------------------
(***************************************************************************)
(* Proofs about Trial: that a user has one trial account, and keeps it, for*)
(* any number of calls.  The invariant follows the one name that may have  *)
(* an account: while a creation is under way or its account exists, the    *)
(* claim carries its name and is open or granted.  A claim that is old, and*)
(* whoever has read it old, knows that the call which created its account  *)
(* is over.                                                                *)
(*                                                                         *)
(* Proofs about Promo: that a promo code is used within its terms, for any *)
(* users, uses and terms.  The invariant adds to the count of the uses what*)
(* the locks give: the row of the code is locked by the use that is about  *)
(* to commit, and a user has one purchase in a transaction, and then none  *)
(* that is pending.                                                        *)
(*                                                                         *)
(* The types of both and of Broadcast side by side, as MCOffice runs them. *)
(***************************************************************************)
EXTENDS MCOffice, BroadcastProofs

Rests == {"reserve", "existing", "list", "end", "dead"}

(* What a process has read, and what it is about, by where it stands.      *)
Copies ==
  \A p \in Workers :
    /\ mode[p] = "create" => p \in Claimants /\ Name(p) = p
    /\ mode[p] = "undo" => p = Sweeper
    /\ at[p] \notin Rests => Name(p) \in Claimants
    /\ at[p] \in {"delete", "withdraw"} => mode[p] \in {"create", "undo"}
    /\ at[p] \in {"create", "compensate", "recheck", "restore"} => mode[p] = "create"
    /\ at[p] \in {"reserve", "existing"} => p \in Claimants
    /\ p = Sweeper => at[p] \notin {"reserve", "existing", "end", "dead"}
    /\ p \in Claimants => at[p] # "list"

(* A name is claimed, and read, once its call has begun, and a request is  *)
(* late only when its call is over.                                        *)
Begun ==
  /\ claim.status # "none" => claim.name \in Claimants
  /\ claim.name \in Claimants => at[claim.name] # "reserve"
  /\ \A p \in Workers : /\ Name(p) \in Claimants => at[Name(p)] # "reserve"
                        /\ at[p] = "existing" => claim.status # "none"
  /\ \A n \in late : at[n] = "end" \/ at[n] = "dead"

Retired(n) == n \notin late /\ at[n] \in {"end", "dead"}

(* The call behind an old claim is over, with what it asked of the panel.  *)
OldIsOver ==
  ~slept =>
    /\ claim.old /\ claim.name \in Claimants => Retired(claim.name)
    /\ \A p \in Workers :
         /\ copy[p].old /\ Name(p) \in Claimants => Retired(Name(p))
         /\ mode[p] = "undo" /\ at[p] \notin Rests => copy[p].old
         /\ at[p] = "fail" /\ mode[p] = "recover" => copy[p].old

Past(n) == n \notin late /\ at[n] \notin {"reserve", "create"}

(* A claim is released when its account is not there and cannot come.      *)
Released ==
  ~slept =>
    \A p \in Workers :
      at[p] \in {"fail", "withdraw"} => account[Name(p)] # "ours" /\ Past(Name(p))

(* The one name that has an account, or may get one, is the claim's.       *)
Live(n) == account[n] = "ours" \/ n \in late \/ at[n] = "create"

OneLive ==
  ~slept => \A n \in Claimants :
              Live(n) => claim.name = n /\ claim.status \notin {"none", "failed"}

(* A claim whose account is being deleted is not granted meanwhile.        *)
Withheld == {"compensating", "failed", "review_required"}

Undoing ==
  \A p \in Workers :
    /\ ~slept /\ mode[p] = "undo" /\ at[p] \notin Rests /\ claim.name = Name(p)
         => claim.status \in Withheld
    /\ mode[p] = "create" /\ at[p] = "delete" /\ claim.name = Name(p)
         => claim.status \in Withheld

TrialInv ==
  TrialTypeOK /\ Copies /\ Begun /\ OldIsOver /\ Released /\ OneLive /\ Undoing

LEMMA TrialBegins == TrialInit => TrialInv
<1> SUFFICES ASSUME TrialInit PROVE TrialInv OBVIOUS
<1> USE TrialAssumption DEF TrialInit, Unclaimed, Workers
<1>1. TrialTypeOK BY DEF TrialTypeOK, ClaimRow, ClaimStatus, Places
<1>2. Copies BY DEF Copies, Rests, Name
<1>3. Begun /\ OldIsOver BY DEF Begun, OldIsOver, Name, Rests
<1>4. Released /\ OneLive /\ Undoing
  BY DEF Released, OneLive, Live, Undoing
<1> QED BY <1>1, <1>2, <1>3, <1>4 DEF TrialInv

-----------------------------------------------------------------------------
(* What the step of a process may do.                                      *)

(* It moves and informs itself only.                                       *)
LEMMA OwnStep ==
  ASSUME TrialTypeOK, NEW p \in Workers, Work(p) \/ Dies(p)
  PROVE  /\ \A q \in Workers \ {p} : at'[q] = at[q] /\ copy'[q] = copy[q] /\ mode'[q] = mode[q]
         /\ calm' = calm /\ slept' = slept
<1> USE DEF TrialTypeOK, SelfSame
<1>1. ASSUME NEW place, Moves(p, place)
      PROVE  \A q \in Workers \ {p} : at'[q] = at[q]
  BY <1>1 DEF Moves
<1>2. ASSUME NEW what, Tells(p, what)
      PROVE  \A q \in Workers \ {p} : at'[q] = at[q]
  BY <1>1, <1>2 DEF Tells
<1>3. CASE Reserve(p) \/ Existing(p) \/ List(p)
  BY <1>1, <1>2, <1>3 DEF Reserve, Existing, List
<1>4. CASE Create(p) \/ Inspect(p) \/ MarkFailed(p) \/ MarkForReview(p)
  BY <1>1, <1>2, <1>4 DEF Create, Inspect, MarkFailed, MarkForReview
<1>5. CASE ReadClaim(p) \/ Finalize(p)
  BY <1>1, <1>2, <1>5 DEF ReadClaim, Finalize, FailsToBind
<1>6. CASE Compensate(p) \/ Recheck(p) \/ Delete(p) \/ Restore(p) \/ Withdraw(p)
  BY <1>1, <1>2, <1>6 DEF Compensate, Recheck, Delete, Restore, Withdraw
<1>7. CASE Dies(p) BY <1>7 DEF Dies
<1> QED BY <1>3, <1>4, <1>5, <1>6, <1>7 DEF Work

(* It reads the claim where it begins, and nowhere else.                   *)
LEMMA Reads ==
  ASSUME TrialTypeOK, Copies, NEW p \in Workers, Work(p) \/ Dies(p)
  PROVE  \/ copy'[p] = copy[p] /\ mode'[p] = mode[p]
         \/ /\ at[p] = "reserve" /\ Reservable /\ at'[p] = "create" /\ mode'[p] = "create"
            /\ copy'[p] = [status |-> "pending", name |-> p, old |-> FALSE]
            /\ claim' = [status |-> "pending", name |-> p, old |-> FALSE]
         \/ /\ at[p] = "existing" /\ copy'[p] = claim /\ mode'[p] = "recover"
            /\ at'[p] \in {"end", "inspect"}
         \/ /\ at[p] = "list" /\ p = Sweeper /\ at'[p] = "inspect"
            /\ copy'[p] = claim /\ claim.status \in {"pending", "compensating"}
            /\ mode'[p] = "recover"
                 \/ (mode'[p] = "undo" /\ claim.status = "compensating" /\ claim.old)
<1> USE DEF TrialTypeOK, SelfSame
<1>1. CASE Reserve(p)
  BY <1>1 DEF Reserve, Moves
<1>2. CASE Existing(p)
  <2>1. p # Sweeper BY <1>2, TrialAssumption DEF Existing, Copies
  <2> QED BY <1>2, <2>1 DEF Existing, Moves, Tells
<1>3. CASE List(p)
  BY <1>3 DEF List, Moves, Recovers
<1>4. CASE Dies(p) BY <1>4 DEF Dies
<1>5. CASE Work(p) /\ ~Reserve(p) /\ ~Existing(p) /\ ~List(p)
  BY <1>5
  DEF Work, Create, Inspect, MarkFailed, MarkForReview, ReadClaim, Finalize, Compensate,
      Recheck, Delete, Restore, Withdraw
<1> QED BY <1>1, <1>2, <1>3, <1>4, <1>5

(* Where it goes from where it stands.                                     *)
LEMMA WhereTo ==
  ASSUME TrialTypeOK, Copies, NEW p \in Workers, Work(p) \/ Dies(p)
  PROVE  /\ at'[p] \in Places \ {"reserve"} /\ at[p] \notin {"end", "dead"}
         /\ p = Sweeper => at'[p] \notin {"existing", "end", "dead", "create"}
         /\ p \in Claimants => at'[p] # "list"
         /\ at'[p] = "create"
              => /\ at[p] = "reserve" /\ Reservable /\ mode'[p] = "create"
                 /\ claim' = [status |-> "pending", name |-> p, old |-> FALSE]
                 /\ copy'[p] = claim'
         /\ at'[p] = "existing"
              => at[p] = "reserve" /\ claim.status \notin {"none", "failed"} /\ claim' = claim
         /\ at[p] \in Rests /\ at'[p] \notin Rests
              => copy'[p].name = claim'.name /\ (at[p] = "list" => claim.status # "none")
         /\ at'[p] = "fail"
              => at[p] = "inspect" /\ account[Name(p)] = "absent" /\ Releases(p)
         /\ at'[p] = "withdraw"
              => \/ at[p] = "inspect" /\ mode[p] = "undo" /\ account[Name(p)] = "absent"
                 \/ at[p] = "delete" /\ account'[Name(p)] = "absent"
         /\ at'[p] = "delete"
              => \/ at[p] = "inspect" /\ mode[p] = "undo"
                 \/ at[p] = "compensate" /\ claim'.status = "compensating"
         /\ at'[p] \in {"compensate", "recheck", "restore"} => mode[p] = "create"
<1> USE TrialAssumption DEF TrialTypeOK, SelfSame, Copies, Rests, Places
<1>1. p \in Claimants => p # Sweeper OBVIOUS
<1>2. p \in Claimants \/ p = Sweeper BY DEF Workers
<1>3. \A what : Tells(p, what) => at'[p] = IF p = Sweeper THEN "list" ELSE "end"
  BY DEF Tells, Moves
<1>4. \A place : Moves(p, place) => at'[p] = place BY DEF Moves
<1>5. CASE Reserve(p) BY <1>1, <1>2, <1>3, <1>4, <1>5 DEF Reserve, Reservable
<1>6. CASE Existing(p) BY <1>1, <1>2, <1>3, <1>4, <1>6 DEF Existing
<1>7. CASE List(p) BY <1>1, <1>2, <1>3, <1>4, <1>7 DEF List
<1>8. CASE Create(p) BY <1>1, <1>2, <1>3, <1>4, <1>8 DEF Create
<1>9. CASE Inspect(p) BY <1>1, <1>2, <1>3, <1>4, <1>9 DEF Inspect
<1>10. CASE MarkFailed(p) \/ MarkForReview(p) \/ Recheck(p) \/ Restore(p)
  BY <1>1, <1>2, <1>3, <1>4, <1>10 DEF MarkFailed, MarkForReview, Recheck, Restore
<1>11. CASE ReadClaim(p) \/ Finalize(p)
  BY <1>1, <1>2, <1>3, <1>4, <1>11 DEF ReadClaim, Finalize, FailsToBind
<1>12. CASE Compensate(p)
  <2>1. Still(p) => claim'.status = "compensating"
    BY <1>12 DEF Compensate, Still, Turns, ClaimRow
  <2> QED BY <1>1, <1>2, <1>3, <1>4, <1>12, <2>1 DEF Compensate
<1>13. CASE Delete(p)
  <2>1. Name(p) \in Claimants BY <1>13 DEF Delete
  <2> QED BY <1>1, <1>2, <1>3, <1>4, <1>13, <2>1 DEF Delete
<1>14. CASE Withdraw(p) BY <1>1, <1>2, <1>3, <1>4, <1>14 DEF Withdraw
<1>15. CASE Dies(p) BY <1>1, <1>2, <1>15 DEF Dies
<1> QED
  BY <1>5, <1>6, <1>7, <1>8, <1>9, <1>10, <1>11, <1>12, <1>13, <1>14, <1>15 DEF Work

(* What becomes of the claim.                                              *)
LEMMA Claims ==
  ASSUME TrialTypeOK, NEW p \in Workers, Work(p) \/ Dies(p)
  PROVE  \/ claim' = claim
         \/ /\ at[p] = "reserve" /\ Reservable /\ at'[p] = "create"
            /\ claim' = [status |-> "pending", name |-> p, old |-> FALSE]
         \/ /\ claim'.name = claim.name /\ claim'.old = FALSE
            /\ \/ /\ at[p] = "fail" /\ claim.name = Name(p)
                  /\ claim.status = "pending" /\ claim'.status = "failed"
               \/ /\ at[p] = "withdraw" /\ claim.name = Name(p)
                  /\ claim.status = "compensating" /\ claim'.status = "failed"
               \/ /\ at[p] = "review" /\ claim.status \in {"pending", "compensating"}
                  /\ claim'.status = "review_required"
               \/ /\ at[p] = "commit"
                  /\ claim.status = "pending" /\ claim'.status = "completed"
               \/ /\ at[p] = "compensate" /\ claim.name = Name(p)
                  /\ claim.status = "pending" /\ claim'.status = "compensating"
               \/ /\ at[p] = "restore" /\ claim.name = Name(p)
                  /\ claim.status = "compensating" /\ claim'.status = "pending"
<1> USE DEF TrialTypeOK, ClaimRow
<1>1. \A from, to : Turns(p, from, to)
        => \/ claim' = claim
           \/ /\ claim.status \in from /\ claim.name = Name(p) /\ claim'.name = claim.name
              /\ claim'.status = to /\ claim'.old = FALSE
  BY DEF Turns
<1>2. CASE Reserve(p) BY <1>2 DEF Reserve, Moves
<1>3. CASE MarkFailed(p) BY <1>1, <1>3 DEF MarkFailed
<1>4. CASE MarkForReview(p) BY <1>1, <1>4 DEF MarkForReview
<1>5. CASE Finalize(p) BY <1>5 DEF Finalize
<1>6. CASE Compensate(p) BY <1>1, <1>6 DEF Compensate
<1>7. CASE Restore(p) BY <1>1, <1>7 DEF Restore
<1>8. CASE Withdraw(p) BY <1>1, <1>8 DEF Withdraw
<1>9. CASE \/ Existing(p) \/ List(p) \/ Create(p) \/ Inspect(p) \/ ReadClaim(p)
           \/ Recheck(p) \/ Delete(p) \/ Dies(p)
  BY <1>9 DEF Existing, List, Create, Inspect, ReadClaim, Recheck, Delete, Dies
<1> QED BY <1>2, <1>3, <1>4, <1>5, <1>6, <1>7, <1>8, <1>9 DEF Work

(* What becomes of the accounts.                                           *)
LEMMA Accounts ==
  ASSUME TrialTypeOK, Copies, NEW p \in Workers, Work(p) \/ Dies(p)
  PROVE  \/ account' = account /\ late' = late
         \/ /\ at[p] = "create" /\ Name(p) = p /\ late' = late
            /\ account' = [account EXCEPT ![p] = "ours"]
         \/ /\ at[p] = "create" /\ Name(p) = p /\ at'[p] = "end"
            /\ account' = account /\ late' = late \cup {p}
         \/ /\ at[p] = "delete" /\ late' = late
            /\ account' = [account EXCEPT ![Name(p)] = "absent"]
<1> USE DEF TrialTypeOK, PanelSame
<1>1. CASE Create(p)
  <2>1. Name(p) = p /\ p # Sweeper BY <1>1, TrialAssumption DEF Create, Copies
  <2>2. \A what : Tells(p, what) => at'[p] = "end" BY <2>1 DEF Tells
  <2> QED BY <1>1, <2>1, <2>2 DEF Create
<1>2. CASE Delete(p) BY <1>2 DEF Delete
<1>3. CASE Work(p) /\ ~Create(p) /\ ~Delete(p)
  BY <1>3
  DEF Work, Reserve, Existing, List, Inspect, MarkFailed, MarkForReview, ReadClaim,
      Finalize, Compensate, Recheck, Restore, Withdraw
<1>4. CASE Dies(p) BY <1>4 DEF Dies
<1> QED BY <1>1, <1>2, <1>3, <1>4

-----------------------------------------------------------------------------
(* Types.                                                                  *)

LEMMA WorkTyped ==
  ASSUME TrialTypeOK, Copies, NEW p \in Workers, Work(p) \/ Dies(p)
  PROVE  TrialTypeOK'
<1>1. at' \in [Workers -> Places]
  <2>1. \A place : Moves(p, place) => \E x : at' = [at EXCEPT ![p] = x] BY DEF Moves
  <2>2. \A what : Tells(p, what) => \E x : at' = [at EXCEPT ![p] = x]
    BY <2>1 DEF Tells
  <2>3. \E x : at' = [at EXCEPT ![p] = x]
    BY <2>1, <2>2
    DEF Work, Reserve, Existing, List, Create, Inspect, MarkFailed, MarkForReview, ReadClaim,
        Finalize, FailsToBind, Compensate, Recheck, Delete, Restore, Withdraw, Dies
  <2>4. at'[p] \in Places BY WhereTo
  <2> QED BY <2>3, <2>4 DEF TrialTypeOK
<1>2. answer' \in [Claimants -> {"none", "success", "used", "failed"}]
  <2>1. \A place : Moves(p, place) => answer' = answer BY DEF Moves
  <2>2. \A what \in {"success", "used", "failed"} :
          Tells(p, what) => answer' \in [Claimants -> {"none", "success", "used", "failed"}]
    BY <2>1 DEF Tells, TrialTypeOK, Workers
  <2> QED
    BY <2>1, <2>2
    DEF Work, Reserve, Existing, List, Create, Inspect, MarkFailed, MarkForReview, ReadClaim,
        Finalize, FailsToBind, Compensate, Recheck, Delete, Restore, Withdraw, Dies,
        TrialTypeOK
<1>3. claim' \in ClaimRow
  <2>1. CASE claim' = claim BY <2>1 DEF TrialTypeOK
  <2>2. CASE at[p] = "reserve" /\ claim' = [status |-> "pending", name |-> p, old |-> FALSE]
    BY <2>2 DEF Copies, ClaimRow, ClaimStatus
  <2>3. ASSUME NEW from, NEW to \in {"failed", "review_required", "compensating", "pending"},
               Turns(p, from, to)
        PROVE  claim' \in ClaimRow
    BY <2>3 DEF Turns, TrialTypeOK, ClaimRow, ClaimStatus
  <2>4. CASE Finalize(p) BY <2>4 DEF Finalize, TrialTypeOK, ClaimRow, ClaimStatus
  <2> QED
    BY <2>1, <2>2, <2>3, <2>4
    DEF Work, Reserve, Existing, List, Create, Inspect, MarkFailed, MarkForReview, ReadClaim,
        Compensate, Recheck, Delete, Restore, Withdraw, Dies
<1>4. /\ copy' \in [Workers -> ClaimRow]
      /\ mode' \in [Workers -> {"create", "recover", "undo"}]
  BY <1>3
  DEF Work, Reserve, Existing, List, Create, Inspect, MarkFailed, MarkForReview, ReadClaim,
      Finalize, Compensate, Recheck, Delete, Restore, Withdraw, Dies, SelfSame, TrialTypeOK
<1>5. /\ account' \in [Claimants -> {"absent", "ours", "foreign"}] /\ late' \subseteq Claimants
  BY Accounts DEF TrialTypeOK, Copies
<1>6. used' \in BOOLEAN /\ bound' \subseteq Claimants
  <2>1. CASE Finalize(p) BY <2>1 DEF Finalize, RowsSame, TrialTypeOK, Copies, Rests
  <2>2. CASE ~Finalize(p)
    BY <2>2
    DEF Work, Reserve, Existing, List, Create, Inspect, MarkFailed, MarkForReview, ReadClaim,
        Compensate, Recheck, Delete, Restore, Withdraw, Dies, RowsSame, TrialTypeOK
  <2> QED BY <2>1, <2>2
<1> QED BY <1>1, <1>2, <1>3, <1>4, <1>5, <1>6, OwnStep DEF TrialTypeOK

Else == (\E n \in Claimants : Lands(n)) \/ FiveMinutes \/ Convert \/ FaultsEnd
        \/ UNCHANGED trialVars

(* What happens besides the processes.                                     *)
LEMMA ElseDoes ==
  ASSUME TrialTypeOK, Else
  PROVE  /\ UNCHANGED <<at, mode>>
         /\ \A p \in Workers : Name(p)' = Name(p)
         /\ ~slept' => /\ ~slept
                       /\ \A p \in Workers : copy'[p].old => copy[p].old
                       /\ claim'.old => claim.old \/ (late' = {} /\ \A p \in Workers : ~AtWork(p))
                       /\ copy' = copy \/ \A p \in Workers : ~AtWork(p)
         /\ claim'.name = claim.name
         /\ claim'.status = claim.status
              \/ (claim.status = "completed" /\ claim'.status = "converted")
         /\ \A n \in Claimants : account'[n] = account[n]
                                   \/ (n \in late /\ account[n] = "absent" /\ account'[n] = "ours")
         /\ late' \subseteq late
<1> USE DEF TrialTypeOK, Name, ClaimRow, SelfSame, PanelSame
<1>1. CASE \E n \in Claimants : Lands(n)
  BY <1>1 DEF Lands
<1>2. CASE FiveMinutes
  <2>1. /\ claim' = [claim EXCEPT !.old = TRUE]
        /\ copy' = [p \in Workers |-> [copy[p] EXCEPT !.old = AtWork(p)]]
        /\ slept' = (slept \/ late # {} \/ \E p \in Workers : AtWork(p))
        /\ UNCHANGED <<account, late, at, mode>>
    BY <1>2 DEF FiveMinutes
  <2>2. \A p \in Workers : copy'[p].old = AtWork(p) /\ copy'[p].name = copy[p].name
    BY <2>1
  <2> QED BY <2>1, <2>2
<1>3. CASE Convert \/ FaultsEnd \/ UNCHANGED trialVars
  BY <1>3 DEF Convert, FaultsEnd, trialVars
<1> QED BY <1>1, <1>2, <1>3 DEF Else

LEMMA ElseTyped ==
  ASSUME TrialTypeOK, Else
  PROVE  TrialTypeOK'
<1> USE DEF TrialTypeOK, ClaimRow, ClaimStatus, SelfSame, PanelSame, RowsSame
<1>1. CASE \E n \in Claimants : Lands(n) BY <1>1 DEF Lands
<1>2. CASE FiveMinutes
  <2>1. \A p \in Workers : AtWork(p) \in BOOLEAN BY DEF AtWork
  <2>2. slept' \in BOOLEAN BY <1>2 DEF FiveMinutes
  <2>3. copy' \in [Workers -> ClaimRow]
    BY <1>2, <2>1 DEF FiveMinutes
  <2> QED BY <1>2, <2>2, <2>3 DEF FiveMinutes
<1>3. CASE Convert \/ FaultsEnd \/ UNCHANGED trialVars
  BY <1>3 DEF Convert, FaultsEnd, trialVars
<1> QED BY <1>1, <1>2, <1>3 DEF Else

-----------------------------------------------------------------------------
(* The parts of the invariant, for the step of a process ...               *)

LEMMA WorkKeepsCopies ==
  ASSUME TrialTypeOK, Copies, Begun, NEW p \in Workers, Work(p) \/ Dies(p)
  PROVE  Copies'
<1>1. ASSUME NEW q \in Workers \ {p}
      PROVE  at'[q] = at[q] /\ copy'[q] = copy[q] /\ mode'[q] = mode[q]
  BY OwnStep
<1>2. p = Sweeper <=> p \notin Claimants BY TrialAssumption DEF Workers
<1>3. mode'[p] = "create" => p \in Claimants /\ Name(p)' = p
  <2>1. CASE copy'[p] = copy[p] /\ mode'[p] = mode[p] BY <2>1 DEF Copies, Name
  <2>2. CASE at[p] = "reserve" /\ copy'[p].name = p BY <2>2 DEF Copies, Name
  <2>3. CASE mode'[p] # "create" BY <2>3
  <2>4. ASSUME copy'[p] = [status |-> "pending", name |-> p, old |-> FALSE]
        PROVE  copy'[p].name = p
    BY <2>4
  <2>5. \/ copy'[p] = copy[p] /\ mode'[p] = mode[p]
        \/ at[p] = "reserve" /\ copy'[p] = [status |-> "pending", name |-> p, old |-> FALSE]
        \/ mode'[p] # "create"
    BY Reads
  <2> QED BY <2>1, <2>2, <2>3, <2>4, <2>5
<1>4. mode'[p] = "undo" => p = Sweeper BY Reads DEF Copies
<1>5. at'[p] \notin Rests => Name(p)' \in Claimants
  <2> SUFFICES ASSUME at'[p] \notin Rests PROVE Name(p)' \in Claimants OBVIOUS
  <2>1. CASE at[p] \notin Rests
    <3>1. copy'[p] = copy[p] BY <2>1, Reads DEF Rests
    <3> QED BY <2>1, <3>1 DEF Copies, Name
  <2>2. CASE at'[p] = "create"
    <3>1. p \in Claimants /\ copy'[p].name = p BY <2>2, WhereTo DEF Copies
    <3> QED BY <3>1 DEF Name
  <2>3. CASE at[p] \in Rests /\ at'[p] # "create"
    <3>1. at[p] \in {"reserve", "existing", "list"} BY <2>3, WhereTo DEF Rests
    <3>2. at[p] # "reserve"
      BY <2>3 DEF Work, Reserve, Existing, List, Create, Inspect, MarkFailed, MarkForReview,
         ReadClaim, Finalize, Compensate, Recheck, Delete, Restore, Withdraw, Dies, Moves,
         Tells, Rests, TrialTypeOK
    <3>3. claim.status # "none" BY <2>3, <3>1, <3>2, WhereTo DEF Begun
    <3>4. claim' = claim BY <2>3, <3>1, <3>2, Claims
    <3> QED BY <2>3, <3>3, <3>4, WhereTo DEF Begun, Name
  <2> QED BY <2>1, <2>2, <2>3
<1>6. at'[p] \in {"delete", "withdraw"} => mode'[p] \in {"create", "undo"}
  BY Reads, WhereTo DEF Copies
<1>7. at'[p] \in {"create", "compensate", "recheck", "restore"} => mode'[p] = "create"
  BY Reads, WhereTo
<1>8. /\ at'[p] \in {"reserve", "existing"} => p \in Claimants
      /\ p = Sweeper => at'[p] \notin {"reserve", "existing", "end", "dead"}
      /\ p \in Claimants => at'[p] # "list"
  BY WhereTo DEF Copies
<1> QED BY <1>1, <1>3, <1>4, <1>5, <1>6, <1>7, <1>8 DEF Copies, Name

LEMMA WorkKeepsBegun ==
  ASSUME TrialTypeOK, Copies, Begun, NEW p \in Workers, Work(p) \/ Dies(p)
  PROVE  Begun'
<1>1. ASSUME NEW q \in Workers \ {p}
      PROVE  at'[q] = at[q] /\ copy'[q] = copy[q]
  BY OwnStep
<1>2. Claimants \subseteq Workers BY DEF Workers
<1>3. \A n \in Claimants : at[n] # "reserve" => at'[n] # "reserve"
  BY <1>1, <1>2, WhereTo
<1>4. at'[p] # "reserve" BY WhereTo
<1>5. claim'.status # "none" => claim'.name \in Claimants
  <2>1. CASE claim' = claim BY <2>1 DEF Begun
  <2>2. CASE at[p] = "reserve" /\ claim' = [status |-> "pending", name |-> p, old |-> FALSE]
    BY <2>2 DEF Copies
  <2>3. CASE claim'.name = claim.name /\ claim.status # "none" BY <2>3 DEF Begun
  <2> QED BY <2>1, <2>2, <2>3, Claims DEF Begun
<1>6. claim'.name \in {claim.name, p}
  <2>1. claim' = [status |-> "pending", name |-> p, old |-> FALSE] => claim'.name = p
    OBVIOUS
  <2> QED BY <2>1, Claims
<1>7. claim'.name \in Claimants => at'[claim'.name] # "reserve"
  BY <1>3, <1>4, <1>6 DEF Begun
<1>8. copy'[p].name \in {copy[p].name, claim.name, p}
  <2>1. copy'[p] = [status |-> "pending", name |-> p, old |-> FALSE] => copy'[p].name = p
    OBVIOUS
  <2> QED BY <2>1, Reads
<1>9. \A q \in Workers : Name(q)' \in Claimants => at'[Name(q)'] # "reserve"
  <2>1. Name(p)' \in Claimants => at'[Name(p)'] # "reserve"
    BY <1>3, <1>4, <1>8 DEF Begun, Name
  <2>2. \A q \in Workers \ {p} : Name(q)' \in Claimants => at'[Name(q)'] # "reserve"
    BY <1>1, <1>3 DEF Begun, Name
  <2> QED BY <2>1, <2>2
<1>10. \A q \in Workers : at'[q] = "existing" => claim'.status # "none"
  <2>1. claim.status # "none" => claim'.status # "none"
    <3>1. claim' = [status |-> "pending", name |-> p, old |-> FALSE] => claim'.status = "pending"
      OBVIOUS
    <3> QED BY <3>1, Claims
  <2>2. at'[p] = "existing" => claim'.status # "none" BY WhereTo
  <2> QED BY <1>1, <2>1, <2>2 DEF Begun
<1>11. \A n \in late' : at'[n] = "end" \/ at'[n] = "dead"
  <2>1. \A n \in late : n \in Workers /\ n # p /\ (at[n] = "end" \/ at[n] = "dead")
    BY <1>2, WhereTo DEF Begun, TrialTypeOK
  <2>2. late' = late \/ (late' = late \cup {p} /\ at'[p] = "end") BY Accounts
  <2> QED BY <1>1, <2>1, <2>2
<1> QED BY <1>5, <1>7, <1>9, <1>10, <1>11 DEF Begun

(* A call that is over stays over, and one that is past its creation is.   *)
LEMMA OverStays ==
  ASSUME TrialTypeOK, Copies, Begun, NEW p \in Workers, Work(p) \/ Dies(p),
         NEW n \in Claimants
  PROVE  /\ Retired(n) => Retired(n)' /\ n # p
         /\ Past(n) => Past(n)'
         /\ account[n] # "ours" /\ Past(n) => account'[n] # "ours"
<1>1. n \in Workers /\ (n # p => at'[n] = at[n]) BY OwnStep DEF Workers
<1>2. \/ account' = account /\ late' = late
      \/ at[p] = "create" /\ late' = late /\ account' = [account EXCEPT ![p] = "ours"]
      \/ at[p] = "create" /\ account' = account /\ late' = late \cup {p}
      \/ late' = late /\ account' = [account EXCEPT ![Name(p)] = "absent"]
  BY Accounts
<1>3. at[p] \notin {"end", "dead"} /\ at'[p] # "reserve" /\ (at'[p] = "create" => at[p] = "reserve")
  BY WhereTo
<1>4. Retired(n) => Retired(n)' /\ n # p BY <1>1, <1>2, <1>3 DEF Retired
<1>5. Past(n) => Past(n)' BY <1>1, <1>2, <1>3 DEF Past
<1>6. account[n] # "ours" /\ Past(n) => account'[n] # "ours"
  BY <1>1, <1>2 DEF Past, TrialTypeOK
<1> QED BY <1>4, <1>5, <1>6

LEMMA WorkKeepsOldIsOver ==
  ASSUME TrialTypeOK, Copies, Begun, OldIsOver, NEW p \in Workers, Work(p) \/ Dies(p)
  PROVE  OldIsOver'
<1> SUFFICES ASSUME ~slept PROVE OldIsOver' BY OwnStep DEF OldIsOver
<1>1. ASSUME NEW q \in Workers \ {p}
      PROVE  at'[q] = at[q] /\ copy'[q] = copy[q] /\ mode'[q] = mode[q]
  BY OwnStep
<1>2. \A n \in Claimants : Retired(n) => Retired(n)' BY OverStays
<1>3. claim'.old => claim' = claim
  <2>1. claim' = [status |-> "pending", name |-> p, old |-> FALSE] => claim'.old = FALSE
    OBVIOUS
  <2> QED BY <2>1, Claims
<1>4. claim'.old /\ claim'.name \in Claimants => Retired(claim.name)'
  BY <1>2, <1>3 DEF OldIsOver, Retired
<1>5. copy'[p].old => copy'[p] = copy[p] \/ copy'[p] = claim
  <2>1. copy'[p] = [status |-> "pending", name |-> p, old |-> FALSE] => copy'[p].old = FALSE
    OBVIOUS
  <2> QED BY <2>1, Reads
<1>6. copy'[p].old /\ Name(p)' \in Claimants => Retired(Name(p))'
  BY <1>2, <1>5 DEF OldIsOver, Name, Retired
<1>7. mode'[p] = "undo" /\ at'[p] \notin Rests => copy'[p].old
  <2> SUFFICES ASSUME mode'[p] = "undo", at'[p] \notin Rests PROVE copy'[p].old OBVIOUS
  <2>1. CASE at[p] \notin Rests
    <3>1. copy'[p] = copy[p] /\ mode'[p] = mode[p] BY <2>1, Reads DEF Rests
    <3> QED BY <2>1, <3>1 DEF OldIsOver
  <2>2. CASE at[p] \in Rests
    <3>1. p = Sweeper
      BY Reads DEF Copies
    <3>2. at[p] = "list" BY <2>2, <3>1, WhereTo DEF Copies, Rests
    <3>3. List(p)
      BY <2>2, <3>2
      DEF Work, Reserve, Existing, Create, Inspect, MarkFailed, MarkForReview,
          ReadClaim, Finalize, Compensate, Recheck, Delete, Restore, Withdraw, Dies,
          Rests, TrialTypeOK
    <3>4. copy'[p] = claim /\ (claim.status = "compensating" => claim.old)
      BY <3>3 DEF List, Recovers, TrialTypeOK
    <3>5. claim.status = "compensating" BY <3>3 DEF List, TrialTypeOK
    <3> QED BY <3>4, <3>5
  <2> QED BY <2>1, <2>2
<1>8. at'[p] = "fail" /\ mode'[p] = "recover" => copy'[p].old
  <2> SUFFICES ASSUME at'[p] = "fail", mode'[p] = "recover" PROVE copy'[p].old OBVIOUS
  <2>1. at[p] = "inspect" /\ Releases(p) BY WhereTo
  <2>2. copy'[p] = copy[p] /\ mode'[p] = mode[p] BY <2>1, Reads
  <2> QED BY <2>1, <2>2 DEF Releases
<1>9. ASSUME NEW q \in Workers
      PROVE  /\ copy'[q].old /\ Name(q)' \in Claimants => Retired(Name(q))'
             /\ mode'[q] = "undo" /\ at'[q] \notin Rests => copy'[q].old
             /\ at'[q] = "fail" /\ mode'[q] = "recover" => copy'[q].old
  <2>1. CASE q = p BY <1>6, <1>7, <1>8, <2>1
  <2>2. CASE q # p BY <1>1, <1>2, <2>2 DEF OldIsOver, Name, Retired
  <2> QED BY <2>1, <2>2
<1> QED BY <1>4, <1>9 DEF OldIsOver

LEMMA WorkKeepsReleased ==
  ASSUME TrialTypeOK, Copies, Begun, OldIsOver, Released,
         NEW p \in Workers, Work(p) \/ Dies(p)
  PROVE  Released'
<1> SUFFICES ASSUME ~slept PROVE Released' BY OwnStep DEF Released
<1>1. ASSUME NEW q \in Workers \ {p}, at'[q] \in {"fail", "withdraw"}
      PROVE  account'[Name(q)'] # "ours" /\ Past(Name(q))'
  <2>1. at'[q] = at[q] /\ Name(q)' = Name(q) BY OwnStep DEF Name
  <2>2. Name(q) \in Claimants BY <1>1, <2>1 DEF Copies, Rests
  <2>3. account[Name(q)] # "ours" /\ Past(Name(q)) BY <1>1, <2>1 DEF Released
  <2>4. account'[Name(q)] # "ours" /\ (Name(q) \notin late' /\ at'[Name(q)] \notin {"reserve", "create"})
    BY <2>2, <2>3, OverStays DEF Past
  <2> QED BY <2>1, <2>4 DEF Past
<1>2. ASSUME at'[p] \in {"fail", "withdraw"}
      PROVE  account'[Name(p)'] # "ours" /\ Past(Name(p))'
  <2>1. at[p] \in {"inspect", "delete"} BY <1>2, WhereTo
  <2>2. copy'[p] = copy[p] /\ Name(p)' = Name(p) /\ Name(p) \in Claimants
    BY <2>1, Reads DEF Name, Copies, Rests
  <2>3. account'[Name(p)] # "ours"
    <3>1. CASE at[p] = "inspect"
      BY <1>2, <3>1, Accounts, WhereTo
    <3>2. CASE at[p] = "delete"
      BY <1>2, <3>2, WhereTo
    <3> QED BY <2>1, <3>1, <3>2
  <2>4. mode[p] = "create" \/ copy[p].old
    <3>1. CASE at'[p] = "fail" BY <3>1, WhereTo DEF Releases, TrialTypeOK
    <3>2. CASE at'[p] = "withdraw"
      <4>1. mode[p] \in {"create", "undo"} BY <3>2, WhereTo DEF Copies
      <4> QED BY <2>1, <4>1 DEF OldIsOver, Rests
    <3> QED BY <1>2, <3>1, <3>2
  <2>5. Name(p) \notin late' /\ at'[Name(p)] \notin {"reserve", "create"}
    <3>1. late' = late BY <2>1, Accounts
    <3>2. CASE mode[p] = "create"
      <4>1. Name(p) = p BY <3>2 DEF Copies
      <4>2. p \notin late BY <2>1 DEF Begun
      <4> QED BY <1>2, <3>1, <4>1, <4>2
    <3>3. CASE copy[p].old
      <4>1. Retired(Name(p)) BY <2>2, <3>3 DEF OldIsOver
      <4>2. Retired(Name(p)) /\ Name(p) # p BY <2>2, <4>1, OverStays
      <4>3. at'[Name(p)] = at[Name(p)] BY <2>2, <4>2, OwnStep DEF Workers
      <4> QED BY <3>1, <4>1, <4>3 DEF Retired
    <3> QED BY <2>4, <3>2, <3>3
  <2> QED BY <2>2, <2>3, <2>5 DEF Past
<1> QED BY <1>1, <1>2 DEF Released

LEMMA WorkKeepsOneLive ==
  ASSUME TrialTypeOK, Copies, Begun, Released, OneLive,
         NEW p \in Workers, Work(p) \/ Dies(p)
  PROVE  OneLive'
<1> SUFFICES ASSUME ~slept, NEW n \in Claimants, Live(n)'
             PROVE  claim'.name = n /\ claim'.status \notin {"none", "failed"}
  BY OwnStep DEF OneLive
<1>1. CASE at'[p] = "create"
  <2>1. /\ at[p] = "reserve" /\ Reservable
        /\ claim' = [status |-> "pending", name |-> p, old |-> FALSE]
    BY <1>1, WhereTo
  <2>2. claim'.name = p /\ claim'.status = "pending" BY <2>1
  <2>3. ~Live(n) BY <2>1 DEF OneLive, Reservable
  <2>4. account' = account /\ late' = late BY <2>1, Accounts
  <2>5. n = p BY <2>3, <2>4, OwnStep DEF Live, Workers
  <2> QED BY <2>2, <2>5
<1>2. CASE at'[p] # "create"
  <2>1. Live(n)
    <3>1. n \in Workers /\ (n # p => at'[n] = at[n]) BY OwnStep DEF Workers
    <3>2. at'[n] = "create" => Live(n) BY <1>2, <3>1 DEF Live
    <3>3. n \in late' => Live(n) BY Accounts DEF Live
    <3>4. account'[n] = "ours" => Live(n) BY Accounts DEF Live, TrialTypeOK
    <3> QED BY <3>2, <3>3, <3>4 DEF Live
  <2>2. claim.name = n /\ claim.status \notin {"none", "failed"} BY <2>1 DEF OneLive
  <2>3. ~(at[p] \in {"fail", "withdraw"} /\ Name(p) = n)
    BY <2>1 DEF Released, Live, Past
  <2> QED BY <2>2, <2>3, Claims DEF Reservable
<1> QED BY <1>1, <1>2

LEMMA WorkKeepsUndoing ==
  ASSUME TrialTypeOK, Copies, Begun, OldIsOver, Undoing,
         NEW p \in Workers, Work(p) \/ Dies(p)
  PROVE  Undoing'
<1>1. ASSUME NEW q \in Workers \ {p}
      PROVE  at'[q] = at[q] /\ copy'[q] = copy[q] /\ mode'[q] = mode[q]
  BY OwnStep
<1>2. ASSUME NEW q \in Workers, copy'[q] = copy[q], mode'[q] = mode[q],
             claim'.name = Name(q), claim.status \in Withheld,
             Name(q) \in Claimants,
             ~(at[p] = "restore" /\ Name(p) = Name(q))
      PROVE  claim'.status \in Withheld
  <2>1. at[p] # "reserve" \/ claim' = claim
    <3>1. at[Name(q)] # "reserve" BY <1>2 DEF Begun
    <3>2. claim' = [status |-> "pending", name |-> p, old |-> FALSE] => claim'.name = p
      OBVIOUS
    <3> QED BY <1>2, <3>1, <3>2, Claims
  <2> QED BY <1>2, <2>1, Claims DEF Withheld
<1>3. ASSUME NEW q \in Workers, ~slept, mode'[q] = "undo", at'[q] \notin Rests,
             claim'.name = copy'[q].name
      PROVE  claim'.status \in Withheld
  <2>1. CASE at[q] \notin Rests
    <3>1. copy'[q] = copy[q] /\ mode'[q] = mode[q]
      BY <1>1, <2>1, Reads DEF Rests
    <3>2. Name(q) \in Claimants /\ Retired(Name(q))
      BY <1>3, <2>1, <3>1 DEF OldIsOver, Copies
    <3>3. claim.name = Name(q)
      <4>1. at[Name(q)] # "reserve" BY <3>2 DEF Retired
      <4>2. claim' = [status |-> "pending", name |-> p, old |-> FALSE] => claim'.name = p
        OBVIOUS
      <4> QED BY <1>3, <3>1, <4>1, <4>2, Claims DEF Name
    <3>4. claim.status \in Withheld BY <1>3, <2>1, <3>1, <3>3 DEF Undoing
    <3>5. ~(at[p] = "restore" /\ Name(p) = Name(q))
      BY <3>2 DEF Copies, Retired
    <3> QED BY <1>2, <1>3, <3>1, <3>2, <3>4, <3>5 DEF Name
  <2>2. CASE at[q] \in Rests
    <3>1. q = p BY <1>1, <1>3, <2>2
    <3>2. p = Sweeper BY <1>3, <3>1, Reads DEF Copies
    <3>3. at[p] = "list" BY <2>2, <3>1, <3>2, WhereTo DEF Copies, Rests
    <3>4. List(p)
      BY <1>3, <3>1, <3>3
      DEF Work, Reserve, Existing, Create, Inspect, MarkFailed, MarkForReview,
          ReadClaim, Finalize, Compensate, Recheck, Delete, Restore, Withdraw, Dies,
          Rests, TrialTypeOK
    <3>5. claim' = claim /\ claim.status = "compensating"
      BY <1>3, <3>1, <3>4 DEF List, TrialTypeOK
    <3> QED BY <3>5 DEF Withheld
  <2> QED BY <2>1, <2>2
<1>4. ASSUME NEW q \in Workers, mode'[q] = "create", at'[q] = "delete",
             claim'.name = copy'[q].name
      PROVE  claim'.status \in Withheld
  <2>1. CASE q # p
    <3>1. copy'[q] = copy[q] /\ mode'[q] = mode[q] /\ at[q] = "delete" BY <1>1, <1>4, <2>1
    <3>2. Name(q) = q /\ q \in Claimants BY <1>4, <3>1 DEF Copies
    <3>3. claim.name = Name(q)
      <4>1. claim' = [status |-> "pending", name |-> p, old |-> FALSE] => claim'.name = p
        OBVIOUS
      <4> QED BY <1>4, <2>1, <3>1, <3>2, <4>1, Claims DEF Name
    <3>4. claim.status \in Withheld BY <1>4, <3>1, <3>3 DEF Undoing
    <3>5. ~(at[p] = "restore" /\ Name(p) = Name(q)) BY <2>1, <3>2 DEF Copies
    <3> QED BY <1>2, <1>4, <3>1, <3>2, <3>4, <3>5 DEF Name
  <2>2. CASE q = p
    <3>1. at[p] = "compensate" /\ claim'.status = "compensating"
      <4>1. at[p] = "inspect" => mode'[p] = mode[p] BY Reads
      <4> QED BY <1>4, <2>2, <4>1, WhereTo
    <3> QED BY <3>1 DEF Withheld
  <2> QED BY <2>1, <2>2
<1> QED BY <1>3, <1>4, OwnStep DEF Undoing, Name

(* ... and for what happens besides.                                       *)
LEMMA ElseKeeps ==
  ASSUME TrialInv, Else
  PROVE  TrialInv'
<1> USE DEF TrialInv
<1>1. TrialTypeOK' BY ElseTyped
<1>2. /\ UNCHANGED <<at, mode>>
      /\ \A p \in Workers : Name(p)' = Name(p)
      /\ claim'.name = claim.name
      /\ claim'.status = claim.status
           \/ (claim.status = "completed" /\ claim'.status = "converted")
      /\ late' \subseteq late
  BY ElseDoes
<1>3. \A n \in Claimants : /\ Past(n) /\ account[n] # "ours" => account'[n] # "ours"
                           /\ Past(n) => Past(n)'
                           /\ Retired(n) => Retired(n)'
                           /\ Live(n)' => Live(n)
  BY <1>2, ElseDoes DEF Past, Live, Retired
<1>4. Copies' BY <1>2 DEF Copies
<1>5. Begun' BY <1>2 DEF Begun
<1>6. OldIsOver'
  <2> SUFFICES ASSUME ~slept' PROVE OldIsOver' BY DEF OldIsOver
  <2>1. /\ ~slept
        /\ \A p \in Workers : copy'[p].old => copy[p].old
        /\ claim'.old => claim.old \/ (late' = {} /\ \A p \in Workers : ~AtWork(p))
        /\ copy' = copy \/ \A p \in Workers : ~AtWork(p)
    BY ElseDoes
  <2>2. claim'.old /\ claim'.name \in Claimants => Retired(claim.name)'
    <3>1. CASE claim.old BY <1>2, <1>3, <2>1, <3>1 DEF OldIsOver
    <3>2. CASE late' = {} /\ \A p \in Workers : ~AtWork(p)
      <4> SUFFICES ASSUME claim.name \in Claimants PROVE Retired(claim.name)' BY <1>2
      <4>1. claim.name \in Workers BY DEF Workers
      <4>2. at[claim.name] \in {"end", "dead"} BY <3>2, <4>1 DEF Begun, Copies, AtWork
      <4> QED BY <1>2, <3>2, <4>2 DEF Retired
    <3> QED BY <2>1, <3>1, <3>2
  <2>3. ASSUME NEW p \in Workers
        PROVE  /\ copy'[p].old /\ Name(p)' \in Claimants => Retired(Name(p))'
               /\ mode'[p] = "undo" /\ at'[p] \notin Rests => copy'[p].old
               /\ at'[p] = "fail" /\ mode'[p] = "recover" => copy'[p].old
    <3>1. copy'[p].old /\ Name(p)' \in Claimants => Retired(Name(p))'
      BY <1>2, <1>3, <2>1 DEF OldIsOver, Retired
    <3>2. at[p] \notin Rests => AtWork(p) BY DEF Rests, AtWork
    <3>3. at[p] = "fail" => at[p] \notin Rests BY DEF Rests
    <3> QED BY <1>2, <2>1, <3>1, <3>2, <3>3 DEF OldIsOver
  <2> QED BY <1>2, <2>2, <2>3 DEF OldIsOver, Retired
<1>7. Released'
  <2>1. slept => slept' BY ElseDoes
  <2>2. ASSUME NEW p \in Workers, ~slept', at'[p] \in {"fail", "withdraw"}
        PROVE  account'[Name(p)'] # "ours" /\ Past(Name(p))'
    <3>1. Name(p) \in Claimants BY <1>2, <2>2 DEF Copies, Rests
    <3>2. account[Name(p)] # "ours" /\ Past(Name(p)) BY <1>2, <2>1, <2>2 DEF Released
    <3> QED BY <1>2, <1>3, <3>1, <3>2 DEF Past
  <2> QED BY <2>2 DEF Released
<1>8. OneLive'
  <2>1. slept => slept' BY ElseDoes
  <2> QED BY <1>2, <1>3, <2>1 DEF OneLive
<1>9. Undoing'
  <2>1. slept => slept' BY ElseDoes
  <2> QED BY <1>2, <2>1 DEF Undoing, Withheld
<1> QED BY <1>1, <1>4, <1>5, <1>6, <1>7, <1>8, <1>9

LEMMA TrialStep == TrialInv /\ [TrialNext]_trialVars => TrialInv'
<1> SUFFICES ASSUME TrialInv, [TrialNext]_trialVars PROVE TrialInv' OBVIOUS
<1>1. ASSUME NEW p \in Workers, Work(p) \/ Dies(p) PROVE TrialInv'
  BY <1>1, WorkTyped, WorkKeepsCopies, WorkKeepsBegun, WorkKeepsOldIsOver,
     WorkKeepsReleased, WorkKeepsOneLive, WorkKeepsUndoing
  DEF TrialInv
<1>2. CASE Else BY <1>2, ElseKeeps
<1> QED BY <1>1, <1>2 DEF TrialNext, Else

(* The state of the trial of a user is always of its type.                 *)
THEOREM TrialTyped == TrialSpec => []TrialTypeOK
<1>1. TrialInv => TrialTypeOK BY DEF TrialInv
<1> QED BY <1>1, TrialBegins, TrialStep, PTL DEF TrialSpec

(* A user never has two trial accounts, for any number of calls that race  *)
(* each other and the sweep.                                               *)
THEOREM OneTrialOnly == TrialSpec => []OneTrial
<1>1. TrialInv => OneTrial BY DEF TrialInv, OneLive, Live, OneTrial
<1> QED BY <1>1, TrialBegins, TrialStep, PTL DEF TrialSpec

(* The service never deletes the account of a trial that was granted.      *)
THEOREM TrialIsKept == TrialSpec => TrialStands
<1>1. ASSUME TrialInv, [TrialNext]_trialVars
      PROVE  [\A n \in Claimants :
                account[n] = "ours" /\ account'[n] # "ours"
                  => slept \/ ~(claim.name = n /\ claim.status \in {"completed", "converted"})]_trialVars
  <2> SUFFICES ASSUME NEW n \in Claimants, account[n] = "ours", account'[n] # "ours", ~slept,
                      claim.name = n
               PROVE  claim.status \notin {"completed", "converted"}
    OBVIOUS
  <2>1. TrialTypeOK /\ Copies /\ Undoing BY <1>1 DEF TrialInv
  <2>2. PICK p \in Workers : Work(p) \/ Dies(p)
    <3>1. ~Else BY <2>1, ElseDoes
    <3> QED BY <1>1, <3>1 DEF TrialNext, Else
  <2>3. at[p] = "delete" /\ Name(p) = n
    BY <2>1, <2>2, Accounts DEF TrialTypeOK
  <2>4. claim.status \in Withheld
    <3>1. mode[p] \in {"create", "undo"} BY <2>1, <2>3 DEF Copies
    <3> QED BY <2>1, <2>3, <3>1 DEF Undoing, Rests
  <2> QED BY <2>4 DEF Withheld
<1> QED BY <1>1, TrialBegins, TrialStep, PTL DEF TrialSpec, TrialStands

-----------------------------------------------------------------------------
(* Promo codes.                                                            *)
(* The lock of the row and the transaction that holds it.                  *)
RowIsHeld ==
  \A c \in Uses :
    /\ stage[c] = "count" <=> rowLock = c
    /\ stage[c] = "count" => code.there /\ code.uses < code.terms.max /\ RightKind(c)

(* A use has no redemption before its transaction commits, and a gift      *)
(* inserts no intent.                                                      *)
NothingBefore ==
  \A c \in Uses : /\ stage[c] # "done" => redemption[c] = "none"
                  /\ stage[c] = "insert" => c \notin Gifts

(* The unique index: one purchase of a user is open.                       *)
OneOpen ==
  \A c, d \in Uses \ Gifts :
    InTx(c) /\ UserOf[d] = UserOf[c] => (InTx(d) => d = c)

NonePending ==
  \A c \in Uses \ Gifts, d \in Uses :
    InTx(c) /\ UserOf[d] = UserOf[c] => intent[d] # "pending"

(* What the selection saw of earlier purchases is still so.                *)
FirstStays ==
  \A c \in Uses \ Gifts, d \in Uses :
    stage[c] \in {"consume", "count"} /\ sight[c].first /\ UserOf[d] = UserOf[c]
      => intent[d] # "completed"

PromoInv ==
  /\ PromoTypeOK /\ PromoCounted
  /\ RowIsHeld /\ NothingBefore /\ OneOpen /\ NonePending /\ FirstStays

(* The redemptions are finitely many, no more than the uses.               *)
LEMMA RedeemedFinite ==
  /\ IsFiniteSet(Redeemed) /\ Cardinality(Redeemed) \in Nat
  /\ Cardinality(Uses) \in Nat /\ Cardinality(Redeemed) <= Cardinality(Uses)
  /\ \A c \in Uses : /\ IsFiniteSet(Redeemed \cap Mine(c))
                     /\ Cardinality(Redeemed \cap Mine(c)) \in Nat
<1>1. IsFiniteSet(Uses) BY PromoAssumption
<1>2. Redeemed \subseteq Uses BY DEF Redeemed
<1>3. /\ IsFiniteSet(Redeemed) /\ Cardinality(Redeemed) <= Cardinality(Uses)
  BY <1>1, <1>2, FS_Subset
<1>4. \A c \in Uses : IsFiniteSet(Redeemed \cap Mine(c))
  BY <1>3, FS_Subset
<1> QED BY <1>1, <1>3, <1>4, FS_CardinalityType

(* One more redemption, and one less.                                      *)
LEMMA OneMore ==
  ASSUME NEW c \in Uses, redemption[c] = "none",
         Redeemed' = Redeemed \cup {c}
  PROVE  /\ Cardinality(Redeemed') = Cardinality(Redeemed) + 1
         /\ Cardinality(Redeemed' \cap Mine(c)) = Cardinality(Redeemed \cap Mine(c)) + 1
<1>1. c \notin Redeemed BY DEF Redeemed
<1>2. Cardinality(Redeemed \cup {c}) = Cardinality(Redeemed) + 1
  BY <1>1, RedeemedFinite, FS_AddElement
<1>3. c \in Mine(c) BY DEF Mine
<1>4. Redeemed' \cap Mine(c) = (Redeemed \cap Mine(c)) \cup {c}
  BY <1>3
<1>5. Cardinality((Redeemed \cap Mine(c)) \cup {c}) = Cardinality(Redeemed \cap Mine(c)) + 1
  BY <1>1, RedeemedFinite, FS_AddElement
<1> QED BY <1>2, <1>4, <1>5

LEMMA OneLess ==
  ASSUME NEW c \in Uses, redemption[c] # "none",
         Redeemed' = Redeemed \ {c}
  PROVE  /\ Cardinality(Redeemed') = Cardinality(Redeemed) - 1
         /\ Cardinality(Redeemed) > 0
<1>1. c \in Redeemed BY DEF Redeemed
<1>2. Cardinality(Redeemed \ {c}) = Cardinality(Redeemed) - 1
  BY <1>1, RedeemedFinite, FS_RemoveElement
<1>3. IsFiniteSet(Redeemed \ {c}) BY RedeemedFinite, FS_Subset
<1>4. Cardinality(Redeemed \ {c}) \in Nat BY <1>3, FS_CardinalityType
<1> QED BY <1>2, <1>4, RedeemedFinite

LEMMA PromoBegins == PromoInit => PromoInv
<1> SUFFICES ASSUME PromoInit PROVE PromoInv OBVIOUS
<1>1. NoTerms \in Terms BY PromoAssumption DEF NoTerms
<1>2. Redeemed = {} BY DEF Redeemed, PromoInit
<1>3. Cardinality(Redeemed) = 0 BY <1>2, FS_EmptySet
<1>4. 0 \in 0..Cardinality(Uses) BY RedeemedFinite
<1>5. PromoTypeOK BY <1>1, <1>4 DEF PromoInit, PromoTypeOK, CodeRow, Idle
<1>6. PromoCounted BY <1>2, <1>3 DEF PromoInit, PromoCounted
<1> QED
  BY <1>5, <1>6, PromoAssumption
  DEF PromoInit, PromoInv, RowIsHeld, NothingBefore, OneOpen, NonePending, FirstStays, InTx

(* What a use keeps that rolls back.                                       *)
LEMMA RollbackKeeps ==
  ASSUME PromoInv, NEW c \in Uses, RollsBack(c)
  PROVE  PromoInv'
<1>1. PromoTypeOK' BY DEF PromoInv, PromoTypeOK, RollsBack, Goes
<1>2. PromoCounted' BY DEF PromoInv, PromoCounted, RollsBack, Redeemed
<1>3. RowIsHeld' BY PromoAssumption DEF PromoInv, PromoTypeOK, RowIsHeld, RollsBack, Goes, RightKind
<1>4. NothingBefore' BY DEF PromoInv, PromoTypeOK, NothingBefore, RollsBack, Goes
<1>5. OneOpen' /\ NonePending' /\ FirstStays'
  BY DEF PromoInv, PromoTypeOK, OneOpen, NonePending, FirstStays, RollsBack, Goes, InTx
<1> QED BY <1>1, <1>2, <1>3, <1>4, <1>5 DEF PromoInv

LEMMA BeginKeeps ==
  ASSUME PromoInv, NEW c \in Uses, Begin(c)
  PROVE  PromoInv'
<1>1. PromoTypeOK' BY DEF PromoInv, PromoTypeOK, Begin, Goes
<1>2. PromoCounted' BY DEF PromoInv, PromoCounted, Begin, Redeemed
<1>3. RowIsHeld' BY DEF PromoInv, PromoTypeOK, RowIsHeld, Begin, Goes, RightKind
<1>4. NothingBefore' BY DEF PromoInv, PromoTypeOK, NothingBefore, Begin, Goes
<1>5. OneOpen' /\ NonePending' /\ FirstStays'
  BY DEF PromoInv, PromoTypeOK, OneOpen, NonePending, FirstStays, Begin, Goes, InTx
<1> QED BY <1>1, <1>2, <1>3, <1>4, <1>5 DEF PromoInv

(* Inserting is where the unique index is consulted.                       *)
LEMMA InsertKeeps ==
  ASSUME PromoInv, NEW c \in Uses, Insert(c)
  PROVE  PromoInv'
<1>0. c \notin Gifts BY DEF PromoInv, NothingBefore, Insert
<1>1. CASE \E d \in Mine(c) : intent[d] = "pending"
  BY <1>1, RollbackKeeps DEF Insert
<1>2. CASE \A d \in Mine(c) : intent[d] # "pending"
  <2> USE <1>2
  <2>1. PromoTypeOK' BY DEF PromoInv, PromoTypeOK, Insert, Goes
  <2>2. PromoCounted' BY DEF PromoInv, PromoCounted, Insert, Redeemed
  <2>3. RowIsHeld' BY DEF PromoInv, PromoTypeOK, RowIsHeld, Insert, Goes, RightKind
  <2>4. NothingBefore' BY DEF PromoInv, PromoTypeOK, NothingBefore, Insert, Goes
  <2>5. OneOpen' BY <1>0 DEF PromoInv, PromoTypeOK, OneOpen, Insert, Goes, InTx, Mine
  <2>6. NonePending' BY <1>0 DEF PromoInv, PromoTypeOK, NonePending, Insert, Goes, InTx, Mine
  <2>7. FirstStays' BY DEF PromoInv, PromoTypeOK, FirstStays, Insert, Goes
  <2> QED BY <2>1, <2>2, <2>3, <2>4, <2>5, <2>6, <2>7 DEF PromoInv
<1> QED BY <1>1, <1>2

LEMMA BuyPlainKeeps ==
  ASSUME PromoInv, NEW c \in Uses, BuyPlain(c)
  PROVE  PromoInv'
<1>1. PromoTypeOK' BY DEF PromoInv, PromoTypeOK, BuyPlain, Goes
<1>2. PromoCounted' BY DEF PromoInv, PromoCounted, BuyPlain, Redeemed
<1>3. RowIsHeld' BY DEF PromoInv, PromoTypeOK, RowIsHeld, BuyPlain, Goes, RightKind
<1>4. NothingBefore' BY DEF PromoInv, PromoTypeOK, NothingBefore, BuyPlain, Goes
<1>5. OneOpen' BY DEF PromoInv, PromoTypeOK, OneOpen, BuyPlain, Goes, InTx
<1>6. NonePending'
  BY DEF PromoInv, PromoTypeOK, OneOpen, NonePending, BuyPlain, Goes, InTx
<1>7. FirstStays'
  BY DEF PromoInv, PromoTypeOK, FirstStays, BuyPlain, Goes
<1> QED BY <1>1, <1>2, <1>3, <1>4, <1>5, <1>6, <1>7 DEF PromoInv

LEMMA SelectKeeps ==
  ASSUME PromoInv, NEW c \in Uses, Select(c)
  PROVE  PromoInv'
<1>1. CASE ~Selectable(c)
  BY <1>1, RollbackKeeps DEF Select
<1>2. CASE Selectable(c)
  <2> USE <1>2
  <2>1. PromoTypeOK' BY DEF PromoInv, PromoTypeOK, CodeRow, Select, Goes
  <2>2. PromoCounted' BY DEF PromoInv, PromoCounted, Select, Redeemed
  <2>3. RowIsHeld' BY DEF PromoInv, PromoTypeOK, RowIsHeld, Select, Goes, RightKind
  <2>4. NothingBefore' BY DEF PromoInv, PromoTypeOK, NothingBefore, Select, Goes
  <2>5. OneOpen' /\ NonePending'
    BY DEF PromoInv, PromoTypeOK, OneOpen, NonePending, Select, Goes, InTx
  <2>6. FirstStays'
    BY DEF PromoInv, PromoTypeOK, FirstStays, Select, Goes, Selectable, HasBought, Mine
  <2> QED BY <2>1, <2>2, <2>3, <2>4, <2>5, <2>6 DEF PromoInv
<1> QED BY <1>1, <1>2

LEMMA ConsumeKeeps ==
  ASSUME PromoInv, NEW c \in Uses, Consume(c)
  PROVE  PromoInv'
<1>1. CASE ~(Available /\ RightKind(c))
  BY <1>1, RollbackKeeps DEF Consume
<1>2. CASE Available /\ RightKind(c)
  <2> USE <1>2
  <2>1. PromoTypeOK' BY DEF PromoInv, PromoTypeOK, Consume, Goes
  <2>2. PromoCounted' BY DEF PromoInv, PromoCounted, Consume, Redeemed
  <2>3. RowIsHeld'
    BY PromoAssumption
    DEF PromoInv, PromoTypeOK, RowIsHeld, Consume, Goes, RightKind, Available, RowFree
  <2>4. NothingBefore' BY DEF PromoInv, PromoTypeOK, NothingBefore, Consume, Goes
  <2>5. OneOpen' /\ NonePending' /\ FirstStays'
    BY DEF PromoInv, PromoTypeOK, OneOpen, NonePending, FirstStays, Consume, Goes, InTx
  <2> QED BY <2>1, <2>2, <2>3, <2>4, <2>5 DEF PromoInv
<1> QED BY <1>1, <1>2

(* The use that commits holds the row, so the code is as it was consumed.  *)
LEMMA CommitUseCounts ==
  ASSUME PromoInv, NEW c \in Uses, CommitUse(c), ~RollsBack(c)
  PROVE  /\ UsesLeft(c)
         /\ RightKind(c)
         /\ redemption[c] = "none"
         /\ Redeemed' = Redeemed \cup {c}
         /\ code' = [code EXCEPT !.uses = Cardinality(Redeemed')]
         /\ Cardinality(Redeemed') <= code.terms.max
         /\ Cardinality(Redeemed' \cap Mine(c)) <= code.terms.each
<1>1. /\ UsesLeft(c)
      /\ redemption' = [redemption EXCEPT ![c] = IF c \in Gifts THEN "completed" ELSE "pending"]
      /\ code' = [code EXCEPT !.uses = @ + 1]
  BY DEF CommitUse, UsesLeftNow
<1>2. code.there /\ code.uses < code.terms.max /\ RightKind(c)
  BY DEF PromoInv, RowIsHeld, CommitUse
<1>3. redemption[c] = "none" BY DEF PromoInv, NothingBefore, CommitUse
<1>4. Redeemed' = Redeemed \cup {c}
  BY <1>1 DEF Redeemed, PromoInv, PromoTypeOK
<1>5. /\ Cardinality(Redeemed') = Cardinality(Redeemed) + 1
      /\ Cardinality(Redeemed' \cap Mine(c)) = Cardinality(Redeemed \cap Mine(c)) + 1
  BY <1>3, <1>4, OneMore
<1>6. code.uses = Cardinality(Redeemed) BY DEF PromoInv, PromoCounted
<1>7. code.terms.max \in Nat /\ code.terms.each \in Nat
  BY PromoAssumption DEF PromoInv, PromoTypeOK, CodeRow
<1>8. Cardinality(Redeemed' \cap Mine(c)) <= code.terms.each
  BY <1>1, <1>5, <1>7, RedeemedFinite DEF UsesLeft
<1> QED BY <1>1, <1>2, <1>3, <1>4, <1>5, <1>6, <1>7, <1>8, RedeemedFinite

LEMMA CommitUseKeeps ==
  ASSUME PromoInv, NEW c \in Uses, CommitUse(c)
  PROVE  PromoInv'
<1>1. CASE RollsBack(c) BY <1>1, RollbackKeeps
<1>2. CASE ~RollsBack(c)
  <2> DEFINE n == Cardinality(Redeemed')
  <2>1. /\ code' = [code EXCEPT !.uses = n] /\ n <= code.terms.max
        /\ Redeemed' = Redeemed \cup {c}
    BY <1>2, CommitUseCounts
  <2>2. /\ redemption' = [redemption EXCEPT ![c] = IF c \in Gifts THEN "completed" ELSE "pending"]
        /\ intent' = [intent EXCEPT ![c] = IF c \in Gifts THEN "none" ELSE "pending"]
        /\ rowLock' = NoUse /\ stage' = [stage EXCEPT ![c] = "done"]
        /\ UNCHANGED <<sight, editor>>
    BY <1>2 DEF CommitUse, Goes
  <2>3. stage[c] = "count" /\ rowLock = c BY DEF CommitUse, PromoInv, RowIsHeld
  <2>4. Redeemed' \subseteq Uses BY <2>1 DEF Redeemed
  <2>5. n \in 0..Cardinality(Uses)
    BY <2>4, PromoAssumption, FS_Subset, FS_CardinalityType
  <2> HIDE DEF n
  <2>6. PromoTypeOK' BY <2>1, <2>2, <2>5 DEF PromoInv, PromoTypeOK, CodeRow
  <2>7. PromoCounted'
    <3>1. code.there BY <2>3 DEF PromoInv, RowIsHeld
    <3> QED BY <2>1, <3>1 DEF PromoInv, PromoTypeOK, CodeRow, PromoCounted, n
  <2>8. RowIsHeld'
    BY <2>2, <2>3, PromoAssumption DEF PromoInv, PromoTypeOK, RowIsHeld
  <2>9. NothingBefore' BY <2>2 DEF PromoInv, PromoTypeOK, NothingBefore
  <2>10. OneOpen' BY <2>2, <2>3 DEF PromoInv, PromoTypeOK, OneOpen, InTx
  <2>11. NonePending'
    BY <2>2, <2>3 DEF PromoInv, PromoTypeOK, OneOpen, NonePending, InTx
  <2>12. FirstStays' BY <2>2 DEF PromoInv, PromoTypeOK, FirstStays
  <2> QED
    BY <2>6, <2>7, <2>8, <2>9, <2>10, <2>11, <2>12 DEF PromoInv
<1> QED BY <1>1, <1>2

LEMMA UnsureKeeps ==
  ASSUME PromoInv, NEW c \in Uses, Unsure(c)
  PROVE  PromoInv'
<1>1. PromoTypeOK' BY DEF PromoInv, PromoTypeOK, Unsure
<1>2. PromoCounted' BY DEF PromoInv, PromoCounted, Unsure, Redeemed
<1>3. RowIsHeld' BY DEF PromoInv, RowIsHeld, Unsure, RightKind
<1>4. NothingBefore' /\ OneOpen' BY DEF PromoInv, NothingBefore, OneOpen, Unsure, InTx
<1>5. NonePending' /\ FirstStays'
  BY DEF PromoInv, PromoTypeOK, NonePending, FirstStays, Unsure, InTx
<1> QED BY <1>1, <1>2, <1>3, <1>4, <1>5 DEF PromoInv

(* While a user has a purchase in a transaction none that is pending is    *)
(* there to be completed.                                                  *)
LEMMA CompleteKeeps ==
  ASSUME PromoInv, NEW c \in Uses, Complete(c)
  PROVE  PromoInv'
<1>1. PromoTypeOK' BY DEF PromoInv, PromoTypeOK, Complete
<1>2. Redeemed' = Redeemed BY DEF PromoInv, PromoTypeOK, Complete, Redeemed
<1>3. PromoCounted' BY <1>2 DEF PromoInv, PromoCounted, Complete
<1>4. RowIsHeld' BY DEF PromoInv, RowIsHeld, Complete, RightKind
<1>5. NothingBefore' BY DEF PromoInv, PromoTypeOK, NothingBefore, Complete
<1>6. OneOpen' BY DEF PromoInv, OneOpen, Complete, InTx
<1>7. NonePending' BY DEF PromoInv, PromoTypeOK, NonePending, Complete, InTx
<1>8. FirstStays'
  BY DEF PromoInv, PromoTypeOK, NonePending, FirstStays, Complete, InTx
<1> QED BY <1>1, <1>3, <1>4, <1>5, <1>6, <1>7, <1>8 DEF PromoInv

LEMMA ReleaseKeeps ==
  ASSUME PromoInv, NEW c \in Uses, Release(c)
  PROVE  PromoInv'
<1>1. NonePending' /\ FirstStays'
  BY DEF PromoInv, PromoTypeOK, NonePending, FirstStays, Release, InTx
<1>2. OneOpen' BY DEF PromoInv, OneOpen, Release, InTx
<1>3. CASE redemption[c] # "pending"
  <2> USE <1>3
  <2>1. PromoTypeOK' BY DEF PromoInv, PromoTypeOK, Release
  <2>2. PromoCounted' BY DEF PromoInv, PromoCounted, Release, Redeemed
  <2>3. RowIsHeld' /\ NothingBefore'
    BY DEF PromoInv, RowIsHeld, NothingBefore, Release, RightKind
  <2> QED BY <1>1, <1>2, <2>1, <2>2, <2>3 DEF PromoInv
<1>4. CASE redemption[c] = "pending"
  <2>1. /\ redemption' = [redemption EXCEPT ![c] = "none"]
        /\ code' = [code EXCEPT !.uses = IF @ > 0 THEN @ - 1 ELSE 0]
        /\ rowLock = NoUse
        /\ intent' = [intent EXCEPT ![c] = "failed"]
        /\ UNCHANGED <<stage, sight, editor, rowLock>>
    BY <1>4 DEF Release, RowFree
  <2>2. Redeemed' = Redeemed \ {c}
    BY <2>1 DEF PromoInv, PromoTypeOK, Redeemed
  <2>3. /\ Cardinality(Redeemed') = Cardinality(Redeemed) - 1
        /\ Cardinality(Redeemed) > 0
    BY <1>4, <2>2, OneLess
  <2>4. code.uses = Cardinality(Redeemed) /\ code.there
    BY <2>3, FS_EmptySet DEF PromoInv, PromoCounted
  <2>5. code' = [code EXCEPT !.uses = Cardinality(Redeemed')]
    BY <2>1, <2>3, <2>4
  <2>6. Cardinality(Redeemed') \in 0..Cardinality(Uses)
    BY <2>3, RedeemedFinite
  <2>7. PromoTypeOK' BY <2>1, <2>5, <2>6 DEF PromoInv, PromoTypeOK, CodeRow
  <2>8. PromoCounted'
    <3>1. code.terms.max \in Nat BY PromoAssumption DEF PromoInv, PromoTypeOK, CodeRow
    <3>2. code.uses <= code.terms.max BY <2>4 DEF PromoInv, PromoCounted
    <3> QED
      BY <2>3, <2>4, <2>5, <3>1, <3>2, RedeemedFinite
      DEF PromoInv, PromoTypeOK, CodeRow, PromoCounted
  <2>9. RowIsHeld'
    BY <2>1, PromoAssumption DEF PromoInv, PromoTypeOK, RowIsHeld
  <2>10. NothingBefore' BY <2>1 DEF PromoInv, PromoTypeOK, NothingBefore
  <2> QED BY <1>1, <1>2, <2>7, <2>8, <2>9, <2>10 DEF PromoInv
<1> QED BY <1>3, <1>4

LEMMA EditKeeps ==
  ASSUME PromoInv, EditRead \/ EditWrite
  PROVE  PromoInv'
<1>1. CASE EditRead
  <2> USE <1>1
  <2>1. PromoTypeOK'
    BY PromoAssumption DEF PromoInv, PromoTypeOK, CodeRow, EditRead
  <2>2. PromoCounted' BY DEF PromoInv, PromoCounted, EditRead, Redeemed
  <2> QED
    BY <2>1, <2>2
    DEF PromoInv, RowIsHeld, NothingBefore, OneOpen, NonePending, FirstStays, EditRead,
        InTx, RightKind
<1>2. CASE EditWrite
  <2> USE <1>2
  <2>1. rowLock = NoUse /\ UNCHANGED <<redemption, intent, stage, sight, rowLock>>
    BY DEF EditWrite, RowFree
  <2>2. Redeemed' = Redeemed BY <2>1 DEF Redeemed
  <2>3. CASE UNCHANGED code
    <3>1. PromoTypeOK' BY <2>1, <2>3, RedeemedFinite DEF PromoInv, PromoTypeOK, EditWrite, Idle
    <3>2. PromoCounted' BY <2>2, <2>3 DEF PromoInv, PromoCounted
    <3> QED
      BY <2>1, <2>3, <3>1, <3>2
      DEF PromoInv, RowIsHeld, NothingBefore, OneOpen, NonePending, FirstStays,
          InTx, RightKind
  <2>4. CASE ~UNCHANGED code
    <3>1. PICK t \in Terms :
            LET uses == IF code.there THEN code.uses ELSE 0 IN
            /\ uses <= t.max
            /\ code' = [there |-> TRUE, terms |-> t, uses |-> uses,
                        active |-> TRUE, expired |-> FALSE]
      BY <2>4 DEF EditWrite
    <3> DEFINE uses == IF code.there THEN code.uses ELSE 0
    <3>2. uses = Cardinality(Redeemed)
      BY FS_EmptySet DEF PromoInv, PromoCounted
    <3>3. PromoTypeOK'
      BY <2>1, <3>1, RedeemedFinite
      DEF PromoInv, PromoTypeOK, CodeRow, EditWrite, Idle
    <3>4. PromoCounted' BY <2>2, <3>1, <3>2 DEF PromoCounted
    <3>5. RowIsHeld'
      BY <2>1, PromoAssumption DEF PromoInv, PromoTypeOK, RowIsHeld
    <3> QED
      BY <2>1, <3>3, <3>4, <3>5
      DEF PromoInv, NothingBefore, OneOpen, NonePending, FirstStays, InTx
  <2> QED BY <2>3, <2>4
<1> QED BY <1>1, <1>2

LEMMA SwitchKeeps ==
  ASSUME PromoInv, SetActive \/ DeleteCode \/ Expire
  PROVE  PromoInv'
<1>1. UNCHANGED <<redemption, intent, stage, sight, editor, rowLock>>
  BY DEF SetActive, DeleteCode, Expire
<1>2. Redeemed' = Redeemed BY <1>1 DEF Redeemed
<1>3. PromoTypeOK'
  <2>1. PromoTypeOK BY DEF PromoInv
  <2>2. CASE SetActive
    <3>1. (~code.active) \in BOOLEAN OBVIOUS
    <3>2. code' \in CodeRow BY <2>1, <2>2, <3>1 DEF PromoTypeOK, CodeRow, SetActive
    <3> QED BY <1>1, <2>1, <3>2 DEF PromoTypeOK
  <2>3. CASE DeleteCode
    <3>1. code' \in CodeRow BY <2>1, <2>3 DEF PromoTypeOK, CodeRow, DeleteCode
    <3> QED BY <1>1, <2>1, <3>1 DEF PromoTypeOK
  <2>4. CASE Expire
    <3>1. code' \in CodeRow BY <2>1, <2>4 DEF PromoTypeOK, CodeRow, Expire
    <3> QED BY <1>1, <2>1, <3>1 DEF PromoTypeOK
  <2> QED BY <2>2, <2>3, <2>4
<1>4. /\ code'.terms = code.terms /\ code'.uses = code.uses
      /\ code'.there = code.there \/ (rowLock = NoUse /\ Redeemed = {})
  BY DEF PromoInv, PromoTypeOK, CodeRow, SetActive, DeleteCode, Expire, RowFree
<1>5. code'.there \in BOOLEAN /\ (code'.there => code.there)
  BY DEF PromoInv, PromoTypeOK, CodeRow, SetActive, DeleteCode, Expire
<1>6. PromoCounted'
  BY <1>2, <1>4, <1>5 DEF PromoInv, PromoTypeOK, CodeRow, PromoCounted
<1>7. RowIsHeld'
  BY <1>1, <1>4, PromoAssumption DEF PromoInv, PromoTypeOK, RowIsHeld, RightKind
<1> QED
  BY <1>1, <1>3, <1>6, <1>7
  DEF PromoInv, NothingBefore, OneOpen, NonePending, FirstStays, InTx

LEMMA PromoStep == PromoInv /\ [PromoNext]_promoVars => PromoInv'
<1> SUFFICES ASSUME PromoInv, [PromoNext]_promoVars PROVE PromoInv' OBVIOUS
<1>1. CASE UNCHANGED promoVars
  BY <1>1
  DEF promoVars, PromoInv, PromoTypeOK, PromoCounted, RowIsHeld, NothingBefore, OneOpen,
      NonePending, FirstStays, InTx, RightKind, Redeemed
<1>2. ASSUME NEW c \in Uses,
             \/ Begin(c) \/ Insert(c) \/ BuyPlain(c) \/ Select(c) \/ Consume(c)
             \/ CommitUse(c) \/ Unsure(c) \/ Complete(c) \/ Release(c)
      PROVE  PromoInv'
  BY <1>2, BeginKeeps, InsertKeeps, BuyPlainKeeps, SelectKeeps, ConsumeKeeps,
     CommitUseKeeps, UnsureKeeps, CompleteKeeps, ReleaseKeeps
<1>3. CASE EditRead \/ EditWrite BY <1>3, EditKeeps
<1>4. CASE SetActive \/ DeleteCode \/ Expire BY <1>4, SwitchKeeps
<1> QED BY <1>1, <1>2, <1>3, <1>4 DEF PromoNext

(* Only the commit of a use makes a redemption.                            *)
LEMMA OnlyCommitRedeems ==
  ASSUME PromoInv, [PromoNext]_promoVars,
         NEW c \in Uses, redemption[c] = "none", redemption'[c] # "none"
  PROVE  CommitUse(c) /\ ~RollsBack(c)
<1>1. ASSUME NEW d \in Uses, RollsBack(d) PROVE FALSE
  BY <1>1 DEF RollsBack
<1>2. ASSUME NEW d \in Uses, Begin(d) \/ Insert(d) \/ BuyPlain(d) \/ Select(d)
                              \/ Consume(d) \/ Unsure(d)
      PROVE  FALSE
  BY <1>1, <1>2 DEF Begin, Insert, BuyPlain, Select, Consume, Unsure
<1>3. ASSUME NEW d \in Uses, Complete(d) \/ Release(d) PROVE FALSE
  BY <1>3 DEF Complete, Release, PromoInv, PromoTypeOK
<1>4. ASSUME NEW d \in Uses, CommitUse(d) PROVE CommitUse(c) /\ ~RollsBack(c)
  <2>1. redemption' = [redemption EXCEPT ![d] = IF d \in Gifts THEN "completed" ELSE "pending"]
    BY <1>1, <1>4 DEF CommitUse
  <2>2. d = c BY <2>1 DEF PromoInv, PromoTypeOK
  <2> QED BY <1>1, <1>4, <2>2
<1>5. ~(EditRead \/ EditWrite \/ SetActive \/ DeleteCode \/ Expire \/ UNCHANGED promoVars)
  BY DEF EditRead, EditWrite, SetActive, DeleteCode, Expire, promoVars
<1> QED BY <1>2, <1>3, <1>4, <1>5 DEF PromoNext

(* The state of a code and of the transactions that use it is always of    *)
(* its type: the count of the uses never leaves 0..Cardinality(Uses), so   *)
(* that no release runs into the guard against a negative count.           *)
THEOREM PromoTyped == PromoSpec => []PromoTypeOK
<1>1. PromoInv => PromoTypeOK BY DEF PromoInv
<1> QED BY <1>1, PromoBegins, PromoStep, PTL DEF PromoSpec

(* The uses a code shows are its redemptions, and every redemption is      *)
(* committed within the terms of the code, for any users, uses and terms.  *)
THEOREM PromoIsKept == PromoSpec => PromoKept
<1>1. ASSUME PromoInv, [PromoNext]_promoVars
      PROVE  [/\ PromoCounted'
              /\ \A c \in Uses : redemption[c] = "none" /\ redemption'[c] # "none" =>
                   /\ RightKind(c)
                   /\ Cardinality(Redeemed' \cap Mine(c)) <= code.terms.each
                   /\ c \notin Gifts /\ sight[c].first
                        => \A d \in Mine(c) : intent[d] # "completed"]_promoVars
  <2>1. PromoCounted' BY <1>1, PromoStep DEF PromoInv
  <2>2. ASSUME NEW c \in Uses, redemption[c] = "none", redemption'[c] # "none"
        PROVE  /\ RightKind(c)
               /\ Cardinality(Redeemed' \cap Mine(c)) <= code.terms.each
               /\ c \notin Gifts /\ sight[c].first
                    => \A d \in Mine(c) : intent[d] # "completed"
    <3>1. CommitUse(c) /\ ~RollsBack(c) BY <1>1, <2>2, OnlyCommitRedeems
    <3>2. RightKind(c) /\ Cardinality(Redeemed' \cap Mine(c)) <= code.terms.each
      BY <1>1, <3>1, CommitUseCounts
    <3>3. c \notin Gifts /\ sight[c].first => \A d \in Mine(c) : intent[d] # "completed"
      BY <1>1, <3>1 DEF CommitUse, PromoInv, FirstStays, Mine
    <3> QED BY <3>2, <3>3
  <2> QED BY <2>1, <2>2
<1> QED BY <1>1, PromoBegins, PromoStep, PTL DEF PromoSpec, PromoKept

-----------------------------------------------------------------------------
(* The office runs the three side by side: a step of one is a stutter of   *)
(* the others.                                                             *)
LEMMA OfficeIsAll == FairSpec => TrialSpec /\ PromoSpec /\ BroadcastSpec
<1>1. Init => TrialInit /\ PromoInit /\ BroadcastInit BY DEF Init
<1>2. [Next]_<<part, trialVars, promoVars, broadcastVars>> =>
        [TrialNext]_trialVars /\ [PromoNext]_promoVars /\ [BroadcastNext]_broadcastVars
  BY DEF Next
<1> QED BY <1>1, <1>2, PTL DEF FairSpec, TrialSpec, PromoSpec, BroadcastSpec

(* Every variable of the trials, the promo codes and the broadcast keeps   *)
(* its type.                                                               *)
THEOREM OfficeTyped == FairSpec => []OfficeTypeOK
BY OfficeIsAll, TrialTyped, PromoTyped, BroadcastTyped, PTL DEF OfficeTypeOK
=============================================================================
