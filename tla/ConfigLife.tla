----------------------------- MODULE ConfigLife -----------------------------
(***************************************************************************)
(* One configuration and every operation on it at once: its refund, its    *)
(* deletion, transfer, renewal, the sweeps over it and the claim of its    *)
(* link, against crashes, a panel that fails and a world that goes on.     *)
(***************************************************************************)
EXTENDS ConfigOps, Refund

lifeVars == <<configVars, refundVars>>

LifeTypeOK == ConfigTypeOK /\ RefundTypeOK

LifeInit == ConfigInit /\ RefundInit

(* The transaction of a dead process is rolled back.                       *)
Dies(p) ==
  /\ Crash(p)
  /\ sale' = IF sale.lock = p THEN [sale EXCEPT !.lock = "free"] ELSE sale
  /\ UNCHANGED <<cashed, refund, repaid, quote, erased, stalled>>

LifeNext ==
  \/ \E p \in Procs : ConfigStep(p) /\ UNCHANGED refundVars
  \/ \E p \in Procs : RefundStep(p) \/ Dies(p)
  \/ LeaseExpires
  \/ World /\ UNCHANGED refundVars

LifeSpec == LifeInit /\ [][LifeNext]_lifeVars

-----------------------------------------------------------------------------
(* Safety.                                                                 *)

(* Nobody keeps a service that was refunded: when the wallet is credited   *)
(* the panel user of the purchase is gone for good, whoever finished the   *)
(* refund and whatever it had read before.                                 *)
RefundedMeansGone == repaid # <<>> => Gone \/ panel.made # 0

(* Foreground, recovery, lost acknowledgements and a second attempt credit *)
(* one refund at most, the purchase is refunded exactly then, and a buyer  *)
(* who is shown a refund got the amount that he was shown.                 *)
RefundBooks ==
  /\ Len(repaid) <= 1
  /\ sale.status = "refunded" <=> repaid # <<>>
  /\ refund.status = "completed" => repaid # <<>>
  /\ \A p \in Procs : Kind(p) = "refund" /\ pc[p] = "done" => repaid = <<quote[p]>>

(* Only its owner ever agreed to the auto-renewal of a configuration, also *)
(* when the consent crosses a transfer.                                    *)
ConsentIsOwners == row.auto \in {NoOne, row.owner}

(* "Refunding a renewed service requires reversing multiple historical     *)
(* purchases and reward settlements; keep that case manual and safe."      *)
(* (RefundService.ts): a refund deletes no service that was renewed.       *)
RenewedNotRefunded == erased = {} \/ renewed = {}

-----------------------------------------------------------------------------
(* Liveness.                                                               *)

(* Live processes take their steps, leases run out, and the sweeps run     *)
(* until the panel answers and they are not interrupted.                   *)
Turn(p) == (ConfigStep(p) /\ UNCHANGED refundVars) \/ RefundStep(p)
Answered(p) == Assess(p) /\ seen'[p].panel = GlanceAt(panel) /\ pc'[p] # "list" /\ UNCHANGED refundVars
PeekAnswered(p) == Peek(p) /\ pc'[p] # "claim"
Fairness ==
  /\ \A p \in Procs : WF_lifeVars(Turn(p))
  /\ SF_lifeVars(LeaseExpires)
  /\ SF_lifeVars(\E p \in Procs : Resident(p) /\ Answered(p))
  /\ SF_lifeVars(\E p \in Procs : Resident(p) /\ Write(p) /\ UNCHANGED refundVars)
  /\ SF_lifeVars(\E p \in Procs : ClaimRefund(p))
  /\ SF_lifeVars(\E p \in Procs : PeekAnswered(p))
  /\ SF_lifeVars(\E p \in Procs : Abandon(p) \/ Finish(p))

LifeFairSpec == LifeSpec /\ Fairness

(* A buyer whose service was deleted for a refund gets the refund, through *)
(* crashes, lost answers and lost acknowledgements - unless somebody slept *)
(* through a lease of twelve minutes or another panel user took the name.  *)
DeletedIsRefunded ==
  (\E p \in Procs : Kind(p) = "sweeper") /\ erased # {}
    ~> (repaid # <<>> \/ stalled \/ panel.made # 0)

(* Whatever stale observation it has written without the lock, the sync    *)
(* at last caches what the panel shows.                                    *)
CacheCatchesUp ==
  (\E p \in Procs : Kind(p) = "sync")
    => <>[](row.id = 0 \/ row.status = Observed(panel))
=============================================================================
