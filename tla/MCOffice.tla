------------------------------ MODULE MCOffice ------------------------------
(***************************************************************************)
(* Small instances of Trial, Promo and Broadcast in one run: a behaviour   *)
(* is about one of them, the others stay as they begin.                    *)
(***************************************************************************)
EXTENDS Trial, Promo, Broadcast

CONSTANTS anna, bert, sweep, shopper, promo1, promo2, gift1, gift2, row1, row2, bot1, bot2

VARIABLE part

MCUserOf == [c \in {promo1, promo2, gift1, gift2} |-> shopper]
MCTerms ==
  {[gift |-> FALSE, max |-> 1, each |-> 2, first |-> TRUE],
   [gift |-> TRUE, max |-> 2, each |-> 1, first |-> FALSE]}

Init ==
  /\ part \in {"trial", "promo", "broadcast"}
  /\ TrialInit /\ PromoInit /\ BroadcastInit
  /\ part # "trial" => \A n \in Claimants : account[n] = "absent"

Next ==
  \/ part = "trial" /\ TrialNext /\ UNCHANGED <<part, promoVars, broadcastVars>>
  \/ part = "promo" /\ PromoNext /\ UNCHANGED <<part, trialVars, broadcastVars>>
  \/ part = "broadcast" /\ BroadcastNext /\ UNCHANGED <<part, trialVars, promoVars>>

(* Calls and sweeps go on, late requests land, time passes, and one day    *)
(* the panel answers and nothing interrupts the sweep.                     *)
TrialFairness ==
  /\ \A p \in Workers : WF_trialVars(part = "trial" /\ Work(p))
  /\ \A n \in Claimants : WF_trialVars(part = "trial" /\ Lands(n))
  /\ WF_trialVars(part = "trial" /\ FaultsEnd)
  /\ SF_trialVars(part = "trial" /\ FiveMinutes)

(* Replicas poll, consumers go on, time passes, and the faults end.        *)
BroadcastFairness ==
  /\ \A w \in Replicas : WF_broadcastVars(part = "broadcast" /\ RunStep(w))
  /\ WF_broadcastVars(part = "broadcast" /\ Consumers)
  /\ WF_broadcastVars(part = "broadcast" /\ TenMinutes)
  /\ WF_broadcastVars(part = "broadcast" /\ Steady)

FairSpec ==
  /\ Init /\ [][Next]_<<part, trialVars, promoVars, broadcastVars>>
  /\ TrialFairness /\ BroadcastFairness

OfficeTypeOK == TrialTypeOK /\ PromoTypeOK /\ BroadcastTypeOK
=============================================================================
