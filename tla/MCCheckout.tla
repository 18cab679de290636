----------------------------- MODULE MCCheckout -----------------------------
(***************************************************************************)
(* Small instances of Checkout and Orphans in one run: a behaviour is about*)
(* a checkout that is confirmed three times, or about a username, with two *)
(* overlapping scans or with the scans of the cron and the repairs of an   *)
(* administrator.  The other one stays as it begins.                       *)
(***************************************************************************)
EXTENDS Checkout, Orphans, TLC

CONSTANTS buyer, order, tap1, tap2, tap3

VARIABLE part

MCBuyer == order :> buyer
MCOf == (tap1 :> order) @@ (tap2 :> order) @@ (tap3 :> order)

(* Beside two scans the row has its fingerprint and others get two moves;  *)
(* beside repairs they get three if the row has its fingerprint, and two if*)
(* it has its URL, its note or nothing to show.                            *)
DeskInit ==
  /\ part \in {"checkout", "scans", "repairs"}
  /\ Init /\ OrphansInit
  /\ part = "checkout" => binding.mark = 1 /\ moves = 0
  /\ part = "scans" => binding.mark = 1 /\ moves = 1
  /\ part = "repairs" => moves = (IF binding.mark = 1 THEN 0 ELSE 1)

OrphanStep ==
  \/ \E s \in Scanners : (part = "repairs" => s = Cron) /\ Scan(s)
  \/ part = "repairs" /\ \E r \in Admins : Repair(r)
  \/ IgnoreIssue
  \/ Others

DeskNext ==
  \/ part = "checkout" /\ Next /\ UNCHANGED <<part, orphanVars>>
  \/ part # "checkout" /\ OrphanStep /\ UNCHANGED <<part, vars>>

(* The fairness of Checkout, for the behaviours that are about it.         *)
CheckoutFairness ==
  /\ \A t \in Taps :
       /\ WF_vars(part = "checkout" /\ pc[t] # "idle" /\ Tap(t))
       /\ WF_vars(part = "checkout" /\ Settle(t))
  /\ \A c \in Checkouts :
       /\ WF_vars(part = "checkout" /\ FiveMinutes(c))
       /\ SF_vars(part = "checkout" /\ RecoverRead("sweep", c))
       /\ SF_vars(part = "checkout" /\ RecoverWrite("sweep", c))

(* The cron scans again and again, whoever has begun goes on, and one day  *)
(* the others leave off.                                                   *)
OrphansFairness ==
  /\ WF_orphanVars(part # "checkout" /\ Scan(Cron))
  /\ \A s \in Scanners \ {Cron} :
       WF_orphanVars(part = "scans" /\ at[s] # "idle" /\ Scan(s))
  /\ \A r \in Admins : WF_orphanVars(part = "repairs" /\ at[r] # "idle" /\ Repair(r))
  /\ WF_orphanVars(part # "checkout" /\ (SaleBinds \/ Calm))

DeskSpec ==
  /\ DeskInit /\ [][DeskNext]_<<part, vars, orphanVars>>
  /\ CheckoutFairness /\ OrphansFairness

DeskTypeOK == TypeOK /\ OrphansTypeOK
=============================================================================
