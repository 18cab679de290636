-------------------------- MODULE ConfigLifeProofs --------------------------
(***************************************************************************)
(* The safety of the operations on a configuration, for any users, prices, *)
(* mixes of operations and faults.  A refund that is past its quote has    *)
(* the config lock, so the amount of the intent stays what its buyer was   *)
(* shown; and whoever is about to credit the wallet has seen the panel     *)
(* user gone, which it is for good.                                        *)
(***************************************************************************)
EXTENDS ConfigLife, TLAPS

(* Which operations come by which steps.                                   *)
OutsideRefund == {"list", "assess", "off", "locked", "act", "write",
                  "claim", "peek", "finish", "abandon", "award", "pay"}
UnderRefund == {"arm", "verify", "armDelete", "erase", "settle", "mark"}

Places ==
  \A p \in Procs :
    /\ pc[p] = "list" => Kind(p) \in {"sync", "auto", "cleanup"}
    /\ pc[p] = "assess" => Kind(p) \in {"sync", "auto", "cleanup", "claim"}
    /\ pc[p] = "locked" => Kind(p) \notin {"sync", "claim", "consent", "refund", "sweeper", "bonus"}
    /\ pc[p] = "act" => Kind(p) \in {"toggle", "delete", "cleanup", "renew", "auto"}
    /\ pc[p] \in {"read", "lock"} => Kind(p) \notin {"sync", "claim", "sweeper", "bonus"}
    /\ pc[p] \in {"judge", "price"} => Kind(p) = "refund"
    /\ Kind(p) = "refund" => pc[p] \notin OutsideRefund

(* A refund that has acquired its intent has the lock, and its amount.     *)
Armed ==
  \A p \in Procs :
    /\ pc[p] \in UnderRefund \cup {"acquire"} => lock = p
    /\ pc[p] \in UnderRefund => refund.amount = quote[p]

(* The panel user of the purchase is gone for good.                        *)
GoneForGood == Gone \/ panel.made # 0

(* Who is about to credit the wallet, or has done so, knows it gone.       *)
CreditsGone ==
  /\ \A p \in Procs : pc[p] \in {"settle", "finish"} => GoneForGood
  /\ repaid # <<>> => GoneForGood

(* What is credited.                                                       *)
Credited ==
  /\ Len(repaid) <= 1
  /\ sale.status = "refunded" <=> repaid # <<>>
  /\ refund.status = "completed" => repaid = <<refund.amount>>
  /\ \A p \in Procs : Kind(p) = "refund" /\ pc[p] = "done" => repaid = <<quote[p]>>

LifeInv ==
  /\ ConfigTypeOK /\ RefundTypeOK /\ Places
  /\ ConsentIsOwners /\ Armed /\ CreditsGone /\ Credited

LEMMA FirstPlaces ==
  ASSUME NEW kind \in Kinds
  PROVE  /\ First(kind) \in Steps
         /\ First(kind) \in {"list", "assess", "claim", "award", "read"}
         /\ First(kind) = "list" => kind \in {"sync", "auto", "cleanup"}
         /\ First(kind) = "assess" => kind = "claim"
         /\ First(kind) = "claim" => kind = "sweeper"
         /\ First(kind) = "read" => kind \notin {"sync", "claim", "sweeper", "bonus"}
         /\ kind = "refund" => First(kind) = "read"
BY DEF Kinds, First, Steps

LEMMA LifeBegins == LifeInit => LifeInv
<1> SUFFICES ASSUME LifeInit PROVE LifeInv OBVIOUS
<1> USE DEF LifeInit, ConfigInit, RefundInit
<1>1. op \in [Procs -> [kind : Kinds, by : Users, to : Users]] BY ConfigAssumption
<1>2. \A p \in Procs : pc[p] = First(Kind(p)) /\ Kind(p) \in Kinds BY <1>1 DEF Kind
<1>3. row \in Row BY ConfigAssumption DEF Row
<1>4. panel \in PanelUser BY DEF PanelUser
<1>5. KeyOf(row) \in Key /\ GlanceAt(panel) \in Glance
  BY <1>3, <1>4 DEF KeyOf, GlanceAt, Key, Glance, Row, PanelUser
<1>6. seen \in [Procs -> [row : Key, panel : Glance]] BY <1>5
<1>7. pc \in [Procs -> Steps] BY <1>1, FirstPlaces
<1>8. born \in 1..MaxRow BY ConfigAssumption
<1>9. ConfigTypeOK BY <1>1, <1>3, <1>4, <1>6, <1>7, <1>8 DEF ConfigTypeOK
<1>10. RefundTypeOK
  <2>1. repaid \in Seq(0..Price) OBVIOUS
  <2>2. 0 \in 0..Price BY RefundAssumption
  <2> QED BY <2>1, <2>2 DEF RefundTypeOK
<1>11. Places BY <1>2, FirstPlaces DEF Places, OutsideRefund
<1>12. ConsentIsOwners BY DEF ConsentIsOwners
<1>13. Armed /\ CreditsGone
  BY <1>2, FirstPlaces DEF Armed, CreditsGone, UnderRefund
<1>14. Credited BY <1>2, FirstPlaces DEF Credited
<1> QED BY <1>9, <1>10, <1>11, <1>12, <1>13, <1>14 DEF LifeInv

-----------------------------------------------------------------------------
(* Types.                                                                  *)

LEMMA GlancesTyped ==
  ASSUME ConfigTypeOK, NEW p \in Procs
  PROVE  /\ SeesRow(p) => seen' \in [Procs -> [row : Key, panel : Glance]]
         /\ SeesPanel(p) => seen' \in [Procs -> [row : Key, panel : Glance]]
         /\ \A q \in Procs : seen[q].row \in Key /\ seen[q].panel \in Glance
         /\ NoRow \in Row
         /\ Kind(p) \in Kinds /\ op[p].by \in Users /\ op[p].to \in Users
<1>1. KeyOf(row) \in Key /\ GlanceAt(panel) \in Glance
  BY DEF ConfigTypeOK, KeyOf, GlanceAt, Key, Glance, Row, PanelUser
<1>2. \A q \in Procs : seen[q].row \in Key /\ seen[q].panel \in Glance
  BY DEF ConfigTypeOK
<1>3. SeesRow(p) => seen' \in [Procs -> [row : Key, panel : Glance]]
  BY <1>1 DEF ConfigTypeOK, SeesRow
<1>4. SeesPanel(p) => seen' \in [Procs -> [row : Key, panel : Glance]]
  BY <1>1 DEF ConfigTypeOK, SeesPanel
<1>5. NoRow \in Row BY ConfigAssumption DEF NoRow, Row
<1> QED BY <1>2, <1>3, <1>4, <1>5 DEF ConfigTypeOK, Kind

LEMMA MovesTyped ==
  ASSUME ConfigTypeOK, NEW p \in Procs, NEW step \in Steps
  PROVE  /\ Goes(p, step) => pc' \in [Procs -> Steps] /\ lock' \in Procs \cup {"free"}
         /\ Ends(p, step) => pc' \in [Procs -> Steps] /\ lock' \in Procs \cup {"free"}
BY DEF ConfigTypeOK, Goes, Ends

LEMMA WriteTyped ==
  ASSUME ConfigTypeOK, NEW p \in Procs, Write(p)
  PROVE  ConfigTypeOK'
<1>1. UNCHANGED <<panel, op, seen>> BY DEF Write
<1>2. \A step \in Steps : Goes(p, step) \/ Ends(p, step)
                            => pc' \in [Procs -> Steps] /\ lock' \in Procs \cup {"free"}
  BY MovesTyped
<1>3. {"list", "done", "refused"} \subseteq Steps BY DEF Steps
<1>4. pc' \in [Procs -> Steps] /\ lock' \in Procs \cup {"free"}
  BY <1>2, <1>3 DEF Write, Cache, Unbind, Move, Consent, Bind, Charge, Leaves
<1>5. Observed(seen[p].panel) \in {"active", "disabled", "deleted"}
  BY GlancesTyped DEF Observed, Glance
<1>6. row' \in Row /\ born' \in 1..MaxRow
  <2>1. CASE Cache(p) BY <1>5, <2>1 DEF Cache, ConfigTypeOK, Row
  <2>2. CASE Unbind(p) BY <2>2, GlancesTyped DEF Unbind, ConfigTypeOK
  <2>3. CASE Move(p) BY <2>3, GlancesTyped DEF Move, ConfigTypeOK, Row
  <2>4. CASE Consent(p) BY <2>4, GlancesTyped DEF Consent, ConfigTypeOK, Row
  <2>5. CASE Bind(p)
    <3>1. CASE row.id = 0
      <4>1. /\ born < MaxRow /\ born' = born + 1
            /\ row' = [id |-> born', owner |-> op[p].by, made |-> seen[p].panel.made,
                       status |-> Observed(seen[p].panel), auto |-> NoOne]
        BY <2>5, <3>1 DEF Bind
      <4>2. born' \in 1..MaxRow BY <4>1, ConfigAssumption DEF ConfigTypeOK
      <4>3. seen[p].panel.made \in 0..1 BY GlancesTyped DEF Glance
      <4> QED BY <1>5, <4>1, <4>2, <4>3, GlancesTyped, ConfigAssumption DEF Row
    <3>2. CASE row.id # 0 BY <2>5, <3>2 DEF Bind, ConfigTypeOK
    <3> QED BY <3>1, <3>2
  <2>6. CASE Charge(p) BY <2>6 DEF Charge, ConfigTypeOK
  <2> QED BY <2>1, <2>2, <2>3, <2>4, <2>5, <2>6 DEF Write
<1>7. renewed' \subseteq Procs
  BY DEF Write, Cache, Unbind, Move, Consent, Bind, Charge, ConfigTypeOK
<1> QED BY <1>1, <1>4, <1>6, <1>7 DEF ConfigTypeOK

LEMMA ActedTyped ==
  ASSUME ConfigTypeOK, Places, NEW p \in Procs, pc[p] = "act"
  PROVE  /\ Acted(p) \in PanelUser /\ GlanceAt(Acted(p)) \in Glance
         /\ Acted(p).made = panel.made
<1>1. Kind(p) \in {"toggle", "delete", "cleanup", "renew", "auto"} BY DEF Places
<1>2. CASE Deletes(p)
  BY <1>2 DEF Acted, ConfigTypeOK, PanelUser, GlanceAt, Glance
<1>3. CASE Kind(p) = "toggle"
  <2>1. ~Deletes(p) BY <1>3 DEF Deletes
  <2>2. Acted(p) = [panel EXCEPT !.state = IF seen[p].panel.state = "disabled"
                                             THEN "active" ELSE "disabled"]
    BY <1>3, <2>1 DEF Acted, Renews
  <2> QED BY <2>2 DEF ConfigTypeOK, PanelUser, GlanceAt, Glance
<1>4. CASE Renews(p)
  <2>1. ~Deletes(p) /\ Kind(p) # "toggle" BY <1>4 DEF Deletes, Renews
  <2>2. Acted(p) = [panel EXCEPT !.state = "active", !.used = FALSE, !.ends = "future"]
    BY <1>4, <2>1 DEF Acted
  <2> QED BY <2>2 DEF ConfigTypeOK, PanelUser, GlanceAt, Glance
<1> QED BY <1>1, <1>2, <1>3, <1>4 DEF Deletes, Renews

LEMMA ConfigStepTyped ==
  ASSUME ConfigTypeOK, Places, NEW p \in Procs, ConfigStep(p)
  PROVE  ConfigTypeOK'
<1> DEFINE Moved == pc' \in [Procs -> Steps] /\ lock' \in Procs \cup {"free"}
<1>1. \A step \in Steps : Goes(p, step) \/ Ends(p, step) => Moved BY MovesTyped
<1>2. {"list", "assess", "off", "read", "judge", "lock", "write", "act", "done", "refused",
       "acquire", "locked"} \subseteq Steps
  BY DEF Steps
<1> HIDE DEF Moved
<1>3. CASE List(p)
  <2>1. Moved BY <1>1, <1>2, <1>3 DEF List
  <2> QED BY <1>3, <2>1, GlancesTyped DEF List, ConfigTypeOK, Moved
<1>4. CASE Assess(p)
  <2>1. AfterAssess(p) \subseteq {"write", "refused", "read", "done", "off", "lock"}
    BY <1>4 DEF Assess, AfterAssess, Places
  <2>2. Moved BY <1>1, <1>2, <1>4, <2>1 DEF Assess, Leaves
  <2> QED BY <1>4, <2>2, GlancesTyped DEF Assess, ConfigTypeOK, Moved
<1>5. CASE SwitchOff(p)
  <2>1. Moved BY <1>1, <1>2, <1>5 DEF SwitchOff
  <2> QED BY <1>5, <2>1 DEF SwitchOff, ConfigTypeOK, Row, Moved
<1>6. CASE Read(p)
  <2>1. Moved BY <1>1, <1>2, <1>6 DEF Read
  <2> QED BY <1>6, <2>1, GlancesTyped DEF Read, ConfigTypeOK, Moved
<1>7. CASE Lock(p)
  <2>1. \E step \in {"acquire", "write", "locked"} :
          pc' = [pc EXCEPT ![p] = step] /\ lock' = p
    BY <1>7 DEF Lock, TakeLock
  <2>2. Moved BY <1>2, <2>1 DEF Moved, ConfigTypeOK
  <2> QED BY <1>7, <2>2 DEF Lock, ConfigTypeOK, Moved
<1>8. CASE LockBusy(p)
  <2>1. Moved BY <1>1, <1>2, <1>8 DEF LockBusy
  <2> QED BY <1>8, <2>1 DEF LockBusy, ConfigTypeOK, Moved
<1>9. CASE Look(p)
  <2>1. Moved BY <1>1, <1>2, <1>9 DEF Look
  <2>2. row' \in Row BY <1>9 DEF Look, MarkStale, ConfigTypeOK, Row
  <2> QED BY <1>9, <2>1, <2>2, GlancesTyped DEF Look, ConfigTypeOK, Moved
<1>10. CASE Act(p)
  <2>1. Moved BY <1>1, <1>2, <1>10 DEF Act
  <2>2. Acted(p) \in PanelUser /\ GlanceAt(Acted(p)) \in Glance
    BY <1>10, ActedTyped DEF Act
  <2>3. panel' \in PanelUser BY <1>10, <2>2 DEF Act, ConfigTypeOK
  <2>4. seen' \in [Procs -> [row : Key, panel : Glance]]
    BY <1>10, <2>2 DEF Act, ConfigTypeOK
  <2> QED BY <1>10, <2>1, <2>3, <2>4 DEF Act, ConfigTypeOK, Moved
<1>11. CASE Write(p) BY <1>11, WriteTyped
<1> QED
  BY <1>3, <1>4, <1>5, <1>6, <1>7, <1>8, <1>9, <1>10, <1>11 DEF ConfigStep

LEMMA WorldTyped ==
  ASSUME ConfigTypeOK, World
  PROVE  ConfigTypeOK' /\ (GoneForGood => GoneForGood')
<1>1. panel \in PanelUser BY DEF ConfigTypeOK
<1>2. ASSUME panel.state = "active" /\ panel' = [panel EXCEPT !.used = TRUE]
      PROVE  panel' \in PanelUser /\ (GoneForGood => GoneForGood')
  BY <1>1, <1>2 DEF PanelUser, GoneForGood, Gone
<1>3. ASSUME ~Gone /\ panel' = [panel EXCEPT !.ends = "past"]
      PROVE  panel' \in PanelUser /\ (GoneForGood => GoneForGood')
  BY <1>1, <1>3 DEF PanelUser, GoneForGood, Gone
<1>4. ASSUME ~Gone /\ panel' = [panel EXCEPT !.state = "gone"]
      PROVE  panel' \in PanelUser /\ (GoneForGood => GoneForGood')
  BY <1>1, <1>4 DEF PanelUser, GoneForGood, Gone
<1>5. ASSUME panel' = [state |-> "active", made |-> 1, used |-> FALSE, ends |-> "future"]
      PROVE  panel' \in PanelUser /\ (GoneForGood => GoneForGood')
  BY <1>5 DEF PanelUser, GoneForGood
<1>6. panel' \in PanelUser /\ (GoneForGood => GoneForGood')
  BY <1>2, <1>3, <1>4, <1>5 DEF World, PanelUser
<1> QED BY <1>6 DEF World, ConfigTypeOK

LEMMA CrashTyped ==
  ASSUME ConfigTypeOK, NEW p \in Procs, Crash(p)
  PROVE  ConfigTypeOK'
<1>1. First(Kind(p)) \in Steps /\ "dead" \in Steps BY GlancesTyped, FirstPlaces DEF Steps
<1>2. pc' \in [Procs -> Steps] /\ lock' \in Procs \cup {"free"}
  BY <1>1, MovesTyped DEF Crash
<1> QED BY <1>2 DEF Crash, ConfigTypeOK

(* The steps of a refund, of its sweep and of the bonus leave the config   *)
(* as it is, but for the deletion and the end of the binding.              *)
LEMMA RefundStepOnConfig ==
  ASSUME ConfigTypeOK, NEW p \in Procs, RefundStep(p)
  PROVE  /\ UNCHANGED <<born, op, seen, renewed>>
         /\ row' = row \/ row' = NoRow
         /\ panel' = panel \/ panel' = [panel EXCEPT !.state = "gone"]
         /\ \E to \in {"price", "lock", "arm", "verify", "erase", "armDelete", "settle", "mark",
                       "done", "pending", "refused", "peek", "finish", "abandon", "claim", "pay"} :
              Goes(p, to) \/ Ends(p, to)
BY DEF RefundStep, Judge, Quote, Acquire, RefreshLease, Verify, Erase, Settle, Mark,
       ClaimRefund, Peek, Abandon, Finish, Award, Pay, KeepsConfig, CompleteRefund,
       Refused, refundVars

LEMMA RefundStepTypesConfig ==
  ASSUME ConfigTypeOK, NEW p \in Procs, RefundStep(p)
  PROVE  ConfigTypeOK'
<1>1. {"price", "lock", "arm", "verify", "erase", "armDelete", "settle", "mark", "done",
       "pending", "refused", "peek", "finish", "abandon", "claim", "pay"} \subseteq Steps
  BY DEF Steps
<1>2. pc' \in [Procs -> Steps] /\ lock' \in Procs \cup {"free"}
  BY <1>1, RefundStepOnConfig, MovesTyped
<1>3. row' \in Row BY RefundStepOnConfig, GlancesTyped DEF ConfigTypeOK
<1>4. panel' \in PanelUser BY RefundStepOnConfig DEF ConfigTypeOK, PanelUser
<1> QED BY <1>2, <1>3, <1>4, RefundStepOnConfig DEF ConfigTypeOK

LEMMA CompleteRefundTyped ==
  ASSUME RefundTypeOK, CompleteRefund
  PROVE  /\ sale' \in [status : {"completed", "refunded"}, bonus : BOOLEAN,
                       lock : Procs \cup {"free"}]
         /\ refund' \in [status : {"none", "pending", "reconciliation_required", "completed",
                                   "failed"}, amount : 0..Price, leased : BOOLEAN]
         /\ repaid' \in Seq(0..Price)
         /\ cashed' \in BOOLEAN /\ stalled' \in BOOLEAN
<1>1. /\ sale' \in [status : {"completed", "refunded"}, bonus : BOOLEAN,
                   lock : Procs \cup {"free"}]
      /\ cashed' \in BOOLEAN /\ stalled' \in BOOLEAN
  BY DEF CompleteRefund, RefundTypeOK
<1>2. refund' \in [status : {"none", "pending", "reconciliation_required", "completed",
                            "failed"}, amount : 0..Price, leased : BOOLEAN]
  BY DEF CompleteRefund, RefundTypeOK
<1>3. refund.amount \in 0..Price BY DEF RefundTypeOK
<1>4. repaid' \in Seq(0..Price) BY <1>3 DEF CompleteRefund, RefundTypeOK
<1> QED BY <1>1, <1>2, <1>4

LEMMA FailIntentTyped ==
  ASSUME RefundTypeOK, FailIntent
  PROVE  /\ refund' \in [status : {"none", "pending", "reconciliation_required", "completed",
                                   "failed"}, amount : 0..Price, leased : BOOLEAN]
         /\ refund'.amount = refund.amount
         /\ refund'.status \in {refund.status, "failed"}
BY DEF FailIntent, RefundTypeOK

LEMMA RefundStepTyped ==
  ASSUME RefundTypeOK, NEW p \in Procs, RefundStep(p)
  PROVE  RefundTypeOK'
<1> USE DEF KeepsSale
<1>1. CASE Judge(p) \/ Peek(p) BY <1>1 DEF Judge, Peek, refundVars, RefundTypeOK
<1>2. CASE Quote(p)
  <2>1. Price - (IF cashed THEN Cashback ELSE 0) \in 0..Price BY RefundAssumption
  <2>2. quote' \in [Procs -> 0..Price] BY <1>2, <2>1 DEF Quote, RefundTypeOK
  <2> QED BY <1>2, <2>2 DEF Quote, RefundTypeOK
<1>3. CASE Acquire(p)
  <2>1. quote[p] \in 0..Price BY DEF RefundTypeOK
  <2>2. refund' = [status |-> "pending", amount |-> quote[p], leased |-> TRUE]
        \/ refund' = refund
    BY <1>3 DEF Acquire
  <2>3. [status |-> "pending", amount |-> quote[p], leased |-> TRUE]
          \in [status : {"none", "pending", "reconciliation_required", "completed",
                        "failed"}, amount : 0..Price, leased : BOOLEAN]
    BY <2>1
  <2>4. refund' \in [status : {"none", "pending", "reconciliation_required", "completed",
                              "failed"}, amount : 0..Price, leased : BOOLEAN]
    BY <2>2, <2>3 DEF RefundTypeOK
  <2> QED BY <1>3, <2>4 DEF Acquire, RefundTypeOK
<1>4. CASE RefreshLease(p) BY <1>4, FailIntentTyped DEF RefreshLease, RefundTypeOK
<1>5. CASE Verify(p) BY <1>5, FailIntentTyped DEF Verify, RefundTypeOK
<1>6. CASE Erase(p) BY <1>6, FailIntentTyped DEF Erase, RefundTypeOK
<1>7. CASE Settle(p) BY <1>7, CompleteRefundTyped DEF Settle, RefundTypeOK
<1>8. CASE Mark(p) BY <1>8 DEF Mark, RefundTypeOK
<1>9. CASE ClaimRefund(p) BY <1>9 DEF ClaimRefund, RefundTypeOK
<1>10. CASE Abandon(p) BY <1>10, FailIntentTyped DEF Abandon, RefundTypeOK
<1>11. CASE Finish(p) BY <1>11, CompleteRefundTyped DEF Finish, RefundTypeOK
<1>12. CASE Award(p) BY <1>12 DEF Award, RefundTypeOK
<1>13. CASE Pay(p)
  <2>1. cashed' \in BOOLEAN BY <1>13, RefundAssumption DEF Pay
  <2>2. sale' \in [status : {"completed", "refunded"}, bonus : BOOLEAN,
                  lock : Procs \cup {"free"}]
    BY <1>13 DEF Pay, RefundTypeOK
  <2> QED BY <1>13, <2>1, <2>2 DEF Pay, RefundTypeOK
<1> QED
  BY <1>1, <1>2, <1>3, <1>4, <1>5, <1>6, <1>7, <1>8, <1>9, <1>10, <1>11, <1>12, <1>13
  DEF RefundStep

LEMMA TypeStep ==
  ConfigTypeOK /\ RefundTypeOK /\ Places /\ [LifeNext]_lifeVars
    => ConfigTypeOK' /\ RefundTypeOK'
<1> SUFFICES ASSUME ConfigTypeOK, RefundTypeOK, Places, [LifeNext]_lifeVars
             PROVE  ConfigTypeOK' /\ RefundTypeOK'
  OBVIOUS
<1>1. UNCHANGED configVars => ConfigTypeOK' BY DEF configVars, ConfigTypeOK
<1>2. UNCHANGED refundVars => RefundTypeOK' BY DEF refundVars, RefundTypeOK
<1>3. ASSUME NEW p \in Procs, ConfigStep(p), UNCHANGED refundVars
      PROVE  ConfigTypeOK' /\ RefundTypeOK'
  BY <1>2, <1>3, ConfigStepTyped
<1>4. ASSUME NEW p \in Procs, RefundStep(p)
      PROVE  ConfigTypeOK' /\ RefundTypeOK'
  BY <1>4, RefundStepTypesConfig, RefundStepTyped
<1>5. ASSUME NEW p \in Procs, Dies(p)
      PROVE  ConfigTypeOK' /\ RefundTypeOK'
  BY <1>5, CrashTyped DEF Dies, RefundTypeOK
<1>6. CASE LeaseExpires
  BY <1>6 DEF LeaseExpires, KeepsConfig, ConfigTypeOK, RefundTypeOK
<1>7. CASE World /\ UNCHANGED refundVars BY <1>2, <1>7, WorldTyped
<1>8. CASE UNCHANGED lifeVars BY <1>1, <1>2, <1>8 DEF lifeVars
<1> QED BY <1>3, <1>4, <1>5, <1>6, <1>7, <1>8 DEF LifeNext

-----------------------------------------------------------------------------
(* Who is where.                                                           *)

(* A step of p moves nobody else.                                          *)
LEMMA OthersStay ==
  ASSUME ConfigTypeOK, NEW p \in Procs,
         ConfigStep(p) \/ RefundStep(p) \/ Dies(p)
  PROVE  \A q \in Procs \ {p} : pc'[q] = pc[q]
<1>1. ASSUME NEW step, Goes(p, step) \/ Ends(p, step)
      PROVE  \A q \in Procs \ {p} : pc'[q] = pc[q]
  BY <1>1 DEF Goes, Ends, ConfigTypeOK
<1>2. CASE Lock(p) BY <1>2 DEF Lock, TakeLock, ConfigTypeOK
<1>3. CASE ConfigStep(p) /\ ~Lock(p)
  BY <1>1, <1>3
  DEF ConfigStep, List, Assess, SwitchOff, Read, LockBusy, Look, Act, Write, Leaves,
      Cache, Unbind, Move, Consent, Bind, Charge
<1>4. CASE RefundStep(p) BY <1>1, <1>4, RefundStepOnConfig
<1>5. CASE Dies(p) BY <1>1, <1>5 DEF Dies, Crash
<1> QED BY <1>2, <1>3, <1>4, <1>5

(* Where the steps of the other operations lead.                           *)
LEMMA ConfigStepLeads ==
  ASSUME ConfigTypeOK, Places, NEW p \in Procs, ConfigStep(p)
  PROVE  /\ pc'[p] = "list" => Kind(p) \in {"sync", "auto", "cleanup"}
         /\ pc'[p] = "assess" => Kind(p) \in {"sync", "auto", "cleanup", "claim"}
         /\ pc'[p] = "locked"
              => Kind(p) \notin {"sync", "claim", "consent", "refund", "sweeper", "bonus"}
         /\ pc'[p] = "act" => Kind(p) \in {"toggle", "delete", "cleanup", "renew", "auto"}
         /\ pc'[p] \in {"read", "lock"} => Kind(p) \notin {"sync", "claim", "sweeper", "bonus"}
         /\ Kind(p) = "refund" => pc'[p] \in {"judge", "acquire", "refused"}
         /\ pc'[p] \in {"judge", "acquire"} => Kind(p) = "refund"
         /\ pc'[p] \notin UnderRefund \cup {"finish", "price"}
         /\ pc'[p] = "acquire" => lock' = p
         /\ lock # p /\ lock # "free" => lock' = lock
<1> USE DEF Goes, Ends, ConfigTypeOK, UnderRefund
<1>1. CASE List(p)
  BY <1>1 DEF List, Places, OutsideRefund
<1>2. CASE Assess(p)
  <2>1. Kind(p) \in {"sync", "auto", "cleanup", "claim"} BY <1>2 DEF Assess, Places
  <2>2. CASE \E next \in AfterAssess(p) : Goes(p, next)
    BY <2>1, <2>2 DEF AfterAssess
  <2>3. CASE Leaves(p) BY <2>1, <2>3 DEF Leaves, Resident
  <2> QED BY <1>2, <2>2, <2>3 DEF Assess
<1>3. CASE SwitchOff(p) BY <1>3 DEF SwitchOff, Places, OutsideRefund
<1>4. CASE Read(p) BY <1>4 DEF Read, Places
<1>5. CASE Lock(p) \/ LockBusy(p)
  BY <1>5 DEF Lock, TakeLock, LockBusy, Places
<1>6. CASE Look(p)
  <2>1. Kind(p) \notin {"sync", "claim", "consent", "refund", "sweeper", "bonus"}
    BY <1>6 DEF Look, Places
  <2>2. Kind(p) \in Kinds BY GlancesTyped
  <2> QED BY <1>6, <2>1, <2>2 DEF Look, Kinds
<1>7. CASE Act(p) BY <1>7 DEF Act, Places
<1>8. CASE Write(p)
  BY <1>8
  DEF Write, Cache, Unbind, Move, Consent, Bind, Charge, Leaves, Resident, Deletes, Renews
<1> QED BY <1>1, <1>2, <1>3, <1>4, <1>5, <1>6, <1>7, <1>8 DEF ConfigStep

LEMMA RefundStepLeads ==
  ASSUME ConfigTypeOK, NEW p \in Procs, RefundStep(p)
  PROVE  /\ pc'[p] \notin OutsideRefund \ {"peek", "finish", "abandon", "claim", "pay"}
         /\ pc'[p] \notin {"read", "acquire"}
         /\ pc'[p] \in {"peek", "finish", "abandon", "claim", "pay"}
              => pc[p] \in {"claim", "peek", "abandon", "finish", "award"}
         /\ pc'[p] = "lock" => pc[p] = "price"
         /\ pc'[p] # "judge" /\ (pc'[p] = "price" => pc[p] = "judge")
         /\ pc'[p] \in UnderRefund => pc[p] \in UnderRefund \cup {"acquire"} /\ lock' = lock
         /\ pc'[p] \in UnderRefund /\ pc[p] = "acquire" => refund'.amount = quote[p]
         /\ pc'[p] = "settle" => Gone \/ panel'.state = "gone"
         /\ pc'[p] = "finish" => Gone
         /\ lock # p /\ lock # "free" => lock' = lock
<1> USE DEF Goes, Ends, Refused, KeepsConfig, ConfigTypeOK, UnderRefund, OutsideRefund
<1>1. CASE Judge(p) \/ Quote(p) BY <1>1 DEF Judge, Quote
<1>2. CASE Acquire(p) BY <1>2 DEF Acquire
<1>3. CASE RefreshLease(p) BY <1>3 DEF RefreshLease
<1>4. CASE Verify(p) BY <1>4 DEF Verify
<1>5. CASE Erase(p) BY <1>5 DEF Erase, PanelUser
<1>6. CASE Settle(p) BY <1>6 DEF Settle
<1>7. CASE Mark(p) BY <1>7 DEF Mark
<1>8. CASE ClaimRefund(p) \/ Peek(p) BY <1>8 DEF ClaimRefund, Peek
<1>9. CASE Abandon(p) \/ Finish(p) BY <1>9 DEF Abandon, Finish
<1>10. CASE Award(p) \/ Pay(p) BY <1>10 DEF Award, Pay
<1> QED
  BY <1>1, <1>2, <1>3, <1>4, <1>5, <1>6, <1>7, <1>8, <1>9, <1>10 DEF RefundStep

LEMMA CrashLeads ==
  ASSUME ConfigTypeOK, NEW p \in Procs, Crash(p)
  PROVE  /\ pc'[p] \in {"list", "claim", "dead"}
         /\ pc'[p] = "list" => Kind(p) = "sync"
         /\ pc'[p] = "claim" => Kind(p) = "sweeper"
         /\ lock # p => lock' = lock
         /\ Kind(p) # "refund" \/ pc'[p] = "dead"
BY DEF Crash, Ends, Resident, First, ConfigTypeOK

LEMMA PlacesStep ==
  ConfigTypeOK /\ Places /\ [LifeNext]_lifeVars => Places'
<1> SUFFICES ASSUME ConfigTypeOK, Places, [LifeNext]_lifeVars PROVE Places' OBVIOUS
<1>1. UNCHANGED <<pc, op>> => Places' BY DEF Places, Kind
<1>2. ASSUME NEW p \in Procs, ConfigStep(p) PROVE Places'
  <2>1. \A q \in Procs \ {p} : pc'[q] = pc[q] BY <1>2, OthersStay
  <2>2. UNCHANGED op
    BY <1>2
    DEF ConfigStep, List, Assess, SwitchOff, Read, Lock, LockBusy, Look, Act, Write
  <2>3. \A q \in Procs : Kind(q)' = Kind(q) BY <2>2 DEF Kind
  <2> QED BY <1>2, <2>1, <2>3, ConfigStepLeads DEF Places, OutsideRefund, UnderRefund
<1>3. ASSUME NEW p \in Procs, RefundStep(p) PROVE Places'
  <2>1. \A q \in Procs \ {p} : pc'[q] = pc[q] BY <1>3, OthersStay
  <2>2. \A q \in Procs : Kind(q)' = Kind(q) BY <1>3, RefundStepOnConfig DEF Kind
  <2>3. pc'[p] \in {"price", "lock"} => Kind(p) = "refund"
    BY <1>3, RefundStepLeads DEF Places
  <2>4. Kind(p) = "refund" => pc'[p] \notin OutsideRefund
    BY <1>3, RefundStepLeads DEF Places, OutsideRefund
  <2>5. pc'[p] \notin {"list", "assess", "locked", "act", "read", "judge"}
    BY <1>3, RefundStepLeads DEF OutsideRefund
  <2> QED BY <2>1, <2>2, <2>3, <2>4, <2>5 DEF Places
<1>4. ASSUME NEW p \in Procs, Dies(p) PROVE Places'
  <2>1. \A q \in Procs \ {p} : pc'[q] = pc[q] BY <1>4, OthersStay
  <2>2. \A q \in Procs : Kind(q)' = Kind(q) BY <1>4 DEF Dies, Crash, Kind
  <2> QED BY <1>4, <2>1, <2>2, CrashLeads DEF Dies, Places, OutsideRefund
<1>5. CASE LeaseExpires \/ World \/ UNCHANGED lifeVars
  BY <1>1, <1>5 DEF LeaseExpires, KeepsConfig, World, lifeVars, configVars
<1> QED BY <1>2, <1>3, <1>4, <1>5 DEF LifeNext

-----------------------------------------------------------------------------
(* Consent.                                                                *)

LEMMA ConsentStep ==
  ConfigTypeOK /\ ConsentIsOwners /\ [LifeNext]_lifeVars => ConsentIsOwners'
<1> SUFFICES ASSUME ConfigTypeOK, ConsentIsOwners, [LifeNext]_lifeVars
             PROVE  ConsentIsOwners'
  OBVIOUS
<1> USE DEF ConsentIsOwners
<1>1. row' = row => ConsentIsOwners' OBVIOUS
<1>2. row' = NoRow => ConsentIsOwners' BY DEF NoRow
<1>3. ASSUME NEW p \in Procs, ConfigStep(p) PROVE ConsentIsOwners'
  <2>1. CASE List(p) \/ Assess(p) \/ Read(p) \/ Lock(p) \/ LockBusy(p) \/ Act(p)
    BY <1>1, <2>1 DEF List, Assess, Read, Lock, LockBusy, Act
  <2>2. CASE SwitchOff(p) BY <2>2 DEF SwitchOff, ConfigTypeOK, Row
  <2>3. CASE Look(p) BY <2>3 DEF Look, MarkStale, ConfigTypeOK, Row
  <2>4. CASE Write(p)
    <3>1. CASE Cache(p) BY <3>1 DEF Cache, ConfigTypeOK, Row
    <3>2. CASE Unbind(p) BY <1>1, <1>2, <3>2 DEF Unbind
    <3>3. CASE Move(p) BY <3>3 DEF Move, ConfigTypeOK, Row
    <3>4. CASE Consent(p) BY <3>4 DEF Consent, ConfigTypeOK, Row
    <3>5. CASE Bind(p) BY <3>5 DEF Bind
    <3>6. CASE Charge(p) BY <1>1, <3>6 DEF Charge
    <3> QED BY <2>4, <3>1, <3>2, <3>3, <3>4, <3>5, <3>6 DEF Write
  <2> QED BY <1>3, <2>1, <2>2, <2>3, <2>4 DEF ConfigStep
<1>4. ASSUME NEW p \in Procs, RefundStep(p) PROVE ConsentIsOwners'
  BY <1>1, <1>2, <1>4, RefundStepOnConfig
<1>5. CASE LeaseExpires \/ World \/ UNCHANGED lifeVars
  BY <1>1, <1>5 DEF LeaseExpires, KeepsConfig, World, lifeVars, configVars
<1>6. ASSUME NEW p \in Procs, Dies(p) PROVE ConsentIsOwners'
  BY <1>1, <1>6 DEF Dies, Crash
<1> QED BY <1>3, <1>4, <1>5, <1>6 DEF LifeNext

-----------------------------------------------------------------------------
(* The lock, the amount and the panel user.                                *)

(* The amount of the intent changes only when a refund acquires it, and a  *)
(* quote only before that.                                                 *)
LEMMA AmountsStay ==
  ASSUME RefundTypeOK, NEW p \in Procs, RefundStep(p)
  PROVE  /\ pc[p] # "acquire" => refund'.amount = refund.amount
         /\ pc[p] # "price" => quote' = quote
         /\ \A q \in Procs \ {p} : quote'[q] = quote[q]
<1> USE DEF KeepsSale, RefundTypeOK
<1>1. CASE Judge(p) \/ Peek(p) BY <1>1 DEF Judge, Peek, refundVars
<1>2. CASE Quote(p) \/ Acquire(p) BY <1>2 DEF Quote, Acquire
<1>3. CASE RefreshLease(p) BY <1>3, FailIntentTyped DEF RefreshLease
<1>4. CASE Verify(p) \/ Erase(p) BY <1>4, FailIntentTyped DEF Verify, Erase
<1>5. CASE Settle(p) \/ Finish(p) BY <1>5 DEF Settle, Finish, CompleteRefund
<1>6. CASE Mark(p) \/ ClaimRefund(p) BY <1>6 DEF Mark, ClaimRefund
<1>7. CASE Abandon(p) BY <1>7, FailIntentTyped DEF Abandon
<1>8. CASE Award(p) \/ Pay(p) BY <1>8 DEF Award, Pay
<1> QED BY <1>1, <1>2, <1>3, <1>4, <1>5, <1>6, <1>7, <1>8 DEF RefundStep

LEMMA ArmedStep ==
  ConfigTypeOK /\ RefundTypeOK /\ Places /\ Armed /\ [LifeNext]_lifeVars => Armed'
<1> SUFFICES ASSUME ConfigTypeOK, RefundTypeOK, Places, Armed, [LifeNext]_lifeVars
             PROVE  Armed'
  OBVIOUS
<1>0. "free" \notin Procs BY ConfigAssumption
<1>1. ASSUME NEW p \in Procs, ConfigStep(p), UNCHANGED refundVars PROVE Armed'
  <2>1. \A q \in Procs \ {p} : pc'[q] = pc[q] BY <1>1, OthersStay
  <2>2. pc'[p] \notin UnderRefund /\ (pc'[p] = "acquire" => lock' = p)
        /\ (lock # p /\ lock # "free" => lock' = lock)
    BY <1>1, ConfigStepLeads
  <2>3. UNCHANGED <<refund, quote>> BY <1>1 DEF refundVars
  <2> QED BY <1>0, <2>1, <2>2, <2>3 DEF Armed, UnderRefund
<1>2. ASSUME NEW p \in Procs, RefundStep(p) PROVE Armed'
  <2>1. \A q \in Procs \ {p} : pc'[q] = pc[q] /\ quote'[q] = quote[q]
    BY <1>2, OthersStay, AmountsStay
  <2>2. /\ pc'[p] # "acquire"
        /\ pc'[p] \in UnderRefund => pc[p] \in UnderRefund \cup {"acquire"} /\ lock' = lock
        /\ pc'[p] \in UnderRefund /\ pc[p] = "acquire" => refund'.amount = quote[p]
        /\ lock # p /\ lock # "free" => lock' = lock
    BY <1>2, RefundStepLeads
  <2>3. ASSUME NEW q \in Procs \ {p}, pc'[q] \in UnderRefund \cup {"acquire"}
        PROVE  lock' = q /\ (pc'[q] \in UnderRefund => refund'.amount = quote'[q])
    <3>1. lock = q /\ (pc[q] \in UnderRefund => refund.amount = quote[q])
      BY <2>1, <2>3 DEF Armed
    <3>2. lock' = q BY <1>0, <2>2, <3>1
    <3>3. pc[p] # "acquire" BY <3>1 DEF Armed
    <3> QED BY <1>2, <2>1, <3>1, <3>2, <3>3, AmountsStay
  <2>4. pc'[p] \in UnderRefund => lock' = p /\ refund'.amount = quote'[p]
    <3> SUFFICES ASSUME pc'[p] \in UnderRefund
                 PROVE  lock' = p /\ refund'.amount = quote'[p]
      OBVIOUS
    <3>1. pc[p] \in UnderRefund \cup {"acquire"} /\ lock' = p BY <2>2 DEF Armed
    <3>2. quote' = quote BY <1>2, <3>1, AmountsStay DEF UnderRefund
    <3>3. CASE pc[p] = "acquire" BY <2>2, <3>1, <3>2, <3>3
    <3>4. CASE pc[p] # "acquire"
      BY <1>2, <3>1, <3>2, <3>4, AmountsStay DEF Armed
    <3> QED BY <3>3, <3>4
  <2> QED BY <2>2, <2>3, <2>4 DEF Armed
<1>3. ASSUME NEW p \in Procs, Dies(p) PROVE Armed'
  <2>1. \A q \in Procs \ {p} : pc'[q] = pc[q] BY <1>3, OthersStay
  <2>2. pc'[p] \in {"list", "claim", "dead"} /\ (lock # p => lock' = lock)
    BY <1>3, CrashLeads DEF Dies
  <2>3. UNCHANGED <<refund, quote>> BY <1>3 DEF Dies
  <2> QED BY <2>1, <2>2, <2>3 DEF Armed, UnderRefund
<1>4. CASE LeaseExpires
  BY <1>4 DEF LeaseExpires, Armed, RefundTypeOK
<1>5. CASE (World /\ UNCHANGED refundVars) \/ UNCHANGED lifeVars
  BY <1>5 DEF World, lifeVars, configVars, refundVars, Armed
<1> QED BY <1>1, <1>2, <1>3, <1>4, <1>5 DEF LifeNext

(* Nothing brings the panel user of the purchase back.                     *)
LEMMA GoneStays ==
  ASSUME ConfigTypeOK, Places, [LifeNext]_lifeVars, GoneForGood
  PROVE  GoneForGood'
<1>1. panel' = panel => GoneForGood' BY DEF GoneForGood, Gone
<1>2. ASSUME NEW p \in Procs, ConfigStep(p) PROVE GoneForGood'
  <2>1. CASE Act(p)
    <3>1. Acted(p).made = panel.made BY <2>1, ActedTyped DEF Act
    <3>2. panel' = panel \/ (panel' = Acted(p) /\ ~Gone) BY <2>1 DEF Act
    <3> QED BY <1>1, <3>1, <3>2 DEF GoneForGood
  <2>2. CASE ~Act(p)
    BY <1>1, <1>2, <2>2
    DEF ConfigStep, List, Assess, SwitchOff, Read, Lock, LockBusy, Look, Write
  <2> QED BY <2>1, <2>2
<1>3. ASSUME NEW p \in Procs, RefundStep(p) PROVE GoneForGood'
  BY <1>1, <1>3, RefundStepOnConfig DEF GoneForGood, Gone, ConfigTypeOK, PanelUser
<1>4. CASE World BY <1>4, WorldTyped
<1>5. CASE LeaseExpires \/ UNCHANGED lifeVars
  BY <1>1, <1>5 DEF LeaseExpires, KeepsConfig, lifeVars, configVars
<1>6. ASSUME NEW p \in Procs, Dies(p) PROVE GoneForGood'
  BY <1>1, <1>6 DEF Dies, Crash
<1> QED BY <1>2, <1>3, <1>4, <1>5, <1>6 DEF LifeNext

LEMMA CreditsGoneStep ==
  ConfigTypeOK /\ Places /\ CreditsGone /\ [LifeNext]_lifeVars => CreditsGone'
<1> SUFFICES ASSUME ConfigTypeOK, Places, CreditsGone, [LifeNext]_lifeVars
             PROVE  CreditsGone'
  OBVIOUS
<1>1. GoneForGood => GoneForGood' BY GoneStays
<1>2. ASSUME NEW p \in Procs, ConfigStep(p), UNCHANGED refundVars PROVE CreditsGone'
  <2>1. \A q \in Procs \ {p} : pc'[q] = pc[q] BY <1>2, OthersStay
  <2>2. pc'[p] \notin {"settle", "finish"} BY <1>2, ConfigStepLeads DEF UnderRefund
  <2>3. UNCHANGED repaid BY <1>2 DEF refundVars
  <2> QED BY <1>1, <2>1, <2>2, <2>3 DEF CreditsGone
<1>3. ASSUME NEW p \in Procs, RefundStep(p) PROVE CreditsGone'
  <2>1. \A q \in Procs \ {p} : pc'[q] = pc[q] BY <1>3, OthersStay
  <2>2. pc'[p] \in {"settle", "finish"} => GoneForGood'
    BY <1>1, <1>3, RefundStepLeads DEF GoneForGood, Gone
  <2>3. repaid' = repaid \/ pc[p] \in {"settle", "finish"}
    BY <1>3
    DEF RefundStep, Judge, Quote, Acquire, RefreshLease, Verify, Erase, Settle, Mark,
        ClaimRefund, Peek, Abandon, Finish, Award, Pay, KeepsSale, refundVars
  <2> QED BY <1>1, <2>1, <2>2, <2>3 DEF CreditsGone
<1>4. ASSUME NEW p \in Procs, Dies(p) PROVE CreditsGone'
  <2>1. \A q \in Procs \ {p} : pc'[q] = pc[q] BY <1>4, OthersStay
  <2>2. pc'[p] \in {"list", "claim", "dead"} BY <1>4, CrashLeads DEF Dies
  <2>3. UNCHANGED repaid BY <1>4 DEF Dies
  <2> QED BY <1>1, <2>1, <2>2, <2>3 DEF CreditsGone
<1>5. CASE LeaseExpires \/ (World /\ UNCHANGED refundVars) \/ UNCHANGED lifeVars
  <2>1. UNCHANGED <<pc, repaid>>
    BY <1>5 DEF LeaseExpires, World, refundVars, lifeVars, configVars
  <2> QED BY <1>1, <2>1 DEF CreditsGone
<1> QED BY <1>2, <1>3, <1>4, <1>5 DEF LifeNext

-----------------------------------------------------------------------------
(* The books.                                                              *)

(* The transaction that credits a refund keeps what is said of it.         *)
LEMMA CompleteCredits ==
  ASSUME RefundTypeOK, Credited, CompleteRefund
  PROVE  /\ Len(repaid') <= 1 /\ repaid' = <<refund.amount>> /\ repaid' # <<>>
         /\ repaid = <<>>
         /\ sale'.status = "refunded" /\ refund'.amount = refund.amount
<1>1. repaid = <<>> /\ repaid' = Append(repaid, refund.amount) BY DEF CompleteRefund
<1>2. repaid' = <<refund.amount>> BY <1>1
<1>3. sale'.status = "refunded" /\ refund'.amount = refund.amount
  BY DEF CompleteRefund, RefundTypeOK
<1> QED BY <1>1, <1>2, <1>3

(* Any other step of these writes no ledger and completes no refund.       *)
LEMMA OthersDontCredit ==
  ASSUME RefundTypeOK, NEW p \in Procs, RefundStep(p), ~CompleteRefund
  PROVE  /\ repaid' = repaid /\ sale'.status = sale.status
         /\ refund'.status = "completed"
              => refund.status = "completed" /\ refund'.amount = refund.amount
<1> USE DEF KeepsSale, RefundTypeOK
<1>1. CASE Judge(p) \/ Peek(p) BY <1>1 DEF Judge, Peek, refundVars
<1>2. CASE Quote(p) BY <1>2 DEF Quote
<1>3. CASE Acquire(p)
  <2>1. refund' = refund
        \/ refund' = [status |-> "pending", amount |-> quote[p], leased |-> TRUE]
    BY <1>3 DEF Acquire
  <2> QED BY <1>3, <2>1 DEF Acquire
<1>4. CASE RefreshLease(p) BY <1>4, FailIntentTyped DEF RefreshLease
<1>5. CASE Verify(p) BY <1>5, FailIntentTyped DEF Verify
<1>6. CASE Erase(p) BY <1>6, FailIntentTyped DEF Erase
<1>7. CASE Settle(p) \/ Finish(p) BY <1>7 DEF Settle, Finish
<1>8. CASE Mark(p) BY <1>8 DEF Mark
<1>9. CASE ClaimRefund(p) BY <1>9 DEF ClaimRefund
<1>10. CASE Abandon(p) BY <1>10, FailIntentTyped DEF Abandon
<1>11. CASE Award(p) BY <1>11 DEF Award
<1>12. CASE Pay(p) BY <1>12 DEF Pay
<1> QED
  BY <1>1, <1>2, <1>3, <1>4, <1>5, <1>6, <1>7, <1>8, <1>9, <1>10, <1>11, <1>12
  DEF RefundStep

(* A buyer is shown a refund by the step that settles it.                  *)
LEMMA ShownIsSettled ==
  ASSUME ConfigTypeOK, Places, NEW p \in Procs, Kind(p) = "refund",
         RefundStep(p), pc'[p] = "done"
  PROVE  /\ pc[p] = "settle" /\ quote' = quote
         /\ CompleteRefund \/ refund.status = "completed"
<1> USE DEF Goes, Ends, Refused, ConfigTypeOK
<1>1. ~Award(p) /\ ~Pay(p) BY DEF Places, OutsideRefund, Award, Pay
<1>2. Settle(p)
  BY <1>1
  DEF RefundStep, Judge, Quote, Acquire, RefreshLease, Verify, Erase, Mark,
      ClaimRefund, Peek, Abandon, Finish
<1> QED BY <1>2 DEF Settle

LEMMA CreditedStep == LifeInv /\ [LifeNext]_lifeVars => Credited'
<1> SUFFICES ASSUME LifeInv, [LifeNext]_lifeVars PROVE Credited' OBVIOUS
<1> USE DEF LifeInv
<1>1. ASSUME NEW p \in Procs, ConfigStep(p), UNCHANGED refundVars PROVE Credited'
  <2>1. \A q \in Procs \ {p} : pc'[q] = pc[q] BY <1>1, OthersStay
  <2>2. Kind(p) = "refund" => pc'[p] # "done" BY <1>1, ConfigStepLeads
  <2>3. UNCHANGED op
    BY <1>1
    DEF ConfigStep, List, Assess, SwitchOff, Read, Lock, LockBusy, Look, Act, Write
  <2>4. UNCHANGED <<sale, refund, repaid, quote>> BY <1>1 DEF refundVars
  <2> QED BY <2>1, <2>2, <2>3, <2>4 DEF Credited, Kind
<1>2. ASSUME NEW p \in Procs, RefundStep(p) PROVE Credited'
  <2>1. \A q \in Procs \ {p} : pc'[q] = pc[q] /\ quote'[q] = quote[q]
    BY <1>2, OthersStay, AmountsStay
  <2>2. \A q \in Procs : Kind(q)' = Kind(q) BY <1>2, RefundStepOnConfig DEF Kind
  <2>3. CASE CompleteRefund
    <3>1. /\ Len(repaid') <= 1 /\ repaid' = <<refund.amount>> /\ repaid' # <<>>
          /\ repaid = <<>> /\ sale'.status = "refunded" /\ refund'.amount = refund.amount
      BY <2>3, CompleteCredits
    <3>2. ASSUME NEW q \in Procs, Kind(q) = "refund", pc'[q] = "done"
          PROVE  repaid' = <<quote'[q]>>
      <4>1. q = p BY <2>1, <3>1, <3>2 DEF Credited
      <4>2. pc[p] = "settle" /\ quote' = quote BY <1>2, <3>2, <4>1, ShownIsSettled
      <4>3. refund.amount = quote[p] BY <4>2 DEF Armed, UnderRefund
      <4> QED BY <3>1, <4>1, <4>2, <4>3
    <3> QED BY <2>2, <3>1, <3>2 DEF Credited
  <2>4. CASE ~CompleteRefund
    <3>1. /\ repaid' = repaid /\ sale'.status = sale.status
          /\ refund'.status = "completed"
               => refund.status = "completed" /\ refund'.amount = refund.amount
      BY <1>2, <2>4, OthersDontCredit
    <3>2. ASSUME NEW q \in Procs, Kind(q) = "refund", pc'[q] = "done"
          PROVE  repaid' = <<quote'[q]>>
      <4>1. CASE q = p
        <5>1. /\ pc[p] = "settle" /\ refund.status = "completed" /\ quote' = quote
          BY <1>2, <2>4, <3>2, <4>1, ShownIsSettled
        <5>2. refund.amount = quote[p] BY <5>1 DEF Armed, UnderRefund
        <5> QED BY <3>1, <4>1, <5>1, <5>2 DEF Credited
      <4>2. CASE q # p BY <2>1, <3>1, <3>2, <4>2 DEF Credited
      <4> QED BY <4>1, <4>2
    <3> QED BY <2>2, <3>1, <3>2 DEF Credited
  <2> QED BY <2>3, <2>4
<1>3. ASSUME NEW p \in Procs, Dies(p) PROVE Credited'
  <2>1. \A q \in Procs \ {p} : pc'[q] = pc[q] BY <1>3, OthersStay
  <2>2. pc'[p] \in {"list", "claim", "dead"} BY <1>3, CrashLeads DEF Dies
  <2>3. \A q \in Procs : Kind(q)' = Kind(q) BY <1>3 DEF Dies, Crash, Kind
  <2>4. UNCHANGED <<refund, repaid, quote>> /\ sale'.status = sale.status
    BY <1>3 DEF Dies, RefundTypeOK
  <2> QED BY <2>1, <2>2, <2>3, <2>4 DEF Credited
<1>4. CASE LeaseExpires
  <2>1. /\ UNCHANGED <<pc, op, sale, repaid, quote>>
        /\ refund'.status = refund.status /\ refund'.amount = refund.amount
    BY <1>4 DEF LeaseExpires, KeepsConfig, RefundTypeOK
  <2> QED BY <2>1 DEF Credited, Kind
<1>5. CASE (World /\ UNCHANGED refundVars) \/ UNCHANGED lifeVars
  <2>1. UNCHANGED <<pc, op, sale, refund, repaid, quote>>
    BY <1>5 DEF World, refundVars, lifeVars, configVars
  <2> QED BY <2>1 DEF Credited, Kind
<1> QED BY <1>1, <1>2, <1>3, <1>4, <1>5 DEF LifeNext

-----------------------------------------------------------------------------
LEMMA LifeStep == LifeInv /\ [LifeNext]_lifeVars => LifeInv'
BY TypeStep, PlacesStep, ConsentStep, ArmedStep, CreditsGoneStep, CreditedStep DEF LifeInv

(* The state of a configuration and of the operations on it is always of   *)
(* its type.                                                               *)
THEOREM LifeTyped == LifeSpec => []LifeTypeOK
<1>1. LifeInv => LifeTypeOK BY DEF LifeInv, LifeTypeOK
<1> QED BY <1>1, LifeBegins, LifeStep, PTL DEF LifeSpec

(* No interleaving of a consent with transfers, deletions and claims       *)
(* leaves the agreement of somebody who does not own the configuration.    *)
THEOREM ConsentStaysOwners == LifeSpec => []ConsentIsOwners
<1>1. LifeInv => ConsentIsOwners BY DEF LifeInv
<1> QED BY <1>1, LifeBegins, LifeStep, PTL DEF LifeSpec

(* Nobody keeps a service that was refunded, whoever finished the refund.  *)
THEOREM RefundedIsGone == LifeSpec => []RefundedMeansGone
<1>1. LifeInv => RefundedMeansGone
  BY DEF LifeInv, CreditsGone, RefundedMeansGone, GoneForGood
<1> QED BY <1>1, LifeBegins, LifeStep, PTL DEF LifeSpec

(* A refund is credited once, with the amount that its buyer is shown, and *)
(* the purchase is refunded exactly then: for any number of refunds, sweeps*)
(* and crashes.                                                            *)
THEOREM RefundsBalance == LifeSpec => []RefundBooks
<1>1. LifeInv => RefundBooks BY DEF LifeInv, Credited, RefundBooks
<1> QED BY <1>1, LifeBegins, LifeStep, PTL DEF LifeSpec
=============================================================================
