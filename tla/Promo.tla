-------------------------------- MODULE Promo --------------------------------
(***************************************************************************)
(* One promo code (PromoService) under purchases, gift redemptions and     *)
(* administrators.  A purchase sees that its user has no open intent, and  *)
(* in a transaction at READ COMMITTED (1) inserts its own, which a unique  *)
(* index allows once per user while it is pending, (2) reads the code,     *)
(* (3) takes a use with a guarded update that locks the row of the code,   *)
(* and (4) counts what its user has redeemed and commits.                  *)
(***************************************************************************)
EXTENDS Naturals, FiniteSets

CONSTANTS
  Buyers,    \* users
  Uses,      \* purchases and gift redemptions
  Gifts,     \* the redemptions of a gift credit among them
  UserOf,    \* whose each is
  Terms,     \* what administrators give the code: [gift, max, each, first]
  NoUse      \* nobody holds the row of the code

ASSUME PromoAssumption ==
  /\ IsFiniteSet(Uses) /\ Gifts \subseteq Uses
  /\ UserOf \in [Uses -> Buyers]
  /\ Terms \subseteq [gift : BOOLEAN, max : Nat \ {0}, each : Nat \ {0}, first : BOOLEAN]
  /\ Terms # {}
  /\ NoUse \notin Uses

VARIABLES
  code,        \* the row of promo_codes
  redemption,  \* rows of code_redemptions, by use
  intent,      \* status of the purchase intents; unsure: reconciliation
               \* is required; recovered: completed after that
  stage,       \* where the transaction of a use stands
  sight,       \* the terms of the code a use has read
  editor,      \* what createPromoCode has read before it writes
  rowLock      \* the use whose transaction has locked the row of the code

promoVars == <<code, redemption, intent, stage, sight, editor, rowLock>>

CodeRow == [there : BOOLEAN, terms : Terms, uses : 0..Cardinality(Uses),
            active : BOOLEAN, expired : BOOLEAN]

PromoTypeOK ==
  /\ code \in CodeRow
  /\ redemption \in [Uses -> {"none", "pending", "completed"}]
  /\ intent \in [Uses -> {"none", "pending", "unsure", "completed", "recovered", "failed"}]
  /\ stage \in [Uses -> {"start", "insert", "select", "consume", "count", "done"}]
  /\ sight \in [Uses -> Terms]
  /\ editor \in [on : BOOLEAN, uses : 0..Cardinality(Uses), gift : BOOLEAN, known : BOOLEAN]
  /\ rowLock \in Uses \cup {NoUse}

Idle == [on |-> FALSE, uses |-> 0, gift |-> FALSE, known |-> FALSE]

NoTerms == CHOOSE t \in Terms : TRUE

PromoInit ==
  /\ code = [there |-> FALSE, terms |-> NoTerms, uses |-> 0, active |-> TRUE, expired |-> FALSE]
  /\ sight = [c \in Uses |-> NoTerms]
  /\ redemption = [c \in Uses |-> "none"]
  /\ intent = [c \in Uses |-> "none"]
  /\ stage = [c \in Uses |-> "start"]
  /\ editor = Idle
  /\ rowLock = NoUse

Goes(c, to) == stage' = [stage EXCEPT ![c] = to]
Mine(c) == {d \in Uses : UserOf[d] = UserOf[c]}
Redeemed == {c \in Uses : redemption[c] # "none"}
RowFree == rowLock = NoUse
InTx(c) == stage[c] \in {"select", "consume", "count"}

(* A transaction rolls back: nothing of it was visible to anybody.         *)
RollsBack(c) ==
  /\ Goes(c, "done")
  /\ rowLock' = IF rowLock = c THEN NoUse ELSE rowLock
  /\ UNCHANGED <<code, redemption, intent, sight, editor>>

-----------------------------------------------------------------------------
(* The early look for an open purchase; a gift needs none.                 *)
Begin(c) ==
  /\ stage[c] = "start"
  /\ c \notin Gifts => \A d \in Mine(c) : intent[d] \notin {"pending", "unsure"}
  /\ Goes(c, IF c \in Gifts THEN "select" ELSE "insert")
  /\ UNCHANGED <<code, redemption, intent, sight, editor, rowLock>>

(* The intent waits for an insert under way, and fails for a pending one.  *)
Insert(c) ==
  /\ stage[c] = "insert"
  /\ \A d \in Mine(c) \ Gifts : ~InTx(d)
  /\ IF \E d \in Mine(c) : intent[d] = "pending"
       THEN RollsBack(c)
       ELSE /\ Goes(c, "select")
            /\ UNCHANGED <<code, redemption, intent, sight, editor, rowLock>>

(* A purchase without a code.                                              *)
BuyPlain(c) ==
  /\ stage[c] = "select" /\ c \notin Gifts
  /\ intent' = [intent EXCEPT ![c] = "pending"]
  /\ Goes(c, "done")
  /\ UNCHANGED <<code, redemption, sight, editor, rowLock>>

Available == code.there /\ code.active /\ ~code.expired /\ code.uses < code.terms.max
RightKind(c) == code.terms.gift <=> c \in Gifts
HasBought(c) == \E d \in Mine(c) : intent[d] \in {"completed", "recovered"}
UsesLeft(c) == Cardinality(Redeemed \cap Mine(c)) < code.terms.each

(* getSelectablePromo.                                                     *)
Selectable(c) ==
  Available /\ RightKind(c) /\ UsesLeft(c) /\ (code.terms.first => ~HasBought(c))

Select(c) ==
  /\ stage[c] = "select"
  /\ IF Selectable(c)
       THEN /\ Goes(c, "consume")
            /\ sight' = [sight EXCEPT ![c] = code.terms]
            /\ UNCHANGED <<code, redemption, intent, editor, rowLock>>
       ELSE RollsBack(c)

(* The guarded update waits for the row and judges it as it is then.       *)
Consume(c) ==
  /\ stage[c] = "consume" /\ RowFree
  /\ IF Available /\ RightKind(c)
       THEN /\ rowLock' = c
            /\ Goes(c, "count")
            /\ UNCHANGED <<code, redemption, intent, sight, editor>>
       ELSE RollsBack(c)

(* Mutant: what the selection has counted is trusted.                      *)
UsesLeftThen(c) == TRUE

(* assertUserUsageAvailable, under the lock of the row.                    *)
UsesLeftNow(c) == UsesLeft(c)

(* The count, the redemption, the money and the commit, or a rollback for  *)
(* a balance too low.                                                      *)
CommitUse(c) ==
  /\ stage[c] = "count"
  /\ \/ /\ UsesLeftNow(c)
        /\ code' = [code EXCEPT !.uses = @ + 1]
        /\ redemption' = [redemption EXCEPT ![c] = IF c \in Gifts THEN "completed" ELSE "pending"]
        /\ intent' = [intent EXCEPT ![c] = IF c \in Gifts THEN "none" ELSE "pending"]
        /\ rowLock' = NoUse
        /\ Goes(c, "done")
        /\ UNCHANGED <<sight, editor>>
     \/ RollsBack(c)

-----------------------------------------------------------------------------
(* The saga or its reconciler completes a purchase, or undoes it.          *)

Unsure(c) ==
  /\ intent[c] = "pending"
  /\ intent' = [intent EXCEPT ![c] = "unsure"]
  /\ UNCHANGED <<code, redemption, stage, sight, editor, rowLock>>

Complete(c) ==
  /\ intent[c] \in {"pending", "unsure"}
  /\ intent' = [intent EXCEPT ![c] = IF @ = "unsure" THEN "recovered" ELSE "completed"]
  /\ redemption' = [redemption EXCEPT ![c] = IF @ = "pending" THEN "completed" ELSE @]
  /\ UNCHANGED <<code, stage, sight, editor, rowLock>>

(* Mutant: the use is given back and its redemption stays.                 *)
ReleaseUncounted(c) ==
  /\ intent[c] \in {"pending", "unsure"} /\ RowFree
  /\ intent' = [intent EXCEPT ![c] = "failed"]
  /\ code' = [code EXCEPT !.uses = @ - 1]
  /\ UNCHANGED <<redemption, stage, sight, editor, rowLock>>

(* releaseReservedPurchasePromoInTransaction.                              *)
Release(c) ==
  /\ intent[c] \in {"pending", "unsure"}
  /\ intent' = [intent EXCEPT ![c] = "failed"]
  /\ IF redemption[c] = "pending"
       THEN /\ RowFree
            /\ redemption' = [redemption EXCEPT ![c] = "none"]
            /\ code' = [code EXCEPT !.uses = IF @ > 0 THEN @ - 1 ELSE 0]
       ELSE UNCHANGED <<redemption, code>>
  /\ UNCHANGED <<stage, sight, editor, rowLock>>

-----------------------------------------------------------------------------
(* Administrators and time.                                                *)

(* createPromoCode reads the code, checks the new terms, and writes.       *)
EditRead ==
  /\ ~editor.on
  /\ editor' = [on |-> TRUE, uses |-> code.uses, gift |-> code.terms.gift, known |-> code.there]
  /\ UNCHANGED <<code, redemption, intent, stage, sight, rowLock>>

EditWrite ==
  /\ editor.on /\ RowFree
  /\ editor' = Idle
  /\ \/ \E t \in Terms :
          LET uses == IF code.there THEN code.uses ELSE 0 IN
          /\ editor.known => (editor.uses > 0 => t.gift = editor.gift) /\ t.max >= editor.uses
          /\ uses <= t.max
          /\ code' = [there |-> TRUE, terms |-> t, uses |-> uses,
                      active |-> TRUE, expired |-> FALSE]
     \/ UNCHANGED code
  /\ UNCHANGED <<redemption, intent, stage, sight, rowLock>>

SetActive ==
  /\ code.there /\ RowFree
  /\ code' = [code EXCEPT !.active = ~@]
  /\ UNCHANGED <<redemption, intent, stage, sight, editor, rowLock>>

(* Only an unused code, and one that no redemption refers to, is deleted.  *)
DeleteCode ==
  /\ code.there /\ code.uses = 0 /\ Redeemed = {} /\ RowFree
  /\ code' = [code EXCEPT !.there = FALSE]
  /\ UNCHANGED <<redemption, intent, stage, sight, editor, rowLock>>

Expire ==
  /\ code.there /\ ~code.expired
  /\ code' = [code EXCEPT !.expired = TRUE]
  /\ UNCHANGED <<redemption, intent, stage, sight, editor, rowLock>>

PromoNext ==
  \/ \E c \in Uses : \/ Begin(c) \/ Insert(c) \/ BuyPlain(c) \/ Select(c) \/ Consume(c)
                     \/ CommitUse(c) \/ Unsure(c) \/ Complete(c) \/ Release(c)
  \/ EditRead \/ EditWrite \/ SetActive \/ DeleteCode \/ Expire

PromoSpec == PromoInit /\ [][PromoNext]_promoVars

-----------------------------------------------------------------------------
(* Properties.                                                             *)

PromoCounted ==
  /\ code.uses = Cardinality(Redeemed)
  /\ code.there \/ Redeemed = {}
  /\ code.uses <= code.terms.max \/ ~code.there

(* The uses a code shows are the redemptions there are, however purchases  *)
(* fail, are released and interleave; and a redemption is only committed   *)
(* within the terms of the code at that moment: in total, for the user,    *)
(* for the kind of use, and, where a purchase read that the code is for    *)
(* first purchases, with none completed before - but for one that was in   *)
(* doubt meanwhile, which the unique index does not hold.                  *)
PromoKept ==
  [][/\ PromoCounted'
     /\ \A c \in Uses : redemption[c] = "none" /\ redemption'[c] # "none" =>
          /\ RightKind(c)
          /\ Cardinality(Redeemed' \cap Mine(c)) <= code.terms.each
          /\ c \notin Gifts /\ sight[c].first
               => \A d \in Mine(c) : intent[d] # "completed"]_promoVars
=============================================================================
