----------------------------- MODULE Redemption -----------------------------
(***************************************************************************)
(* What the redemption of one challenge promises, whatever handlers,       *)
(* retries and late writes it is made of: the one answer 200 is given for  *)
(* a proof that was accepted, and to an origin that is found to be metered *)
(* only once the credit service has deducted.  The comments of             *)
(* src/src/routes/redeem.rs put it as "no credits => no service": the      *)
(* deduction comes before the verdict is granted, and a redemption that    *)
(* cannot complete it is refused.  An unmetered origin is billed by a      *)
(* deduction that is dispatched with the answer and counts as part of it,  *)
(* or not at all.  Nobody is billed before a proof was accepted, and no    *)
(* other redemption bills once the answer has been given.                  *)
(***************************************************************************)

CONSTANT Redeemers

VARIABLES
    accepted,  \* was a proof accepted for the challenge?
    metered,   \* is the origin known to be metered?
    charged,   \* has the credit service deducted?
    granted    \* the redemptions answered 200

saleVars == <<accepted, metered, charged, granted>>

Init ==
    /\ accepted = FALSE
    /\ metered \in BOOLEAN
    /\ charged = FALSE
    /\ granted = {}

Accept == accepted' = TRUE /\ UNCHANGED <<metered, charged, granted>>

Open == accepted /\ granted = {}

\* a redemption asks whether the origin is metered, and the credit service
Bill ==
    /\ Open
    /\ metered' \in {metered, TRUE}
    /\ charged' \in {charged, TRUE}
    /\ charged' # charged => metered'
    /\ UNCHANGED <<accepted, granted>>

Grant(r) ==
    /\ Open
    /\ metered => charged
    /\ granted' = {r}
    /\ charged' \in {charged, TRUE}
    /\ UNCHANGED <<accepted, metered>>

Next == Accept \/ Bill \/ \E r \in Redeemers : Grant(r)

Spec == Init /\ [][Next]_saleVars
=============================================================================
