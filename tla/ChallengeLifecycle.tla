------------------------ MODULE ChallengeLifecycle ------------------------
(***************************************************************************)
(* What the challenge store promises of one challenge, as the header of    *)
(* src/src/durable_objects/challenge_do.rs states it: a challenge moves    *)
(* Pending -> ProofOkWaitingForRedeem -> Verified, fails or expires from   *)
(* any state that is not terminal, and then stays as it is until it is     *)
(* removed; a challenge that carries evidence of a proof is not removed    *)
(* before it has expired.                                                  *)
(***************************************************************************)

VARIABLES
    st,      \* the state of the challenge, "Absent" when there is none
    expired  \* has its expires_at passed?

lcVars == <<st, expired>>

Live     == {"Pending", "ProofOkWaitingForRedeem"}
Terminal == {"Verified", "Failed", "Expired"}
Evidence == {"ProofOkWaitingForRedeem", "Verified"}

TypeOK == st \in {"Absent"} \cup Live \cup Terminal /\ expired \in BOOLEAN

Init == st = "Absent" /\ expired \in BOOLEAN

Create == st = "Absent" /\ st' \in Live \cup Terminal /\ UNCHANGED expired

Advance ==
    /\ \/ st = "Pending" /\ st' \in {"ProofOkWaitingForRedeem", "Failed", "Expired"}
       \/ st = "ProofOkWaitingForRedeem" /\ st' \in Terminal
    /\ expired => st' \in Terminal
    /\ UNCHANGED expired

Remove ==
    /\ st # "Absent"
    /\ st \in Evidence => expired
    /\ st' = "Absent"
    /\ UNCHANGED expired

Expire == expired' = TRUE /\ UNCHANGED st

Next == Create \/ Advance \/ Remove \/ Expire

Spec == Init /\ [][Next]_lcVars
=============================================================================
