--------------------------- MODULE MCChallengeDO ---------------------------
(* Three requests on one challenge; the clock passes the expiry.           *)
EXTENDS ChallengeDO, TLC

ReqSymmetry == Permutations(Req)
=============================================================================
