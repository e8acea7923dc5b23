---------------------------- MODULE MCAdmission ----------------------------
(* One origin whose policy changes, one that crowds the cache, and one that  *)
(* is not registered.                                                        *)
EXTENDS Admission, TLC

CONSTANTS site, other, nobody, k1

On(k) == [state |-> "enabled", key |-> k]
Off(s) == [state |-> s, key |-> None]

MCPoliciesOf ==
    site :> {On(k1), On("another"), On(None), Off("disabled")}
    @@ other :> {On(None)} @@ nobody :> {Off("absent")}

AdmissionSymmetry == Permutations(Handler)
=============================================================================
