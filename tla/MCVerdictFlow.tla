--------------------------- MODULE MCVerdictFlow ---------------------------
(* Handlers of the same kind are interchangeable.                          *)
EXTENDS VerdictFlow, TLC

FlowSymmetry ==
    Permutations(Verifiers) \cup Permutations(Redeemers)
=============================================================================
