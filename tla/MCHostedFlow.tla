---------------------------- MODULE MCHostedFlow ----------------------------
(* Requests of the same kind are interchangeable.                          *)
EXTENDS HostedFlow, TLC

HostedSymmetry == Permutations(Redeemers) \cup Permutations(Pollers)
=============================================================================
