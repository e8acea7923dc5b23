----------------------------- MODULE MCNonceDO -----------------------------
(* Messages of the two surfaces and the requests that present them; the      *)
(* times to live are on both sides of the alarm interval.                    *)
EXTENDS RequestAuth, TLC

CONSTANTS client, internal

BothMessages == {client, internal}
=============================================================================
