--------------------------- MODULE MCHostedNotify ---------------------------
(* Two upgrades with one ticket; session, marker and alarm live equally      *)
(* long, as in production, and a read of KV may lag by a second.             *)
EXTENDS HostedNotify
=============================================================================
