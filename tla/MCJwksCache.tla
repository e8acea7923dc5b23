---------------------------- MODULE MCJwksCache ----------------------------
(* One isolate; its issuers and its handlers are model values.  The         *)
(* temporal properties are checked without symmetry.                        *)
EXTENDS JwksCache
=============================================================================
