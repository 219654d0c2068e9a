---------------------------- MODULE MCConnection ----------------------------
(* Connection on small instances. *)
EXTENDS Connection

=============================================================================
