--------------------------- MODULE MCEventChannel ---------------------------
(***************************************************************************)
(* TLC instances of EventChannel: queues of two events, reads in batches   *)
(* of two, a second of two ticks.                                          *)
(***************************************************************************)
EXTENDS EventChannel

CONSTANTS f1, p1, p2
=============================================================================
