---------------------------- MODULE MCHelperStore ----------------------------
(***************************************************************************)
(* TLC instances of HelperStore.  `s` is a status property, `e` an effect  *)
(* slot's property, which may appear later and is re-read.                 *)
(***************************************************************************)
EXTENDS HelperStore
=============================================================================
