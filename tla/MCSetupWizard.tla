---------------------------- MODULE MCSetupWizard ----------------------------
(***************************************************************************)
(* TLC instances of SetupWizard: one mounted install, one in a disk image, *)
(* one Windows partition.                                                  *)
(***************************************************************************)
EXTENDS SetupWizard

MCSections == <<"source", "remove", "driver">>
=============================================================================
