---------------------------- MODULE MCNativeHosting ----------------------------
(***************************************************************************)
(* TLC instance of NativeHosting.                                          *)
(***************************************************************************)
EXTENDS NativeHosting, TLC

MCSymmetry == Permutations(Slots)
=============================================================================
