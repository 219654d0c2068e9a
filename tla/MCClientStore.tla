---------------------------- MODULE MCClientStore ----------------------------
(***************************************************************************)
(* TLC instances of ClientStore: one property, which the initial state     *)
(* makes plain, a slow plug-in parameter or a trigger.  Nothing compares   *)
(* values, so they are interchangeable.                                    *)
(***************************************************************************)
EXTENDS ClientStore, TLC

ValueSymmetry == Permutations(Values)
=============================================================================
