--------------------------- MODULE MCResourcePool ---------------------------
(***************************************************************************)
(* TLC instances of ResourcePool: a code pool of eight words and a data    *)
(* pool whose geometry is odd, as the register window may give it.         *)
(***************************************************************************)
EXTENDS ResourcePool

MCGeometry == [k \in Kinds |->
  IF k = 0 THEN [base |-> 0, words |-> 8, scratch |-> 0]
  ELSE [base |-> 3, words |-> 11, scratch |-> 1]]
=============================================================================
