----------------------------- MODULE MCDspXact -----------------------------
(***************************************************************************)
(* DspXact for TLC.                                                        *)
(***************************************************************************)
EXTENDS DspXact, TLC

\* A long command without replies, and a short one with two.
MCShapes == {<<2, 0>>, <<1, 2>>}

Symmetric == Permutations(Xacts)
=============================================================================
