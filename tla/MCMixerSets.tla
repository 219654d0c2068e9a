----------------------------- MODULE MCMixerSets -----------------------------
(***************************************************************************)
(* TLC instance of MixerSets: two clients with a fader, a send and a       *)
(* preamp gain, which the history skips.                                   *)
(***************************************************************************)
EXTENDS MixerSets, TLC

CONSTANTS c1, c2, fader, send, gain, k1, k2

MCSymmetry == Permutations({c1, c2}) \cup Permutations({fader, send}) \cup Permutations({k1, k2})
=============================================================================
