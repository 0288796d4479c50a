---------------------------- MODULE MCRealtime ----------------------------
(* Instances of Realtime for TLC. *)
EXTENDS Realtime, TLC

ConnSymmetry == Permutations(Conns)
===========================================================================
