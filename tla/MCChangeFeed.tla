---------------------------- MODULE MCChangeFeed ----------------------------
(* Instances of ChangeFeed for TLC. *)
EXTENDS ChangeFeed, TLC

CONSTANTS a1, a2, b1, w1, w2

OneOld == <<a1>>
NoOld == <<>>
WriterSymmetry == Permutations(Writers)
=============================================================================
