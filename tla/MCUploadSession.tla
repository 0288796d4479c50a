-------------------------- MODULE MCUploadSession --------------------------
(* One asset, two upload sessions declaring a valid and an invalid file. *)
EXTENDS UploadSession, TLC

CONSTANTS a1, u1, u2, q1, q2, wav, junk

AssetsOfUploads == [u \in Uploads |-> a1]
\* Either session may be created; one declares a file the probe refuses.
InvalidAndValid == [u \in Uploads |-> IF u = u1 THEN junk ELSE wav]
BothValid == [u \in Uploads |-> wav]
ProcessSymmetry == Permutations(Processes)
=============================================================================
