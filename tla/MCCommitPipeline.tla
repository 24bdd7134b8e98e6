--------------------------- MODULE MCCommitPipeline ---------------------------
(* The instances TLC checks: the bounds are in the .cfg files.              *)
EXTENDS CommitBoundaryProofs
=============================================================================
