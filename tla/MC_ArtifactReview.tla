-------------------------- MODULE MC_ArtifactReview --------------------------
(* ArtifactReview for TLC.                                                  *)
EXTENDS ArtifactReview, TLC

CONSTANTS p1, h1, h2, u1, none
=============================================================================
