---------------------------- MODULE MCVolumeSize ----------------------------
(* The runs of VolumeSize.                                                   *)
EXTENDS VolumeSize, TLC

\* The handlers are interchangeable.
ReqSymmetry == Permutations(Reqs)
=============================================================================
