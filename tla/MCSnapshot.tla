----------------------------- MODULE MCSnapshot -----------------------------
(* The runs of Snapshot.                                                     *)
EXTENDS Snapshot, TLC

\* Handlers are interchangeable, and so are volumes.
Symmetry == Permutations(Reqs) \cup Permutations(Vols)
=============================================================================
