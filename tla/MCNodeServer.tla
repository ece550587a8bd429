---------------------------- MODULE MCNodeServer ----------------------------
(* Model values and symmetry for the runs of NodeServer.                     *)
EXTENDS NodeServer, TLC

CONSTANTS v1, r1, r2, r3

MCVols == {v1}
MCReqs == {r1, r2}
MCThreeReqs == {r1, r2, r3}

\* Handlers are interchangeable.
Symmetry == Permutations(MCReqs)
Symmetry3 == Permutations(MCThreeReqs)
=============================================================================
