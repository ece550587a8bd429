---------------------------- MODULE MCDiskAttach ----------------------------
(* Model values and symmetry for the runs of DiskAttach.                     *)
EXTENDS DiskAttachRefines, TLC

CONSTANTS d1, d2, n1, n2, r1, r2, r3

MCDisks == {d1, d2}
MCOneDisk == {d1}
MCNodes == {n1, n2}
MCOneNode == {n1}
MCReqs == {r1, r2}
MCThreeReqs == {r1, r2, r3}

\* Handlers are interchangeable, and so are two disks neither of which is shared.
Symmetry == Permutations(MCReqs)
Symmetry3 == Permutations(MCThreeReqs) \cup Permutations(MCDisks)
=============================================================================
