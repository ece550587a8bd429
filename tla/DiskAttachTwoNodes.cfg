SPECIFICATION SpecEither
CONSTANTS
    d1 = d1  d2 = d2  n1 = n1  n2 = n2  r1 = r1  r2 = r2  r3 = r3
    NoNode = NoNode  NoReq = NoReq  NoDisk = NoDisk
    Disks <- MCOneDisk
    Shared = {}
    Nodes <- MCNodes
    Mortal = {n2}
    Reqs <- MCReqs
    MaxLUN = 1
    LateAttach = FALSE
    Ops = {"publish", "unpublish", "delete"}
    CheckDiskLUNCollision = FALSE
    VAListFails = FALSE
    ForceDetachBackoff = TRUE
    Restarts = TRUE
SYMMETRY Symmetry
PROPERTIES
    ImplementsVolumeAttach
