SPECIFICATION SpecEither
CONSTANTS
    d1 = d1  d2 = d2  n1 = n1  n2 = n2  r1 = r1  r2 = r2  r3 = r3
    NoNode = NoNode  NoReq = NoReq  NoDisk = NoDisk
    Disks <- MCOneDisk
    Shared = {d1}
    Nodes <- MCNodes
    Mortal = {}
    Reqs <- MCReqs
    MaxLUN = 1
    LateAttach = TRUE
    Ops = {"publish", "unpublish"}
    CheckDiskLUNCollision = TRUE
    VAListFails = TRUE
    ForceDetachBackoff = TRUE
    Restarts = FALSE
SYMMETRY Symmetry
PROPERTIES
    PublishedIsAttached
