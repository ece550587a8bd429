SPECIFICATION Spec
CONSTANTS
    d1 = d1  d2 = d2  n1 = n1  n2 = n2  r1 = r1  r2 = r2  r3 = r3
    NoNode = NoNode  NoReq = NoReq  NoDisk = NoDisk
    Disks <- MCOneDisk
    Shared = {}
    Nodes <- MCOneNode
    Mortal = {}
    Reqs <- MCReqs
    MaxLUN = 1
    LateAttach = FALSE
    Ops = {"publish", "delete"}
    CheckDiskLUNCollision = FALSE
    VAListFails = FALSE
    ForceDetachBackoff = FALSE
    Restarts = FALSE
PROPERTIES
    NoDeleteWhileAttaching
