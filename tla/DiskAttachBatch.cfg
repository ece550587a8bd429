SPECIFICATION SpecEither
CONSTANTS
    d1 = d1  d2 = d2  n1 = n1  n2 = n2  r1 = r1  r2 = r2  r3 = r3
    NoNode = NoNode  NoReq = NoReq  NoDisk = NoDisk
    Disks <- MCDisks
    Shared = {}
    Nodes <- MCOneNode
    Mortal = {}
    Reqs <- MCThreeReqs
    MaxLUN = 2
    LateAttach = FALSE
    Ops = {"publish", "unpublish"}
    CheckDiskLUNCollision = FALSE
    VAListFails = FALSE
    ForceDetachBackoff = FALSE
    Restarts = FALSE
SYMMETRY Symmetry3
INVARIANTS
    OneUpdatePerVM
    QueueServed
    BatchOnBehalf
    DiskStateNotLeaked
    NoLunCollision
PROPERTIES
    PublishedIsAttached
    UnpublishedIsDetached
