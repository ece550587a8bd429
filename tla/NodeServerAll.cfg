SPECIFICATION Spec
CONSTANTS
    v1 = v1  r1 = r1  r2 = r2  r3 = r3  NoVol = NoVol
    Vols <- MCVols
    Reqs <- MCThreeReqs
    MaxMounts = 2
    Restarts = TRUE
    Corrupts = TRUE
SYMMETRY Symmetry3
INVARIANTS
    MountedIsOpen
    LocksOwned
PROPERTIES
    StagedIsMounted
    UnstagedIsClosed
    UnpublishedIsUnmounted
    PatientPublishIsVolume
