SPECIFICATION FairSpec
CONSTANTS
    Names = {s1}
    Vols = {va, vb}
    Reqs = {r1, r2}
    NoName = NoName  NoVol = NoVol
    MaxWrites = 1
    MaxFaults = 2
INVARIANTS
    TemporaryKept
    SnapshotKept
PROPERTIES
    AnsweredIsComplete
    TemporaryRemoved
    AnsweredIsOfVolume
    RetriesConverge
