SPECIFICATION Spec
CONSTANTS
    Reqs = {r1, r2, r3}
    GiB = 4
    Header = 1
    MinimumDiskSizeGiB = 2
    Requests = {1, 4, 6, 12}
SYMMETRY ReqSymmetry
INVARIANTS CapacityIsBacked NodeCapacityIsBacked FileSystemFits
