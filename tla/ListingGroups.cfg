SPECIFICATION Spec
CONSTANTS
    MaxGroups = 2
    MaxDisks = 2
    MaxAlone = 1
    Limits = {1}
INVARIANTS AllListed
CHECK_DEADLOCK FALSE
