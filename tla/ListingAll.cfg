SPECIFICATION Spec
CONSTANTS
    MaxGroups = 3
    MaxDisks = 2
    MaxAlone = 4
    Limits = {0, 1, 2, 3}
INVARIANTS
    OneGroupListed
    TokensTaken
PROPERTIES
    NoneTwice
    TokenAdvances
CHECK_DEADLOCK FALSE
