\* Creates come one at a time; one row is deleted.
CONSTANTS
    Creator = {c1, c2}
    Existing = 2
    MaxOpen = 1
    MaxDelete = 1
    Victim = {11}
SPECIFICATION Spec
CHECK_DEADLOCK FALSE
INVARIANT NoSharedAddress
