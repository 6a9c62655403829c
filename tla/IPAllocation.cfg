\* The last four addresses before byte(11 + count) reaches .255
CONSTANTS
    Creator = {c1, c2, c3, c4}
    Existing = 240
    MaxOpen = 2
    MaxDelete = 2
    Victim = {11, 250}
SPECIFICATION Spec
SYMMETRY Symmetry
CHECK_DEADLOCK FALSE
INVARIANTS SharingBound HostAddress
