\* Three downloads of an image of three parts; three calls that overlap and
\* four that do not; two nodes, two VPCs, four requests; memory of two units.
CONSTANTS
    Download = {1, 2, 3}
    Part = 3
    Vpc = {v1, v2}
    NoVpc = NoVpc
    Contested = {v1}
    Task = {1, 2, 3}
    SerialTask = {1, 2, 3, 4}
    MaxFault = 2
    Node = {n1, n2}
    Request = {1, 2, 3, 4}
    MaxRam = 2
    FallbackRam = 2
    FallbackFree = 1
SPECIFICATION Spec
INVARIANTS TypeOK TargetWhole WholeAtRest CreateBeforeDelete PickIsBest UsedInRange
PROPERTIES CreatedIsReady OnlyMissedLeft
CHECK_DEADLOCK FALSE
