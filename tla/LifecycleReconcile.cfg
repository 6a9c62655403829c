CONSTANTS
    Node = {n1}
    Inst = {i1}
    Call = {c1}
    Name = {i1}
    NameOf <- OwnName
    BadImage = {}
    Serial = TRUE
    MaxFault = 1
    NoNode = NoNode
    NoInst = NoInst
SPECIFICATION Spec
CHECK_DEADLOCK FALSE
PROPERTY ReconcileRepairs
