CONSTANTS
    Node = {n1}
    Inst = {i1}
    Call = {c1, c2}
    Name = {i1}
    NameOf <- OwnName
    BadImage = {}
    Serial = TRUE
    MaxFault = 0
    NoNode = NoNode
    NoInst = NoInst
SPECIFICATION Spec
CHECK_DEADLOCK FALSE
INVARIANT StopSettles
