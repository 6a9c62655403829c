CONSTANTS
    Node = {n1, n2}
    Inst = {i1, i2}
    Call = {c1}
    Name = {a}
    NameOf <- OneName
    BadImage = {}
    Serial = FALSE
    MaxFault = 1
    NoNode = NoNode
    NoInst = NoInst
SPECIFICATION Spec
CHECK_DEADLOCK FALSE
SYMMETRY Symmetry
INVARIANTS TypeOK OnlyOnItsNode
PROPERTIES ImplementsContract ErasedForGood WipedOnlyOnRequest
