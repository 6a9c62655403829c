CONSTANTS
    Node = {n1}
    Inst = {i1, i2}
    Call = {c1, c2, c3}
    Name = {i1, i2}
    NameOf <- OwnName
    BadImage = {i2}
    Serial = TRUE
    MaxFault = 0
    NoNode = NoNode
    NoInst = NoInst
SPECIFICATION Spec
CHECK_DEADLOCK FALSE
INVARIANTS SettledIsIdle TableAgrees NothingLeft
PROPERTIES TransitionsEnd
