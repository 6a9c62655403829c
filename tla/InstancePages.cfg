\* Two instances, of which the list has one; one or two requests of a kind at
\* once; one fault; one message fills a direction of a link.
CONSTANTS
    Inst = {i1, i2}
    NoInst = NoInst
    Listed = {i1}
    Load = {1, 2}
    Call = {1, 2}
    Fetch = {1}
    One = {1}
    MaxClick = 1
    MaxFault = 1
    Room = 1
SPECIFICATION Spec
INVARIANTS TypeOK OneCreate SocketOfRoute
PROPERTIES MetricsOfRoute ListConverges PageConverges SessionEnds
