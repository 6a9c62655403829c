\* One node, two deletes, two faults; one VPC; two images on two nodes, two
\* deploys; two changes of each table; the five messages of the gate; one
\* running and one stopped instance of the mock data, two created ones.
CONSTANTS
    Node = {n1}
    NoNode = NoNode
    Vpc = {v1}
    NoVpc = NoVpc
    Img = {i1, i2}
    ImgNode = {n1, n2}
    Two = {1, 2}
    MaxDelete = 2
    MaxFault = 2
    MaxChange = 2
    Messages = 5
    Running = {web}
    Stopped = {test}
    New = {a, b}
SPECIFICATION Spec
INVARIANTS TypeOK CreatingIsCreate DeployingIsCall QueuedOn
PROPERTIES DeletedStaysDeleted NodesConverge AcceptedShown DashboardConverges GateOpens
