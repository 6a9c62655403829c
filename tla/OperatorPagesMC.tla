--------------------------- MODULE OperatorPagesMC ---------------------------
(***************************************************************************)
(* Small instances for TLC of the other pages of the web interface: nodes, *)
(* networks, images, the dashboard, the gate in front of them all, and the *)
(* instance list of the demo.  Like the browser, a behaviour is on one of  *)
(* them: `open' says which.  Pages that keep the same kind of state share  *)
(* its variable; those that do not use a variable leave it off.            *)
(***************************************************************************)
EXTENDS Naturals

CONSTANTS
    Node, NoNode, Vpc, NoVpc, Img, ImgNode, Two,
    MaxDelete, MaxFault, MaxChange, Messages, Running, Stopped, New

VARIABLES
    open,
    page, list, rows, hosts, call, faults,      \* of two or more of the pages
    ids, agent, removal, deletes,               \* NodesPage
    route, view, stored,                        \* NetworkPage
    healthy, queue,                             \* ImagesPage
    table, round,                               \* DashboardPage
    up, gate, poll, cancelled,                  \* HealthGate
    vms, booting, made, tools, modal, mounted   \* DemoInstances

nodes == <<ids, agent, removal, deletes>>
network == <<route, view, stored>>
images == <<healthy, queue>>
dashboard == <<table, round>>
start == <<up, gate, poll, cancelled>>
demo == <<vms, booting, made, tools, modal, mounted>>
vars == <<open, page, list, rows, hosts, call, faults,
          nodes, network, images, dashboard, start, demo>>

Nodes == INSTANCE NodesPage WITH Load <- Two
Network == INSTANCE NetworkPage WITH Load <- Two, Call <- Two, MaxFault <- 1
Images == INSTANCE ImagesPage WITH Node <- ImgNode, Call <- Two, MaxFault <- 1
Dashboard == INSTANCE DashboardPage WITH Load <- Two, MaxFault <- 1
Start == INSTANCE HealthGate
Demo == INSTANCE DemoInstances

ASSUME BoundsAssumption ==
    /\ Nodes!NodesAssumption /\ Network!NetworkAssumption
    /\ Images!ImagesAssumption /\ Img # {} /\ Dashboard!DashboardAssumption
    /\ Start!MessagesAssumption /\ Demo!DemoAssumption

Off == "off"
NodesOff == ids = Off /\ agent = Off /\ removal = Off /\ deletes = Off
NetworkOff == route = Off /\ view = Off /\ stored = Off
ImagesOff == healthy = Off /\ queue = Off
DashboardOff == table = Off /\ round = Off
StartOff == up = Off /\ gate = Off /\ poll = Off /\ cancelled = Off
DemoOff == /\ vms = Off /\ booting = Off /\ made = Off
           /\ tools = Off /\ modal = Off /\ mounted = Off

Init ==
    \/ /\ open = "nodes" /\ Nodes!Init
       /\ call = Off
       /\ NetworkOff /\ ImagesOff /\ DashboardOff /\ StartOff /\ DemoOff
    \/ /\ open = "network" /\ Network!Init
       /\ NodesOff /\ ImagesOff /\ DashboardOff /\ StartOff /\ DemoOff
    \/ /\ open = "images" /\ Images!Init
       /\ rows = Off /\ hosts = Off
       /\ NodesOff /\ NetworkOff /\ DashboardOff /\ StartOff /\ DemoOff
    \/ /\ open = "dashboard" /\ Dashboard!Init
       /\ list = Off /\ rows = Off /\ hosts = Off /\ call = Off
       /\ NodesOff /\ NetworkOff /\ ImagesOff /\ StartOff /\ DemoOff
    \/ /\ page = Off /\ list = Off /\ rows = Off /\ hosts = Off /\ call = Off
       /\ faults = Off
       /\ NodesOff /\ NetworkOff /\ ImagesOff /\ DashboardOff
       /\ \/ open = "start" /\ Start!Init /\ DemoOff
          \/ open = "demo" /\ Demo!Init /\ StartOff

Next ==
    \/ /\ open = "nodes" /\ Nodes!Next
       /\ UNCHANGED <<open, call, network, images, dashboard, start, demo>>
    \/ /\ open = "network" /\ Network!Next
       /\ UNCHANGED <<open, nodes, images, dashboard, start, demo>>
    \/ /\ open = "images" /\ Images!Next
       /\ UNCHANGED <<open, rows, hosts, nodes, network, dashboard, start, demo>>
    \/ /\ open = "dashboard" /\ Dashboard!Next
       /\ UNCHANGED <<open, list, rows, hosts, call,
                      nodes, network, images, start, demo>>
    \/ /\ UNCHANGED <<open, page, list, rows, hosts, call, faults,
                      nodes, network, images, dashboard>>
       /\ \/ open = "start" /\ Start!Next /\ UNCHANGED demo
          \/ open = "demo" /\ Demo!Next /\ UNCHANGED start

----------------------------------------------------------------------------
(* Fairness: timers fire, queries run, every request is answered or fails, *)
(* an agent that lost its stream registers again, and the browser runs     *)
(* what a promise resolves to.  Nothing is assumed of the operator.        *)

On(p, A) == open = p /\ A
nodesVars == <<rows, ids, agent, hosts, page, list, removal, deletes, faults>>
networkVars == <<rows, hosts, route, page, view, stored, list, call, faults>>
imagesVars == <<healthy, queue, page, list, call, faults>>
dashboardVars == <<table, page, round, faults>>

NodesFairness ==
    /\ WF_nodesVars(On("nodes", Nodes!Tick))
    /\ WF_nodesVars(On("nodes", Nodes!RemovalHandled))
    /\ WF_nodesVars(On("nodes", Nodes!RemovalDone))
    /\ \A l \in Two : /\ WF_nodesVars(On("nodes", Nodes!ListRead(l)))
                      /\ WF_nodesVars(On("nodes", Nodes!ListDone(l)))
    /\ \A n \in Node : WF_nodesVars(On("nodes", agent[n] = "lost" /\ Nodes!Register(n)))

NetworkFairness ==
    /\ \A l \in Two : /\ WF_networkVars(On("network", Network!ListRead(l)))
                      /\ WF_networkVars(On("network", Network!ListDone(l)))
    /\ \A c \in Two : /\ WF_networkVars(On("network", Network!Handle(c)))
                      /\ WF_networkVars(On("network", Network!Respond(c)))

ImagesFairness ==
    /\ WF_imagesVars(On("images", Images!ListDone))
    /\ \A c \in Two : /\ WF_imagesVars(On("images", Images!Handle(c)))
                        /\ WF_imagesVars(On("images", Images!Respond(c)))

DashboardFairness ==
    /\ WF_dashboardVars(On("dashboard", Dashboard!Tick))
    /\ \A l \in Two :
        /\ WF_dashboardVars(On("dashboard", Dashboard!LoadDone(l)))
        /\ \A t \in Dashboard!Table :
            WF_dashboardVars(On("dashboard", Dashboard!Read(l, t)))

StartFairness ==
    /\ WF_start(On("start", Start!Mount))
    /\ \A p \in Start!Poll :
        /\ WF_start(On("start", Start!Answer(p))) /\ WF_start(On("start", Start!Open(p)))
        /\ WF_start(On("start", Start!Refused(p))) /\ WF_start(On("start", Start!Again(p)))

Spec ==
    /\ Init /\ [][Next]_vars
    /\ NodesFairness /\ NetworkFairness /\ ImagesFairness
    /\ DashboardFairness /\ StartFairness

-----------------------------------------------------------------------------
(* Safety, each property stated and explained in the module of its page.   *)

TypeOK ==
    /\ open = "nodes" => Nodes!TypeOK
    /\ open = "network" => Network!TypeOK
    /\ open = "images" => Images!TypeOK
    /\ open = "dashboard" => Dashboard!TypeOK
    /\ open = "start" => Start!TypeOK
    /\ open = "demo" => Demo!TypeOK

\* The button is disabled exactly while a create of this visit is under way.
CreatingIsCreate == open = "network" => Network!CreatingIsCreate

\* The flag of an image is set exactly while a deploy of it is under way.
DeployingIsCall == open = "images" => Images!DeployingIsCall

\* The nodes the page names for an image are those one deploy enqueued it for.
QueuedOn == open = "images" => Images!QueuedOn

\* A demo instance deleted while it boots does not come back.
DeletedStaysDeleted == [][open = "demo" => Demo!DeletedStaysDeletedStep]_vars

-----------------------------------------------------------------------------
(* Liveness.                                                               *)

(***************************************************************************)
(* While the page stays open, a registered node comes into view, unless a  *)
(* request has failed or the row was removed meanwhile; and a node that    *)
(* was removed and does not come back is not shown for ever.  So it is in  *)
(* whatever order the list answers come in, and with deletes that are      *)
(* refused, repeated or lost.                                              *)
(***************************************************************************)
NodesConverge ==
    \A n \in Node :
        /\ On("nodes", page.mounted /\ rows[n] # "none") ~>
              On("nodes", ~page.mounted \/ page.error \/ rows[n] = "none"
                          \/ page.nodes[n] # "none")
        /\ <>[]On("nodes", page.mounted /\ rows[n] = "none") =>
              <>[](open = "nodes" => page.nodes[n] = "none")

(***************************************************************************)
(* A VPC whose create this page was told of comes into view at least once, *)
(* unless the page is left, an error replaces it, or the VPC is deleted:   *)
(* without a timer, one request has to bring it.  And the page never stays *)
(* behind Carregando, however list requests, deletes and creates overlap.  *)
(***************************************************************************)
AcceptedShown ==
    /\ \A v \in Vpc :
        On("network", \E c \in Two : /\ Network!Mine(c, "create")
                                     /\ call[c].st = "ok" /\ call[c].vpc = v) ~>
            On("network", \/ route # "real" \/ page.error
                          \/ v \notin rows \/ v \in page.vpcs)
    /\ On("network", route = "real") ~> On("network", Network!View # "spinner")

(***************************************************************************)
(* A dashboard that stays open comes to show both tables as they are, or   *)
(* the error of a failed round: no earlier round has the last word.        *)
(***************************************************************************)
DashboardConverges ==
    <>[]On("dashboard", page.mounted) =>
    <>[](open = "dashboard" =>
         \/ Dashboard!View = "error"
         \/ Dashboard!View = "page" /\ page.shown = table)

(***************************************************************************)
(* A controller that comes up and stays up opens the gate, whatever        *)
(* refusals came before and although one of the two loops is cancelled.    *)
(* And behind an open gate no loop is left that asks for ever: also the    *)
(* cancelled one stops, when the controller has gone down again before it  *)
(* was ever answered.                                                      *)
(***************************************************************************)
GateOpens ==
    /\ <>[]On("start", up) => <>[]On("start", Start!View = "page")
    /\ On("start", Start!View = "page") ~>
          [](open = "start" => \A p \in Start!Poll : poll[p] \in {"off", "done"})
=============================================================================
