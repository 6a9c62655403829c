-------------------------- MODULE InfrastructureMC --------------------------
(***************************************************************************)
(* Small instances for TLC of what surrounds the instances: the images and *)
(* the VPC networks of a node, the VPC requests of the controller and its  *)
(* view of the nodes' memory.                                              *)
(*                                                                         *)
(* None of these takes part in a step of another, so TLC explores them     *)
(* side by side instead of interleaved: a behaviour is one of one part,    *)
(* chosen in its first state, and the variables of the others rest.        *)
(* Images and networks are taken from their modules of proofs, which       *)
(* extend the models, so that InfrastructureProofs can cite what is proved *)
(* of them.                                                                *)
(***************************************************************************)
EXTENDS Naturals, FiniteSets

CONSTANTS
    Download, Part,
    Vpc, NoVpc, Contested, Task, SerialTask, MaxFault,
    Node, Request,
    MaxRam, FallbackRam, FallbackFree

VARIABLES
    part,                                           \* the part explored
    parts, tmp, target, pc, at, file,               \* ImageDownload
    link, netns, rules, task, missed, faults,       \* VpcNetwork
    rows, used, hosts, healthy, queue, request,     \* VpcService
    ram, libvirt, row, guess                        \* Placement

\* downloads that follow one another, and downloads that overlap
Images == INSTANCE ImageDownloadProofs WITH AtOnce <- 1
Overlap == INSTANCE ImageDownloadProofs WITH AtOnce <- 3

\* calls for one VPC that overlap, and calls for two that follow one another
Network ==
    INSTANCE VpcNetworkProofs WITH Vpc <- Contested, AtOnce <- 3
NetworkSerial ==
    INSTANCE VpcNetworkProofs WITH Task <- SerialTask, AtOnce <- 1
Service == INSTANCE VpcService WITH AtOnce <- 1
Nodes == INSTANCE Placement

ASSUME BoundsAssumption ==
    /\ Images!DownloadAssumption /\ Overlap!DownloadAssumption
    /\ Network!VpcAssumption /\ NetworkSerial!VpcAssumption
    /\ Service!ServiceAssumption /\ Nodes!PlacementAssumption
    /\ IsFiniteSet(Download) /\ IsFiniteSet(Task) /\ IsFiniteSet(SerialTask)
    /\ IsFiniteSet(Request) /\ IsFiniteSet(Node)

Off == "off"
ImagesOff ==
    /\ parts = Off /\ tmp = Off /\ target = Off
    /\ pc = Off /\ at = Off /\ file = Off
NetworkOff ==
    /\ link = Off /\ netns = Off /\ rules = Off
    /\ task = Off /\ missed = Off /\ faults = Off
ServiceOff ==
    /\ rows = Off /\ used = Off /\ hosts = Off
    /\ healthy = Off /\ queue = Off /\ request = Off
NodesOff == ram = Off /\ libvirt = Off /\ row = Off /\ guess = Off

images == <<parts, tmp, target, pc, at, file>>
network == <<link, netns, rules, task, missed, faults>>
service == <<rows, used, hosts, healthy, queue, request>>
nodes == <<ram, libvirt, row, guess>>
vars == <<part, images, network, service, nodes>>

Init ==
    \/ /\ NetworkOff /\ ServiceOff /\ NodesOff
       /\ \/ part = "images" /\ Images!Init
          \/ part = "overlap" /\ Overlap!Init
    \/ /\ ImagesOff /\ ServiceOff /\ NodesOff
       /\ \/ part = "network" /\ Network!Init
          \/ part = "network_serial" /\ NetworkSerial!Init
    \/ part = "service" /\ Service!Init /\ ImagesOff /\ NetworkOff /\ NodesOff
    \/ part = "nodes" /\ Nodes!Init /\ ImagesOff /\ NetworkOff /\ ServiceOff

ImagesNext ==
    /\ UNCHANGED <<part, network, service, nodes>>
    /\ \/ part = "images" /\ Images!Next
       \/ part = "overlap" /\ Overlap!Next

NetworkNext ==
    /\ UNCHANGED <<part, images, service, nodes>>
    /\ \/ part = "network" /\ Network!Next
       \/ part = "network_serial" /\ NetworkSerial!Next

ServiceNext ==
    /\ part = "service" /\ Service!Next
    /\ UNCHANGED <<part, images, network, nodes>>

NodesNext ==
    /\ part = "nodes" /\ Nodes!Next
    /\ UNCHANGED <<part, images, network, service>>

Next == ImagesNext \/ NetworkNext \/ ServiceNext \/ NodesNext

Spec == Init /\ [][Next]_vars

-----------------------------------------------------------------------------
(* The properties, each of the part whose module states and explains it.   *)

TypeOK ==
    /\ part \in {"images", "overlap"} => Images!TypeOK
    /\ part = "network" => Network!TypeOK
    /\ part = "network_serial" => NetworkSerial!TypeOK
    /\ part = "service" => Service!TypeOK
    /\ part = "nodes" => Nodes!TypeOK

\* What has an image's final name is whole, with one download at a time.
TargetWhole == part = "images" => Images!TargetWhole

\* Downloads that have all ended by themselves, whose mv and rm found nothing in
\* their way, leave no temporary file, and the image whole.
WholeAtRest == part = "overlap" => Overlap!WholeAtRest

\* A CreateVPC that reports success leaves the whole network.
CreatedIsReady == [][part = "network" => Network!CreatedIsReadyStep]_vars

\* A DeleteVPC that reports success leaves nothing of the VPC but what a removal
\* that failed, and whose error deleteNATGW dropped, did not take away.
OnlyMissedLeft ==
    [][part = "network_serial" => NetworkSerial!OnlyMissedLeftStep]_vars

\* When requests follow one another, no node is told to make a VPC after it was
\* told to remove it.
CreateBeforeDelete == part = "service" => Service!CreateBeforeDelete

\* PickNode finds a node exactly when one fits, and then one with most to offer.
PickIsBest == part = "nodes" => Nodes!PickIsBest

\* What the pages draw as used memory is between nothing and all of it.
UsedInRange == part = "nodes" => Nodes!UsedInRange
=============================================================================
