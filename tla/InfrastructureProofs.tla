------------------------ MODULE InfrastructureProofs ------------------------
(***************************************************************************)
(* Proofs about what surrounds the instances, for any number of nodes,     *)
(* images, VPCs, calls, requests and units of memory: the order of the     *)
(* commands of a VPC, the figures of the nodes' memory, and the properties *)
(* of all the parts side by side, as InfrastructureMC composes them.       *)
(*                                                                         *)
(* Each part has an inductive invariant of its own; that of images and     *)
(* networks is proved in their modules of proofs.  The invariant of the    *)
(* composition is that the part explored has its own.                      *)
(***************************************************************************)
EXTENDS InfrastructureMC, Sequences, FiniteSetTheorems, WellFoundedInduction, TLAPS

----------------------------------------------------------------------------
(* VpcService: the order of a VPC's commands.  An id is generated once, so *)
(* when a create enqueues its command there is no command of that VPC yet, *)
(* unless the delete of another request came between the row and the       *)
(* command.                                                                *)

RequestType == [op : {"create", "delete"}, vpc : Vpc \cup {NoVpc}, pc : Service!Pc]

ServiceTyped ==
    /\ hosts \subseteq rows /\ rows \subseteq used /\ used \subseteq Vpc
    /\ healthy \subseteq Node
    /\ queue \in [Node -> Seq(Service!Cmd)]
    /\ request \in [Request -> RequestType]

\* a command is one of an id that was generated
Known == \A n \in Node : \A i \in DOMAIN queue[n] : queue[n][i][2] \in used

\* requests follow one another
OneAtATime == \A r, s \in Request : r \in Service!Running /\ s \in Service!Running => r = s

\* a create that is about to enqueue its command is the first to name its VPC
Fresh ==
    \A r \in Request : Service!At(r, "create", "pick") =>
        \A n \in Node : \A i \in DOMAIN queue[n] : queue[n][i][2] # request[r].vpc

\* a request that enqueues names an id that was generated
Named == \A r \in Request : request[r].pc = "pick" => request[r].vpc \in used \cap Vpc

ServiceInv ==
    /\ ServiceTyped
    /\ Known
    /\ OneAtATime
    /\ Fresh
    /\ Named
    /\ Service!CreateBeforeDelete

LEMMA NoneRuns ==
    ASSUME IsFiniteSet(Request), Service!Cardinality(Service!Running) < 1
    PROVE  Service!Running = {}
<1>1. IsFiniteSet(Service!Running)
  BY FS_Subset DEF Service!Running
<1>2. Cardinality(Service!Running) \in Nat
  BY <1>1, FS_CardinalityType
<1>3. Cardinality(Service!Running) < 1
  BY DEF Cardinality, Service!Cardinality
<1>4. Cardinality(Service!Running) = 0
  BY <1>2, <1>3, SMT
<1> QED
  BY <1>1, <1>4, FS_EmptySet

LEMMA ServiceInit == ASSUME Service!Init PROVE ServiceInv
<1>1. ServiceTyped
  BY DEF Service!Init, ServiceTyped, RequestType, Service!Pc
<1> QED
  BY <1>1 DEF Service!Init, ServiceInv, Known, OneAtATime, Service!Running,
              Service!Ended, Fresh, Service!At, Named, Service!CreateBeforeDelete

LEMMA BeginStep ==
    ASSUME ServiceInv, IsFiniteSet(Request), NEW r \in Request,
           NEW op \in {"create", "delete"},
           NEW v \in Vpc \cup {NoVpc}, NEW cmd \in Service!Pc \ {"unused"},
           Service!Cardinality(Service!Running) < 1, Service!Begin(r, op, v, cmd),
           cmd = "pick" => op = "delete" /\ v \in used \cap Vpc
    PROVE  ServiceInv'
<1>1. /\ request' = [request EXCEPT ![r] = [op |-> op, vpc |-> v, pc |-> cmd]]
      /\ UNCHANGED <<rows, used, hosts, healthy, queue>>
  BY DEF Service!Begin
<1>2. /\ ServiceTyped /\ Known /\ Fresh /\ Named /\ Service!CreateBeforeDelete
      /\ Service!Running = {}
  BY NoneRuns DEF ServiceInv
<1>3. ServiceTyped'
  BY <1>1, <1>2 DEF ServiceTyped, RequestType
<1>4. /\ request'[r] = [op |-> op, vpc |-> v, pc |-> cmd]
      /\ \A s \in Request \ {r} : request'[s] = request[s]
  BY <1>1, <1>2 DEF ServiceTyped
<1>5. Known' /\ Service!CreateBeforeDelete'
  BY <1>1, <1>2 DEF Known, Service!CreateBeforeDelete
<1>6. \A s \in Request \ {r} : s \notin Service!Running'
  BY <1>2, <1>4 DEF Service!Running
<1>7. OneAtATime'
  BY <1>6 DEF OneAtATime
<1>8. Named'
  BY <1>1, <1>2, <1>4 DEF Named
<1>9. Fresh'
  BY <1>1, <1>2, <1>4 DEF Fresh, Service!At
<1> QED
  BY <1>3, <1>5, <1>7, <1>8, <1>9 DEF ServiceInv

LEMMA InsertStep ==
    ASSUME ServiceInv, NEW r \in Request, Service!Insert(r)
    PROVE  ServiceInv'
<1>1. PICK v \in Vpc \ used :
        /\ rows' = rows \cup {v} /\ used' = used \cup {v}
        /\ request' = [request EXCEPT ![r].vpc = v, ![r].pc = "pick"]
  BY DEF Service!Insert
<1>2. Service!At(r, "create", "insert") /\ UNCHANGED <<hosts, healthy, queue>>
  BY DEF Service!Insert
<1>3. ServiceTyped /\ Known /\ OneAtATime /\ Fresh /\ Named /\ Service!CreateBeforeDelete
  BY DEF ServiceInv
<1>4. /\ request'[r] = [op |-> request[r].op, vpc |-> v, pc |-> "pick"]
      /\ \A s \in Request \ {r} : request'[s] = request[s]
  BY <1>1, <1>3 DEF ServiceTyped, RequestType
<1>5. ServiceTyped'
  <2>1. request' \in [Request -> RequestType]
    BY <1>1, <1>3 DEF ServiceTyped, RequestType, Service!Pc
  <2> QED
    BY <1>1, <1>2, <1>3, <2>1 DEF ServiceTyped
<1>6. r \in Service!Running
  BY <1>2 DEF Service!Running, Service!At, Service!Ended
<1>7. \A s \in Request \ {r} : s \notin Service!Running /\ s \notin Service!Running'
  BY <1>3, <1>4, <1>6 DEF OneAtATime, Service!Running
<1>8. Known' /\ Service!CreateBeforeDelete'
  BY <1>1, <1>2, <1>3 DEF Known, Service!CreateBeforeDelete
<1>9. OneAtATime'
  BY <1>7 DEF OneAtATime
<1>10. Named'
  <2>1. SUFFICES ASSUME NEW s \in Request, request'[s].pc = "pick"
                 PROVE  request'[s].vpc \in used' \cap Vpc
    BY DEF Named
  <2>2. CASE s = r
    BY <1>1, <1>4, <2>2
  <2>3. CASE s # r
    <3>1. request[s].vpc \in used \cap Vpc
      BY <1>3, <1>4, <2>1, <2>3 DEF Named
    <3>2. request'[s] = request[s] /\ used \subseteq used'
      BY <1>1, <1>4, <2>3
    <3> QED
      BY <3>1, <3>2
  <2> QED
    BY <2>2, <2>3
<1>11. Fresh'
  <2>1. SUFFICES ASSUME NEW s \in Request, Service!At(s, "create", "pick")', NEW n \in Node,
                        NEW i \in DOMAIN queue[n]
                 PROVE  queue[n][i][2] # request'[s].vpc
    BY <1>2 DEF Fresh
  <2>2. s = r
    BY <1>7, <2>1 DEF Service!At, Service!Running, Service!Ended
  <2>3. queue[n][i][2] \in used
    BY <1>3 DEF Known
  <2> QED
    BY <1>4, <2>2, <2>3
<1> QED
  BY <1>5, <1>8, <1>9, <1>10, <1>11 DEF ServiceInv

\* a command joins one queue, or none does
LEMMA EnqueueIs ==
    ASSUME ServiceInv, NEW type \in {"create_vpc", "delete_vpc"}, NEW v \in Vpc,
           Service!Enqueue(type, v)
    PROVE  /\ queue' \in [Node -> Seq(Service!Cmd)]
           /\ \A n \in Node : \A i \in DOMAIN queue'[n] :
                 \/ i \in DOMAIN queue[n] /\ queue'[n][i] = queue[n][i]
                 \/ /\ queue'[n][i] = <<type, v>> /\ i = Len(queue[n]) + 1
                    /\ DOMAIN queue[n] = 1..Len(queue[n]) /\ Len(queue[n]) \in Nat
<1>t. queue \in [Node -> Seq(Service!Cmd)] /\ <<type, v>> \in Service!Cmd
  BY DEF ServiceInv, ServiceTyped, Service!Cmd
<1>1. CASE healthy = {} /\ UNCHANGED queue
  BY <1>1, <1>t
<1>2. ASSUME NEW m \in healthy, queue' = [queue EXCEPT ![m] = Append(@, <<type, v>>)]
      PROVE  /\ queue' \in [Node -> Seq(Service!Cmd)]
             /\ \A n \in Node : \A i \in DOMAIN queue'[n] :
                   \/ i \in DOMAIN queue[n] /\ queue'[n][i] = queue[n][i]
                   \/ /\ queue'[n][i] = <<type, v>> /\ i = Len(queue[n]) + 1
                      /\ DOMAIN queue[n] = 1..Len(queue[n]) /\ Len(queue[n]) \in Nat
  <2>1. queue' \in [Node -> Seq(Service!Cmd)]
    <3>1. m \in Node => Append(queue[m], <<type, v>>) \in Seq(Service!Cmd)
      BY <1>t
    <3> QED
      BY <1>2, <1>t, <3>1
  <2>2. ASSUME NEW n \in Node, NEW i \in DOMAIN queue'[n]
        PROVE  \/ i \in DOMAIN queue[n] /\ queue'[n][i] = queue[n][i]
               \/ /\ queue'[n][i] = <<type, v>> /\ i = Len(queue[n]) + 1
                  /\ DOMAIN queue[n] = 1..Len(queue[n]) /\ Len(queue[n]) \in Nat
    <3> DEFINE q == queue[n]
               c == <<type, v>>
    <3>1. q \in Seq(Service!Cmd) /\ c \in Service!Cmd
      BY <1>t
    <3>2. queue'[n] = IF n = m THEN Append(q, c) ELSE q
      BY <1>2, <1>t
    <3> HIDE DEF q, c
    <3>3. CASE n = m
      <4>1. i \in DOMAIN Append(q, c)
        BY <2>2, <3>2, <3>3
      <4>2. \/ i \in DOMAIN q /\ Append(q, c)[i] = q[i]
            \/ /\ Append(q, c)[i] = c /\ i = Len(q) + 1
               /\ DOMAIN q = 1..Len(q) /\ Len(q) \in Nat
        BY <3>1, <4>1
      <4> QED
        BY <3>2, <3>3, <4>2 DEF q, c
    <3>4. CASE n # m
      BY <2>2, <3>2, <3>4 DEF q
    <3> QED
      BY <3>3, <3>4
  <2> QED
    BY <2>1, <2>2
<1> QED
  BY <1>1, <1>2 DEF Service!Enqueue

LEMMA SendStep ==
    ASSUME ServiceInv, NEW r \in Request, Service!SendCreate(r) \/ Service!SendDelete(r)
    PROVE  ServiceInv'
<1> DEFINE v == request[r].vpc
           type == IF Service!SendCreate(r) THEN "create_vpc" ELSE "delete_vpc"
<1>1. ServiceTyped /\ Known /\ OneAtATime /\ Fresh /\ Named /\ Service!CreateBeforeDelete
  BY DEF ServiceInv
<1>2. /\ request[r].pc = "pick" /\ UNCHANGED <<rows, used, hosts, healthy>>
      /\ \E cmd \in {"get", "delete"} : Service!Goto(r, cmd)
      /\ Service!Enqueue(type, v)
  BY DEF Service!SendCreate, Service!SendDelete, Service!At
<1>3. v \in used \cap Vpc
  BY <1>1, <1>2 DEF Named
<1>4. type = "create_vpc" => Service!At(r, "create", "pick")
  BY DEF Service!SendCreate
<1>5. type \in {"create_vpc", "delete_vpc"}
  OBVIOUS
<1> HIDE DEF type
<1>6. /\ queue' \in [Node -> Seq(Service!Cmd)]
      /\ \A n \in Node : \A i \in DOMAIN queue'[n] :
            \/ i \in DOMAIN queue[n] /\ queue'[n][i] = queue[n][i]
            \/ /\ queue'[n][i] = <<type, v>> /\ i = Len(queue[n]) + 1
               /\ DOMAIN queue[n] = 1..Len(queue[n]) /\ Len(queue[n]) \in Nat
  BY <1>2, <1>3, <1>5, EnqueueIs
<1>7. /\ request'[r].pc \in {"get", "delete"}
      /\ \A s \in Request \ {r} : request'[s] = request[s]
      /\ request' \in [Request -> RequestType]
  BY <1>1, <1>2 DEF Service!Goto, ServiceTyped, RequestType, Service!Pc
<1>8. r \in Service!Running
  BY <1>2 DEF Service!Running, Service!Ended
<1>9. \A s \in Request \ {r} : s \notin Service!Running /\ s \notin Service!Running'
  BY <1>1, <1>7, <1>8 DEF OneAtATime, Service!Running
<1>10. ServiceTyped'
  BY <1>1, <1>2, <1>6, <1>7 DEF ServiceTyped
<1>11. OneAtATime'
  BY <1>9 DEF OneAtATime
<1>12. Fresh' /\ Named'
  <2>1. \A s \in Request : request'[s].pc # "pick"
    BY <1>7, <1>9 DEF Service!Running, Service!Ended
  <2> QED
    BY <2>1 DEF Fresh, Named, Service!At
<1>13. Known'
  <2>1. SUFFICES ASSUME NEW n \in Node, NEW i \in DOMAIN queue'[n]
                 PROVE  queue'[n][i][2] \in used
    BY <1>2 DEF Known
  <2> QED
    BY <1>1, <1>3, <1>6, <2>1 DEF Known
<1>14. Service!CreateBeforeDelete'
  <2>1. SUFFICES ASSUME NEW n \in Node, NEW i \in DOMAIN queue'[n],
                        NEW j \in DOMAIN queue'[n],
                        queue'[n][i][2] = queue'[n][j][2],
                        queue'[n][i][1] = "delete_vpc", i < j
                 PROVE  queue'[n][j][1] = "delete_vpc"
    BY DEF Service!CreateBeforeDelete
  <2>2. CASE j \in DOMAIN queue[n] /\ queue'[n][j] = queue[n][j]
    <3>1. i \in DOMAIN queue[n] /\ queue'[n][i] = queue[n][i]
      <4>1. SUFFICES ASSUME i = Len(queue[n]) + 1, Len(queue[n]) \in Nat,
                            DOMAIN queue[n] = 1..Len(queue[n])
                     PROVE  FALSE
        BY <1>6, <2>1
      <4> QED
        BY <2>1, <2>2, <4>1, SMT
    <3> QED
      BY <1>1, <2>1, <2>2, <3>1 DEF Service!CreateBeforeDelete
  <2>3. CASE queue'[n][j] = <<type, v>> /\ type = "create_vpc"
    <3>1. i \in DOMAIN queue[n] /\ queue'[n][i] = queue[n][i]
      BY <1>5, <1>6, <2>1, <2>3
    <3>2. queue[n][i][2] # v
      BY <1>1, <1>4, <2>3, <3>1 DEF Fresh
    <3> QED
      BY <2>1, <2>3, <3>1, <3>2
  <2>4. CASE queue'[n][j] = <<type, v>> /\ type = "delete_vpc"
    BY <2>4
  <2> QED
    BY <1>5, <1>6, <2>1, <2>2, <2>3, <2>4
<1> QED
  BY <1>10, <1>11, <1>12, <1>13, <1>14 DEF ServiceInv

LEMMA EndStep ==
    ASSUME ServiceInv, NEW r \in Request, Service!Reread(r) \/ Service!DeleteRow(r)
    PROVE  ServiceInv'
<1>1. ServiceTyped /\ Known /\ OneAtATime /\ Fresh /\ Named /\ Service!CreateBeforeDelete
  BY DEF ServiceInv
<1>2. /\ UNCHANGED <<used, hosts, healthy, queue>> /\ rows' \subseteq rows
      /\ hosts \subseteq rows'
      /\ \E cmd \in {"ok", "failed"} : Service!Goto(r, cmd)
  BY <1>1 DEF Service!Reread, Service!DeleteRow, Service!Deletable, ServiceTyped
<1>3. /\ request'[r].pc \in {"ok", "failed"}
      /\ \A s \in Request \ {r} : request'[s] = request[s]
      /\ request' \in [Request -> RequestType]
  BY <1>1, <1>2 DEF Service!Goto, ServiceTyped, RequestType, Service!Pc
<1>4. \A s \in Request : s \in Service!Running' => s \in Service!Running
  BY <1>3 DEF Service!Running, Service!Ended
<1>5. ServiceTyped'
  BY <1>1, <1>2, <1>3 DEF ServiceTyped
<1>6. OneAtATime'
  BY <1>1, <1>4 DEF OneAtATime
<1>7. Known' /\ Service!CreateBeforeDelete'
  BY <1>1, <1>2 DEF Known, Service!CreateBeforeDelete
<1>8. Fresh' /\ Named'
  BY <1>1, <1>2, <1>3 DEF Fresh, Named, Service!At
<1> QED
  BY <1>5, <1>6, <1>7, <1>8 DEF ServiceInv

LEMMA ServiceStep ==
    ASSUME Service!ServiceAssumption, IsFiniteSet(Request), ServiceInv,
           [Service!Next]_(Service!vars)
    PROVE  ServiceInv'
<1>1. ASSUME NEW r \in Request, Service!CreateBegins(r) PROVE ServiceInv'
  <2>1. Service!Begin(r, "create", NoVpc, "insert") /\ Service!Cardinality(Service!Running) < 1
    BY <1>1 DEF Service!CreateBegins, Service!Begin
  <2>2. "insert" \in Service!Pc \ {"unused"} /\ "insert" # "pick"
    BY DEF Service!Pc
  <2> QED
    BY <2>1, <2>2, BeginStep
<1>2. ASSUME NEW r \in Request, Service!DeleteBegins(r) PROVE ServiceInv'
  <2>1. PICK v \in used :
          Service!Begin(r, "delete", v, IF v \in rows THEN "pick" ELSE "failed")
    BY <1>2 DEF Service!DeleteBegins
  <2>0. v \in Vpc /\ Service!Cardinality(Service!Running) < 1
    BY <2>1 DEF ServiceInv, ServiceTyped, Service!Begin
  <2>2. CASE v \in rows
    BY <2>0, <2>1, <2>2, BeginStep DEF Service!Pc
  <2>3. CASE v \notin rows
    BY <2>0, <2>1, <2>3, BeginStep DEF Service!Pc
  <2> QED
    BY <2>2, <2>3
<1>3. ASSUME NEW r \in Request, Service!Step(r) PROVE ServiceInv'
  BY <1>3, InsertStep, SendStep, EndStep DEF Service!Step
<1>4. ASSUME NEW v \in Vpc, Service!Host(v) PROVE ServiceInv'
  BY <1>4 DEF Service!Host, ServiceInv, ServiceTyped, Known, OneAtATime,
              Service!Running, Fresh, Service!At, Named, Service!CreateBeforeDelete
<1>5. ASSUME NEW n \in Node, Service!HealthChanges(n) PROVE ServiceInv'
  BY <1>5 DEF Service!HealthChanges, ServiceInv, ServiceTyped, Known, OneAtATime,
              Service!Running, Fresh, Service!At, Named, Service!CreateBeforeDelete
<1>6. CASE UNCHANGED Service!vars
  BY <1>6 DEF Service!vars, ServiceInv, ServiceTyped, Known, OneAtATime,
              Service!Running, Fresh, Service!At, Named, Service!CreateBeforeDelete
<1> QED
  BY <1>1, <1>2, <1>3, <1>4, <1>5, <1>6 DEF Service!Next

LEMMA ServiceHolds == ASSUME ServiceInv PROVE Service!TypeOK /\ Service!CreateBeforeDelete
BY DEF ServiceInv, ServiceTyped, RequestType, Service!TypeOK

----------------------------------------------------------------------------
(* Placement: the figures of a node's memory.                              *)

\* a figure that was measured is one of the machine as it is, or was when smaller
MeasuredFits == \A n \in Node : n \notin guess => row[n].free <= ram[n]

NodesInv == Nodes!TypeOK /\ MeasuredFits

RowType == [here : BOOLEAN, ram : 0..MaxRam, free : 0..MaxRam,
            status : {"healthy", "unreachable"}, age : 0..4]

LEMMA NodesTyped ==
    ASSUME NodesInv
    PROVE  /\ ram \in [Node -> 1..MaxRam] /\ libvirt \subseteq Node /\ guess \subseteq Node
           /\ row \in [Node -> RowType]
BY DEF NodesInv, Nodes!TypeOK, RowType

LEMMA NodesInit == ASSUME Nodes!PlacementAssumption, Nodes!Init PROVE NodesInv
<1>1. Nodes!NoRow \in RowType /\ Nodes!NoRow.free = 0
  BY DEF Nodes!NoRow, RowType, Nodes!PlacementAssumption
<1>2. row \in [Node -> RowType] /\ \A n \in Node : row[n].free = 0
  BY <1>1 DEF Nodes!Init
<1>3. ram \in [Node -> 1..MaxRam] /\ libvirt = Node /\ guess = {}
  BY DEF Nodes!Init
<1>4. MeasuredFits
  BY <1>2, <1>3, SMT DEF MeasuredFits, Nodes!PlacementAssumption
<1> QED
  BY <1>2, <1>3, <1>4 DEF NodesInv, Nodes!TypeOK, RowType

\* a step that gives n another row, whose free memory fits when it counts as measured
LEMMA NewRow ==
    ASSUME NodesInv, NEW n \in Node, NEW k \in RowType, row' = [row EXCEPT ![n] = k],
           UNCHANGED ram, libvirt' \subseteq Node, guess' \subseteq Node,
           guess \ {n} \subseteq guess', n \notin guess' => k.free <= ram[n]
    PROVE  NodesInv'
<1>1. row' \in [Node -> RowType]
  BY NodesTyped
<1>2. /\ row'[n] = k
      /\ \A m \in Node \ {n} : row'[m] = row[m] /\ (m \notin guess' => m \notin guess)
  BY NodesTyped
<1>3. MeasuredFits'
  BY <1>2 DEF MeasuredFits, NodesInv
<1> QED
  BY <1>1, <1>3, NodesTyped DEF NodesInv, Nodes!TypeOK, RowType

LEMMA NodesStep ==
    ASSUME Nodes!PlacementAssumption, NodesInv, [Nodes!Next]_(Nodes!vars)
    PROVE  NodesInv'
<1> USE DEF Nodes!PlacementAssumption
<1>t. \A n \in Node : /\ ram[n] \in 1..MaxRam /\ row[n] \in RowType
                      /\ n \notin guess => row[n].free <= ram[n]
  BY NodesTyped DEF NodesInv, MeasuredFits
<1>1. ASSUME NEW n \in Node, Nodes!Register(n) PROVE NodesInv'
  <2>1. PICK total \in Nodes!buildNodeInfo(n) : Nodes!Upsert(n, total)
    BY <1>1 DEF Nodes!Register
  <2>2. total \in 0..MaxRam
    BY <1>t, <2>1 DEF Nodes!buildNodeInfo
  <2> DEFINE k == [here |-> TRUE, status |-> "healthy", age |-> 0,
                   ram |-> IF row[n].here THEN row[n].ram ELSE total,
                   free |-> IF row[n].here THEN row[n].free ELSE 0]
  <2>3. k \in RowType /\ (k.free = row[n].free \/ k.free = 0)
    BY <1>t, <2>2 DEF RowType
  <2>4. row' = [row EXCEPT ![n] = k] /\ UNCHANGED <<ram, libvirt, guess>>
    BY <1>1, <2>1 DEF Nodes!Register, Nodes!Upsert
  <2>5. n \notin guess' => k.free <= ram[n]
    BY <1>t, <2>3, <2>4
  <2> HIDE DEF k
  <2> QED
    BY <2>3, <2>4, <2>5, NewRow, NodesTyped
<1>2. ASSUME NEW n \in Node, Nodes!Heartbeat(n) PROVE NodesInv'
  <2>1. PICK free \in Nodes!collectStats(n) :
            row' = [row EXCEPT ![n] = [@ EXCEPT !.free = free, !.status = "healthy",
                                                !.age = 0]]
    BY <1>2 DEF Nodes!Heartbeat
  <2> DEFINE k1 == [row[n] EXCEPT !.free = free]
             k2 == [k1 EXCEPT !.status = "healthy"]
             k == [k2 EXCEPT !.age = 0]
  <2>2. free \in 0..MaxRam /\ (n \in libvirt => free <= ram[n])
    BY <1>t, <2>1 DEF Nodes!collectStats
  <2>3. k \in RowType /\ k.free = free
    <3>1. k1 \in RowType /\ k1.free = free
      BY <1>t, <2>2 DEF RowType
    <3> HIDE DEF k1
    <3>2. k2 \in RowType /\ k2.free = free
      BY <3>1 DEF RowType
    <3> HIDE DEF k2
    <3> QED
      BY <3>2 DEF RowType
  <2>4. row' = [row EXCEPT ![n] = k]
    BY <2>1, NodesTyped
  <2>5. /\ UNCHANGED <<ram, libvirt>>
        /\ guess' = IF n \in libvirt THEN guess \ {n} ELSE guess \cup {n}
    BY <1>2 DEF Nodes!Heartbeat
  <2> HIDE DEF k
  <2>6. n \notin guess' => k.free <= ram[n]
    BY <2>2, <2>3, <2>5
  <2> QED
    BY <2>3, <2>4, <2>5, <2>6, NewRow, NodesTyped
<1>3. ASSUME NEW n \in Node, Nodes!Restart(n) PROVE NodesInv'
  <2> DEFINE k == [row[n] EXCEPT !.status = "unreachable"]
  <2>1. k \in RowType /\ k.free = row[n].free
    BY <1>t DEF RowType
  <2>2. row' = [row EXCEPT ![n] = k]
    BY <1>3, NodesTyped DEF Nodes!Restart, Nodes!MarkUnreachable
  <2>3. UNCHANGED <<ram, guess>> /\ libvirt' \subseteq Node
    BY <1>3, NodesTyped DEF Nodes!Restart
  <2> HIDE DEF k
  <2> QED
    BY <1>t, <2>1, <2>2, <2>3, NewRow, NodesTyped
<1>4. ASSUME NEW n \in Node, Nodes!Silence(n) PROVE NodesInv'
  <2> DEFINE k == [row[n] EXCEPT !.age = @ + 1]
  <2>1. row[n].age \in 0..3
    BY <1>4, <1>t DEF Nodes!Silence, RowType
  <2>2. k \in RowType /\ k.free = row[n].free
    BY <1>t, <2>1 DEF RowType
  <2>3. row' = [row EXCEPT ![n] = k] /\ UNCHANGED <<ram, libvirt, guess>>
    BY <1>4, NodesTyped DEF Nodes!Silence
  <2> HIDE DEF k
  <2> QED
    BY <1>t, <2>2, <2>3, NewRow, NodesTyped
<1>5. ASSUME NEW n \in Node, Nodes!Upgrade(n) PROVE NodesInv'
  <2>1. /\ ram[n] < MaxRam /\ ram' = [ram EXCEPT ![n] = @ + 1]
        /\ UNCHANGED <<libvirt, row, guess>>
    BY <1>5 DEF Nodes!Upgrade
  <2>2. ram' \in [Node -> 1..MaxRam]
    BY <1>t, <2>1, NodesTyped
  <2>3. \A m \in Node : ram[m] <= ram'[m] /\ ram'[m] \in Nat /\ row[m].free \in Nat
    BY <1>t, <2>1, NodesTyped DEF RowType
  <2>4. MeasuredFits'
    BY <1>t, <2>1, <2>3 DEF MeasuredFits
  <2> QED
    BY <2>1, <2>2, <2>4, NodesTyped DEF NodesInv, Nodes!TypeOK, RowType
<1>6. CASE UNCHANGED Nodes!vars
  BY <1>6 DEF Nodes!vars, NodesInv, Nodes!TypeOK, MeasuredFits
<1> QED
  BY <1>1, <1>2, <1>3, <1>4, <1>5, <1>6 DEF Nodes!Next

LEMMA NodesHold == ASSUME NodesInv PROVE Nodes!TypeOK /\ Nodes!UsedInRange
BY DEF NodesInv, MeasuredFits, Nodes!UsedInRange

----------------------------------------------------------------------------
(* Placement: the loop of PickNode.  A set of numbers that has 0, and with *)
(* each number the next one, has them all: induction that needs no theorem *)
(* about predicates.                                                       *)

\* induction over the natural numbers, for a set instead of a predicate
LEMMA NatSet ==
    ASSUME NEW S, 0 \in S, \A n \in Nat : n \in S => n + 1 \in S
    PROVE  Nat \subseteq S
<1> SUFFICES ASSUME Nat \ S # {} PROVE FALSE
  OBVIOUS
<1> DEFINE Smaller == OpToRel(<, Nat)
<1>1. IsWellFoundedOn(Smaller, Nat)
  BY NatLessThanWellFounded
<1>2. \A m, n \in Nat : m < n => <<m, n>> \in Smaller
  BY DEF OpToRel
<1> HIDE DEF Smaller
<1>3. PICK n \in Nat \ S : \A m \in Nat \ S : ~(<<m, n>> \in Smaller)
  BY <1>1, WFMin
<1>4. n # 0 /\ n - 1 \in Nat /\ n - 1 < n /\ (n - 1) + 1 = n
  BY <1>3
<1>5. n - 1 \in S
  BY <1>2, <1>3, <1>4
<1> QED
  BY <1>3, <1>4, <1>5

\* what the fold of PickNode takes off a set of indices is its greatest
LEMMA MaxUpTo ==
    ASSUME NEW k \in Nat, NEW s \in SUBSET (1..(k + 1)), s # {}
    PROVE  Nodes!Max(s) \in s /\ s \ {Nodes!Max(s)} \subseteq 1..k
<1> DEFINE Has == {n \in Nat : \A t \in SUBSET (1..n) :
                                t # {} => \E x \in t : \A y \in t : x >= y}
<1>1. 0 \in Has
  <2>1. 1..0 = {}
    OBVIOUS
  <2> QED
    BY <2>1
<1>2. ASSUME NEW n \in Nat, n \in Has PROVE n + 1 \in Has
  <2> SUFFICES ASSUME NEW t \in SUBSET (1..(n + 1)), t # {}
               PROVE  \E x \in t : \A y \in t : x >= y
    OBVIOUS
  <2>1. CASE n + 1 \in t
    BY <2>1
  <2>2. CASE n + 1 \notin t
    <3>1. t \in SUBSET (1..n)
      BY <2>2
    <3> QED
      BY <1>2, <3>1
  <2> QED
    BY <2>1, <2>2
<1>3. Nat \subseteq Has
  <2> HIDE DEF Has
  <2> QED
    BY <1>1, <1>2, NatSet
<1>4. \E x \in s : \A y \in s : x >= y
  <2>1. k + 1 \in Has
    <3> HIDE DEF Has
    <3> QED
      BY <1>3
  <2> QED
    BY <2>1
<1> DEFINE x == Nodes!Max(s)
<1>5. x \in s /\ \A y \in s : x >= y
  BY <1>4 DEF Nodes!Max
<1> HIDE DEF x
<1>6. ASSUME NEW y \in s \ {x} PROVE y \in 1..k
  <2>1. x \in 1..(k + 1) /\ y \in 1..(k + 1) /\ x >= y /\ x # y
    BY <1>5
  <2> QED
    BY <2>1
<1> QED
  BY <1>5, <1>6 DEF x

\* the fold is the loop over the rows in their order, best[k] after k of them
LEMMA PickIsLoop ==
    ASSUME NEW n \in Nat, NEW s, DOMAIN s = 1..n, NEW min
    PROVE  \E best :
              /\ best[0] = "none"
              /\ \A k \in 1..n : best[k] = IF Nodes!Better(best[k - 1], s[k], min)
                                           THEN s[k] ELSE best[k - 1]
              /\ Nodes!PickNode(s, min) = best[n]
<1> DEFINE Then(b, m) == IF Nodes!Better(b, m, min) THEN m ELSE b
           Def(f, t) == IF t = {} THEN "none"
                        ELSE Then(f[t \ {Nodes!Max(t)}], s[Nodes!Max(t)])
           Has == {k \in Nat : \E f : f = [t \in SUBSET (1..k) |-> Def(f, t)]}
           iter == CHOOSE f : f = [t \in SUBSET (1..n) |-> Def(f, t)]
<1>0. Nodes!PickNode(s, min) = iter[1..n]
  BY DEF Nodes!PickNode, Nodes!FoldLeft, Nodes!MapThenFoldSet
<1> HIDE DEF iter, Then
<1>1. \E f : f = [t \in SUBSET (1..0) |-> Def(f, t)]
  <2> DEFINE f == [t \in SUBSET (1..0) |-> "none"]
  <2>1. \A t \in SUBSET (1..0) : Def(f, t) = "none"
    OBVIOUS
  <2> QED
    BY <2>1
<1>2. ASSUME NEW k \in Nat, NEW f, f = [t \in SUBSET (1..k) |-> Def(f, t)]
      PROVE  \E g : g = [t \in SUBSET (1..(k + 1)) |-> Def(g, t)]
  <2> DEFINE g == [t \in SUBSET (1..(k + 1)) |-> Def(f, t)]
  <2>1. ASSUME NEW t \in SUBSET (1..(k + 1)) PROVE Def(g, t) = Def(f, t)
    <3>1. CASE t = {}
      BY <3>1
    <3>2. CASE t # {}
      <4> DEFINE r == t \ {Nodes!Max(t)}
      <4>1. r \in SUBSET (1..k) /\ r \in SUBSET (1..(k + 1))
        BY <3>2, MaxUpTo
      <4> HIDE DEF r
      <4>2. g[r] = Def(f, r)
        BY <4>1
      <4>3. f[r] = Def(f, r)
        BY <4>1, <1>2
      <4> QED
        BY <4>2, <4>3 DEF r
    <3> QED
      BY <3>1, <3>2
  <2>2. g = [t \in SUBSET (1..(k + 1)) |-> Def(g, t)]
    BY <2>1
  <2> QED
    BY <2>2
<1>3. Nat \subseteq Has
  <2>1. 0 \in Has
    BY <1>1
  <2>2. ASSUME NEW k \in Nat, k \in Has PROVE k + 1 \in Has
    <3>1. PICK f : f = [t \in SUBSET (1..k) |-> Def(f, t)]
      BY <2>2
    <3>2. k + 1 \in Nat
      OBVIOUS
    <3> HIDE DEF Def
    <3> QED
      BY <1>2, <3>1, <3>2
  <2> HIDE DEF Has
  <2> QED
    BY <2>1, <2>2, NatSet
<1>4. iter = [t \in SUBSET (1..n) |-> Def(iter, t)]
  BY <1>3 DEF iter
<1> DEFINE best == [k \in 0..n |-> iter[1..k]]
<1>5. best[0] = "none" /\ best[n] = iter[1..n]
  BY <1>4
<1>6. ASSUME NEW k \in 1..n PROVE best[k] = Then(best[k - 1], s[k])
  <2>0. k \in Nat /\ 1 <= k /\ k <= n
    OBVIOUS
  <2>1. (1..k) \in SUBSET (1..n) /\ k \in 1..k /\ k - 1 \in 0..n
    BY <2>0
  <2>2. Nodes!Max(1..k) = k
    BY DEF Nodes!Max
  <2>3. (1..k) \ {k} = 1..(k - 1)
    OBVIOUS
  <2>4. iter[1..k] = Def(iter, 1..k)
    BY <1>4, <2>1
  <2>5. iter[1..k] = Then(iter[1..(k - 1)], s[k])
    BY <2>1, <2>2, <2>3, <2>4
  <2> QED
    BY <2>1, <2>5
<1> HIDE DEF best, Def
<1> QED
  BY <1>0, <1>5, <1>6 DEF Then

\* after k rows the loop has none if none fits, and else one with most to offer
LEMMA BestHolds ==
    ASSUME IsFiniteSet(Node), "none" \notin Node, \A m \in Node : row[m].free \in Nat
    PROVE  Nodes!PickIsBest
<1> SUFFICES ASSUME NEW min \in 0..MaxRam, NEW order \in Nodes!Orders
             PROVE  LET n == Nodes!PickNode(order, min)
                        fit == {m \in Nodes!GetHealthy : row[m].free >= min}
                    IN IF fit = {} THEN n = "none"
                       ELSE n \in fit /\ \A m \in fit : row[m].free <= row[n].free
  BY DEF Nodes!PickIsBest
<1> DEFINE H == Nodes!GetHealthy
           size == Cardinality(H)
<1>1. H \subseteq Node /\ IsFiniteSet(H) /\ size \in Nat
  BY FS_Subset, FS_CardinalityType DEF Nodes!GetHealthy
<1>2. order \in Injection(1..size, H)
  BY Zenon DEF Nodes!Orders, Nodes!SetToSeqs, Injection, Nodes!Cardinality, Cardinality, IsInjective
<1>3. IsFiniteSet(1..size) /\ Cardinality(1..size) = size
  BY <1>1, FS_Interval
<1> HIDE DEF H, size
<1>4. order \in [1..size -> H] /\ \A m \in H : \E k \in 1..size : order[k] = m
  <2>1. order \in Surjection(1..size, H)
    BY <1>1, <1>2, <1>3, FS_Injection DEF size
  <2> QED
    BY <2>1 DEF Surjection
<1>5. PICK best :
         /\ best[0] = "none"
         /\ \A k \in 1..size : best[k] = IF Nodes!Better(best[k - 1], order[k], min)
                                         THEN order[k] ELSE best[k - 1]
         /\ Nodes!PickNode(order, min) = best[size]
  BY <1>1, <1>4, PickIsLoop
<1> DEFINE Fits(k) == row[order[k]].free >= min
           Best(k) == \/ best[k] = "none" /\ \A j \in 1..k : ~Fits(j)
                      \/ /\ best[k] \in H /\ row[best[k]].free >= min
                         /\ \A j \in 1..k : Fits(j) => row[order[j]].free <= row[best[k]].free
           Done == {k \in Nat : k <= size => Best(k)}
<1>6. 0 \in Done
  <2>1. 1..0 = {}
    OBVIOUS
  <2> QED
    BY <1>5, <2>1
<1>7. ASSUME NEW k \in Nat, k \in Done PROVE k + 1 \in Done
  <2> SUFFICES ASSUME k + 1 <= size PROVE Best(k + 1)
    OBVIOUS
  <2>1. k + 1 \in 1..size /\ Best(k) /\ k \in 1..size \cup {0}
    BY <1>1, <1>7
  <2> DEFINE b == best[k]  m == order[k + 1]
  <2>2. best[k + 1] = IF Nodes!Better(b, m, min) THEN m ELSE b
    BY <1>5, <2>1
  <2>3. m \in H /\ m # "none" /\ row[m].free \in Nat
    BY <1>1, <1>4, <2>1
  <2>4. b = "none" \/ (b \in H /\ row[b].free \in Nat /\ b # "none")
    BY <1>1, <2>1
  <2>5. \A j \in 1..(k + 1) : j \in 1..k \/ j = k + 1
    OBVIOUS
  <2>6. \A j \in 1..k : row[order[j]].free \in Nat
    BY <1>1, <1>4, <2>1
  <2>7. min \in Int
    OBVIOUS
  <2>8. CASE Nodes!Better(b, m, min)
    <3>1. best[k + 1] = m /\ row[m].free >= min
      BY <2>2, <2>8 DEF Nodes!Better
    <3>2. ASSUME NEW j \in 1..k, Fits(j) PROVE row[order[j]].free <= row[m].free
      <4>1. b # "none" => row[order[j]].free <= row[b].free
        BY <2>1, <3>2
      <4>2. b # "none" => row[b].free < row[m].free
        BY <2>3, <2>4, <2>8 DEF Nodes!Better
      <4>3. b # "none"
        BY <1>1, <2>1, <3>2
      <4> HIDE DEF b, m
      <4> QED
        BY <2>3, <2>4, <2>6, <4>1, <4>2, <4>3
    <3>3. row[m].free <= row[m].free
      BY <2>3
    <3> QED
      BY <2>3, <2>5, <3>1, <3>2, <3>3
  <2>9. CASE ~Nodes!Better(b, m, min)
    BY <2>1, <2>2, <2>3, <2>4, <2>5, <2>6, <2>7, <2>9 DEF Nodes!Better
  <2> QED
    BY <2>8, <2>9
<1>8. Best(size)
  <2>1. size \in Done
    <3> HIDE DEF Done
    <3> QED
      BY <1>1, <1>6, <1>7, NatSet
  <2> QED
    BY <1>1, <2>1
<1>9. \A m \in H : row[m].free >= min => \E j \in 1..size : order[j] = m /\ Fits(j)
  BY <1>4
<1> QED
  BY <1>1, <1>5, <1>8, <1>9 DEF H

----------------------------------------------------------------------------
(* The parts side by side.                                                 *)

Inv ==
    /\ part = "images" => Images!SInv
    /\ part = "overlap" => Overlap!RInv
    /\ part = "network" => Network!BInv
    /\ part = "network_serial" => NetworkSerial!BInv /\ NetworkSerial!SerialInv
    /\ part = "service" => ServiceInv
    /\ part = "nodes" => NodesInv

\* the parts' assumptions, which speak of the same finite sets
LEMMA Finite ==
    /\ Images!IsFiniteSet(Download) /\ Network!IsFiniteSet(Task)
    /\ NetworkSerial!IsFiniteSet(SerialTask) /\ NetworkSerial!SerialCalls
BY BoundsAssumption DEF Images!IsFiniteSet, Network!IsFiniteSet,
   NetworkSerial!IsFiniteSet, IsFiniteSet, NetworkSerial!SerialCalls

LEMMA InvInit == ASSUME Init PROVE Inv
<1>1. CASE part = "images" /\ Images!Init
  BY <1>1, BoundsAssumption, Finite, Images!AloneInit DEF Inv
<1>2. CASE part = "overlap" /\ Overlap!Init
  BY <1>2, BoundsAssumption, Finite, Overlap!RestInit DEF Inv
<1>3. CASE part = "network" /\ Network!Init
  BY <1>3, BoundsAssumption, Finite, Network!BudgetInit DEF Inv
<1>4. CASE part = "network_serial" /\ NetworkSerial!Init
  BY <1>4, BoundsAssumption, Finite, NetworkSerial!BudgetInit, NetworkSerial!SerialInit DEF Inv
<1>5. CASE part = "service" /\ Service!Init
  BY <1>5, ServiceInit DEF Inv
<1>6. CASE part = "nodes" /\ Nodes!Init
  BY <1>6, BoundsAssumption, Finite, NodesInit DEF Inv
<1> QED
  BY <1>1, <1>2, <1>3, <1>4, <1>5, <1>6 DEF Init

\* a step is one of the part explored
LEMMA PartSteps ==
    ASSUME [Next]_vars
    PROVE  /\ part' = part
           /\ part = "images" => [Images!Next]_(Images!vars)
           /\ part = "overlap" => [Overlap!Next]_(Overlap!vars)
           /\ part = "network" => [Network!Next]_(Network!vars)
           /\ part = "network_serial" => [NetworkSerial!Next]_(NetworkSerial!vars)
           /\ part = "service" => [Service!Next]_(Service!vars)
           /\ part = "nodes" => [Nodes!Next]_(Nodes!vars)
<1> USE DEF vars, images, network, service, nodes, Images!vars, Overlap!vars,
            Network!vars, NetworkSerial!vars, Service!vars, Nodes!vars
<1>1. CASE ImagesNext
  BY <1>1 DEF ImagesNext
<1>2. CASE NetworkNext
  BY <1>2 DEF NetworkNext
<1>3. CASE ServiceNext
  BY <1>3 DEF ServiceNext
<1>4. CASE NodesNext
  BY <1>4 DEF NodesNext
<1>5. CASE UNCHANGED vars
  BY <1>5
<1> QED
  BY <1>1, <1>2, <1>3, <1>4, <1>5 DEF Next

LEMMA InvNext == ASSUME Inv, [Next]_vars PROVE Inv'
<1>1. (part = "images" => Images!SInv)'
  BY PartSteps, BoundsAssumption, Finite, Images!AloneStep DEF Inv
<1>2. (part = "overlap" => Overlap!RInv)'
  BY PartSteps, BoundsAssumption, Finite, Overlap!RestStep DEF Inv
<1>3. (part = "network" => Network!BInv)'
  BY PartSteps, BoundsAssumption, Finite, Network!BudgetNext DEF Inv, Network!VpcAssumption
<1>4. (part = "network_serial" => NetworkSerial!BInv /\ NetworkSerial!SerialInv)'
  <2>2. NetworkSerial!BInv => NetworkSerial!Inv
    BY DEF NetworkSerial!BInv
  <2> QED
    BY <2>2, PartSteps, BoundsAssumption, Finite, NetworkSerial!BudgetNext,
       NetworkSerial!SerialNext DEF Inv, NetworkSerial!VpcAssumption
<1>5. (part = "service" => ServiceInv)'
  BY PartSteps, BoundsAssumption, Finite, ServiceStep DEF Inv
<1>6. (part = "nodes" => NodesInv)'
  BY PartSteps, BoundsAssumption, Finite, NodesStep DEF Inv
<1> QED
  BY <1>1, <1>2, <1>3, <1>4, <1>5, <1>6 DEF Inv

(***************************************************************************)
(* Every part keeps its values in their types: no wget writes a part the   *)
(* image does not have, no rule is removed that is not there and none is   *)
(* added by more than one call each, no request leaves a VPC in use that   *)
(* has no row, no row of a node has more free memory than a node can have. *)
(***************************************************************************)
THEOREM TypeCorrect == Spec => []TypeOK
<1>1. Inv => TypeOK
  <2>1. Images!SInv => Images!TypeOK
    BY DEF Images!SInv, Images!TInv
  <2>2. Overlap!RInv => Overlap!TypeOK
    BY DEF Overlap!RInv, Overlap!TInv
  <2>3. Overlap!TypeOK <=> Images!TypeOK
    BY DEF Overlap!TypeOK, Images!TypeOK, Overlap!File, Images!File, Overlap!Name,
           Images!Name, Overlap!NoFile, Images!NoFile, Overlap!Pc, Images!Pc,
           Overlap!Whole, Images!Whole
  <2>4. Network!BInv => Network!TypeOK
    BY BoundsAssumption, Finite, Network!BudgetTypes
  <2>5. NetworkSerial!BInv => NetworkSerial!TypeOK
    BY BoundsAssumption, Finite, NetworkSerial!BudgetTypes
  <2>6. ServiceInv => Service!TypeOK
    BY ServiceHolds
  <2>7. NodesInv => Nodes!TypeOK
    BY NodesHold
  <2> QED
    BY <2>1, <2>2, <2>3, <2>4, <2>5, <2>6, <2>7 DEF Inv, TypeOK
<1> QED
  BY <1>1, InvInit, InvNext, PTL DEF Spec

(***************************************************************************)
(* While downloads of the image follow one another, the final name never   *)
(* stands for anything but the whole image, for any number of them, parts, *)
(* failures of wget, mv and rm and deaths of the agent half way            *)
(* (executor.go:190-208).                                                  *)
(***************************************************************************)
THEOREM TargetStaysWhole == Spec => []TargetWhole
<1>1. Inv => TargetWhole
  BY DEF Inv, TargetWhole, Images!SInv
<1> QED
  BY <1>1, InvInit, InvNext, PTL DEF Spec

(***************************************************************************)
(* However many downloads of one image there are, three at a time: when    *)
(* all have ended, none died with the agent and no mv or rm failed on a    *)
(* file that was there, no temporary file is left, and if no wget failed   *)
(* the image is there and whole.                                           *)
(***************************************************************************)
THEOREM RestIsWhole == Spec => []WholeAtRest
<1>1. Inv => WholeAtRest
  BY BoundsAssumption, Finite, Overlap!RestHolds DEF Inv, WholeAtRest
<1> QED
  BY <1>1, InvInit, InvNext, PTL DEF Spec

(***************************************************************************)
(* When the requests of the API follow one another, no node is told to     *)
(* create a VPC after it was told to delete it (vpc.go:25-68), however     *)
(* many nodes, VPCs and requests there are and whatever the health of the  *)
(* nodes does between PickNode and PickNode.                               *)
(***************************************************************************)
THEOREM CreateComesFirst == Spec => []CreateBeforeDelete
<1>1. Inv => CreateBeforeDelete
  BY ServiceHolds DEF Inv, CreateBeforeDelete
<1> QED
  BY <1>1, InvInit, InvNext, PTL DEF Spec

(***************************************************************************)
(* PickNode (scheduler.go) returns a node exactly when one heard of lately *)
(* has the memory that is needed, and then none of those has more, for any *)
(* number of nodes, whatever they reported, and any order of the rows.     *)
(***************************************************************************)
THEOREM BestIsPicked == Spec => []PickIsBest
<1>1. Inv => PickIsBest
  <2> SUFFICES ASSUME NodesInv PROVE Nodes!PickIsBest
    BY DEF Inv, PickIsBest
  <2>1. \A m \in Node : row[m].free \in Nat
    BY NodesTyped, BoundsAssumption DEF RowType, Nodes!PlacementAssumption
  <2> QED
    BY <2>1, BestHolds, BoundsAssumption DEF BoundsAssumption, Nodes!PlacementAssumption
<1> QED
  BY <1>1, InvInit, InvNext, PTL DEF Spec

(***************************************************************************)
(* What the pages draw as used memory is between nothing and all of it,    *)
(* for any nodes and memory, from the first registration through restarts  *)
(* of the agent, with and without libvirt, and upgrades of the machine, as *)
(* long as the total is the machine's and the free memory was measured.    *)
(***************************************************************************)
THEOREM UsedStaysInRange == Spec => []UsedInRange
<1>1. Inv => UsedInRange
  BY NodesHold DEF Inv, UsedInRange
<1> QED
  BY <1>1, InvInit, InvNext, PTL DEF Spec

(***************************************************************************)
(* A CreateVPC that reports success leaves the VPC whole (manager.go:34),  *)
(* for any number of nodes' calls, three at a time, and whichever commands *)
(* fail, unless the VPC was deleted.                                       *)
(***************************************************************************)
THEOREM CreatedStaysReady == Spec => CreatedIsReady
<1>1. Inv /\ [Next]_vars => [part = "network" => Network!CreatedIsReadyStep]_vars
  BY PartSteps, Network!ReadyStep DEF Inv, Network!BInv
<1> QED
  BY <1>1, InvInit, InvNext, PTL DEF Spec, CreatedIsReady

(***************************************************************************)
(* A DeleteVPC that reports success (manager.go:46-55) leaves no bridge,   *)
(* the namespace only where its own ip netns del failed, and a rule only   *)
(* where an iptables -D of this or an earlier delete failed, for any       *)
(* number of calls that follow one another, of any VPCs, whichever         *)
(* commands of any of them failed.                                         *)
(***************************************************************************)
THEOREM DeletedLeavesOnlyMissed == Spec => OnlyMissedLeft
<1>1. Inv /\ [Next]_vars => [part = "network_serial" => NetworkSerial!OnlyMissedLeftStep]_vars
  <2>2. NetworkSerial!BInv => NetworkSerial!Inv
    BY DEF NetworkSerial!BInv
  <2>3. UNCHANGED NetworkSerial!vars => NetworkSerial!OnlyMissedLeftStep
    BY DEF NetworkSerial!vars, NetworkSerial!OnlyMissedLeftStep, NetworkSerial!Ends,
           NetworkSerial!Active, NetworkSerial!Final
  <2> QED
    BY <2>2, <2>3, PartSteps, Finite, NetworkSerial!SerialNext DEF Inv
<1> QED
  BY <1>1, InvInit, InvNext, PTL DEF Spec, OnlyMissedLeft

=============================================================================
