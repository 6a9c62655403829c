----------------------- MODULE InstanceLifecycleProofs -----------------------
(***************************************************************************)
(* Proofs about InstanceLifecycle for any nodes, instances, requests and   *)
(* number of disturbances: types, where domains and files may be, and what *)
(* an erased row says about delete commands.  Then, for clients that act   *)
(* one at a time on an instance and when nothing fails: what a row says of *)
(* the domain, and that a deleted instance leaves nothing behind.  Last,   *)
(* again for any clients and disturbances, that InstanceLifecycle          *)
(* implements InstanceContract, and which instances may lose an address.   *)
(***************************************************************************)
EXTENDS InstanceLifecycle, TLAPS

\* A request keeps its instance and the node it has read.
ReqOk(r) ==
    /\ r \in Inst => req[r].op = "create" /\ Target(r) = r
    /\ r \in Call => req[r].op # "create"
    /\ r \in Inst /\ req[r].pc = "idle" => ~Begun(r)
    /\ req[r].pc # "idle" => Target(r) \in Inst /\ Begun(Target(r))
    /\ req[r].pc \in {"setip", "write", "enqueue", "erase"} =>
          row[Target(r)].node = Host(r)
    /\ req[r].pc \in {"again", "write"} => req[r].op # "create"
    /\ req[r].pc = "erase" => req[r].op = "delete" /\ task[r].pc # "none"

\* A command belongs to a request that has begun, and only a delete gets to
\* the steps that remove things.
TaskOk(r) ==
    /\ task[r].pc # "none" => req[r].pc # "idle" /\ row[Target(r)].node = Host(r)
    /\ task[r].pc \in {"bridge", "lookup"} => req[r].op # "create"
    /\ task[r].pc \in {"inspect", "undefine", "wipe"} => req[r].op = "delete"

IInv ==
    /\ TypeOK
    /\ \A r \in Req : ReqOk(r) /\ TaskOk(r)
    /\ OnlyOnItsNode
    /\ ErasedAfterCommand

-----------------------------------------------------------------------------
(* What a step does to a part of the state *)

Alive == Settled \cup Transition

\* rows stay where they are, begun and erased as they were
RowKept ==
    /\ row' \in [Inst -> RowType]
    /\ \A i \in Inst : /\ row'[i].node = row[i].node
                       /\ row'[i].status = "unborn" <=> row[i].status = "unborn"
                       /\ row'[i].status = "gone" <=> row[i].status = "gone"

\* only process r of f moves, to the place pc
TaskMoves(r, pc) ==
    /\ task' \in [Req -> TaskType]
    /\ task'[r].pc = pc
    /\ \A q \in Req : q # r => task'[q] = task[q]

\* domains and files appear at most for instance i on node n
PlacesKept(n, i) ==
    /\ dom' \in [Node -> [Inst -> DomState]]
    /\ disk' \in [Node -> SUBSET Inst]
    /\ \A m \in Node, j \in Inst :
          dom'[m][j] # "absent" \/ j \in disk'[m] =>
              dom[m][j] # "absent" \/ j \in disk[m] \/ (m = n /\ j = i)

LEMMA RowUnchanged == ASSUME TypeOK, row' = row PROVE RowKept
BY DEF TypeOK, RowKept

LEMMA RowSet ==
    ASSUME TypeOK, NEW i \in Inst, NEW st \in Alive, NEW ip \in BOOLEAN, SetRow(i, st, ip)
    PROVE  RowKept
<1>1. CASE ~Exists(i)
    BY <1>1, RowUnchanged DEF SetRow
<1>2. CASE Exists(i)
    <2> DEFINE s == [row[i] EXCEPT !.status = st, !.ip = ip]
    <2>0. row \in [Inst -> RowType] /\ row[i] \in RowType
      BY DEF TypeOK
    <2>1. s \in RowType /\ s.node = row[i].node /\ s.status = st
      BY <2>0 DEF RowType, Alive
    <2>2. row' = [row EXCEPT ![i] = s]
      BY <1>2 DEF SetRow
    <2> HIDE DEF s
    <2>3. row' \in [Inst -> RowType] /\ \A j \in Inst : row'[j] = IF j = i THEN s ELSE row[j]
      BY <2>0, <2>1, <2>2
    <2>4. st # "unborn" /\ st # "gone" /\ row[i].status # "unborn" /\ row[i].status # "gone"
      BY <1>2 DEF Alive, Settled, Transition, Exists
    <2> QED
      BY <2>1, <2>3, <2>4 DEF RowKept
<1> QED
    BY <1>1, <1>2

LEMMA TaskGoto ==
    ASSUME TypeOK, NEW r \in Req, NEW pc, [pc |-> pc, dom |-> NoInst] \in TaskType,
           Goto(r, pc)
    PROVE  TaskMoves(r, pc)
<1> DEFINE s == [task[r] EXCEPT !.pc = pc]
<1>0. task \in [Req -> TaskType] /\ task[r] \in TaskType
    BY DEF TypeOK
<1>1. s \in TaskType /\ s.pc = pc
    BY <1>0 DEF TaskType
<1>2. task' = [task EXCEPT ![r] = s]
    BY DEF Goto
<1> HIDE DEF s
<1> QED
    BY <1>0, <1>1, <1>2 DEF TaskMoves

LEMMA PlacesUnchanged ==
    ASSUME TypeOK, UNCHANGED <<dom, disk>>, NEW n, NEW i
    PROVE  PlacesKept(n, i)
BY DEF TypeOK, PlacesKept

LEMMA DomSet ==
    ASSUME TypeOK, NEW n, NEW i, NEW k, NEW st \in DomState, SetDom(n, i, st), disk' = disk,
           n \in Node /\ i \in Inst => dom[n][i] # "absent" \/ i = k \/ st = "absent"
    PROVE  PlacesKept(n, k)
<1>0. dom \in [Node -> [Inst -> DomState]] /\ disk \in [Node -> SUBSET Inst]
    BY DEF TypeOK
<1>1. dom' = [dom EXCEPT ![n] = [dom[n] EXCEPT ![i] = st]]
    BY DEF SetDom
<1>2. CASE n \notin Node
    BY <1>0, <1>1, <1>2 DEF PlacesKept
<1>3. CASE n \in Node
    <2> DEFINE d == [dom[n] EXCEPT ![i] = st]
    <2>1. d \in [Inst -> DomState] /\ \A j \in Inst : d[j] = IF j = i THEN st ELSE dom[n][j]
      BY <1>0, <1>3
    <2>2. dom' = [dom EXCEPT ![n] = d]
      BY <1>1
    <2> HIDE DEF d
    <2> QED
      BY <1>0, <1>3, <2>1, <2>2 DEF PlacesKept
<1> QED
    BY <1>2, <1>3

\* faults stays within its bound, whether a step is a disturbance or not
LEMMA FaultsBounded ==
    ASSUME TypeOK, Calm \/ Disturb
    PROVE  faults' \in 0..MaxFault
BY ConstantsAssumption DEF TypeOK, Calm, Disturb

\* A process that moved has the type it had, and only its pc changed.
LEMMA MovedTask ==
    ASSUME NEW s \in TaskType, NEW pc, [pc |-> pc, dom |-> NoInst] \in TaskType
    PROVE  Moved(s, pc) \in TaskType /\ Moved(s, pc).pc = pc
BY DEF Moved, TaskType

LEMMA MovedReq ==
    ASSUME NEW s \in ReqType
    PROVE  /\ Moved(s, "done") \in ReqType
           /\ Moved(s, "done").pc = "done" /\ Moved(s, "done").op = s.op
           /\ Moved(s, "done").target = s.target /\ Moved(s, "done").node = s.node
BY DEF Moved, ReqType

-----------------------------------------------------------------------------
(* What preserves the parts of the invariant *)

\* A request, with its command, that a step leaves alone is still in order if
\* the row of its instance stays on its node and begun.
LEMMA OtherRequest ==
    ASSUME NEW q \in Req, ReqOk(q), TaskOk(q), req'[q] = req[q], task'[q] = task[q],
           req[q].pc # "idle" => /\ row'[Target(q)].node = row[Target(q)].node
                                 /\ row'[Target(q)].status # "unborn",
           q \in Inst /\ req[q].pc = "idle" => row'[q].status = row[q].status
    PROVE  ReqOk(q)' /\ TaskOk(q)'
BY DEF ReqOk, TaskOk, Target, Host, Begun

\* The same when every row stays where it is.
LEMMA OtherRequestKept ==
    ASSUME NEW q \in Req, TypeOK, ReqOk(q), TaskOk(q), RowKept,
           req'[q] = req[q], task'[q] = task[q]
    PROVE  ReqOk(q)' /\ TaskOk(q)'
BY DEF ReqOk, TaskOk, RowKept, Target, Host, Begun

\* A step that touches instance i on the node of its row at most keeps every
\* domain and every directory on the node of its instance.
LEMMA PlacesStay ==
    ASSUME TypeOK, OnlyOnItsNode, RowKept, NEW n, NEW i, PlacesKept(n, i),
           n \in Node /\ i \in Inst => Begun(i) /\ row[i].node = n
    PROVE  OnlyOnItsNode'
BY DEF OnlyOnItsNode, PlacesKept, RowKept, Begun

\* Witnesses of ErasedAfterCommand last.
LEMMA WitnessesLast ==
    ASSUME ErasedAfterCommand,
           \A i \in Inst : row'[i].status = "gone" => row[i].status = "gone",
           \A q \in Req : task[q].pc # "none" =>
              /\ task'[q].pc # "none"
              /\ req'[q].target = req[q].target /\ req'[q].op = req[q].op
    PROVE  ErasedAfterCommand'
BY DEF ErasedAfterCommand, Target, Req

\* A step of request r itself: its command and the places stay as they are.
LEMMA RequestStep ==
    ASSUME IInv, NEW r \in Req, RowKept, NEW s \in ReqType,
           req' = [req EXCEPT ![r] = s], UNCHANGED <<task, dom, disk, sync>>, Calm \/ Disturb,
           task[r].pc # "none" => s.target = req[r].target /\ s.op = req[r].op,
           ReqOk(r)', TaskOk(r)'
    PROVE  IInv'
<1>0. TypeOK /\ req \in [Req -> ReqType]
    BY DEF IInv, TypeOK
<1>1. req' \in [Req -> ReqType] /\ req'[r] = s /\ \A q \in Req : q # r => req'[q] = req[q]
    BY <1>0
<1>2. TypeOK'
    BY <1>0, <1>1, FaultsBounded DEF TypeOK, RowKept
<1>3. ASSUME NEW q \in Req PROVE ReqOk(q)' /\ TaskOk(q)'
    <2>1. CASE q = r
      BY <2>1
    <2>2. CASE q # r
      BY <1>0, <1>1, <2>2, OtherRequestKept DEF IInv
    <2> QED
      BY <2>1, <2>2
<1>4. OnlyOnItsNode'
    BY <1>0 DEF IInv, OnlyOnItsNode, RowKept, Begun
<1>5. ErasedAfterCommand'
    <2>1. \A i \in Inst : row'[i].status = "gone" => row[i].status = "gone"
      BY DEF RowKept
    <2> QED
      BY <1>1, <2>1, WitnessesLast DEF IInv
<1> QED
    BY <1>2, <1>3, <1>4, <1>5 DEF IInv

-----------------------------------------------------------------------------
(* The executor *)

\* where a command of this operation may be in the executor
Ahead(r, pc) ==
    /\ pc # "none"
    /\ pc \in {"bridge", "lookup"} => req[r].op # "create"
    /\ pc \in {"inspect", "undefine", "wipe"} => req[r].op = "delete"

\* what every step of the goroutine of command r has in common
Executed(r) ==
    /\ task[r].pc # "none"
    /\ \E pc : TaskMoves(r, pc) /\ Ahead(r, pc)
    /\ RowKept
    /\ PlacesKept(Host(r), Target(r))
    /\ UNCHANGED <<req, sync>>
    /\ Calm \/ Disturb

LEMMA ExecutedPreserves ==
    ASSUME IInv, NEW r \in Req, Executed(r)
    PROVE  IInv'
<1>0. TypeOK /\ ReqOk(r) /\ TaskOk(r)
    BY DEF IInv
<1>1. PICK pc : TaskMoves(r, pc) /\ Ahead(r, pc)
    BY DEF Executed
<1>2. TypeOK'
    BY <1>0, <1>1, FaultsBounded DEF TypeOK, Executed, TaskMoves, RowKept, PlacesKept
<1>3. ASSUME NEW q \in Req PROVE ReqOk(q)' /\ TaskOk(q)'
    <2>1. CASE q = r
      <3>1. task'[r].pc = pc /\ req' = req /\ RowKept
        BY <1>1 DEF TaskMoves, Executed
      <3>2. Target(r) \in Inst /\ req[r].pc # "idle"
        BY <1>0 DEF ReqOk, TaskOk, Executed
      <3>3. ReqOk(r)'
        BY <1>0, <1>1, <3>1, <3>2 DEF ReqOk, RowKept, Target, Host, Begun, Ahead
      <3>4. TaskOk(r)'
        BY <1>0, <1>1, <3>1, <3>2 DEF TaskOk, RowKept, Target, Host, Ahead, Executed
      <3> QED
        BY <2>1, <3>3, <3>4
    <2>2. CASE q # r
      <3>1. req'[q] = req[q] /\ task'[q] = task[q] /\ RowKept
        BY <1>1, <2>2 DEF TaskMoves, Executed
      <3> QED
        BY <1>0, <3>1, OtherRequestKept DEF IInv
    <2> QED
      BY <2>1, <2>2
<1>4. OnlyOnItsNode'
    <2>1. Begun(Target(r)) /\ row[Target(r)].node = Host(r)
      BY <1>0 DEF ReqOk, TaskOk, Executed
    <2> QED
      BY <1>0, <2>1, PlacesStay DEF IInv, Executed
<1>5. ErasedAfterCommand'
    <2>1. \A i \in Inst : row'[i].status = "gone" => row[i].status = "gone"
      BY DEF Executed, RowKept
    <2>2. ASSUME NEW q \in Req, task[q].pc # "none"
          PROVE  task'[q].pc # "none" /\ req'[q] = req[q]
      BY <1>1, <2>2 DEF Executed, TaskMoves, Ahead
    <2> QED
      BY <2>1, <2>2, WitnessesLast DEF IInv
<1> QED
    BY <1>2, <1>3, <1>4, <1>5 DEF IInv

\* A report that is delivered or lost.
LEMMA ReportExecuted ==
    ASSUME IInv, NEW r \in Req, NEW st \in Alive, NEW ip \in BOOLEAN, NEW pc \in {"prepare", "done"},
           task[r].pc # "none", Report(r, st, ip, pc)
    PROVE  Executed(r)
<1>0. TypeOK /\ Target(r) \in Inst
    BY DEF IInv, ReqOk, TaskOk
<1>1. TaskMoves(r, pc) /\ Ahead(r, pc)
    BY <1>0, TaskGoto DEF Report, TaskType, Ahead
<1>2. RowKept
    <2>1. row[Target(r)].ip \/ ip \in BOOLEAN
      OBVIOUS
    <2> QED
      BY <1>0, <2>1, RowSet, RowUnchanged DEF Report
<1>3. PlacesKept(Host(r), Target(r)) /\ UNCHANGED <<req, sync>> /\ (Calm \/ Disturb)
    BY <1>0, PlacesUnchanged DEF Report
<1> QED
    BY <1>1, <1>2, <1>3 DEF Executed

LEMMA SayExecuted ==
    ASSUME IInv, NEW r \in Req,
           Announce(r) \/ SayRunning(r) \/ SayStopped(r) \/ SayError(r)
    PROVE  Executed(r)
<1>0. {"pending", "running", "stopped", "error"} \subseteq Alive /\ (req[r].op = "create") \in BOOLEAN
    BY DEF Alive, Settled, Transition
<1>1. CASE Announce(r)
    BY <1>0, <1>1, ReportExecuted DEF Announce
<1>2. CASE SayRunning(r)
    BY <1>0, <1>2, ReportExecuted DEF SayRunning
<1>3. CASE SayStopped(r)
    BY <1>0, <1>3, ReportExecuted DEF SayStopped
<1>4. CASE SayError(r)
    BY <1>0, <1>4, ReportExecuted DEF SayError
<1> QED
    BY <1>1, <1>2, <1>3, <1>4

\* Steps that go on without touching anything.
LEMMA GotoExecuted ==
    ASSUME TypeOK, NEW r \in Req, NEW pc, [pc |-> pc, dom |-> NoInst] \in TaskType, Ahead(r, pc),
           task[r].pc # "none", Goto(r, pc), UNCHANGED <<row, req, sync>>, Calm \/ Disturb,
           PlacesKept(Host(r), Target(r))
    PROVE  Executed(r)
BY TaskGoto, RowUnchanged DEF Executed

\* Provision may make the directory of the instance, and fail.
LEMMA DiskAdded ==
    ASSUME TypeOK, NEW n, NEW i \in Inst, UNCHANGED dom,
           disk' = [disk EXCEPT ![n] = @ \cup {i}]
    PROVE  PlacesKept(n, i)
BY DEF TypeOK, PlacesKept

LEMMA PrepareExecuted ==
    ASSUME IInv, NEW r \in Req,
           PrepareFails(r) \/ RefuseImage(r) \/ NoMac(r) \/ Provision(r) \/ DefineFails(r) \/ BootFails(r)
    PROVE  Executed(r)
<1>0. TypeOK /\ task[r].pc # "none" /\ Target(r) \in Inst
    BY DEF IInv, ReqOk, TaskOk, PrepareFails, RefuseImage, NoMac, Provision, DefineFails, BootFails
<1>1. PICK pc \in {"sayError", "done", "define"} : Goto(r, pc)
    BY DEF PrepareFails, RefuseImage, NoMac, Provision, DefineFails, BootFails
<1>2. [pc |-> pc, dom |-> NoInst] \in TaskType /\ Ahead(r, pc)
    BY DEF TaskType, Ahead
<1>3. PlacesKept(Host(r), Target(r))
    BY <1>0, PlacesUnchanged, DiskAdded
    DEF PrepareFails, RefuseImage, NoMac, Provision, DefineFails, BootFails
<1>4. UNCHANGED <<row, req, sync>> /\ Calm
    BY DEF PrepareFails, RefuseImage, NoMac, Provision, DefineFails, BootFails
<1> QED
    BY <1>0, <1>1, <1>2, <1>3, <1>4, GotoExecuted

\* Define and Lookup also store a handle.
LEMMA HandleStored ==
    ASSUME TypeOK, NEW r \in Req, NEW pc, NEW i \in Inst \cup {NoInst},
           [pc |-> pc, dom |-> NoInst] \in TaskType,
           task' = [task EXCEPT ![r].pc = pc, ![r].dom = i]
    PROVE  TaskMoves(r, pc)
<1> DEFINE s == [task[r] EXCEPT !.pc = pc, !.dom = i]
<1>0. task \in [Req -> TaskType] /\ task[r] \in TaskType
    BY DEF TypeOK
<1>1. s \in TaskType /\ s.pc = pc
    BY <1>0 DEF TaskType
<1>2. task' = [task EXCEPT ![r] = s]
    OBVIOUS
<1> HIDE DEF s
<1> QED
    BY <1>0, <1>1, <1>2 DEF TaskMoves

LEMMA DefineExecuted ==
    ASSUME IInv, NEW r \in Req, Define(r)
    PROVE  Executed(r)
<1>0. TypeOK /\ task[r].pc # "none" /\ Target(r) \in Inst
    BY DEF IInv, ReqOk, TaskOk, Define
<1>1. TaskMoves(r, "boot") /\ Ahead(r, "boot")
    BY <1>0, HandleStored DEF Define, TaskType, Ahead
<1>2. PlacesKept(Host(r), Target(r))
    BY <1>0, DomSet DEF Define, DomState
<1>3. RowKept
    BY <1>0, RowUnchanged DEF Define
<1> QED
    BY <1>0, <1>1, <1>2, <1>3 DEF Define, Executed

\* libvirt's lookup by name finds an instance or nothing.
LEMMA NamedType ==
    ASSUME NEW n, NEW name
    PROVE  Named(n, name) \in Inst \cup {NoInst}
BY DEF Named

LEMMA LookupExecuted ==
    ASSUME IInv, NEW r \in Req, EnsureBridge(r) \/ Lookup(r)
    PROVE  Executed(r)
<1>0. /\ TypeOK /\ task[r].pc # "none" /\ req[r].op # "create"
      /\ req[r].op \in {"start", "stop", "delete"}
    BY DEF IInv, TypeOK, ReqType, TaskOk, EnsureBridge, Lookup
<1>1. PlacesKept(Host(r), Target(r)) /\ RowKept /\ UNCHANGED <<req, sync>> /\ Calm
    BY <1>0, PlacesUnchanged, RowUnchanged DEF EnsureBridge, Lookup
<1>2. CASE EnsureBridge(r)
    <2>1. PICK pc \in {"lookup", "sayError"} : Goto(r, pc)
      BY <1>2 DEF EnsureBridge
    <2>2. [pc |-> pc, dom |-> NoInst] \in TaskType /\ Ahead(r, pc)
      BY <1>0 DEF TaskType, Ahead
    <2>3. TaskMoves(r, pc)
      BY <1>0, <2>1, <2>2, TaskGoto
    <2> QED
      BY <1>0, <1>1, <2>2, <2>3 DEF Executed
<1>3. CASE Lookup(r)
    <2> DEFINE found == Named(Host(r), NameOf[Target(r)])
               pcs == IF found # NoInst
                      THEN [start |-> "boot", stop |-> "shutdown", delete |-> "inspect"]
                      ELSE [start |-> "sayError", stop |-> "done", delete |-> "wipe"]
               pc == pcs[req[r].op]
    <2>1. task' = [task EXCEPT ![r].pc = pc, ![r].dom = found]
      BY <1>3 DEF Lookup
    <2>2. found \in Inst \cup {NoInst}
      BY NamedType
    <2>3. /\ pc \in {"boot", "shutdown", "inspect", "sayError", "done", "wipe"}
          /\ pc \in {"inspect", "wipe"} => req[r].op = "delete"
      BY <1>0
    <2> HIDE DEF found, pc
    <2>4. [pc |-> pc, dom |-> NoInst] \in TaskType /\ Ahead(r, pc)
      BY <2>3 DEF TaskType, Ahead
    <2>5. TaskMoves(r, pc)
      BY <1>0, <2>1, <2>2, <2>4, HandleStored
    <2> QED
      BY <1>0, <1>1, <2>4, <2>5 DEF Executed
<1> QED
    BY <1>2, <1>3

\* Boot, stopVM and deleteVM act on the domain of the handle they hold, which
\* exists already, and go on.
LEMMA DomainExecuted ==
    ASSUME IInv, NEW r \in Req,
           Boot(r) \/ Shutdown(r) \/ Poll(r) \/ Inspect(r) \/ Destroy(r) \/ Undefine(r)
    PROVE  Executed(r)
<1> DEFINE n == Host(r)
           i == task[r].dom
<1>0. /\ TypeOK /\ TaskOk(r) /\ task[r].pc # "none"
    BY DEF IInv, Boot, Shutdown, Poll, Inspect, Destroy, Undefine
<1>1. PICK pc \in {"sayRunning", "poll", "done", "sayStopped", "destroy", "undefine", "wipe"} :
          Goto(r, pc) /\ (pc \in {"undefine", "wipe"} => req[r].op = "delete")
    BY <1>0 DEF TaskOk, Boot, Shutdown, Poll, Inspect, Destroy, Undefine
<1>2. [pc |-> pc, dom |-> NoInst] \in TaskType /\ Ahead(r, pc)
    BY <1>1 DEF TaskType, Ahead
<1>3. UNCHANGED <<row, req, disk, sync>> /\ Calm
    BY DEF Boot, Shutdown, Poll, Inspect, Destroy, Undefine
<1>4. CASE UNCHANGED dom
    BY <1>0, <1>1, <1>2, <1>3, <1>4, PlacesUnchanged, GotoExecuted
<1>5. CASE ~UNCHANGED dom
    <2>1. PICK st \in DomState : SetDom(n, i, st) /\ (dom[n][i] # "absent" \/ st = "absent")
      BY <1>5 DEF Boot, Shutdown, Poll, Inspect, Destroy, Undefine, Active, DomState
    <2>2. PlacesKept(n, Target(r))
      BY <1>0, <1>3, <2>1, DomSet
    <2> QED
      BY <1>0, <1>1, <1>2, <1>3, <2>2, GotoExecuted
<1> QED
    BY <1>4, <1>5

LEMMA WipeExecuted ==
    ASSUME IInv, NEW r \in Req, Wipe(r)
    PROVE  Executed(r)
<1>0. TypeOK /\ task[r].pc # "none"
    BY DEF IInv, Wipe
<1>1. [pc |-> "done", dom |-> NoInst] \in TaskType /\ Ahead(r, "done")
    BY DEF TaskType, Ahead
<1>2. PlacesKept(Host(r), Target(r))
    BY <1>0 DEF Wipe, TypeOK, PlacesKept
<1> QED
    BY <1>0, <1>1, <1>2, GotoExecuted DEF Wipe

LEMMA ExecutePreserves ==
    ASSUME IInv, NEW r \in Req, Execute(r)
    PROVE  IInv'
BY SayExecuted, PrepareExecuted, DefineExecuted, LookupExecuted, DomainExecuted,
   WipeExecuted, ExecutedPreserves DEF Execute

-----------------------------------------------------------------------------
(* The requests *)

LEMMA InsertPreserves ==
    ASSUME IInv, NEW i \in Inst, NEW n \in Node, Insert(i, n)
    PROVE  IInv'
<1> DEFINE new == [status |-> "pending", node |-> n, ip |-> FALSE]
           s == [req[i] EXCEPT !.pc = "setip", !.node = n]
<1>0. TypeOK /\ i \in Req /\ i \notin Call /\ ReqOk(i) /\ TaskOk(i) /\ ~Begun(i)
    BY ConstantsAssumption DEF IInv, Insert, ReqOk, Req
<1>1. row' = [row EXCEPT ![i] = new] /\ new \in RowType
    BY DEF Insert, RowType, Transition
<1>2. /\ row' \in [Inst -> RowType] /\ row'[i] = new
      /\ \A j \in Inst : j # i => row'[j] = row[j]
    BY <1>0, <1>1 DEF TypeOK
<1>3. s \in ReqType /\ s.pc = "setip" /\ s.node = n /\ s.op = req[i].op /\ s.target = req[i].target
    BY <1>0 DEF TypeOK, ReqType
<1>4. req' = [req EXCEPT ![i] = s]
    BY DEF Insert
<1> HIDE DEF s
<1>5. /\ req' \in [Req -> ReqType] /\ req'[i] = s
      /\ \A q \in Req : q # i => req'[q] = req[q]
    BY <1>0, <1>3, <1>4 DEF TypeOK
<1>6. UNCHANGED <<task, dom, disk, sync>> /\ Calm
    BY DEF Insert
<1>7. TypeOK'
    BY <1>0, <1>2, <1>5, <1>6, FaultsBounded DEF TypeOK
<1>8. ASSUME NEW q \in Req PROVE ReqOk(q)' /\ TaskOk(q)'
    <2>1. CASE q = i
      <3>1. task[i].pc = "none"
        BY <1>0 DEF TaskOk, Insert
      <3> QED
        BY <1>0, <1>2, <1>3, <1>5, <1>6, <2>1, <3>1 DEF ReqOk, TaskOk, Target, Host, Begun
    <2>2. CASE q # i
      <3>1. ReqOk(q) /\ TaskOk(q)
        BY DEF IInv
      <3>2. req[q].pc # "idle" => Target(q) \in Inst /\ Target(q) # i
        BY <1>0, <3>1 DEF ReqOk
      <3>3. req[q].pc # "idle" => /\ row'[Target(q)].node = row[Target(q)].node
                                  /\ row'[Target(q)].status # "unborn"
        BY <1>2, <3>1, <3>2 DEF ReqOk, Begun
      <3>4. q \in Inst => row'[q] = row[q]
        BY <1>2, <2>2
      <3> QED
        BY <1>5, <1>6, <2>2, <3>1, <3>3, <3>4, OtherRequest
    <2> QED
      BY <2>1, <2>2
<1>9. OnlyOnItsNode'
    BY <1>0, <1>2, <1>6 DEF IInv, OnlyOnItsNode, Begun
<1>10. ErasedAfterCommand'
    <2>1. \A j \in Inst : row'[j].status = "gone" => row[j].status = "gone"
      BY <1>2
    <2>2. \A q \in Req : req'[q].target = req[q].target /\ req'[q].op = req[q].op
      BY <1>3, <1>5
    <2> QED
      BY <1>6, <2>1, <2>2, WitnessesLast DEF IInv
<1> QED
    BY <1>7, <1>8, <1>9, <1>10 DEF IInv

\* What a request writes into its row.
LEMMA SetIPPreserves ==
    ASSUME IInv, NEW i \in Inst, SetIP(i)
    PROVE  IInv'
<1>0. TypeOK /\ i \in Req /\ ReqOk(i) /\ TaskOk(i)
    BY DEF IInv, Req
<1>1. PICK pc \in {"enqueue", "done"} : req' = [req EXCEPT ![i].pc = pc]
    BY DEF SetIP
<1> DEFINE s == [req[i] EXCEPT !.pc = pc]
<1>2. /\ s \in ReqType /\ s.pc = pc /\ s.node = req[i].node /\ s.op = req[i].op
      /\ s.target = req[i].target
    BY <1>0 DEF TypeOK, ReqType
<1>3. req' = [req EXCEPT ![i] = s]
    BY <1>1
<1> HIDE DEF s
<1>4. req'[i] = s
    BY <1>0, <1>3 DEF TypeOK
<1>5. RowKept
    BY <1>0, RowSet, RowUnchanged DEF SetIP, Alive, Transition
<1>6. UNCHANGED <<task, dom, disk, sync>> /\ Calm /\ req[i].pc = "setip"
    BY DEF SetIP
<1>7. ReqOk(i)' /\ TaskOk(i)'
    BY <1>0, <1>2, <1>4, <1>5, <1>6 DEF ReqOk, TaskOk, RowKept, Target, Host, Begun
<1> QED
    BY <1>0, <1>2, <1>3, <1>5, <1>6, <1>7, RequestStep

LEMMA BeginPreserves ==
    ASSUME IInv, NEW r \in Call, NEW op \in {"start", "stop"}, NEW i \in Inst, Begin(r, op, i)
    PROVE  IInv'
<1> DEFINE s == [req[r] EXCEPT !.pc = "write", !.op = op, !.target = i, !.node = row[i].node]
<1>0. /\ TypeOK /\ r \in Req /\ r \notin Inst /\ ReqOk(r) /\ TaskOk(r)
      /\ task[r].pc = "none" /\ Begun(i)
    BY ConstantsAssumption DEF IInv, Req, TaskOk, Begin, Begun, Exists
<1>1. s \in ReqType /\ s.pc = "write" /\ s.op = op /\ s.target = i /\ s.node = row[i].node
    BY <1>0 DEF TypeOK, ReqType, RowType
<1>2. req' = [req EXCEPT ![r] = s]
    BY DEF Begin
<1> HIDE DEF s
<1>3. req'[r] = s
    BY <1>0, <1>2 DEF TypeOK
<1>4. RowKept /\ UNCHANGED <<row, task, dom, disk, sync>> /\ Calm
    BY <1>0, RowUnchanged DEF Begin
<1>5. ReqOk(r)' /\ TaskOk(r)'
    BY <1>0, <1>1, <1>3, <1>4 DEF ReqOk, TaskOk, Target, Host, Begun
<1> QED
    BY <1>0, <1>1, <1>2, <1>4, <1>5, RequestStep

LEMMA BeginDeletePreserves ==
    ASSUME IInv, NEW r \in Call, NEW i \in Inst, BeginDelete(r, i)
    PROVE  IInv'
<1> DEFINE pc == IF row[i].status = "running" THEN "done" ELSE "again"
           s == [req[r] EXCEPT !.pc = pc, !.op = "delete", !.target = i]
<1>0. /\ TypeOK /\ r \in Req /\ r \notin Inst /\ ReqOk(r) /\ TaskOk(r)
      /\ task[r].pc = "none" /\ Begun(i)
    BY ConstantsAssumption DEF IInv, Req, TaskOk, BeginDelete, Begun, Exists
<1>1. s \in ReqType /\ s.pc \in {"done", "again"} /\ s.op = "delete" /\ s.target = i
    BY <1>0 DEF TypeOK, ReqType
<1>2. req' = [req EXCEPT ![r] = s]
    BY DEF BeginDelete
<1> HIDE DEF s
<1>3. req'[r] = s
    BY <1>0, <1>2 DEF TypeOK
<1>4. RowKept /\ UNCHANGED <<row, task, dom, disk, sync>> /\ Calm
    BY <1>0, RowUnchanged DEF BeginDelete
<1>5. ReqOk(r)' /\ TaskOk(r)'
    BY <1>0, <1>1, <1>3, <1>4 DEF ReqOk, TaskOk, Target, Host, Begun
<1> QED
    BY <1>0, <1>1, <1>2, <1>4, <1>5, RequestStep

LEMMA ReadAgainPreserves ==
    ASSUME IInv, NEW r \in Req, ReadAgain(r)
    PROVE  IInv'
<1>0. /\ TypeOK /\ ReqOk(r) /\ TaskOk(r) /\ req[r].pc = "again"
      /\ Target(r) \in Inst /\ Begun(Target(r)) /\ req[r].op # "create"
    BY DEF IInv, ReqOk, ReadAgain
<1>1. PICK pc \in {"write", "done"}, n \in Node \cup {NoNode} :
          /\ req' = [req EXCEPT ![r].pc = pc, ![r].node = n]
          /\ n = IF pc = "write" THEN row[Target(r)].node ELSE req[r].node
    <2>1. CASE req[r].ctx = "ok" /\ Exists(Target(r))
      BY <1>0, <2>1 DEF ReadAgain, TypeOK, RowType
    <2>2. CASE ~(req[r].ctx = "ok" /\ Exists(Target(r)))
      <3>1. req' = [req EXCEPT ![r].pc = "done"] /\ req[r].node \in Node \cup {NoNode}
        BY <1>0, <2>2 DEF ReadAgain, TypeOK, ReqType
      <3>2. req' = [req EXCEPT ![r].pc = "done", ![r].node = req[r].node]
        BY <1>0, <3>1 DEF TypeOK, ReqType
      <3> QED
        BY <3>1, <3>2
    <2> QED
      BY <2>1, <2>2
<1> DEFINE s == [req[r] EXCEPT !.pc = pc, !.node = n]
<1>2. /\ s \in ReqType /\ s.pc = pc /\ s.node = n /\ s.op = req[r].op
      /\ s.target = req[r].target
    BY <1>0 DEF TypeOK, ReqType
<1>3. req' = [req EXCEPT ![r] = s]
    BY <1>1
<1> HIDE DEF s
<1>4. req'[r] = s
    BY <1>0, <1>3 DEF TypeOK
<1>5. RowKept /\ UNCHANGED <<row, task, dom, disk, sync>> /\ Calm
    BY <1>0, RowUnchanged DEF ReadAgain
<1>6. ReqOk(r)'
    BY <1>0, <1>1, <1>2, <1>4, <1>5 DEF ReqOk, Target, Host, Begun
<1>7. TaskOk(r)'
    BY <1>0, <1>1, <1>2, <1>4, <1>5 DEF TaskOk, Target, Host
<1> QED
    BY <1>0, <1>2, <1>3, <1>5, <1>6, <1>7, RequestStep

LEMMA WritePreserves ==
    ASSUME IInv, NEW r \in Req, Write(r)
    PROVE  IInv'
<1>0. /\ TypeOK /\ ReqOk(r) /\ TaskOk(r) /\ req[r].pc = "write"
      /\ Target(r) \in Inst /\ req[r].op # "create"
    BY DEF IInv, ReqOk, Write
<1>1. PICK pc \in {"enqueue", "done"} : req' = [req EXCEPT ![r].pc = pc]
    BY DEF Write
<1> DEFINE s == [req[r] EXCEPT !.pc = pc]
<1>2. /\ s \in ReqType /\ s.pc = pc /\ s.node = req[r].node /\ s.op = req[r].op
      /\ s.target = req[r].target
    BY <1>0 DEF TypeOK, ReqType
<1>3. req' = [req EXCEPT ![r] = s]
    BY <1>1
<1> HIDE DEF s
<1>4. req'[r] = s
    BY <1>0, <1>3 DEF TypeOK
<1>5. RowKept
    <2>1. req[r].op \in {"start", "stop", "delete"}
      BY <1>0 DEF TypeOK, ReqType
    <2>2. StatusOf[req[r].op] \in Alive
      BY <2>1 DEF StatusOf, Alive, Transition
    <2> QED
      BY <1>0, <2>2, RowSet, RowUnchanged DEF Write
<1>6. UNCHANGED <<task, dom, disk, sync>> /\ Calm
    BY DEF Write
<1>7. ReqOk(r)' /\ TaskOk(r)'
    BY <1>0, <1>2, <1>4, <1>5, <1>6 DEF ReqOk, TaskOk, RowKept, Target, Host, Begun
<1> QED
    BY <1>0, <1>2, <1>3, <1>5, <1>6, <1>7, RequestStep

LEMMA CancelPreserves ==
    ASSUME IInv, NEW r \in Req, Cancel(r)
    PROVE  IInv'
<1> DEFINE s == [req[r] EXCEPT !.ctx = "cancelled"]
<1>0. TypeOK /\ ReqOk(r) /\ TaskOk(r)
    BY DEF IInv
<1>1. /\ s \in ReqType /\ s.pc = req[r].pc /\ s.node = req[r].node /\ s.op = req[r].op
      /\ s.target = req[r].target
    BY <1>0 DEF TypeOK, ReqType
<1>2. req' = [req EXCEPT ![r] = s]
    BY DEF Cancel
<1> HIDE DEF s
<1>3. req'[r] = s
    BY <1>0, <1>2 DEF TypeOK
<1>4. RowKept /\ UNCHANGED <<row, task, dom, disk, sync>> /\ Disturb
    BY <1>0, RowUnchanged DEF Cancel
<1>5. ReqOk(r)' /\ TaskOk(r)'
    BY <1>0, <1>1, <1>3, <1>4 DEF ReqOk, TaskOk, Target, Host, Begun
<1> QED
    BY <1>0, <1>1, <1>2, <1>4, <1>5, RequestStep

\* The command is there before a delete request can get to "erase".
LEMMA EnqueuePreserves ==
    ASSUME IInv, NEW r \in Req, Enqueue(r)
    PROVE  IInv'
<1>0. TypeOK /\ ReqOk(r) /\ TaskOk(r) /\ req[r].pc = "enqueue"
    BY DEF IInv, Enqueue
<1>1. PICK pc \in {"erase", "done"} :
          req' = [req EXCEPT ![r].pc = pc] /\ (pc = "erase" => req[r].op = "delete")
    BY DEF Enqueue
<1> DEFINE s == [req[r] EXCEPT !.pc = pc]
           t == [task[r] EXCEPT !.pc = "queued"]
<1>2. /\ s \in ReqType /\ s.pc = pc /\ s.node = req[r].node /\ s.op = req[r].op
      /\ s.target = req[r].target
    BY <1>0 DEF TypeOK, ReqType
<1>3. t \in TaskType /\ t.pc = "queued"
    BY <1>0 DEF TypeOK, TaskType
<1>4. req' = [req EXCEPT ![r] = s] /\ task' = [task EXCEPT ![r] = t]
    BY <1>1 DEF Enqueue
<1> HIDE DEF s, t
<1>5. /\ req' \in [Req -> ReqType] /\ req'[r] = s
      /\ \A q \in Req : q # r => req'[q] = req[q]
      /\ task' \in [Req -> TaskType] /\ task'[r] = t
      /\ \A q \in Req : q # r => task'[q] = task[q]
    BY <1>0, <1>2, <1>3, <1>4 DEF TypeOK
<1>6. UNCHANGED <<row, dom, disk, sync>> /\ Calm /\ RowKept
    BY <1>0, RowUnchanged DEF Enqueue
<1>7. TypeOK'
    BY <1>0, <1>5, <1>6, FaultsBounded DEF TypeOK
<1>8. ASSUME NEW q \in Req PROVE ReqOk(q)' /\ TaskOk(q)'
    <2>1. CASE q = r
      BY <1>0, <1>1, <1>2, <1>3, <1>5, <1>6, <2>1 DEF ReqOk, TaskOk, Target, Host, Begun
    <2>2. CASE q # r
      BY <1>0, <1>5, <1>6, <2>2, OtherRequestKept DEF IInv
    <2> QED
      BY <2>1, <2>2
<1>9. OnlyOnItsNode'
    BY <1>6 DEF IInv, OnlyOnItsNode, Begun
<1>10. ErasedAfterCommand'
    <2>1. \A j \in Inst : row'[j].status = "gone" => row[j].status = "gone"
      BY <1>6
    <2>2. ASSUME NEW q \in Req, task[q].pc # "none"
          PROVE  /\ task'[q].pc # "none"
                 /\ req'[q].target = req[q].target /\ req'[q].op = req[q].op
      BY <1>2, <1>3, <1>5, <2>2
    <2> QED
      BY <2>1, <2>2, WitnessesLast DEF IInv
<1> QED
    BY <1>7, <1>8, <1>9, <1>10 DEF IInv

\* The request that erases the row is the witness that a command was enqueued.
LEMMA ErasePreserves ==
    ASSUME IInv, NEW r \in Req, Erase(r)
    PROVE  IInv'
<1>0. /\ TypeOK /\ ReqOk(r) /\ TaskOk(r) /\ req[r].pc = "erase" /\ Target(r) \in Inst
      /\ req[r].op = "delete" /\ task[r].pc # "none" /\ r \in Call
    BY DEF IInv, Erase, ReqOk, Req
<1> DEFINE s == [req[r] EXCEPT !.pc = "done"]
           gone == [row[Target(r)] EXCEPT !.status = "gone"]
<1>1. /\ s \in ReqType /\ s.pc = "done" /\ s.node = req[r].node /\ s.op = req[r].op
      /\ s.target = req[r].target
    BY <1>0 DEF TypeOK, ReqType
<1>2. req' = [req EXCEPT ![r] = s]
    BY DEF Erase
<1>3. gone \in RowType /\ gone.status = "gone" /\ gone.node = row[Target(r)].node
    BY <1>0 DEF TypeOK, RowType
<1>4. row' = row \/ row' = [row EXCEPT ![Target(r)] = gone]
    BY DEF Erase
<1> HIDE DEF s, gone
<1>5. /\ req' \in [Req -> ReqType] /\ req'[r] = s
      /\ \A q \in Req : q # r => req'[q] = req[q]
    BY <1>0, <1>1, <1>2 DEF TypeOK
<1>6. /\ row' \in [Inst -> RowType]
      /\ \A j \in Inst : j # Target(r) => row'[j] = row[j]
      /\ \A j \in Inst : row'[j].node = row[j].node
      /\ \A j \in Inst : row[j].status # "unborn" => row'[j].status # "unborn"
    BY <1>0, <1>3, <1>4 DEF TypeOK
<1>7. UNCHANGED <<task, dom, disk, sync>> /\ Calm
    BY DEF Erase
<1>8. TypeOK'
    BY <1>0, <1>5, <1>6, <1>7, FaultsBounded DEF TypeOK
<1>9. ASSUME NEW q \in Req PROVE ReqOk(q)' /\ TaskOk(q)'
    <2>0. ReqOk(q) /\ TaskOk(q)
      BY DEF IInv
    <2>1. CASE q = r
      BY <1>0, <1>1, <1>5, <1>6, <1>7, <2>1 DEF ReqOk, TaskOk, Target, Host, Begun
    <2>2. CASE q # r
      <3>1. req[q].pc # "idle" => /\ row'[Target(q)].node = row[Target(q)].node
                                  /\ row'[Target(q)].status # "unborn"
        BY <1>6, <2>0 DEF ReqOk, Begun
      <3>2. q \in Inst /\ req[q].pc = "idle" => row'[q].status = row[q].status
        BY <1>0, <1>6, <2>0 DEF ReqOk, Begun
      <3> QED
        BY <1>5, <1>7, <2>0, <2>2, <3>1, <3>2, OtherRequest
    <2> QED
      BY <2>1, <2>2
<1>10. OnlyOnItsNode'
    BY <1>6, <1>7 DEF IInv, OnlyOnItsNode, Begun
<1>11. ErasedAfterCommand'
    <2> SUFFICES ASSUME NEW i \in Inst, row'[i].status = "gone"
                 PROVE  \E q \in Call : Target(q)' = i /\ req'[q].op = "delete" /\ task'[q].pc # "none"
      BY DEF ErasedAfterCommand
    <2>1. CASE i = Target(r)
      BY <1>0, <1>1, <1>5, <1>7, <2>1 DEF Target
    <2>2. CASE i # Target(r)
      <3>1. PICK q \in Call : Target(q) = i /\ req[q].op = "delete" /\ task[q].pc # "none"
        BY <1>6, <2>2 DEF IInv, ErasedAfterCommand
      <3> QED
        BY <1>5, <1>7, <2>2, <3>1 DEF Target, Req
    <2> QED
      BY <2>1, <2>2
<1> QED
    BY <1>8, <1>9, <1>10, <1>11 DEF IInv

-----------------------------------------------------------------------------
(* Steps that move many processes, or none *)

\* domains and files may go away, none appears
PlacesShrink ==
    /\ dom' \in [Node -> [Inst -> DomState]]
    /\ \A m \in Node, j \in Inst : dom'[m][j] # "absent" => dom[m][j] # "absent"
    /\ disk' = disk

LEMMA ManyMove ==
    ASSUME IInv, UNCHANGED row, PlacesShrink, sync' \in [Node -> SyncType], Calm \/ Disturb,
           req' \in [Req -> ReqType], task' \in [Req -> TaskType],
           \A q \in Req :
              /\ req'[q].op = req[q].op /\ req'[q].target = req[q].target
              /\ req'[q].node = req[q].node
              /\ req'[q].pc = req[q].pc \/ (req[q].pc # "idle" /\ req'[q].pc = "done")
              /\ task'[q].pc = task[q].pc \/ (task[q].pc # "none" /\ Ahead(q, task'[q].pc))
    PROVE  IInv'
<1>0. TypeOK
    BY DEF IInv
<1>1. TypeOK'
    BY <1>0, FaultsBounded DEF TypeOK, PlacesShrink
<1>2. ASSUME NEW q \in Req PROVE ReqOk(q)' /\ TaskOk(q)'
    <2>1. ReqOk(q) /\ TaskOk(q)
      BY DEF IInv
    <2>2. ReqOk(q)'
      BY <2>1 DEF ReqOk, Target, Host, Begun, Ahead
    <2>3. TaskOk(q)'
      BY <2>1 DEF TaskOk, Target, Host, Ahead
    <2> QED
      BY <2>2, <2>3
<1>3. OnlyOnItsNode'
    BY DEF IInv, OnlyOnItsNode, PlacesShrink, Begun
<1>4. ErasedAfterCommand'
    <2>1. ASSUME NEW q \in Req, task[q].pc # "none" PROVE task'[q].pc # "none"
      BY <2>1 DEF Ahead
    <2> QED
      BY <2>1, WitnessesLast DEF IInv
<1> QED
    BY <1>1, <1>2, <1>3, <1>4 DEF IInv

\* A set of commands that exist goes to "done".
LEMMA CommandsEnd ==
    ASSUME TypeOK, NEW S,
           task' = [r \in Req |-> IF r \in S THEN Moved(task[r], "done") ELSE task[r]],
           \A r \in Req : r \in S => task[r].pc # "none"
    PROVE  /\ task' \in [Req -> TaskType]
           /\ \A q \in Req : task'[q].pc = task[q].pc
                                \/ (task[q].pc # "none" /\ Ahead(q, task'[q].pc))
<1>1. ASSUME NEW q \in Req
      PROVE  /\ task[q] \in TaskType /\ Moved(task[q], "done") \in TaskType
             /\ Moved(task[q], "done").pc = "done"
    <2>1. task[q] \in TaskType
      BY DEF TypeOK
    <2>2. [pc |-> "done", dom |-> NoInst] \in TaskType
      BY DEF TaskType
    <2> QED
      BY <2>1, <2>2, MovedTask
<1> QED
    BY <1>1 DEF Ahead

LEMMA DeliverPreserves ==
    ASSUME IInv, NEW n \in Node, Deliver(n)
    PROVE  IInv'
<1>0. TypeOK
    BY DEF IInv
<1>1. /\ UNCHANGED <<row, req, dom, disk, sync>> /\ Calm /\ PlacesShrink
      /\ req' \in [Req -> ReqType] /\ sync' \in [Node -> SyncType]
    BY <1>0 DEF Deliver, TypeOK, PlacesShrink
<1>2. ASSUME NEW q \in Req, task[q].pc = "queued"
      PROVE  /\ Moved(task[q], FirstStep[req[q].op]) \in TaskType
             /\ Ahead(q, Moved(task[q], FirstStep[req[q].op]).pc)
    <2> DEFINE pc == FirstStep[req[q].op]
    <2>1. req[q].op \in {"create", "start", "stop", "delete"} /\ task[q] \in TaskType
      BY <1>0 DEF TypeOK, ReqType
    <2>2. pc \in {"announce", "bridge", "lookup"} /\ (pc # "announce" => req[q].op # "create")
      BY <2>1 DEF FirstStep
    <2> HIDE DEF pc
    <2>3. [pc |-> pc, dom |-> NoInst] \in TaskType /\ Ahead(q, pc)
      BY <2>2 DEF TaskType, Ahead
    <2> QED
      BY <2>1, <2>3, MovedTask DEF pc
<1>3. ASSUME NEW q \in Req
      PROVE  /\ task'[q] \in TaskType
             /\ task'[q].pc = task[q].pc \/ (task[q].pc # "none" /\ Ahead(q, task'[q].pc))
    <2>1. task'[q] = IF q \in Queue(n) THEN Moved(task[q], FirstStep[req[q].op]) ELSE task[q]
      BY DEF Deliver
    <2>2. q \in Queue(n) => task[q].pc = "queued"
      BY DEF Queue
    <2>3. task[q] \in TaskType
      BY <1>0 DEF TypeOK
    <2> QED
      BY <1>2, <2>1, <2>2, <2>3
<1>4. task' \in [Req -> TaskType]
    <2>1. task' = [r \in Req |-> task'[r]]
      BY DEF Deliver
    <2> QED
      BY <1>3, <2>1
<1> QED
    BY <1>1, <1>3, <1>4, ManyMove

LEMMA LoseBatchPreserves ==
    ASSUME IInv, NEW n \in Node, LoseBatch(n)
    PROVE  IInv'
<1>0. TypeOK
    BY DEF IInv
<1>1. /\ UNCHANGED <<row, req, dom, disk, sync>> /\ Disturb /\ PlacesShrink
      /\ req' \in [Req -> ReqType] /\ sync' \in [Node -> SyncType]
    BY <1>0 DEF LoseBatch, TypeOK, PlacesShrink
<1>2. \A r \in Req : r \in Queue(n) => task[r].pc # "none"
    BY DEF Queue
<1>3. /\ task' \in [Req -> TaskType]
      /\ \A q \in Req : task'[q].pc = task[q].pc
                           \/ (task[q].pc # "none" /\ Ahead(q, task'[q].pc))
    BY <1>0, <1>2, CommandsEnd DEF LoseBatch
<1> QED
    BY <1>1, <1>3, ManyMove

LEMMA RestartPreserves ==
    ASSUME IInv, NEW n \in Node, AgentRestarts(n), UNCHANGED <<row, req>>, PlacesShrink, Disturb
    PROVE  IInv'
<1>0. TypeOK
    BY DEF IInv
<1>1. \A r \in Req : r \in Running(n) => task[r].pc # "none"
    BY DEF Running
<1>2. /\ task' \in [Req -> TaskType]
      /\ \A q \in Req : task'[q].pc = task[q].pc
                           \/ (task[q].pc # "none" /\ Ahead(q, task'[q].pc))
    BY <1>0, <1>1, CommandsEnd DEF AgentRestarts
<1>3. [pc |-> "boot", view |-> Nothing] \in SyncType
    BY DEF SyncType, Nothing
<1>4. req' \in [Req -> ReqType] /\ sync' \in [Node -> SyncType]
    BY <1>0, <1>3 DEF AgentRestarts, TypeOK
<1> QED
    BY <1>2, <1>4, ManyMove

LEMMA AgentCrashPreserves ==
    ASSUME IInv, NEW n \in Node, AgentCrash(n) \/ NodeReboot(n)
    PROVE  IInv'
<1>0. TypeOK
    BY DEF IInv
<1>1. AgentRestarts(n) /\ UNCHANGED <<row, req, disk>> /\ Disturb
    BY DEF AgentCrash, NodeReboot
<1>2. CASE UNCHANGED dom
    BY <1>0, <1>1, <1>2, RestartPreserves DEF TypeOK, PlacesShrink
<1>3. CASE NodeReboot(n)
    <2> DEFINE d == [i \in Inst |-> IF dom[n][i] \in {"absent", "loose"} THEN "absent" ELSE "off"]
    <2>1. dom' = [dom EXCEPT ![n] = d]
      BY <1>3 DEF NodeReboot
    <2>2. d \in [Inst -> DomState] /\ \A i \in Inst : d[i] # "absent" => dom[n][i] # "absent"
      BY DEF DomState
    <2> HIDE DEF d
    <2>3. PlacesShrink
      BY <1>0, <1>1, <2>1, <2>2 DEF TypeOK, PlacesShrink
    <2> QED
      BY <1>1, <2>3, RestartPreserves
<1> QED
    BY <1>2, <1>3 DEF AgentCrash

LEMMA ControllerCrashPreserves ==
    ASSUME IInv, ControllerCrash
    PROVE  IInv'
<1>0. TypeOK
    BY DEF IInv
<1>1. UNCHANGED <<row, dom, disk, sync>> /\ Disturb /\ PlacesShrink /\ sync' \in [Node -> SyncType]
    BY <1>0 DEF ControllerCrash, TypeOK, PlacesShrink
<1>2. ASSUME NEW q \in Req
      PROVE  /\ req'[q] \in ReqType
             /\ req'[q].op = req[q].op /\ req'[q].target = req[q].target
             /\ req'[q].node = req[q].node
             /\ req'[q].pc = req[q].pc \/ (req[q].pc # "idle" /\ req'[q].pc = "done")
    <2>1. req[q] \in ReqType
      BY <1>0 DEF TypeOK
    <2>2. req'[q] = IF req[q].pc = "idle" THEN req[q] ELSE Moved(req[q], "done")
      BY DEF ControllerCrash
    <2> QED
      BY <2>1, <2>2, MovedReq
<1>3. req' \in [Req -> ReqType]
    <2>1. req' = [r \in Req |-> req'[r]]
      BY DEF ControllerCrash
    <2> QED
      BY <1>2, <2>1
<1>4. /\ task' \in [Req -> TaskType]
      /\ \A q \in Req : task'[q].pc = task[q].pc
                           \/ (task[q].pc # "none" /\ Ahead(q, task'[q].pc))
    <2> DEFINE S == {r \in Req : task[r].pc = "queued"}
    <2>1. task' = [r \in Req |-> IF r \in S THEN Moved(task[r], "done") ELSE task[r]]
      BY DEF ControllerCrash
    <2>2. \A r \in Req : r \in S => task[r].pc # "none"
      OBVIOUS
    <2> HIDE DEF S
    <2> QED
      BY <1>0, <2>1, <2>2, CommandsEnd
<1> QED
    BY <1>1, <1>2, <1>3, <1>4, ManyMove

\* reconcileVMs changes rows as a report does, and its own state.
LEMMA ReconcileStep ==
    ASSUME IInv, RowKept, UNCHANGED <<req, task, dom, disk>>, sync' \in [Node -> SyncType],
           Calm \/ Disturb
    PROVE  IInv'
<1>0. TypeOK
    BY DEF IInv
<1>1. TypeOK'
    BY <1>0, FaultsBounded DEF TypeOK, RowKept
<1>2. ASSUME NEW q \in Req PROVE ReqOk(q)' /\ TaskOk(q)'
    BY <1>0, OtherRequestKept DEF IInv
<1>3. OnlyOnItsNode'
    BY DEF IInv, OnlyOnItsNode, RowKept, Begun
<1>4. ErasedAfterCommand'
    <2>1. \A i \in Inst : row'[i].status = "gone" => row[i].status = "gone"
      BY DEF RowKept
    <2> QED
      BY <2>1, WitnessesLast DEF IInv
<1> QED
    BY <1>1, <1>2, <1>3, <1>4 DEF IInv

LEMMA SnapshotPreserves ==
    ASSUME IInv, NEW n \in Node, Snapshot(n)
    PROVE  IInv'
<1>0. TypeOK
    BY DEF IInv
<1>1. PICK view \in [Inst -> {"none", "running", "stopped"}] :
          /\ Calm \/ Disturb
          /\ sync' = [sync EXCEPT ![n] = [pc |-> "report", view |-> view]]
    BY DEF Snapshot
<1>2. [pc |-> "report", view |-> view] \in SyncType
    BY DEF SyncType
<1>3. sync' \in [Node -> SyncType]
    BY <1>0, <1>1, <1>2 DEF TypeOK
<1>4. RowKept /\ UNCHANGED <<req, task, dom, disk>>
    BY <1>0, RowUnchanged DEF Snapshot
<1> QED
    BY <1>1, <1>3, <1>4, ReconcileStep

LEMMA ResyncPreserves ==
    ASSUME IInv, NEW n \in Node, NEW i \in Inst, Resync(n, i)
    PROVE  IInv'
<1>0. TypeOK
    BY DEF IInv
<1>1. sync[n] \in SyncType
    BY <1>0 DEF TypeOK
<1>2. sync[n].view[i] \in Alive
    BY <1>1 DEF SyncType, Resync, Alive, Settled
<1>3. RowKept /\ (Calm \/ Disturb)
    <2>1. row[i].ip \in BOOLEAN
      BY <1>0 DEF TypeOK, RowType
    <2> QED
      BY <1>0, <1>2, <2>1, RowSet, RowUnchanged DEF Resync
<1>4. sync' \in [Node -> SyncType]
    <2> DEFINE v == [sync[n].view EXCEPT ![i] = "none"]
               s == [sync[n] EXCEPT !.view = v]
    <2>1. v \in [Inst -> {"none", "running", "stopped"}]
      BY <1>1 DEF SyncType
    <2>2. sync' = [sync EXCEPT ![n] = s]
      BY DEF Resync
    <2> HIDE DEF v
    <2>3. s \in SyncType
      BY <1>1, <2>1 DEF SyncType
    <2> HIDE DEF s
    <2> QED
      BY <1>0, <2>2, <2>3 DEF TypeOK
<1> QED
    BY <1>3, <1>4, ReconcileStep DEF Resync

LEMMA ResyncedPreserves ==
    ASSUME IInv, NEW n \in Node, Resynced(n)
    PROVE  IInv'
<1>0. TypeOK
    BY DEF IInv
<1>1. RowKept
    BY <1>0, RowUnchanged DEF Resynced
<1>2. sync' \in [Node -> SyncType]
    <2> DEFINE s == [sync[n] EXCEPT !.pc = "idle"]
    <2>1. s \in SyncType
      BY <1>0 DEF TypeOK, SyncType
    <2>2. sync' = [sync EXCEPT ![n] = s]
      BY DEF Resynced
    <2> HIDE DEF s
    <2> QED
      BY <1>0, <2>1, <2>2 DEF TypeOK
<1> QED
    BY <1>1, <1>2, ReconcileStep DEF Resynced

LEMMA GuestPreserves ==
    ASSUME IInv, NEW n \in Node, NEW i \in Inst, GuestHalts(n, i) \/ GuestPowersOff(n, i)
    PROVE  IInv'
<1>0. TypeOK
    BY DEF IInv
<1>1. PICK st \in {"off", "absent"} : SetDom(n, i, st) /\ dom[n][i] # "absent"
    BY DEF GuestHalts, GuestPowersOff
<1>2. UNCHANGED <<row, req, task, disk, sync>> /\ (Calm \/ Disturb)
    BY DEF GuestHalts, GuestPowersOff
<1>3. PlacesKept(n, i)
    BY <1>0, <1>1, <1>2, DomSet DEF DomState
<1>4. PlacesShrink
    BY <1>0, <1>1, <1>2 DEF PlacesShrink, SetDom, TypeOK, DomState
<1>5. req' \in [Req -> ReqType] /\ task' \in [Req -> TaskType] /\ sync' \in [Node -> SyncType]
    BY <1>0, <1>2 DEF TypeOK
<1> QED
    BY <1>2, <1>4, <1>5, ManyMove

-----------------------------------------------------------------------------
(* The invariant *)

LEMMA InitIInv == Init => IInv
<1> SUFFICES ASSUME Init PROVE IInv
    OBVIOUS
<1>0. 0 \in 0..MaxFault
    BY ConstantsAssumption
<1>1. TypeOK
    BY <1>0 DEF Init, TypeOK, RowType, ReqType, TaskType, DomState, SyncType, Nothing, Req
<1>2. ASSUME NEW r \in Req PROVE ReqOk(r) /\ TaskOk(r)
    BY ConstantsAssumption DEF Init, ReqOk, TaskOk, Target, Begun, Req
<1>3. OnlyOnItsNode
    BY DEF Init, OnlyOnItsNode
<1>4. ErasedAfterCommand
    BY DEF Init, ErasedAfterCommand
<1> QED
    BY <1>1, <1>2, <1>3, <1>4 DEF IInv

LEMMA NextIInv == IInv /\ [Next]_vars => IInv'
<1> SUFFICES ASSUME IInv, [Next]_vars PROVE IInv'
    OBVIOUS
<1>1. CASE ClientStep
    BY <1>1, InsertPreserves, BeginPreserves, BeginDeletePreserves DEF ClientStep
<1>2. ASSUME NEW i \in Inst, SetIP(i) PROVE IInv'
    BY <1>2, SetIPPreserves
<1>3. ASSUME NEW r \in Req, Serve(r) PROVE IInv'
    BY <1>3, ReadAgainPreserves, WritePreserves, EnqueuePreserves, ErasePreserves DEF Serve
<1>4. ASSUME NEW r \in Req, Execute(r) PROVE IInv'
    BY <1>4, ExecutePreserves
<1>5. ASSUME NEW n \in Node, Deliver(n) PROVE IInv'
    BY <1>5, DeliverPreserves
<1>6. ASSUME NEW n \in Node, Reconcile(n) PROVE IInv'
    BY <1>6, SnapshotPreserves, ResyncPreserves, ResyncedPreserves DEF Reconcile
<1>7. CASE Environment
    BY <1>7, CancelPreserves, LoseBatchPreserves, AgentCrashPreserves, GuestPreserves,
       ControllerCrashPreserves DEF Environment
<1>8. CASE UNCHANGED vars
    <2>1. TypeOK /\ Calm /\ UNCHANGED <<row, req, task, dom, disk, sync>>
      BY <1>8 DEF IInv, vars, Calm
    <2>2. RowKept /\ sync' \in [Node -> SyncType]
      BY <2>1, RowUnchanged DEF TypeOK
    <2> QED
      BY <2>1, <2>2, ReconcileStep
<1> QED
    BY <1>1, <1>2, <1>3, <1>4, <1>5, <1>6, <1>7, <1>8 DEF Next

\* The strengthening holds in every behaviour.
THEOREM Invariant == Spec => []IInv
<1>1. Init => IInv
    BY InitIInv
<1>2. IInv /\ [Next]_vars => IInv'
    BY NextIInv
<1> QED
    BY <1>1, <1>2, PTL DEF Spec

\* Every variable has its type, whatever the interleaving of handlers, commands
\* and crashes.
THEOREM TypeCorrect == Spec => []TypeOK
<1>1. IInv => TypeOK
    BY DEF IInv
<1> QED
    BY Invariant, <1>1, PTL

\* Domains and files of an instance exist only on the node its row names.
THEOREM PlacementCorrect == Spec => []OnlyOnItsNode
<1>1. IInv => OnlyOnItsNode
    BY DEF IInv
<1> QED
    BY Invariant, <1>1, PTL

\* No row is erased before the command to delete the domain has been enqueued.
THEOREM ErasedAfterCommandAlways == Spec => []ErasedAfterCommand
<1>1. IInv => ErasedAfterCommand
    BY DEF IInv
<1> QED
    BY Invariant, <1>1, PTL

-----------------------------------------------------------------------------
(* Action properties *)

\* A row that is not there changes only by its INSERT.
LEMMA AbsentStep ==
    ASSUME IInv, [Next]_vars, NEW i \in Inst, ~Exists(i)
    PROVE  row'[i] = row[i] \/ \E n \in Node : Insert(i, n)
<1> DEFINE Goal == row'[i] = row[i] \/ \E n \in Node : Insert(i, n)
<1> SUFFICES Goal
    OBVIOUS
<1>0. TypeOK /\ row \in [Inst -> RowType]
    BY DEF IInv, TypeOK
<1>1. ASSUME NEW j, NEW st, NEW ip, SetRow(j, st, ip) PROVE Goal
    BY <1>0, <1>1 DEF SetRow, Exists
<1>2. ASSUME NEW r \in Req, Execute(r) PROVE Goal
    <2>1. CASE Announce(r) \/ SayRunning(r) \/ SayStopped(r) \/ SayError(r)
      BY <1>1, <2>1 DEF Announce, SayRunning, SayStopped, SayError, Report
    <2>2. CASE ~(Announce(r) \/ SayRunning(r) \/ SayStopped(r) \/ SayError(r))
      BY <1>2, <2>2 DEF Execute, PrepareFails, RefuseImage, NoMac, Provision, Define, DefineFails,
         EnsureBridge, Lookup, Boot, BootFails, Shutdown, Poll, Inspect, Destroy, Undefine, Wipe
    <2> QED
      BY <2>1, <2>2
<1>3. ASSUME NEW j \in Inst, NEW n \in Node, Insert(j, n) PROVE Goal
    BY <1>0, <1>3 DEF Insert
<1>4. ASSUME NEW j \in Inst, SetIP(j) PROVE Goal
    BY <1>1, <1>4 DEF SetIP
<1>5. ASSUME NEW r \in Req, Serve(r) PROVE Goal
    <2>1. CASE Write(r)
      BY <1>1, <2>1 DEF Write
    <2>2. CASE Erase(r)
      BY <1>0, <2>2 DEF Erase, Exists
    <2> QED
      BY <1>5, <2>1, <2>2 DEF Serve, ReadAgain, Enqueue
<1>6. ASSUME NEW n \in Node, Reconcile(n) PROVE Goal
    BY <1>1, <1>6 DEF Reconcile, Snapshot, Resync, Resynced
<1>7. ASSUME NEW n \in Node, Deliver(n) PROVE Goal
    BY <1>7 DEF Deliver
<1>8. CASE Environment
    BY <1>8 DEF Environment, Cancel, LoseBatch, AgentCrash, NodeReboot, GuestHalts,
       GuestPowersOff, ControllerCrash
<1>9. CASE ClientStep
    BY <1>3, <1>9 DEF ClientStep, Begin, BeginDelete
<1> QED
    BY <1>2, <1>4, <1>5, <1>6, <1>7, <1>8, <1>9 DEF Next, vars

LEMMA ErasedStep ==
    ASSUME IInv, [Next]_vars, NEW i \in Inst, row[i].status = "gone"
    PROVE  row'[i] = row[i]
<1>1. ReqOk(i) /\ Begun(i) /\ ~Exists(i)
    BY DEF IInv, Req, Begun, Exists
<1>2. ASSUME NEW n \in Node PROVE ~Insert(i, n)
    BY <1>1 DEF ReqOk, Insert
<1> QED
    BY <1>1, <1>2, AbsentStep

\* An erased row never comes back, however late a report or an update arrives.
THEOREM ErasedForGoodAlways == Spec => ErasedForGood
<1>1. IInv /\ [Next]_vars => [\A i \in Inst : row[i].status = "gone" => row'[i] = row[i]]_row
    BY ErasedStep
<1> QED
    BY Invariant, <1>1, PTL DEF Spec, ErasedForGood

\* Only the command of a delete removes files, those of the instance it names.
LEMMA WipeStep ==
    ASSUME IInv, [Next]_vars, NEW n \in Node, NEW i \in disk[n] \ disk'[n]
    PROVE  i \in Told
<1>0. TypeOK /\ disk \in [Node -> SUBSET Inst] /\ disk' # disk
    BY DEF IInv, TypeOK
<1>1. ASSUME NEW r \in Req, Wipe(r) PROVE i \in Told
    <2>1. req[r].op = "delete" /\ r \in Call /\ task[r].pc # "none"
      BY <1>1 DEF IInv, ReqOk, TaskOk, Wipe, Req
    <2>2. Target(r) = i
      BY <1>0, <1>1 DEF Wipe
    <2> QED
      BY <1>0, <2>1, <2>2 DEF Told
<1>2. ASSUME NEW r \in Req, Execute(r) PROVE Wipe(r)
    <2>1. CASE PrepareFails(r) \/ Provision(r)
      BY <1>0, <2>1 DEF PrepareFails, Provision
    <2> QED
      BY <1>0, <1>2, <2>1 DEF Execute, Announce, SayRunning, SayStopped, SayError, Report,
         RefuseImage, NoMac, Define, DefineFails, EnsureBridge, Lookup, Boot, BootFails, Shutdown,
         Poll, Inspect, Destroy, Undefine
<1>3. CASE ClientStep
    BY <1>0, <1>3 DEF ClientStep, Insert, Begin, BeginDelete
<1>4. ASSUME NEW j \in Inst, SetIP(j) PROVE FALSE
    BY <1>0, <1>4 DEF SetIP
<1>5. ASSUME NEW r \in Req, Serve(r) PROVE FALSE
    BY <1>0, <1>5 DEF Serve, ReadAgain, Write, Enqueue, Erase
<1>6. ASSUME NEW m \in Node, Deliver(m) \/ Reconcile(m) PROVE FALSE
    BY <1>0, <1>6 DEF Deliver, Reconcile, Snapshot, Resync, Resynced
<1>7. CASE Environment
    BY <1>0, <1>7 DEF Environment, Cancel, LoseBatch, AgentCrash, NodeReboot, GuestHalts,
       GuestPowersOff, ControllerCrash
<1> QED
    BY <1>0, <1>1, <1>2, <1>3, <1>4, <1>5, <1>6, <1>7 DEF Next, vars

\* Files go away only if a delete request named their instance.
THEOREM WipedOnlyOnRequestAlways == Spec => WipedOnlyOnRequest
<1>1. IInv /\ [Next]_vars => [\A n \in Node : \A i \in disk[n] \ disk'[n] :
          \E r \in Call : Target(r) = i /\ req[r].op = "delete"]_disk
    BY WipeStep DEF Told
<1> QED
    BY Invariant, <1>1, PTL DEF Spec, WipedOnlyOnRequest

-----------------------------------------------------------------------------
(* Clients that act as Instances.tsx does, when nothing fails               *)

\* where a request, or its command once there is one, has got to
Place(r) == IF task[r].pc = "none" THEN req[r].pc ELSE task[r].pc

Busy(r) == req[r].pc \notin {"idle", "done"} \/ task[r].pc \notin {"none", "done"}

\* libvirt's domain of an instance, on the node its row names
State(i) == IF Begun(i) THEN dom[row[i].node][i] ELSE "absent"

Shut == {"absent", "off"}

\* What the row and the domain are at each place of a request, by operation:
\* Starting it has required the first, and nobody else has touched them since.
CreateStage(status, state, place) ==
    /\ status = "pending"
    /\ \/ state = "absent" /\ place \in {"setip", "enqueue", "queued", "announce",
                                         "prepare", "define", "sayError"}
       \/ state = "off" /\ place \in {"boot", "sayError"}
       \/ state = "on" /\ place = "sayRunning"

StartStage(status, state, place) ==
    \/ status \in {"stopped", "error"} /\ state \in Shut /\ place = "write"
    \/ /\ status = "starting"
       /\ \/ state \in Shut /\ place \in {"enqueue", "queued", "bridge", "lookup", "sayError"}
          \/ state = "off" /\ place = "boot"
          \/ state = "on" /\ place = "sayRunning"

StopStage(status, state, place) ==
    \/ status = "running" /\ state = "on" /\ place = "write"
    \/ /\ status = "stopping"
       /\ \/ state = "on" /\ place \in {"enqueue", "queued", "lookup", "shutdown"}
          \/ state \in {"closing", "off"} /\ place \in {"poll", "destroy"}
          \/ state = "off" /\ place = "sayStopped"

DeleteStage(status, state, place) ==
    \/ status \in {"stopped", "error"} /\ state \in Shut /\ place \in {"again", "write"}
    \/ /\ status \in {"terminating", "gone"}
       /\ \/ state \in Shut /\ place \in {"enqueue", "queued", "lookup"}
          \/ state = "off" /\ place \in {"inspect", "undefine"}
          \/ state = "absent" /\ place \in {"wipe", "done"}

\* no files of an instance are left on the node of its row
Wiped(i) == i \notin disk[row[i].node]

Stage(r) ==
    LET status == row[Target(r)].status
        state == State(Target(r))
        place == Place(r)
    IN  /\ \/ req[r].op = "create" /\ CreateStage(status, state, place)
           \/ req[r].op = "start"  /\ StartStage(status, state, place)
           \/ req[r].op = "stop"   /\ StopStage(status, state, place)
           \/ req[r].op = "delete" /\ DeleteStage(status, state, place)
        /\ \/ task[r].pc = "none" /\ status # "gone"
           \/ task[r].pc # "none" /\ req[r].pc = "done" /\ status # "terminating"
           \/ task[r].pc # "none" /\ req[r].pc = "erase" /\ status = "terminating"
        /\ req[r].op = "delete" /\ place = "done" => Wiped(Target(r))
        /\ place \in {"boot", "shutdown", "poll", "destroy", "inspect", "undefine"} =>
              task[r].dom = Target(r)

\* what the row and the domain are when nobody works on the instance
AtRest(i) ==
    \/ row[i].status = "running" /\ State(i) = "on"
    \/ row[i].status \in {"stopped", "stopping"} /\ State(i) = "off"
    \/ row[i].status = "error" /\ State(i) \in Shut
    \/ row[i].status \in {"unborn", "pending"} /\ State(i) = "absent"
    \/ row[i].status = "gone" /\ State(i) = "absent" /\ Wiped(i)

\* one request at a time works on an instance
Alone == \A r, q \in Req : Busy(r) /\ Busy(q) /\ Target(r) = Target(q) => r = q

\* a row names a node from its INSERT on
Placed == \A i \in Inst : Begun(i) => row[i].node \in Node

Undisturbed == /\ \A n \in Node : sync[n].pc = "idle"
               /\ \A r \in Req : req[r].ctx = "ok"

SerialInv ==
    /\ Undisturbed
    /\ Placed
    /\ Alone
    /\ \A r \in Req : Busy(r) => Stage(r)
    /\ \A i \in Inst : (\A r \in Req : Busy(r) => Target(r) # i) => AtRest(i)

\* what the serial clients are, and names that nobody gives twice
SerialClients ==
    /\ Serial
    /\ MaxFault = 0
    /\ \A i, j \in Inst : NameOf[i] = NameOf[j] => i = j

-----------------------------------------------------------------------------
LEMMA NoDisturbance ==
    ASSUME SerialClients, TypeOK
    PROVE  ~Disturb
BY DEF SerialClients, TypeOK, Disturb

\* what a step of request r for instance i may touch
Touches(r, i) ==
    /\ \A q \in Req : q # r => req'[q] = req[q] /\ task'[q] = task[q]
    /\ \A j \in Inst : j # i =>
          /\ row'[j] = row[j]
          /\ \A n \in Node : dom'[n][j] = dom[n][j] /\ (j \in disk'[n] <=> j \in disk[n])

\* A request, or an instance at rest, whose row, domain and files a step leaves
\* alone is as it was.
LEMMA StageKept ==
    ASSUME IInv, Placed, NEW q \in Req, Busy(q), Stage(q),
           req'[q] = req[q], task'[q] = task[q], row'[Target(q)] = row[Target(q)],
           \A n \in Node :
              /\ dom'[n][Target(q)] = dom[n][Target(q)]
              /\ Target(q) \in disk'[n] <=> Target(q) \in disk[n]
    PROVE  Stage(q)'
<1>1. Target(q) \in Inst /\ Begun(Target(q)) /\ Target(q)' = Target(q) /\ Place(q)' = Place(q)
    BY DEF IInv, ReqOk, TaskOk, Busy, Target, Place
<1>2. State(Target(q))' = State(Target(q)) /\ (Wiped(Target(q))' <=> Wiped(Target(q)))
    BY <1>1 DEF State, Wiped, Begun, Placed
<1> QED
    BY <1>1, <1>2 DEF Stage

LEMMA RestKept ==
    ASSUME Placed, NEW j \in Inst, AtRest(j), row'[j] = row[j],
           \A n \in Node : dom'[n][j] = dom[n][j] /\ (j \in disk'[n] <=> j \in disk[n])
    PROVE  AtRest(j)'
<1>1. State(j)' = State(j)
    BY DEF State, Begun, Placed
<1>2. row[j].status = "gone" => (Wiped(j)' <=> Wiped(j))
    BY DEF Wiped, Begun, Placed
<1> QED
    BY <1>1, <1>2 DEF AtRest

\* A step of one request that leaves that request, or its instance, in order
\* leaves everything in order.
LEMMA StepOfOne ==
    ASSUME IInv, SerialInv, NEW r \in Req, NEW i \in Inst, Touches(r, i), Target(r)' = i,
           \A q \in Req : Busy(q) /\ q # r => Target(q) # i,
           Busy(r) => Target(r) = i,
           sync' = sync, req'[r].ctx = "ok",
           Begun(i)' => row'[i].node \in Node,
           Busy(r)' => Stage(r)',
           ~Busy(r)' => AtRest(i)'
    PROVE  SerialInv'
<1>1. Undisturbed'
    BY DEF SerialInv, Undisturbed, Touches
<1>2. Placed'
    BY DEF SerialInv, Placed, Touches, Begun
<1>3. ASSUME NEW q \in Req, q # r
      PROVE  (Busy(q)' <=> Busy(q)) /\ Target(q)' = Target(q)
    BY <1>3 DEF Touches, Busy, Target
<1>4. Alone'
    <2> SUFFICES ASSUME NEW p \in Req, NEW q \in Req, Busy(p)', Busy(q)', Target(p)' = Target(q)'
                 PROVE  p = q
      BY DEF Alone
    <2>1. CASE p = r \/ q = r
      BY <1>3, <2>1
    <2>2. CASE p # r /\ q # r
      BY <1>3, <2>2 DEF SerialInv, Alone
    <2> QED
      BY <2>1, <2>2
<1>5. ASSUME NEW q \in Req, Busy(q)' PROVE Stage(q)'
    <2>1. CASE q = r
      BY <1>5, <2>1
    <2>2. CASE q # r
      <3>1. Busy(q) /\ Target(q) # i /\ Stage(q)
        BY <1>3, <1>5, <2>2 DEF SerialInv
      <3>2. Target(q) \in Inst
        BY <3>1 DEF IInv, ReqOk, TaskOk, Busy
      <3> QED
        BY <2>2, <3>1, <3>2, StageKept DEF SerialInv, Touches
    <2> QED
      BY <2>1, <2>2
<1>6. ASSUME NEW j \in Inst, \A q \in Req : Busy(q)' => Target(q)' # j PROVE AtRest(j)'
    <2>1. CASE j = i
      BY <1>6, <2>1
    <2>2. CASE j # i
      <3>1. \A q \in Req : Busy(q) => Target(q) # j
        BY <1>3, <1>6, <2>2
      <3> QED
        BY <2>2, <3>1, RestKept DEF SerialInv, Touches
    <2> QED
      BY <2>1, <2>2
<1> QED
    BY <1>1, <1>2, <1>4, <1>5, <1>6 DEF SerialInv

-----------------------------------------------------------------------------
(* The executor *)

\* command r goes on to place pc, with the handle h
Went(r, pc, h) ==
    /\ task'[r].pc = pc /\ task'[r].dom = h
    /\ \A q \in Req : q # r => task'[q] = task[q]

\* the row of i, and no other, gets a status, and stays where it is
RowGets(i, status) ==
    /\ row'[i].status = status /\ row'[i].node = row[i].node
    /\ \A j \in Inst : j # i => row'[j] = row[j]

\* the domain of i on the node of its row, and no other, gets a state
DomainGets(i, state) ==
    /\ dom'[row[i].node][i] = state
    /\ \A n \in Node, j \in Inst : j # i => dom'[n][j] = dom[n][j]

\* only files of i come and go
FilesOf(i) == \A n \in Node, j \in Inst : j # i => (j \in disk'[n] <=> j \in disk[n])

LEMMA WentGoto ==
    ASSUME TypeOK, NEW r \in Req, NEW pc, Goto(r, pc)
    PROVE  Went(r, pc, task[r].dom)
BY DEF TypeOK, TaskType, Goto, Went

LEMMA WentHandle ==
    ASSUME TypeOK, NEW r \in Req, NEW pc, NEW h, task' = [task EXCEPT ![r].pc = pc, ![r].dom = h]
    PROVE  Went(r, pc, h)
BY DEF TypeOK, TaskType, Went

LEMMA RowSetGets ==
    ASSUME TypeOK, NEW i \in Inst, NEW st, NEW ip, Exists(i), SetRow(i, st, ip)
    PROVE  RowGets(i, st)
<1>1. row \in [Inst -> RowType] /\ row' = [row EXCEPT ![i].status = st, ![i].ip = ip]
    BY DEF TypeOK, SetRow
<1> QED
    BY <1>1 DEF RowGets, RowType

LEMMA DomSetGets ==
    ASSUME TypeOK, NEW i \in Inst, row[i].node \in Node, NEW st, SetDom(row[i].node, i, st)
    PROVE  DomainGets(i, st)
BY DEF TypeOK, SetDom, DomainGets

\* What is known of a command under way.
LEMMA Underway ==
    ASSUME IInv, SerialInv, NEW r \in Req, task[r].pc \notin {"none", "done"}
    PROVE  /\ TypeOK /\ Target(r) \in Inst /\ Begun(Target(r)) /\ Host(r) \in Node
           /\ row[Target(r)].node = Host(r)
           /\ State(Target(r)) = dom[Host(r)][Target(r)]
           /\ Place(r) = task[r].pc /\ Busy(r) /\ Stage(r)
           /\ \A q \in Req : Busy(q) /\ q # r => Target(q) # Target(r)
           /\ req[r].op \in {"create", "start", "stop", "delete"}
<1>1. /\ TypeOK /\ Target(r) \in Inst /\ Begun(Target(r))
      /\ row[Target(r)].node = Host(r) /\ Place(r) = task[r].pc /\ Busy(r)
    BY DEF IInv, ReqOk, TaskOk, Busy, Place
<1>2. Host(r) \in Node /\ State(Target(r)) = dom[Host(r)][Target(r)]
    BY <1>1 DEF SerialInv, Placed, State
<1>3. req[r].op \in {"create", "start", "stop", "delete"}
    BY <1>1 DEF TypeOK, ReqType
<1> QED
    BY <1>1, <1>2, <1>3 DEF SerialInv, Alone

\* A step of a command changes its row, domain and files as it says.
LEMMA CommandStep ==
    ASSUME IInv, SerialInv, NEW r \in Req, task[r].pc \notin {"none", "done"},
           NEW pc, pc # "none", NEW h, Went(r, pc, h),
           NEW st, st # "unborn", RowGets(Target(r), st),
           NEW state, DomainGets(Target(r), state), FilesOf(Target(r)),
           UNCHANGED <<req, sync>>
    PROVE  /\ Place(r)' = pc /\ Target(r)' = Target(r)
           /\ row'[Target(r)].status = st /\ State(Target(r))' = state
           /\ task'[r].pc = pc /\ task'[r].dom = h
           /\ (Busy(r)' => Stage(r)') /\ (~Busy(r)' => AtRest(Target(r))') => SerialInv'
<1>1. /\ Target(r) \in Inst /\ row[Target(r)].node \in Node /\ Busy(r)
      /\ \A q \in Req : Busy(q) /\ q # r => Target(q) # Target(r)
    BY Underway
<1>2. Place(r)' = pc /\ Target(r)' = Target(r) /\ task'[r].pc = pc /\ task'[r].dom = h
    BY DEF Went, Place, Target
<1>3. row'[Target(r)].status = st /\ row'[Target(r)].node = row[Target(r)].node
    BY DEF RowGets
<1>4. State(Target(r))' = state
    BY <1>2, <1>3 DEF State, DomainGets, Begun
<1>5. Touches(r, Target(r))
    BY DEF Touches, Went, RowGets, DomainGets, FilesOf
<1>6. req'[r].ctx = "ok"
    BY DEF SerialInv, Undisturbed
<1>7. ASSUME Busy(r)' => Stage(r)', ~Busy(r)' => AtRest(Target(r))' PROVE SerialInv'
    <2> DEFINE i == Target(r)
    <2>0. i \in Inst /\ Target(r)' = i /\ row'[i].node \in Node
      BY <1>1, <1>2, <1>3
    <2>1. ~Busy(r)' => AtRest(i)'
      BY <1>7
    <2> QED
      BY <1>1, <1>2, <1>5, <1>6, <1>7, <2>0, <2>1, StepOfOne
<1> QED
    BY <1>2, <1>3, <1>4, <1>7

LEMMA RowStays ==
    ASSUME NEW i \in Inst, row' = row
    PROVE  RowGets(i, row[i].status)
BY DEF RowGets

LEMMA DomainStays ==
    ASSUME NEW i \in Inst, Begun(i), dom' = dom
    PROVE  DomainGets(i, State(i))
BY DEF DomainGets, State

LEMMA FilesStay ==
    ASSUME NEW i \in Inst, disk' = disk
    PROVE  FilesOf(i)
BY DEF FilesOf

\* A command goes on, and at most files of its instance come or go.
LEMMA QuietStep ==
    ASSUME IInv, SerialInv, NEW r \in Req, task[r].pc \notin {"none", "done"},
           NEW pc, pc # "none", NEW h, Went(r, pc, h),
           UNCHANGED <<row, dom, req, sync>>, FilesOf(Target(r))
    PROVE  /\ Place(r)' = pc /\ Target(r)' = Target(r)
           /\ row'[Target(r)].status = row[Target(r)].status
           /\ State(Target(r))' = State(Target(r))
           /\ task'[r].pc = pc /\ task'[r].dom = h
           /\ (Busy(r)' => Stage(r)') /\ (~Busy(r)' => AtRest(Target(r))') => SerialInv'
<1>1. Target(r) \in Inst /\ Begun(Target(r)) /\ row[Target(r)].status # "unborn"
    BY Underway DEF Begun
<1> QED
    BY <1>1, RowStays, DomainStays, CommandStep

\* A report is not lost, and gives the row its status.
LEMMA ReportStep ==
    ASSUME SerialClients, IInv, SerialInv, NEW r \in Req, task[r].pc \notin {"none", "done"},
           Exists(Target(r)), NEW st, st # "unborn", NEW ip, NEW pc, pc # "none", Report(r, st, ip, pc)
    PROVE  /\ Place(r)' = pc /\ Target(r)' = Target(r)
           /\ row'[Target(r)].status = st /\ State(Target(r))' = State(Target(r))
           /\ task'[r].pc = pc /\ task'[r].dom = task[r].dom /\ req' = req
           /\ (Busy(r)' => Stage(r)') /\ (~Busy(r)' => AtRest(Target(r))') => SerialInv'
<1>1. TypeOK /\ Target(r) \in Inst /\ Begun(Target(r)) /\ ~Disturb
    BY Underway, NoDisturbance
<1>2. Went(r, pc, task[r].dom) /\ UNCHANGED <<req, sync>>
    BY <1>1, WentGoto DEF Report
<1>3. RowGets(Target(r), st)
    BY <1>1, RowSetGets DEF Report
<1>4. DomainGets(Target(r), State(Target(r))) /\ FilesOf(Target(r))
    BY <1>1, DomainStays, FilesStay DEF Report
<1> QED
    BY <1>2, <1>3, <1>4, CommandStep

LEMMA AnnounceSerial ==
    ASSUME SerialClients, IInv, SerialInv, NEW r \in Req, Announce(r)
    PROVE  SerialInv'
<1>0. task[r].pc = "announce" /\ Place(r) = "announce" /\ Stage(r)
    BY Underway DEF Announce
<1>1. /\ req[r].op = "create" /\ row[Target(r)].status = "pending" /\ State(Target(r)) = "absent"
      /\ req[r].pc = "done"
    BY <1>0, Underway DEF Stage, CreateStage, StartStage, StopStage, DeleteStage
<1>2. Exists(Target(r)) /\ Report(r, "pending", FALSE, "prepare")
    BY <1>1 DEF Exists, Announce
<1>3. /\ Place(r)' = "prepare" /\ Target(r)' = Target(r) /\ req' = req
      /\ row'[Target(r)].status = "pending" /\ State(Target(r))' = State(Target(r))
      /\ task'[r].pc = "prepare"
      /\ (Busy(r)' => Stage(r)') /\ (~Busy(r)' => AtRest(Target(r))') => SerialInv'
    BY <1>0, <1>2, ReportStep
<1>4. Busy(r)'
    BY <1>3 DEF Busy
<1>5. Stage(r)'
    BY <1>1, <1>3 DEF Stage, CreateStage
<1> QED
    BY <1>3, <1>4, <1>5

\* The last report leaves the instance at rest.
LEMMA SaySerial ==
    ASSUME SerialClients, IInv, SerialInv, NEW r \in Req,
           SayRunning(r) \/ SayStopped(r) \/ SayError(r)
    PROVE  SerialInv'
<1>0. /\ task[r].pc \in {"sayRunning", "sayStopped", "sayError"}
      /\ Place(r) = task[r].pc /\ Stage(r)
      /\ req[r].op \in {"create", "start", "stop", "delete"}
    BY Underway DEF SayRunning, SayStopped, SayError
<1>1. /\ row[Target(r)].status \in {"pending", "starting", "stopping"} /\ req[r].pc = "done"
      /\ task[r].pc = "sayRunning" => State(Target(r)) = "on"
      /\ task[r].pc = "sayStopped" => State(Target(r)) = "off"
      /\ task[r].pc = "sayError" => State(Target(r)) \in Shut
    BY <1>0 DEF Stage, CreateStage, StartStage, StopStage, DeleteStage, Shut
<1>2. Exists(Target(r))
    BY <1>1 DEF Exists
<1>3. PICK st \in {"running", "stopped", "error"}, ip \in BOOLEAN :
          /\ Report(r, st, ip, "done")
          /\ st = "running" => task[r].pc = "sayRunning"
          /\ st = "stopped" => task[r].pc = "sayStopped"
          /\ st = "error" => task[r].pc = "sayError"
    BY DEF SayRunning, SayStopped, SayError
<1>4. /\ row'[Target(r)].status = st /\ State(Target(r))' = State(Target(r))
      /\ Target(r)' = Target(r) /\ task'[r].pc = "done" /\ req' = req
      /\ (Busy(r)' => Stage(r)') /\ (~Busy(r)' => AtRest(Target(r))') => SerialInv'
    BY <1>0, <1>2, <1>3, ReportStep
<1>5. ~Busy(r)'
    BY <1>1, <1>4 DEF Busy
<1>6. AtRest(Target(r))'
    BY <1>1, <1>3, <1>4 DEF AtRest
<1> QED
    BY <1>4, <1>5, <1>6

\* createVM: directory, definition, and the errors on the way.
LEMMA PrepareSerial ==
    ASSUME IInv, SerialInv, NEW r \in Req,
           PrepareFails(r) \/ RefuseImage(r) \/ NoMac(r) \/ Provision(r) \/ DefineFails(r)
    PROVE  SerialInv'
<1>0. /\ task[r].pc \in {"prepare", "define"} /\ Place(r) = task[r].pc /\ Stage(r)
      /\ TypeOK /\ Target(r) \in Inst
    BY Underway DEF PrepareFails, RefuseImage, NoMac, Provision, DefineFails
<1>1. /\ req[r].op = "create" /\ row[Target(r)].status = "pending" /\ State(Target(r)) = "absent"
      /\ req[r].pc = "done"
    BY <1>0 DEF Stage, CreateStage, StartStage, StopStage, DeleteStage
<1>2. PICK pc \in {"sayError", "done", "define"} : Goto(r, pc)
    BY DEF PrepareFails, RefuseImage, NoMac, Provision, DefineFails
<1>3. Went(r, pc, task[r].dom)
    BY <1>0, <1>2, WentGoto
<1>4. UNCHANGED <<row, dom, req, sync>>
    BY DEF PrepareFails, RefuseImage, NoMac, Provision, DefineFails
<1>5. FilesOf(Target(r))
    BY <1>0 DEF PrepareFails, RefuseImage, NoMac, Provision, DefineFails, FilesOf, TypeOK
<1>6. /\ Place(r)' = pc /\ Target(r)' = Target(r) /\ task'[r].pc = pc
      /\ row'[Target(r)].status = "pending" /\ State(Target(r))' = "absent"
      /\ (Busy(r)' => Stage(r)') /\ (~Busy(r)' => AtRest(Target(r))') => SerialInv'
    BY <1>0, <1>1, <1>3, <1>4, <1>5, QuietStep
<1>7. Busy(r)' => Stage(r)'
    BY <1>1, <1>4, <1>6 DEF Busy, Stage, CreateStage
<1>8. ~Busy(r)' => AtRest(Target(r))'
    BY <1>6 DEF AtRest
<1> QED
    BY <1>6, <1>7, <1>8

LEMMA DefineSerial ==
    ASSUME IInv, SerialInv, NEW r \in Req, Define(r)
    PROVE  SerialInv'
<1>0. /\ task[r].pc = "define" /\ Place(r) = task[r].pc /\ Stage(r)
      /\ TypeOK /\ Target(r) \in Inst /\ row[Target(r)].node = Host(r) /\ Host(r) \in Node
    BY Underway DEF Define
<1>1. req[r].op = "create" /\ row[Target(r)].status = "pending" /\ req[r].pc = "done"
    BY <1>0 DEF Stage, CreateStage, StartStage, StopStage, DeleteStage
<1>2. Went(r, "boot", Target(r)) /\ UNCHANGED <<req, sync>>
    BY <1>0, WentHandle DEF Define
<1>3. DomainGets(Target(r), "off")
    BY <1>0, DomSetGets DEF Define
<1>4. RowGets(Target(r), "pending") /\ FilesOf(Target(r))
    BY <1>0, <1>1, RowStays, FilesStay DEF Define
<1>5. /\ Place(r)' = "boot" /\ Target(r)' = Target(r)
      /\ task'[r].pc = "boot" /\ task'[r].dom = Target(r)
      /\ row'[Target(r)].status = "pending" /\ State(Target(r))' = "off"
      /\ (Busy(r)' => Stage(r)') /\ (~Busy(r)' => AtRest(Target(r))') => SerialInv'
    BY <1>0, <1>2, <1>3, <1>4, CommandStep
<1>6. Busy(r)' /\ Stage(r)'
    BY <1>1, <1>2, <1>5 DEF Busy, Stage, CreateStage
<1> QED
    BY <1>5, <1>6

\* With names of its own an instance is found by its name, if it is there.
LEMMA NamedOwn ==
    ASSUME SerialClients, NEW n \in Node, NEW i \in Inst
    PROVE  Named(n, NameOf[i]) = IF dom[n][i] = "absent" THEN NoInst ELSE i
<1> DEFINE found == {j \in Inst : dom[n][j] # "absent" /\ NameOf[j] = NameOf[i]}
<1>1. found = IF dom[n][i] = "absent" THEN {} ELSE {i}
    BY DEF SerialClients
<1>2. Named(n, NameOf[i]) = IF found = {} THEN NoInst ELSE CHOOSE j \in found : TRUE
    BY DEF Named
<1> HIDE DEF found
<1> QED
    BY <1>1, <1>2

LEMMA BridgeSerial ==
    ASSUME IInv, SerialInv, NEW r \in Req, EnsureBridge(r)
    PROVE  SerialInv'
<1>0. /\ task[r].pc = "bridge" /\ Place(r) = task[r].pc /\ Stage(r)
      /\ TypeOK /\ Target(r) \in Inst
    BY Underway DEF EnsureBridge
<1>1. /\ req[r].op = "start" /\ row[Target(r)].status = "starting" /\ State(Target(r)) \in Shut
      /\ req[r].pc = "done"
    BY <1>0 DEF Stage, CreateStage, StartStage, StopStage, DeleteStage
<1>2. PICK pc \in {"lookup", "sayError"} : Goto(r, pc)
    BY DEF EnsureBridge
<1>3. /\ Went(r, pc, task[r].dom) /\ FilesOf(Target(r)) /\ UNCHANGED <<row, dom, req, sync>>
    BY <1>0, <1>2, WentGoto, FilesStay DEF EnsureBridge
<1>4. /\ Place(r)' = pc /\ Target(r)' = Target(r) /\ task'[r].pc = pc
      /\ row'[Target(r)].status = "starting" /\ State(Target(r))' = State(Target(r))
      /\ (Busy(r)' => Stage(r)') /\ (~Busy(r)' => AtRest(Target(r))') => SerialInv'
    BY <1>0, <1>1, <1>3, QuietStep
<1>5. Busy(r)' /\ Stage(r)'
    BY <1>1, <1>3, <1>4 DEF Busy, Stage, StartStage
<1> QED
    BY <1>4, <1>5

LEMMA LookupSerial ==
    ASSUME SerialClients, IInv, SerialInv, NEW r \in Req, Lookup(r)
    PROVE  SerialInv'
<1> DEFINE i == Target(r)
           found == IF State(i) = "absent" THEN NoInst ELSE i
           pc == IF State(i) # "absent"
                 THEN [start |-> "boot", stop |-> "shutdown", delete |-> "inspect"][req[r].op]
                 ELSE [start |-> "sayError", stop |-> "done", delete |-> "wipe"][req[r].op]
<1>0. /\ task[r].pc = "lookup" /\ Place(r) = task[r].pc /\ Stage(r)
      /\ TypeOK /\ i \in Inst /\ row[i].node = Host(r) /\ Host(r) \in Node
      /\ State(i) = dom[Host(r)][i]
    BY Underway DEF Lookup
<1>1. i # NoInst
    BY <1>0, ConstantsAssumption
<1>2. \/ /\ req[r].op = "start" /\ row[i].status = "starting" /\ State(i) \in Shut
         /\ req[r].pc = "done"
      \/ /\ req[r].op = "stop" /\ row[i].status = "stopping" /\ State(i) = "on"
         /\ req[r].pc = "done"
      \/ req[r].op = "delete" /\ row[i].status \in {"terminating", "gone"} /\ State(i) \in Shut
    BY <1>0 DEF Stage, CreateStage, StartStage, StopStage, DeleteStage
<1>3. Named(Host(r), NameOf[i]) = found
    BY <1>0, NamedOwn
<1>4. task' = [task EXCEPT ![r].pc = pc, ![r].dom = found]
    BY <1>1, <1>3 DEF Lookup
<1>5. /\ pc \in {"boot", "shutdown", "inspect"} => found = i /\ State(i) # "absent"
      /\ req[r].op = "start" => pc = IF State(i) # "absent" THEN "boot" ELSE "sayError"
      /\ req[r].op = "stop" => pc = "shutdown"
      /\ req[r].op = "delete" => pc = IF State(i) # "absent" THEN "inspect" ELSE "wipe"
    BY <1>2
<1> HIDE DEF pc, found
<1>6. pc \in {"boot", "sayError", "shutdown", "inspect", "wipe"}
    BY <1>2, <1>5
<1>7. Went(r, pc, found) /\ FilesOf(i) /\ UNCHANGED <<row, dom, req, sync>>
    BY <1>0, <1>4, WentHandle, FilesStay DEF Lookup
<1>8. /\ Place(r)' = pc /\ Target(r)' = Target(r) /\ task'[r].pc = pc /\ task'[r].dom = found
      /\ row'[i].status = row[i].status /\ State(i)' = State(i)
      /\ (Busy(r)' => Stage(r)') /\ (~Busy(r)' => AtRest(i)') => SerialInv'
    BY <1>0, <1>6, <1>7, QuietStep
<1>9. Busy(r)' /\ Stage(r)'
    BY <1>0, <1>2, <1>5, <1>6, <1>7, <1>8 DEF Busy, Stage, StartStage, StopStage, DeleteStage, Shut
<1> QED
    BY <1>8, <1>9

\* Boot, stopVM and deleteVM hold a handle, which is that of their own instance.
LEMMA Handled ==
    ASSUME IInv, SerialInv, NEW r \in Req,
           task[r].pc \in {"boot", "shutdown", "poll", "destroy", "inspect", "undefine"}
    PROVE  /\ task[r].dom = Target(r) /\ dom[Host(r)][task[r].dom] = State(Target(r))
           /\ Place(r) = task[r].pc /\ Stage(r) /\ TypeOK /\ Target(r) \in Inst
           /\ row[Target(r)].node = Host(r) /\ Host(r) \in Node
<1>1. task[r].pc \notin {"none", "done"}
    OBVIOUS
<1>2. /\ Place(r) = task[r].pc /\ Stage(r) /\ TypeOK /\ Target(r) \in Inst
      /\ row[Target(r)].node = Host(r) /\ Host(r) \in Node
      /\ State(Target(r)) = dom[Host(r)][Target(r)]
    BY <1>1, Underway
<1>3. task[r].dom = Target(r)
    BY <1>2 DEF Stage
<1> QED
    BY <1>2, <1>3

\* ... and change at most the state of that domain.
LEMMA HandleStep ==
    ASSUME IInv, SerialInv, NEW r \in Req,
           task[r].pc \in {"boot", "shutdown", "poll", "destroy", "inspect", "undefine"},
           NEW pc, pc # "none", Goto(r, pc), UNCHANGED <<row, req, disk, sync>>,
           NEW state, \/ SetDom(Host(r), task[r].dom, state)
                      \/ UNCHANGED dom /\ state = State(Target(r))
    PROVE  /\ Place(r)' = pc /\ Target(r)' = Target(r)
           /\ row'[Target(r)].status = row[Target(r)].status
           /\ State(Target(r))' = state
           /\ task'[r].pc = pc /\ task'[r].dom = Target(r)
           /\ (Busy(r)' => Stage(r)') /\ (~Busy(r)' => AtRest(Target(r))') => SerialInv'
<1>1. /\ task[r].pc \notin {"none", "done"}
      /\ task[r].dom = Target(r) /\ TypeOK /\ Target(r) \in Inst
      /\ row[Target(r)].node = Host(r) /\ Host(r) \in Node
    BY Handled
<1>2. Begun(Target(r)) /\ row[Target(r)].status # "unborn"
    BY <1>1, Underway DEF Begun
<1>3. Went(r, pc, Target(r))
    BY <1>1, WentGoto
<1>4. DomainGets(Target(r), state)
    BY <1>1, <1>2, DomSetGets, DomainStays
<1>5. RowGets(Target(r), row[Target(r)].status) /\ FilesOf(Target(r))
    BY <1>1, RowStays, FilesStay
<1> QED
    BY <1>1, <1>2, <1>3, <1>4, <1>5, CommandStep

LEMMA BootSerial ==
    ASSUME IInv, SerialInv, NEW r \in Req, Boot(r) \/ BootFails(r)
    PROVE  SerialInv'
<1>0. task[r].pc = "boot" /\ Place(r) = "boot" /\ Stage(r)
    BY Handled DEF Boot, BootFails
<1>1. /\ \/ req[r].op = "create" /\ row[Target(r)].status = "pending"
         \/ req[r].op = "start" /\ row[Target(r)].status = "starting"
      /\ State(Target(r)) = "off" /\ req[r].pc = "done"
    BY <1>0 DEF Stage, CreateStage, StartStage, StopStage, DeleteStage
<1>2. PICK pc \in {"sayRunning", "sayError"}, state \in {"on", "off"} :
          /\ Goto(r, pc)
          /\ \/ SetDom(Host(r), task[r].dom, state)
             \/ UNCHANGED dom /\ state = State(Target(r))
          /\ pc = "sayRunning" => state = "on"
          /\ pc = "sayError" => state = "off"
    BY <1>1 DEF Boot, BootFails
<1>3. UNCHANGED <<row, req, disk, sync>>
    BY DEF Boot, BootFails
<1>4. /\ Place(r)' = pc /\ Target(r)' = Target(r) /\ task'[r].pc = pc
      /\ row'[Target(r)].status = row[Target(r)].status /\ State(Target(r))' = state
      /\ (Busy(r)' => Stage(r)') /\ (~Busy(r)' => AtRest(Target(r))') => SerialInv'
    BY <1>0, <1>2, <1>3, HandleStep
<1>5. Busy(r)' /\ Stage(r)'
    BY <1>1, <1>2, <1>3, <1>4 DEF Busy, Stage, CreateStage, StartStage, Shut
<1> QED
    BY <1>4, <1>5

\* stopVM: the domain is on when it is asked to halt, so it is off at the end.
LEMMA StopSerial ==
    ASSUME IInv, SerialInv, NEW r \in Req,
           Shutdown(r) \/ Poll(r) \/ (Destroy(r) /\ req[r].op = "stop")
    PROVE  SerialInv'
<1>0. /\ task[r].pc \in {"shutdown", "poll", "destroy"} /\ Place(r) = task[r].pc /\ Stage(r)
      /\ dom[Host(r)][task[r].dom] = State(Target(r))
    BY Handled DEF Shutdown, Poll, Destroy
<1>1. /\ req[r].op = "stop" /\ row[Target(r)].status = "stopping" /\ req[r].pc = "done"
      /\ task[r].pc = "shutdown" => State(Target(r)) = "on"
      /\ task[r].pc \in {"poll", "destroy"} => State(Target(r)) \in {"closing", "off"}
    BY <1>0 DEF Stage, CreateStage, StartStage, StopStage, DeleteStage
<1>2. PICK pc \in {"poll", "destroy", "sayStopped", "done"}, state \in {"closing", "off"} :
          /\ Goto(r, pc)
          /\ \/ SetDom(Host(r), task[r].dom, state)
             \/ UNCHANGED dom /\ state = State(Target(r))
          /\ pc \in {"sayStopped", "done"} => state = "off"
    <2>1. CASE Shutdown(r)
      BY <1>0, <1>1, <2>1 DEF Shutdown, Active
    <2>2. CASE Poll(r)
      BY <1>0, <1>1, <2>2 DEF Poll
    <2>3. CASE Destroy(r)
      <3>1. /\ Goto(r, IF State(Target(r)) = "closing" THEN "sayStopped" ELSE "done")
            /\ State(Target(r)) = "closing" => SetDom(Host(r), task[r].dom, "off")
            /\ State(Target(r)) = "off" => UNCHANGED dom
        BY <1>0, <1>1, <2>3 DEF Destroy, Active
      <3>2. State(Target(r)) \in {"closing", "off"}
        BY <1>1, <2>3 DEF Destroy
      <3> QED
        BY <3>1, <3>2
    <2> QED
      BY <2>1, <2>2, <2>3
<1>3. UNCHANGED <<row, req, disk, sync>>
    BY DEF Shutdown, Poll, Destroy
<1>4. /\ Place(r)' = pc /\ Target(r)' = Target(r) /\ task'[r].pc = pc
      /\ task'[r].dom = Target(r)
      /\ row'[Target(r)].status = "stopping" /\ State(Target(r))' = state
      /\ (Busy(r)' => Stage(r)') /\ (~Busy(r)' => AtRest(Target(r))') => SerialInv'
    BY <1>0, <1>1, <1>2, <1>3, HandleStep
<1>5. Busy(r)' => Stage(r)'
    BY <1>1, <1>2, <1>3, <1>4 DEF Busy, Stage, StopStage
<1>6. ~Busy(r)' => AtRest(Target(r))'
    BY <1>1, <1>2, <1>3, <1>4 DEF Busy, AtRest
<1> QED
    BY <1>4, <1>5, <1>6

\* deleteVM: the domain it finds is off.
LEMMA DeleteSerial ==
    ASSUME IInv, SerialInv, NEW r \in Req, Inspect(r) \/ Undefine(r)
    PROVE  SerialInv'
<1>0. /\ task[r].pc \in {"inspect", "undefine"} /\ Place(r) = task[r].pc /\ Stage(r)
      /\ dom[Host(r)][task[r].dom] = State(Target(r))
    BY Handled DEF Inspect, Undefine
<1>1. /\ req[r].op = "delete" /\ row[Target(r)].status \in {"terminating", "gone"}
      /\ State(Target(r)) = "off"
    BY <1>0 DEF Stage, CreateStage, StartStage, StopStage, DeleteStage
<1>2. PICK pc \in {"undefine", "wipe"}, state \in Shut :
          /\ Goto(r, pc)
          /\ \/ SetDom(Host(r), task[r].dom, state)
             \/ UNCHANGED dom /\ state = State(Target(r))
          /\ pc = "undefine" => state = "off"
          /\ pc = "wipe" => state = "absent"
    BY <1>0, <1>1 DEF Inspect, Undefine, Active, Shut
<1>3. UNCHANGED <<row, req, disk, sync>>
    BY DEF Inspect, Undefine
<1>4. /\ Place(r)' = pc /\ Target(r)' = Target(r) /\ task'[r].pc = pc
      /\ task'[r].dom = Target(r)
      /\ row'[Target(r)].status = row[Target(r)].status /\ State(Target(r))' = state
      /\ (Busy(r)' => Stage(r)') /\ (~Busy(r)' => AtRest(Target(r))') => SerialInv'
    BY <1>0, <1>2, <1>3, HandleStep
<1>5. Busy(r)' /\ Stage(r)'
    BY <1>0, <1>1, <1>2, <1>3, <1>4 DEF Busy, Stage, DeleteStage
<1> QED
    BY <1>4, <1>5

\* Nothing else destroys a domain.
LEMMA DestroyStops ==
    ASSUME IInv, SerialInv, NEW r \in Req, Destroy(r)
    PROVE  req[r].op = "stop"
<1>1. task[r].pc = "destroy" /\ Place(r) = "destroy" /\ Stage(r)
    BY Handled DEF Destroy
<1> QED
    BY <1>1 DEF Stage, CreateStage, StartStage, StopStage, DeleteStage

\* The end of deleteVM: neither a domain nor files are left.
LEMMA WipeSerial ==
    ASSUME IInv, SerialInv, NEW r \in Req, Wipe(r)
    PROVE  SerialInv'
<1>0. /\ task[r].pc = "wipe" /\ Place(r) = "wipe" /\ Stage(r) /\ TypeOK /\ Target(r) \in Inst
      /\ row[Target(r)].node = Host(r) /\ Host(r) \in Node
    BY Underway DEF Wipe
<1>1. /\ req[r].op = "delete" /\ row[Target(r)].status \in {"terminating", "gone"}
      /\ State(Target(r)) = "absent"
    BY <1>0 DEF Stage, CreateStage, StartStage, StopStage, DeleteStage
<1>2. Went(r, "done", task[r].dom) /\ UNCHANGED <<row, dom, req, sync>>
    BY <1>0, WentGoto DEF Wipe
<1>3. FilesOf(Target(r)) /\ Target(r) \notin disk'[Host(r)]
    BY <1>0 DEF Wipe, FilesOf, TypeOK
<1>4. /\ Place(r)' = "done" /\ Target(r)' = Target(r) /\ task'[r].pc = "done"
      /\ row'[Target(r)].status = row[Target(r)].status /\ State(Target(r))' = "absent"
      /\ (Busy(r)' => Stage(r)') /\ (~Busy(r)' => AtRest(Target(r))') => SerialInv'
    BY <1>0, <1>1, <1>2, <1>3, QuietStep
<1>5. Wiped(Target(r))'
    BY <1>0, <1>2, <1>3, <1>4 DEF Wiped
<1>6. Busy(r)' => Stage(r)'
    BY <1>0, <1>1, <1>2, <1>4, <1>5 DEF Busy, Stage, DeleteStage
<1>7. ~Busy(r)' => AtRest(Target(r))'
    BY <1>0, <1>1, <1>2, <1>4, <1>5 DEF Busy, Stage, AtRest
<1> QED
    BY <1>4, <1>6, <1>7

LEMMA ExecuteSerial ==
    ASSUME SerialClients, IInv, SerialInv, NEW r \in Req, Execute(r)
    PROVE  SerialInv'
<1>1. CASE Destroy(r)
    BY <1>1, DestroyStops, StopSerial
<1> QED
    BY <1>1, AnnounceSerial, SaySerial, PrepareSerial, DefineSerial, BridgeSerial, LookupSerial,
       BootSerial, StopSerial, DeleteSerial, WipeSerial DEF Execute

-----------------------------------------------------------------------------
(* The requests *)

\* No command of an instance is under way when the list offers buttons for it.
LEMMA SettledMeansIdle ==
    ASSUME IInv, SerialInv, NEW i \in Inst, row[i].status \in Settled, ~Waiting(i)
    PROVE  (\A q \in Req : Busy(q) => Target(q) # i) /\ AtRest(i)
<1>1. ASSUME NEW q \in Req, Busy(q), Target(q) = i PROVE FALSE
    <2>1. req[q].pc \in {"idle", "done"} /\ task[q].pc \notin {"none", "done"}
      BY <1>1 DEF Waiting, Busy
    <2>2. Stage(q) /\ Place(q) = task[q].pc /\ TypeOK
      BY <2>1, Underway
    <2>3. Place(q) \notin {"write", "again"}
      BY <2>2 DEF TypeOK, TaskType
    <2> QED
      BY <1>1, <2>2, <2>3 DEF Stage, CreateStage, StartStage, StopStage, DeleteStage, Settled
<1> QED
    BY <1>1 DEF SerialInv

\* request r goes on to place pc
Passes(r, pc) ==
    /\ req'[r].pc = pc
    /\ req'[r].op = req[r].op /\ req'[r].target = req[r].target /\ req'[r].ctx = req[r].ctx
    /\ \A q \in Req : q # r => req'[q] = req[q] /\ task'[q] = task[q]

LEMMA PassesGoto ==
    ASSUME TypeOK, NEW r \in Req, NEW pc, req' = [req EXCEPT ![r].pc = pc], task' = task
    PROVE  Passes(r, pc)
BY DEF TypeOK, ReqType, Passes

\* A handler that is at work keeps its instance, and the domain as it is.
LEMMA HandlerStep ==
    ASSUME IInv, SerialInv, NEW r \in Req, req[r].pc \notin {"idle", "done"},
           NEW pc, Passes(r, pc),
           NEW st, st # "unborn", RowGets(Target(r), st), UNCHANGED <<dom, disk, sync>>
    PROVE  /\ Target(r)' = Target(r) /\ req'[r].pc = pc /\ req'[r].op = req[r].op
           /\ row'[Target(r)].status = st /\ State(Target(r))' = State(Target(r))
           /\ Wiped(Target(r))' <=> Wiped(Target(r))
           /\ (Busy(r)' => Stage(r)') /\ (~Busy(r)' => AtRest(Target(r))') => SerialInv'
<1>0. /\ TypeOK /\ Busy(r) /\ Target(r) \in Inst /\ Begun(Target(r)) /\ req[r].ctx = "ok"
    BY DEF IInv, ReqOk, Busy, SerialInv, Undisturbed
<1>1. row[Target(r)].node \in Node /\ row'[Target(r)].node = row[Target(r)].node
    BY <1>0 DEF SerialInv, Placed, RowGets
<1>2. Target(r)' = Target(r) /\ row'[Target(r)].status = st
    BY DEF Target, RowGets, Passes
<1>3. State(Target(r))' = State(Target(r)) /\ (Wiped(Target(r))' <=> Wiped(Target(r)))
    BY <1>0, <1>1, <1>2 DEF State, Wiped, Begun
<1>4. Touches(r, Target(r))
    BY DEF Touches, RowGets, Passes
<1>5. \A q \in Req : Busy(q) /\ q # r => Target(q) # Target(r)
    BY <1>0 DEF SerialInv, Alone
<1>6. ASSUME Busy(r)' => Stage(r)', ~Busy(r)' => AtRest(Target(r))' PROVE SerialInv'
    <2> DEFINE i == Target(r)
    <2>1. ~Busy(r)' => AtRest(i)'
      BY <1>6
    <2>2. i \in Inst /\ row'[i].node \in Node /\ Target(r)' = i /\ req'[r].ctx = "ok"
      BY <1>0, <1>1, <1>2 DEF Passes
    <2> QED
      BY <1>4, <1>5, <1>6, <2>1, <2>2, StepOfOne
<1> QED
    BY <1>2, <1>3, <1>6 DEF Passes

\* A request that is at work: its instance, its row and domain.
LEMMA AtWork ==
    ASSUME IInv, SerialInv, NEW r \in Req, req[r].pc \notin {"idle", "done"}
    PROVE  /\ TypeOK /\ Target(r) \in Inst /\ Begun(Target(r)) /\ Busy(r) /\ Stage(r)
           /\ task[r].pc = "none" => Place(r) = req[r].pc
           /\ task[r].pc # "none" => Place(r) = task[r].pc /\ req[r].pc = "erase"
           /\ req[r].ctx = "ok" /\ req[r] \in ReqType /\ task[r] \in TaskType
<1>1. TypeOK /\ Target(r) \in Inst /\ Begun(Target(r)) /\ Busy(r)
    BY DEF IInv, ReqOk, Busy
<1>2. Stage(r) /\ req[r].ctx = "ok"
    BY <1>1 DEF SerialInv, Undisturbed
<1>3. task[r].pc # "none" => Place(r) = task[r].pc /\ req[r].pc = "erase"
    BY <1>2 DEF Stage, Place
<1>4. req[r] \in ReqType /\ task[r] \in TaskType
    BY <1>1 DEF TypeOK
<1> QED
    BY <1>1, <1>2, <1>3, <1>4 DEF Place

LEMMA SetIPSerial ==
    ASSUME IInv, SerialInv, NEW i \in Inst, SetIP(i)
    PROVE  SerialInv'
<1>0. /\ i \in Req /\ req[i].pc = "setip" /\ req[i].op = "create" /\ Target(i) = i
    BY DEF SetIP, IInv, ReqOk, Req
<1>1. /\ TypeOK /\ Stage(i) /\ req[i].ctx = "ok" /\ task[i].pc = "none" /\ Place(i) = "setip"
    BY <1>0, AtWork
<1>2. row[i].status = "pending" /\ State(i) = "absent"
    BY <1>0, <1>1 DEF Stage, CreateStage, StartStage, StopStage, DeleteStage
<1>3. /\ req' = [req EXCEPT ![i].pc = "enqueue"] /\ SetRow(i, "pending", TRUE)
      /\ UNCHANGED <<task, dom, disk, sync>>
    BY <1>1 DEF SetIP
<1>4. RowGets(i, "pending") /\ Passes(i, "enqueue")
    BY <1>0, <1>1, <1>2, <1>3, RowSetGets, PassesGoto DEF Exists
<1>5. /\ Target(i)' = i /\ req'[i].pc = "enqueue" /\ req'[i].op = "create"
      /\ row'[i].status = "pending" /\ State(i)' = "absent"
      /\ (Busy(i)' => Stage(i)') /\ (~Busy(i)' => AtRest(i)') => SerialInv'
    BY <1>0, <1>2, <1>3, <1>4, HandlerStep
<1>6. Busy(i)' /\ Stage(i)'
    BY <1>1, <1>3, <1>5 DEF Busy, Place, Stage, CreateStage
<1> QED
    BY <1>5, <1>6

LEMMA ReadAgainSerial ==
    ASSUME IInv, SerialInv, NEW r \in Req, ReadAgain(r)
    PROVE  SerialInv'
<1>0. req[r].pc = "again"
    BY DEF ReadAgain
<1>1. /\ TypeOK /\ Stage(r) /\ task[r].pc = "none" /\ Place(r) = "again" /\ Target(r) \in Inst
      /\ req[r].ctx = "ok"
    BY <1>0, AtWork
<1>2. /\ req[r].op = "delete" /\ row[Target(r)].status \in {"stopped", "error"}
      /\ State(Target(r)) \in Shut
    BY <1>0, <1>1 DEF Stage, CreateStage, StartStage, StopStage, DeleteStage
<1>3. /\ req' = [req EXCEPT ![r].pc = "write", ![r].node = row[Target(r)].node]
      /\ UNCHANGED <<row, task, dom, disk, sync>>
    BY <1>1, <1>2 DEF ReadAgain, Exists
<1>4. Passes(r, "write") /\ RowGets(Target(r), row[Target(r)].status)
    BY <1>1, <1>3, RowStays DEF TypeOK, ReqType, Passes
<1>5. /\ Target(r)' = Target(r) /\ req'[r].pc = "write" /\ req'[r].op = "delete"
      /\ row'[Target(r)].status = row[Target(r)].status /\ State(Target(r))' = State(Target(r))
      /\ (Busy(r)' => Stage(r)') /\ (~Busy(r)' => AtRest(Target(r))') => SerialInv'
    BY <1>0, <1>2, <1>3, <1>4, HandlerStep
<1>6. Busy(r)' /\ Stage(r)'
    BY <1>1, <1>2, <1>3, <1>5 DEF Busy, Place, Stage, DeleteStage
<1> QED
    BY <1>5, <1>6

LEMMA WriteSerial ==
    ASSUME IInv, SerialInv, NEW r \in Req, Write(r)
    PROVE  SerialInv'
<1>0. req[r].pc = "write"
    BY DEF Write
<1>1. /\ TypeOK /\ Stage(r) /\ task[r].pc = "none" /\ Place(r) = "write" /\ Target(r) \in Inst
      /\ req[r].ctx = "ok"
    BY <1>0, AtWork
<1>2. \/ /\ req[r].op \in {"start", "delete"} /\ State(Target(r)) \in Shut
         /\ row[Target(r)].status \in {"stopped", "error"}
      \/ req[r].op = "stop" /\ State(Target(r)) = "on" /\ row[Target(r)].status = "running"
    BY <1>0, <1>1 DEF Stage, CreateStage, StartStage, StopStage, DeleteStage
<1>3. /\ req' = [req EXCEPT ![r].pc = "enqueue"]
      /\ SetRow(Target(r), StatusOf[req[r].op], FALSE)
      /\ UNCHANGED <<task, dom, disk, sync>>
    BY <1>1 DEF Write
<1>4. /\ req[r].op = "start" => StatusOf[req[r].op] = "starting"
      /\ req[r].op = "stop" => StatusOf[req[r].op] = "stopping"
      /\ req[r].op = "delete" => StatusOf[req[r].op] = "terminating"
    BY DEF StatusOf
<1>5. /\ RowGets(Target(r), StatusOf[req[r].op]) /\ StatusOf[req[r].op] # "unborn"
      /\ Passes(r, "enqueue")
    BY <1>1, <1>2, <1>3, <1>4, RowSetGets, PassesGoto DEF Exists
<1>6. /\ Target(r)' = Target(r) /\ req'[r].pc = "enqueue" /\ req'[r].op = req[r].op
      /\ row'[Target(r)].status = StatusOf[req[r].op] /\ State(Target(r))' = State(Target(r))
      /\ (Busy(r)' => Stage(r)') /\ (~Busy(r)' => AtRest(Target(r))') => SerialInv'
    BY <1>0, <1>3, <1>5, HandlerStep
<1>7. Busy(r)' /\ Stage(r)'
    BY <1>1, <1>2, <1>3, <1>4, <1>6 DEF Busy, Place, Stage, StartStage, StopStage, DeleteStage
<1> QED
    BY <1>6, <1>7

LEMMA EnqueueSerial ==
    ASSUME IInv, SerialInv, NEW r \in Req, Enqueue(r)
    PROVE  SerialInv'
<1> DEFINE pc == IF req[r].op = "delete" THEN "erase" ELSE "done"
<1>0. req[r].pc = "enqueue"
    BY DEF Enqueue
<1>1. /\ TypeOK /\ Stage(r) /\ task[r].pc = "none" /\ Place(r) = "enqueue" /\ Target(r) \in Inst
      /\ Begun(Target(r))
    BY <1>0, AtWork
<1>2. Passes(r, pc) /\ task'[r].pc = "queued"
    BY <1>1 DEF Enqueue, TypeOK, ReqType, TaskType, Passes
<1>3. UNCHANGED <<row, dom, disk, sync>> /\ RowGets(Target(r), row[Target(r)].status)
    BY <1>1, RowStays DEF Enqueue
<1>4. /\ Target(r)' = Target(r) /\ req'[r].pc = pc /\ req'[r].op = req[r].op
      /\ row'[Target(r)].status = row[Target(r)].status /\ State(Target(r))' = State(Target(r))
      /\ (Busy(r)' => Stage(r)') /\ (~Busy(r)' => AtRest(Target(r))') => SerialInv'
    BY <1>0, <1>1, <1>2, <1>3, HandlerStep DEF Begun
<1>5. Busy(r)' /\ Place(r)' = "queued"
    BY <1>2 DEF Busy, Place
<1>6. Stage(r)'
    BY <1>0, <1>1, <1>2, <1>4, <1>5
    DEF Stage, CreateStage, StartStage, StopStage, DeleteStage, Shut
<1> QED
    BY <1>4, <1>5, <1>6

\* The row goes away; its command may be anywhere by then, or have ended.
LEMMA EraseSerial ==
    ASSUME IInv, SerialInv, NEW r \in Req, Erase(r)
    PROVE  SerialInv'
<1>0. req[r].pc = "erase" /\ req[r].op = "delete" /\ task[r].pc # "none"
    BY DEF Erase, IInv, ReqOk
<1>1. /\ TypeOK /\ Stage(r) /\ Place(r) = task[r].pc /\ Target(r) \in Inst
      /\ req[r].ctx = "ok"
    BY <1>0, AtWork
<1>2. row[Target(r)].status = "terminating"
    BY <1>0, <1>1 DEF Stage
<1>3. /\ row' = [row EXCEPT ![Target(r)].status = "gone"]
      /\ req' = [req EXCEPT ![r].pc = "done"] /\ UNCHANGED <<task, dom, disk, sync>>
    BY <1>1, <1>2 DEF Erase, Exists
<1>4. RowGets(Target(r), "gone") /\ Passes(r, "done")
    BY <1>1, <1>3, PassesGoto DEF TypeOK, RowType, RowGets
<1>5. /\ Target(r)' = Target(r) /\ req'[r].pc = "done" /\ req'[r].op = "delete"
      /\ row'[Target(r)].status = "gone" /\ State(Target(r))' = State(Target(r))
      /\ Wiped(Target(r))' <=> Wiped(Target(r))
      /\ (Busy(r)' => Stage(r)') /\ (~Busy(r)' => AtRest(Target(r))') => SerialInv'
    BY <1>0, <1>3, <1>4, HandlerStep
<1>6. Place(r)' = task[r].pc
    BY <1>0, <1>3 DEF Place
<1>7. /\ task[r].pc = "done" => State(Target(r)) = "absent" /\ Wiped(Target(r))
      /\ DeleteStage("terminating", State(Target(r)), task[r].pc)
    BY <1>0, <1>1, <1>2 DEF Stage, DeleteStage
<1>8. Stage(r)'
    BY <1>0, <1>1, <1>3, <1>5, <1>6, <1>7 DEF Stage, DeleteStage
<1>9. ~Busy(r)' => AtRest(Target(r))'
    BY <1>0, <1>3, <1>5, <1>7 DEF Busy, AtRest
<1> QED
    BY <1>5, <1>8, <1>9

LEMMA InsertSerial ==
    ASSUME IInv, SerialInv, NEW i \in Inst, NEW n \in Node, Insert(i, n)
    PROVE  SerialInv'
<1>0. /\ TypeOK /\ i \in Req /\ req[i].op = "create" /\ Target(i) = i /\ ~Begun(i)
      /\ req[i].pc = "idle" /\ task[i].pc = "none" /\ ~Busy(i) /\ req[i].ctx = "ok"
    BY DEF Insert, IInv, ReqOk, TaskOk, Req, Busy, SerialInv, Undisturbed
<1>1. /\ req' = [req EXCEPT ![i].pc = "setip", ![i].node = n]
      /\ UNCHANGED <<task, dom, disk, sync>>
    BY DEF Insert
<1>2. /\ req'[i].pc = "setip" /\ req'[i].op = "create" /\ Target(i)' = i /\ req'[i].ctx = "ok"
      /\ \A q \in Req : q # i => req'[q] = req[q] /\ task'[q] = task[q]
    BY <1>0, <1>1 DEF TypeOK, ReqType, Target
<1>3. /\ row'[i].status = "pending" /\ row'[i].node = n
      /\ \A j \in Inst : j # i => row'[j] = row[j]
    BY <1>0 DEF Insert, TypeOK
<1>4. Touches(i, i)
    BY <1>1, <1>2, <1>3 DEF Touches
<1>5. \A q \in Req : Busy(q) /\ q # i => Target(q) # i
    BY <1>0 DEF IInv, ReqOk, TaskOk, Busy
<1>6. State(i)' = "absent"
    BY <1>0, <1>1, <1>3 DEF State, Begun, IInv, OnlyOnItsNode
<1>7. Busy(i)' /\ Stage(i)'
    BY <1>0, <1>1, <1>2, <1>3, <1>6 DEF Busy, Place, Stage, CreateStage
<1> QED
    BY <1>0, <1>1, <1>2, <1>3, <1>4, <1>5, <1>7, StepOfOne

\* A client begins only what the list offers it.
LEMMA BeginStep ==
    ASSUME IInv, SerialInv, NEW r \in Call, NEW i \in Inst, req[r].pc = "idle",
           row[i].status \in Settled, ~Waiting(i),
           req'[r].target = i, req'[r].ctx = "ok",
           \A q \in Req : q # r => req'[q] = req[q],
           UNCHANGED <<row, task, dom, disk, sync>>
    PROVE  /\ r \in Req /\ AtRest(i) /\ task[r].pc = "none" /\ Target(r)' = i
           /\ State(i)' = State(i) /\ (AtRest(i)' <=> AtRest(i))
           /\ (Busy(r)' => Stage(r)') /\ (~Busy(r)' => AtRest(i)') => SerialInv'
<1>0. r \in Req /\ task[r].pc = "none" /\ ~Busy(r) /\ Begun(i) /\ row[i].node \in Node
    BY DEF IInv, TaskOk, Req, Busy, Begun, Settled, SerialInv, Placed
<1>1. (\A q \in Req : Busy(q) => Target(q) # i) /\ AtRest(i)
    BY SettledMeansIdle
<1>2. Target(r)' = i /\ State(i)' = State(i) /\ (AtRest(i)' <=> AtRest(i))
    BY DEF Target, State, Begun, AtRest, Wiped
<1>3. Touches(r, i)
    BY DEF Touches
<1>4. ASSUME Busy(r)' => Stage(r)', ~Busy(r)' => AtRest(i)' PROVE SerialInv'
    BY <1>0, <1>1, <1>2, <1>3, <1>4, StepOfOne
<1> QED
    BY <1>0, <1>1, <1>2, <1>4

LEMMA BeginSerial ==
    ASSUME SerialClients, IInv, SerialInv, NEW r \in Call, NEW op \in {"start", "stop"},
           NEW i \in Inst, Begin(r, op, i)
    PROVE  SerialInv'
<1>0. /\ r \in Req /\ TypeOK /\ req[r].ctx = "ok" /\ req[r].pc = "idle"
      /\ UNCHANGED <<row, task, dom, disk, sync>>
    BY DEF Req, Begin, IInv, SerialInv, Undisturbed
<1>1. /\ ~Waiting(i) /\ row[i].status \in Settled
      /\ op = "start" => row[i].status \in {"stopped", "error"}
      /\ op = "stop" => row[i].status = "running"
    BY DEF SerialClients, Begin, Offered, Settled
<1>2. req' = [req EXCEPT ![r] = [req[r] EXCEPT !.pc = "write", !.op = op,
                                                !.target = i, !.node = row[i].node]]
    BY DEF Begin
<1>3. /\ req'[r].pc = "write" /\ req'[r].op = op /\ req'[r].target = i /\ req'[r].ctx = "ok"
      /\ \A q \in Req : q # r => req'[q] = req[q]
    BY <1>0, <1>2 DEF TypeOK, ReqType
<1>4. /\ AtRest(i) /\ task[r].pc = "none" /\ Target(r)' = i /\ State(i)' = State(i)
      /\ (Busy(r)' => Stage(r)') /\ (~Busy(r)' => AtRest(i)') => SerialInv'
    BY <1>0, <1>1, <1>3, BeginStep
<1>5. /\ op = "start" => State(i) \in Shut
      /\ op = "stop" => State(i) = "on"
    BY <1>1, <1>4 DEF AtRest, Shut
<1>6. Busy(r)' /\ Place(r)' = "write"
    BY <1>0, <1>3, <1>4 DEF Busy, Place
<1>7. Stage(r)'
    BY <1>0, <1>1, <1>3, <1>4, <1>5, <1>6 DEF Stage, StartStage, StopStage
<1> QED
    BY <1>4, <1>6, <1>7

LEMMA BeginDeleteSerial ==
    ASSUME SerialClients, IInv, SerialInv, NEW r \in Call, NEW i \in Inst, BeginDelete(r, i)
    PROVE  SerialInv'
<1> DEFINE pc == IF row[i].status = "running" THEN "done" ELSE "again"
<1>0. /\ r \in Req /\ TypeOK /\ req[r].ctx = "ok" /\ req[r].pc = "idle"
      /\ UNCHANGED <<row, task, dom, disk, sync>>
    BY DEF Req, BeginDelete, IInv, SerialInv, Undisturbed
<1>1. ~Waiting(i) /\ row[i].status \in Settled
    BY DEF SerialClients, BeginDelete, Offered
<1>2. req' = [req EXCEPT ![r] = [req[r] EXCEPT !.pc = pc, !.op = "delete", !.target = i]]
    BY DEF BeginDelete
<1>3. /\ req'[r].pc = pc /\ req'[r].op = "delete" /\ req'[r].target = i /\ req'[r].ctx = "ok"
      /\ \A q \in Req : q # r => req'[q] = req[q]
    BY <1>0, <1>2 DEF TypeOK, ReqType
<1>4. /\ AtRest(i) /\ task[r].pc = "none" /\ Target(r)' = i /\ State(i)' = State(i)
      /\ AtRest(i)' <=> AtRest(i)
      /\ (Busy(r)' => Stage(r)') /\ (~Busy(r)' => AtRest(i)') => SerialInv'
    BY <1>0, <1>1, <1>3, BeginStep
<1>5. Busy(r)' => row[i].status \in {"stopped", "error"} /\ Place(r)' = "again"
    BY <1>0, <1>1, <1>3, <1>4 DEF Busy, Place, Settled
<1>6. Busy(r)' => Stage(r)'
    BY <1>0, <1>3, <1>4, <1>5 DEF Stage, DeleteStage, AtRest, Shut
<1> QED
    BY <1>4, <1>6

-----------------------------------------------------------------------------
(* Deliveries, guests *)

\* Each goroutine starts at the first step of its operation.
LEMMA DeliverSerial ==
    ASSUME IInv, SerialInv, NEW n \in Node, Deliver(n)
    PROVE  SerialInv'
<1>0. TypeOK /\ UNCHANGED <<row, req, dom, disk, sync>>
    BY DEF IInv, Deliver
<1>1. ASSUME NEW q \in Req
      PROVE  \/ task'[q] = task[q]
             \/ /\ task[q].pc = "queued" /\ task'[q].pc = FirstStep[req[q].op]
                /\ task'[q].dom = task[q].dom
    BY <1>0 DEF Deliver, Queue, Moved, TypeOK, TaskType
<1>2. ASSUME NEW q \in Req
      PROVE  Target(q)' = Target(q) /\ (Busy(q)' <=> Busy(q))
    <2>1. req[q].op \in {"create", "start", "stop", "delete"}
      BY <1>0 DEF TypeOK, ReqType
    <2>2. FirstStep[req[q].op] \in {"announce", "bridge", "lookup"}
      BY <2>1 DEF FirstStep
    <2> QED
      BY <1>0, <1>1, <2>2 DEF Target, Busy
<1>3. \A i \in Inst : State(i)' = State(i) /\ (Wiped(i)' <=> Wiped(i))
    BY <1>0 DEF State, Begun, Wiped
<1>4. ASSUME NEW q \in Req, Busy(q)' PROVE Stage(q)'
    <2>1. Busy(q) /\ Stage(q) /\ Target(q) \in Inst /\ Target(q)' = Target(q)
      BY <1>2, <1>4 DEF SerialInv, IInv, ReqOk, TaskOk, Busy
    <2>2. /\ State(Target(q))' = State(Target(q)) /\ (Wiped(Target(q))' <=> Wiped(Target(q)))
      BY <1>3, <2>1
    <2>3. CASE task'[q] = task[q]
      BY <1>0, <2>1, <2>2, <2>3 DEF Stage, Place
    <2>4. CASE /\ task[q].pc = "queued" /\ task'[q].pc = FirstStep[req[q].op]
               /\ task'[q].dom = task[q].dom
      <3>1. Place(q) = "queued" /\ Place(q)' = task'[q].pc
        BY <1>0, <2>1, <2>4 DEF Place, TypeOK, ReqType, FirstStep
      <3>2. /\ req[q].op = "create" => task'[q].pc = "announce"
            /\ req[q].op = "start" => task'[q].pc = "bridge"
            /\ req[q].op \in {"stop", "delete"} => task'[q].pc = "lookup"
        BY <2>4 DEF FirstStep
      <3>3. /\ row'[Target(q)'].status = row[Target(q)].status
            /\ State(Target(q))' = State(Target(q))
        BY <1>0, <2>1, <2>2
      <3> QED
        BY <1>0, <2>1, <2>4, <3>1, <3>2, <3>3
        DEF Stage, CreateStage, StartStage, StopStage, DeleteStage
    <2> QED
      BY <1>1, <2>3, <2>4
<1>5. ASSUME NEW i \in Inst, \A q \in Req : Busy(q)' => Target(q)' # i PROVE AtRest(i)'
    <2>1. AtRest(i)
      BY <1>2, <1>5 DEF SerialInv
    <2> QED
      BY <1>0, <1>3, <2>1 DEF AtRest
<1>6. Undisturbed' /\ Placed' /\ Alone'
    BY <1>0, <1>2 DEF SerialInv, Undisturbed, Placed, Begun, Alone
<1> QED
    BY <1>4, <1>5, <1>6 DEF SerialInv

\* A guest halts only because a stop request asked it to.
LEMMA GuestSerial ==
    ASSUME IInv, SerialInv, NEW n \in Node, NEW i \in Inst, GuestHalts(n, i)
    PROVE  SerialInv'
<1>0. /\ TypeOK /\ dom[n][i] = "closing" /\ Begun(i) /\ row[i].node = n
      /\ UNCHANGED <<row, req, task, disk, sync>>
    BY DEF IInv, OnlyOnItsNode, GuestHalts
<1>1. State(i) = "closing"
    BY <1>0 DEF State
<1>2. PICK r \in Req : Busy(r) /\ Target(r) = i
    BY <1>1 DEF SerialInv, AtRest, Shut
<1>3. Stage(r) /\ \A q \in Req : Busy(q) /\ q # r => Target(q) # i
    BY <1>2 DEF SerialInv, Alone
<1>4. DomainGets(i, "off")
    BY <1>0, DomSetGets DEF GuestHalts
<1>5. /\ Target(r)' = i /\ Place(r)' = Place(r) /\ State(i)' = "off" /\ (Busy(r)' <=> Busy(r))
    BY <1>0, <1>2, <1>4 DEF Target, Place, State, DomainGets, Begun, Busy
<1>6. Stage(r)'
    BY <1>0, <1>1, <1>2, <1>3, <1>5
    DEF Stage, CreateStage, StartStage, StopStage, DeleteStage, Shut
<1>7. Touches(r, i)
    BY <1>0, <1>4 DEF Touches, DomainGets
<1>8. req'[r].ctx = "ok"
    BY <1>0 DEF SerialInv, Undisturbed
<1> QED
    BY <1>0, <1>2, <1>3, <1>5, <1>6, <1>7, <1>8, StepOfOne

-----------------------------------------------------------------------------
(* The invariant of serial clients *)

LEMMA InitSerial ==
    ASSUME Init
    PROVE  SerialInv
<1>1. \A r \in Req : ~Busy(r)
    BY DEF Init, Busy
<1>2. Undisturbed /\ Placed
    BY DEF Init, Undisturbed, Placed, Begun
<1>3. \A i \in Inst : AtRest(i)
    BY DEF Init, AtRest, State, Begun
<1> QED
    BY <1>1, <1>2, <1>3 DEF SerialInv, Alone

LEMMA NextSerial ==
    ASSUME SerialClients, IInv, SerialInv, [Next]_vars
    PROVE  SerialInv'
<1>0. ~Disturb
    BY NoDisturbance DEF IInv
<1>1. CASE ClientStep
    BY <1>1, InsertSerial, BeginSerial, BeginDeleteSerial DEF ClientStep
<1>2. ASSUME NEW i \in Inst, SetIP(i) PROVE SerialInv'
    BY <1>2, SetIPSerial
<1>3. ASSUME NEW r \in Req, Serve(r) PROVE SerialInv'
    BY <1>3, ReadAgainSerial, WriteSerial, EnqueueSerial, EraseSerial DEF Serve
<1>4. ASSUME NEW r \in Req, Execute(r) PROVE SerialInv'
    BY <1>4, ExecuteSerial
<1>5. ASSUME NEW n \in Node, Deliver(n) PROVE SerialInv'
    BY <1>5, DeliverSerial
<1>6. ASSUME NEW n \in Node, Reconcile(n) PROVE FALSE
    BY <1>6 DEF Reconcile, Snapshot, Resync, Resynced, SerialInv, Undisturbed
<1>7. CASE Environment
    BY <1>0, <1>7, GuestSerial
    DEF Environment, Cancel, LoseBatch, AgentCrash, NodeReboot, GuestPowersOff, ControllerCrash
<1>8. CASE UNCHANGED vars
    BY <1>8 DEF vars, SerialInv, Undisturbed, Placed, Alone, Stage, AtRest, Busy, Target, Place,
       State, Wiped, Begun
<1> QED
    BY <1>1, <1>2, <1>3, <1>4, <1>5, <1>6, <1>7, <1>8 DEF Next

LEMMA SerialInvariant == SerialClients => (Spec => []SerialInv)
<1> SUFFICES ASSUME SerialClients PROVE Spec => []SerialInv
    OBVIOUS
<1>1. Init => SerialInv
    BY InitSerial
<1>2. IInv /\ SerialInv /\ [Next]_vars => SerialInv'
    BY NextSerial
<1> QED
    BY <1>1, <1>2, Invariant, PTL DEF Spec

\* Once the list offers buttons for an instance no command for it is queued or
\* running: the report of a settled status is the last step of every command,
\* and clients who wait for it have one request under way per instance.
THEOREM SettledMeansSettled == SerialClients => (Spec => []SettledIsIdle)
<1>1. IInv /\ SerialInv => SettledIsIdle
    <2> SUFFICES ASSUME IInv, SerialInv, NEW i \in Inst, row[i].status \in Settled, ~Waiting(i)
                 PROVE  ~Working(i)
      BY DEF SettledIsIdle
    <2> QED
      BY SettledMeansIdle DEF Working, Busy
<1> QED
    BY <1>1, Invariant, SerialInvariant, PTL

LEMMA IdleAtRest ==
    ASSUME SerialInv, NEW i \in Inst, ~Waiting(i), ~Working(i)
    PROVE  AtRest(i)
BY DEF SerialInv, Waiting, Working, Busy

\* When nobody works on an instance its row tells what libvirt has.
THEOREM TableTellsTruth == SerialClients => (Spec => []TableAgrees)
<1>1. SerialInv => TableAgrees
    <2> SUFFICES ASSUME SerialInv, NEW i \in Inst, ~Waiting(i), ~Working(i)
                 PROVE  /\ row[i].status = "running" => State(i) = "on"
                        /\ row[i].status \in {"stopped", "stopping"} => State(i) = "off"
                        /\ row[i].status = "error" => State(i) \in {"absent", "off"}
                        /\ row[i].status \notin Settled \cup {"stopping"} => State(i) = "absent"
      BY DEF TableAgrees, State
    <2> QED
      BY IdleAtRest DEF AtRest, Shut, Settled
<1> QED
    BY <1>1, SerialInvariant, PTL

\* A deleted instance leaves neither a domain nor files on any node.
THEOREM DeletedLeavesNothing == SerialClients => (Spec => []NothingLeft)
<1>1. IInv /\ SerialInv => NothingLeft
    <2> SUFFICES ASSUME IInv, SerialInv, NEW i \in Inst, row[i].status = "gone",
                        ~Waiting(i), ~Working(i), NEW n \in Node
                 PROVE  dom[n][i] = "absent" /\ i \notin disk[n]
      BY DEF NothingLeft
    <2>1. AtRest(i) /\ Begun(i)
      BY IdleAtRest DEF Begun
    <2>2. State(i) = "absent" /\ Wiped(i)
      BY <2>1 DEF AtRest
    <2> QED
      BY <2>1, <2>2 DEF IInv, OnlyOnItsNode, State, Wiped
<1> QED
    BY <1>1, Invariant, SerialInvariant, PTL

-----------------------------------------------------------------------------
(* InstanceLifecycle implements InstanceContract *)

\* a delete was enqueued for an instance of the same name on the same node
DeleteTold(i) == \E j \in Told : NameOf[j] = NameOf[i] /\ row[j].node = row[i].node

\* A request enqueues one command, just before it ends; only creates make
\* things; a handle is that of a domain of the instance's name on its node.
CommandOk(r) ==
    /\ task[r].pc # "none" => req[r].pc \in {"erase", "done"}
    /\ task[r].pc \in {"announce", "prepare", "define"} => r \in Inst
    /\ task[r].dom \in Inst =>
          /\ task[r].pc # "none" /\ Begun(task[r].dom)
          /\ NameOf[task[r].dom] = NameOf[Target(r)]
          /\ row[task[r].dom].node = row[Target(r)].node

\* What is there was made, so its create has got past making it; a domain
\* without definition was undefined by a delete.
PlaceOk(n, i) ==
    /\ dom[n][i] # "absent" => ~ToDefine(i)
    /\ i \in disk[n] => ~ToProvision(i)
    /\ dom[n][i] = "loose" => DeleteTold(i)

ContractInv ==
    /\ IInv /\ Placed
    /\ \A r \in Req : CommandOk(r)
    /\ \A n \in Node, i \in Inst : PlaceOk(n, i)

LEMMA ExecuteExecuted ==
    ASSUME IInv, NEW r \in Req, Execute(r)
    PROVE  Executed(r)
BY SayExecuted, PrepareExecuted, DefineExecuted, LookupExecuted, DomainExecuted,
   WipeExecuted DEF Execute

\* A row that has begun stays so and on its node; it is erased only by a request
\* whose command was enqueued.
LEMMA RowLasts ==
    ASSUME IInv, [Next]_vars, NEW i \in Inst, Begun(i)
    PROVE  /\ Begun(i)' /\ row'[i].node = row[i].node
           /\ row'[i].status = "gone" => row[i].status = "gone" \/ i \in Told
<1> DEFINE Goal == /\ Begun(i)' /\ row'[i].node = row[i].node
                   /\ row'[i].status = "gone" => row[i].status = "gone" \/ i \in Told
<1>0. TypeOK /\ row \in [Inst -> RowType]
    BY DEF IInv, TypeOK
<1>1. RowKept => Goal
    BY DEF RowKept, Begun
<1>2. row' = row => Goal
    BY DEF Begun
<1> SUFFICES Goal
    OBVIOUS
<1> HIDE DEF Goal
<1>3. ASSUME NEW r \in Req, Execute(r) PROVE Goal
    BY <1>1, <1>3, ExecuteExecuted DEF Executed
<1>4. ASSUME NEW j \in Inst, NEW n \in Node, Insert(j, n) PROVE Goal
    <2>1. ReqOk(j) /\ j \in Req
      BY DEF IInv, Req
    <2>2. j # i
      BY <1>4, <2>1 DEF ReqOk, Insert, Begun
    <2>3. row'[i] = row[i]
      BY <1>0, <1>4, <2>2 DEF Insert
    <2> QED
      BY <2>3 DEF Goal, Begun
<1>5. ASSUME NEW j \in Inst, SetIP(j) PROVE Goal
    BY <1>0, <1>1, <1>5, RowSet, RowUnchanged DEF SetIP, Alive, Transition
<1>6. ASSUME NEW r \in Req, Serve(r) PROVE Goal
    <2>0. ReqOk(r)
      BY DEF IInv
    <2>1. CASE Write(r)
      <3>1. req[r].op \in {"start", "stop", "delete"} /\ Target(r) \in Inst
        BY <1>0, <2>0, <2>1 DEF TypeOK, ReqType, ReqOk, Write
      <3>2. StatusOf[req[r].op] \in Alive
        BY <3>1 DEF StatusOf, Alive, Transition
      <3> QED
        BY <1>0, <1>1, <2>1, <3>1, <3>2, RowSet, RowUnchanged DEF Write
    <2>2. CASE Erase(r)
      <3>1. Target(r) \in Told
        BY <2>0, <2>2 DEF ReqOk, Erase, Told, Req
      <3>2. /\ row'[i].node = row[i].node /\ row'[i].status # "unborn"
            /\ i # Target(r) => row'[i] = row[i]
        BY <1>0, <2>2 DEF Erase, Begun
      <3> QED
        BY <3>1, <3>2 DEF Goal, Begun
    <2> QED
      BY <1>2, <1>6, <2>1, <2>2 DEF Serve, ReadAgain, Enqueue
<1>7. ASSUME NEW n \in Node, Reconcile(n) PROVE Goal
    <2>1. ASSUME NEW j \in Inst, Resync(n, j) PROVE Goal
      <3>1. sync[n].view[j] \in Alive /\ row[j].ip \in BOOLEAN
        BY <1>0, <2>1 DEF TypeOK, SyncType, RowType, Resync, Alive, Settled
      <3> QED
        BY <1>0, <1>1, <2>1, <3>1, RowSet, RowUnchanged DEF Resync
    <2> QED
      BY <1>2, <1>7, <2>1 DEF Reconcile, Snapshot, Resynced
<1>8. ASSUME NEW n \in Node, Deliver(n) PROVE Goal
    BY <1>2, <1>8 DEF Deliver
<1>9. CASE Environment
    BY <1>2, <1>9 DEF Environment, Cancel, LoseBatch, AgentCrash, NodeReboot, GuestHalts,
       GuestPowersOff, ControllerCrash
<1>10. CASE ClientStep
    BY <1>2, <1>4, <1>10 DEF ClientStep, Begin, BeginDelete
<1> QED
    BY <1>2, <1>3, <1>5, <1>6, <1>7, <1>8, <1>9, <1>10 DEF Next, vars, Goal

\* Once its command is enqueued a request only ends.
LEMMA RequestEnds ==
    ASSUME IInv, [Next]_vars, NEW q \in Req, req[q].pc \in {"erase", "done"}
    PROVE  /\ req'[q].pc \in {"erase", "done"}
           /\ req'[q].target = req[q].target /\ req'[q].op = req[q].op
<1> DEFINE Goal == /\ req'[q].pc \in {"erase", "done"}
                   /\ req'[q].target = req[q].target /\ req'[q].op = req[q].op
<1>0. TypeOK /\ req \in [Req -> ReqType] /\ req[q] \in ReqType
    BY DEF IInv, TypeOK
<1>1. req'[q] = req[q] => Goal
    OBVIOUS
<1>2. ASSUME NEW r, NEW pc \in {"erase", "done"}, req' = [req EXCEPT ![r].pc = pc] PROVE Goal
    BY <1>0, <1>2 DEF ReqType
<1>3. req'[q] = Moved(req[q], "done") => Goal
    BY <1>0, MovedReq
<1> SUFFICES Goal
    OBVIOUS
<1> HIDE DEF Goal
<1>4. ASSUME NEW r \in Req, Execute(r) PROVE Goal
    BY <1>1, <1>4, ExecuteExecuted DEF Executed
<1>5. ASSUME NEW j \in Inst, SetIP(j) PROVE Goal
    <2>1. j # q
      BY <1>5 DEF SetIP
    <2> QED
      BY <1>0, <1>1, <1>5, <2>1 DEF SetIP
<1>6. ASSUME NEW r \in Req, Serve(r) PROVE Goal
    <2>1. CASE r = q
      <3>1. PICK pc \in {"erase", "done"} : req' = [req EXCEPT ![r].pc = pc]
        BY <1>6, <2>1 DEF Serve, ReadAgain, Write, Enqueue, Erase
      <3> QED
        BY <1>2, <3>1
    <2>2. CASE r # q
      BY <1>0, <1>1, <1>6, <2>2 DEF Serve, ReadAgain, Write, Enqueue, Erase
    <2> QED
      BY <2>1, <2>2
<1>7. ASSUME NEW n \in Node, Reconcile(n) \/ Deliver(n) PROVE Goal
    BY <1>1, <1>7 DEF Reconcile, Snapshot, Resync, Resynced, Deliver
<1>8. CASE Environment
    <2>1. ASSUME NEW r \in Req, Cancel(r) PROVE Goal
      BY <1>0, <2>1 DEF Cancel, Goal, ReqType
    <2>2. CASE ControllerCrash
      <3>1. req'[q] = req[q] \/ req'[q] = Moved(req[q], "done")
        BY <2>2 DEF ControllerCrash
      <3> QED
        BY <1>1, <1>3, <3>1
    <2> QED
      BY <1>1, <1>8, <2>1, <2>2 DEF Environment, LoseBatch, AgentCrash, NodeReboot,
         GuestHalts, GuestPowersOff
<1>9. CASE ClientStep
    <2>1. ASSUME NEW i \in Inst, NEW n \in Node, Insert(i, n) PROVE Goal
      <3>1. i # q
        BY <2>1 DEF Insert
      <3> QED
        BY <1>0, <1>1, <2>1, <3>1 DEF Insert
    <2>2. ASSUME NEW r \in Call, NEW i \in Inst, NEW op \in {"start", "stop"}, Begin(r, op, i)
          PROVE  Goal
      <3>1. r # q
        BY <2>2 DEF Begin
      <3> QED
        BY <1>0, <1>1, <2>2, <3>1 DEF Begin
    <2>3. ASSUME NEW r \in Call, NEW i \in Inst, BeginDelete(r, i) PROVE Goal
      <3>1. r # q
        BY <2>3 DEF BeginDelete
      <3> QED
        BY <1>0, <1>1, <2>3, <3>1 DEF BeginDelete
    <2> QED
      BY <1>9, <2>1, <2>2, <2>3 DEF ClientStep
<1> QED
    BY <1>1, <1>4, <1>5, <1>6, <1>7, <1>8, <1>9 DEF Next, vars, Goal

\* All that can happen to a command.
LEMMA TaskStep ==
    ASSUME IInv, [Next]_vars, NEW q \in Req, task'[q] # task[q]
    PROVE  \/ Enqueue(q) \/ Execute(q)
           \/ task[q].pc = "queued" /\ task'[q] = Moved(task[q], FirstStep[req[q].op])
           \/ task[q].pc # "none" /\ task'[q] = Moved(task[q], "done")
<1> DEFINE Goal == \/ Enqueue(q) \/ Execute(q)
                   \/ task[q].pc = "queued" /\ task'[q] = Moved(task[q], FirstStep[req[q].op])
                   \/ task[q].pc # "none" /\ task'[q] = Moved(task[q], "done")
<1>0. TypeOK /\ task \in [Req -> TaskType]
    BY DEF IInv, TypeOK
<1>1. ASSUME NEW S, \A r \in Req : r \in S => task[r].pc # "none",
             task' = [r \in Req |-> IF r \in S THEN Moved(task[r], "done") ELSE task[r]]
      PROVE  Goal
    BY <1>1
<1>2. ASSUME NEW r \in Req, Execute(r) PROVE Goal
    <2>1. Executed(r)
      BY <1>2, ExecuteExecuted
    <2>2. q = r
      BY <2>1 DEF Executed, TaskMoves
    <2> QED
      BY <1>2, <2>2
<1>3. ASSUME NEW r \in Req, Serve(r) PROVE Goal
    <2>1. CASE Enqueue(r)
      BY <1>0, <2>1 DEF Enqueue
    <2> QED
      BY <1>3, <2>1 DEF Serve, ReadAgain, Write, Erase
<1>4. ASSUME NEW n \in Node, Deliver(n) PROVE Goal
    BY <1>4 DEF Deliver, Queue
<1>5. ASSUME NEW n \in Node, AgentRestarts(n) PROVE Goal
    <2>1. \A r \in Req : r \in Running(n) => task[r].pc # "none"
      BY DEF Running
    <2> QED
      BY <1>1, <1>5, <2>1 DEF AgentRestarts
<1>6. ASSUME ControllerCrash PROVE Goal
    <2> DEFINE S == {r \in Req : task[r].pc = "queued"}
    <2>1. task' = [r \in Req |-> IF r \in S THEN Moved(task[r], "done") ELSE task[r]]
      BY <1>6 DEF ControllerCrash
    <2>2. \A r \in Req : r \in S => task[r].pc # "none"
      OBVIOUS
    <2> HIDE DEF S
    <2> QED
      BY <1>1, <2>1, <2>2
<1>7. ASSUME NEW n \in Node, LoseBatch(n) PROVE Goal
    <2>1. \A r \in Req : r \in Queue(n) => task[r].pc # "none"
      BY DEF Queue
    <2> QED
      BY <1>1, <1>7, <2>1 DEF LoseBatch
<1> SUFFICES Goal
    OBVIOUS
<1> HIDE DEF Goal
<1>8. CASE Environment
    <2>1. ASSUME NEW n \in Node, AgentCrash(n) \/ NodeReboot(n) PROVE Goal
      BY <1>5, <2>1 DEF AgentCrash, NodeReboot
    <2>2. ASSUME NEW r \in Req, Cancel(r) PROVE Goal
      BY <2>2 DEF Cancel
    <2>3. ASSUME NEW n \in Node, NEW i \in Inst, GuestHalts(n, i) \/ GuestPowersOff(n, i)
          PROVE  Goal
      BY <2>3 DEF GuestHalts, GuestPowersOff
    <2> QED
      BY <1>6, <1>7, <1>8, <2>1, <2>2, <2>3 DEF Environment
<1>9. CASE ClientStep
    BY <1>9 DEF ClientStep, Insert, Begin, BeginDelete
<1>10. ASSUME NEW j \in Inst, SetIP(j) PROVE Goal
    BY <1>10 DEF SetIP
<1>11. ASSUME NEW n \in Node, Reconcile(n) PROVE Goal
    BY <1>11 DEF Reconcile, Snapshot, Resync, Resynced
<1> QED
    BY <1>2, <1>3, <1>4, <1>8, <1>9, <1>10, <1>11 DEF Next, vars, Goal

\* Where a step of the executor takes a command, and when it stores a handle.
LEMMA ExecuteMoves ==
    ASSUME IInv, NEW r \in Req, Execute(r)
    PROVE  /\ task'[r].pc \notin {"none", "queued", "announce"}
           /\ task'[r].pc = "prepare" => task[r].pc = "announce"
           /\ task'[r].pc = "define" => task[r].pc = "prepare"
           /\ task'[r].dom = task[r].dom \/ Define(r) \/ Lookup(r)
           /\ task[r].pc \notin {"none", "queued"}
<1> DEFINE Goal == /\ task'[r].pc \notin {"none", "queued", "announce"}
                   /\ task'[r].pc = "prepare" => task[r].pc = "announce"
                   /\ task'[r].pc = "define" => task[r].pc = "prepare"
                   /\ task'[r].dom = task[r].dom \/ Define(r) \/ Lookup(r)
                   /\ task[r].pc \notin {"none", "queued"}
<1>0. TypeOK /\ task \in [Req -> TaskType] /\ task[r] \in TaskType
    BY DEF IInv, TypeOK
<1>1. ASSUME NEW pc, Goto(r, pc)
      PROVE  task'[r].pc = pc /\ task'[r].dom = task[r].dom
    BY <1>0, <1>1 DEF Goto, TaskType
<1>2. CASE Announce(r) \/ SayRunning(r) \/ SayStopped(r) \/ SayError(r)
    BY <1>1, <1>2 DEF Announce, SayRunning, SayStopped, SayError, Report
<1>3. CASE PrepareFails(r) \/ RefuseImage(r) \/ NoMac(r) \/ Provision(r) \/ DefineFails(r) \/ BootFails(r)
    BY <1>1, <1>3 DEF PrepareFails, RefuseImage, NoMac, Provision, DefineFails, BootFails
<1>4. CASE Define(r)
    BY <1>0, <1>4 DEF Define, TaskType
<1>5. CASE EnsureBridge(r)
    BY <1>1, <1>5 DEF EnsureBridge
<1>6. CASE Lookup(r)
    <2> DEFINE found == Named(Host(r), NameOf[Target(r)])
               pcs == IF found # NoInst
                      THEN [start |-> "boot", stop |-> "shutdown", delete |-> "inspect"]
                      ELSE [start |-> "sayError", stop |-> "done", delete |-> "wipe"]
               pc == pcs[req[r].op]
    <2>1. task' = [task EXCEPT ![r].pc = pc, ![r].dom = found] /\ task[r].pc = "lookup"
      BY <1>6 DEF Lookup
    <2>2. req[r].op \in {"start", "stop", "delete"}
      BY <2>1 DEF IInv, TypeOK, ReqType, TaskOk
    <2>3. pc \in {"boot", "shutdown", "inspect", "sayError", "done", "wipe"}
      BY <2>2
    <2> HIDE DEF found, pc
    <2>4. task'[r].pc = pc
      BY <1>0, <2>1 DEF TaskType
    <2> QED
      BY <1>6, <2>1, <2>3, <2>4
<1>7. CASE Boot(r) \/ Shutdown(r) \/ Poll(r) \/ Inspect(r)
    BY <1>1, <1>7 DEF Boot, Shutdown, Poll, Inspect
<1>8. CASE Destroy(r) \/ Undefine(r) \/ Wipe(r)
    BY <1>1, <1>8 DEF Destroy, Undefine, Wipe
<1> QED
    BY <1>2, <1>3, <1>4, <1>5, <1>6, <1>7, <1>8 DEF Execute

\* A domain or a directory that is not to come any more never will be.
LEMMA NotToCome ==
    ASSUME ContractInv, [Next]_vars, NEW i \in Inst
    PROVE  (ToDefine(i)' => ToDefine(i)) /\ (ToProvision(i)' => ToProvision(i))
<1>0. IInv /\ i \in Req /\ CommandOk(i) /\ task[i] \in TaskType
    BY DEF ContractInv, IInv, TypeOK, Req
<1>1. CASE task'[i] = task[i]
    BY <1>1 DEF ToDefine, ToProvision
<1>2. CASE task'[i] = Moved(task[i], "done")
    BY <1>0, <1>2, MovedTask DEF ToDefine, ToProvision, Moved, TaskType
<1>3. CASE Enqueue(i)
    BY <1>0, <1>3 DEF CommandOk, Enqueue, ToDefine, ToProvision
<1>4. CASE task[i].pc = "queued"
    BY <1>4 DEF ToDefine, ToProvision
<1>5. CASE Execute(i)
    BY <1>0, <1>5, ExecuteMoves DEF ToDefine, ToProvision
<1> QED
    BY <1>0, <1>1, <1>2, <1>3, <1>4, <1>5, TaskStep

\* A command that exists stays one of its request, so what was told was told.
LEMMA CommandLasts ==
    ASSUME ContractInv, [Next]_vars, NEW q \in Req, task[q].pc # "none"
    PROVE  /\ task'[q].pc # "none"
           /\ req'[q].pc \in {"erase", "done"}
           /\ req'[q].target = req[q].target /\ req'[q].op = req[q].op
<1>0. IInv /\ CommandOk(q) /\ task[q] \in TaskType /\ req[q].op \in {"create", "start", "stop", "delete"}
    BY DEF ContractInv, IInv, TypeOK, ReqType
<1>1. req[q].pc \in {"erase", "done"}
    BY <1>0 DEF CommandOk
<1>2. task'[q].pc # "none"
    <2>1. CASE Enqueue(q)
      BY <1>1, <2>1 DEF Enqueue
    <2>2. CASE task'[q] = Moved(task[q], "done")
      BY <1>0, <2>2 DEF Moved, TaskType
    <2>3. CASE task'[q] = Moved(task[q], FirstStep[req[q].op])
      BY <1>0, <2>3 DEF Moved, TaskType, FirstStep
    <2>4. CASE Execute(q)
      BY <1>0, <2>4, ExecuteMoves
    <2> QED
      BY <1>0, <2>1, <2>2, <2>3, <2>4, TaskStep
<1> QED
    BY <1>0, <1>1, <1>2, RequestEnds

LEMMA ToldLasts ==
    ASSUME ContractInv, [Next]_vars
    PROVE  Told \subseteq Told'
BY CommandLasts DEF Told, Target, Req

LEMMA DeleteToldLasts ==
    ASSUME ContractInv, [Next]_vars, NEW i \in Inst, Begun(i), DeleteTold(i)
    PROVE  DeleteTold(i)'
<1>1. PICK j \in Told : NameOf[j] = NameOf[i] /\ row[j].node = row[i].node
    BY DEF DeleteTold
<1>2. j \in Inst /\ Begun(j)
    BY <1>1 DEF Told, ContractInv, IInv, ReqOk, TaskOk, Req
<1>3. row'[j].node = row[j].node /\ row'[i].node = row[i].node
    BY <1>2, RowLasts DEF ContractInv
<1> QED
    BY <1>1, <1>3, ToldLasts DEF DeleteTold

\* What is found by a name has it and is there.
LEMMA NamedFound ==
    ASSUME NEW n, NEW name, Named(n, name) # NoInst
    PROVE  /\ Named(n, name) \in Inst
           /\ dom[n][Named(n, name)] # "absent" /\ NameOf[Named(n, name)] = name
<1> DEFINE found == {i \in Inst : dom[n][i] # "absent" /\ NameOf[i] = name}
<1>1. found # {} /\ Named(n, name) = CHOOSE i \in found : TRUE
    BY DEF Named
<1>2. Named(n, name) \in found
    BY <1>1
<1> QED
    BY <1>2

LEMMA NamedNone ==
    ASSUME NEW n, NEW i \in Inst, Named(n, NameOf[i]) = NoInst
    PROVE  dom[n][i] = "absent"
<1> DEFINE found == {j \in Inst : dom[n][j] # "absent" /\ NameOf[j] = NameOf[i]}
<1>1. SUFFICES ASSUME dom[n][i] # "absent" PROVE FALSE
    OBVIOUS
<1>2. i \in found
    BY <1>1
<1>3. Named(n, NameOf[i]) = CHOOSE j \in found : TRUE
    BY <1>2 DEF Named
<1>4. Named(n, NameOf[i]) \in found
    BY <1>2, <1>3
<1> QED
    BY <1>4, ConstantsAssumption

LEMMA PlacedNext ==
    ASSUME IInv, Placed, [Next]_vars
    PROVE  Placed'
<1> SUFFICES ASSUME NEW i \in Inst, Begun(i)'
             PROVE  row'[i].node \in Node
    BY DEF Placed, Begun
<1>1. CASE Begun(i)
    BY <1>1, RowLasts DEF Placed
<1>2. CASE ~Begun(i)
    <2>1. ~Exists(i) /\ row'[i] # row[i]
      BY <1>2 DEF Begun, Exists
    <2>2. PICK n \in Node : Insert(i, n)
      BY <2>1, AbsentStep
    <2> QED
      BY <2>2 DEF Insert, IInv, TypeOK
<1> QED
    BY <1>1, <1>2

LEMMA CommandOkNext ==
    ASSUME ContractInv, [Next]_vars, IInv', NEW q \in Req
    PROVE  CommandOk(q)'
<1>0. /\ IInv /\ CommandOk(q) /\ ReqOk(q) /\ TaskOk(q) /\ task[q] \in TaskType
      /\ req[q].op \in {"create", "start", "stop", "delete"} /\ TypeOK
    BY DEF ContractInv, IInv, TypeOK, ReqType
<1>1. task'[q].pc # "none" => req'[q].pc \in {"erase", "done"}
    <2> SUFFICES ASSUME task'[q].pc # "none", task[q].pc = "none"
                 PROVE  req'[q].pc \in {"erase", "done"}
      BY CommandLasts
    <2>1. Enqueue(q)
      BY <1>0, TaskStep, ExecuteMoves
    <2> QED
      BY <1>0, <2>1 DEF Enqueue, TypeOK, ReqType
<1>2. task'[q].pc \in {"announce", "prepare", "define"} => q \in Inst
    <2> SUFFICES ASSUME task'[q].pc \in {"announce", "prepare", "define"}, q \in Call
                 PROVE  FALSE
      BY DEF Req
    <2>1. req[q].op # "create" /\ task[q].pc \notin {"announce", "prepare", "define"}
      BY <1>0, ConstantsAssumption DEF ReqOk, CommandOk
    <2>2. CASE Enqueue(q)
      BY <1>0, <2>2 DEF Enqueue, TypeOK, TaskType
    <2>3. CASE task'[q] = Moved(task[q], "done")
      BY <1>0, <2>3 DEF Moved, TaskType
    <2>4. CASE task'[q] = Moved(task[q], FirstStep[req[q].op])
      BY <1>0, <2>1, <2>4 DEF Moved, TaskType, FirstStep
    <2>5. CASE Execute(q)
      BY <1>0, <2>1, <2>5, ExecuteMoves
    <2> QED
      BY <1>0, <2>1, <2>2, <2>3, <2>4, <2>5, TaskStep
<1>3. ASSUME NEW h \in Inst, task'[q].dom = h
      PROVE  /\ task'[q].pc # "none" /\ row'[h].status # "unborn"
             /\ NameOf[h] = NameOf[req'[q].target]
             /\ row'[h].node = row'[req'[q].target].node
    <2>1. /\ task[q].pc # "none" /\ Begun(h) /\ NameOf[h] = NameOf[Target(q)]
          /\ row[h].node = row[Target(q)].node
      <3>1. CASE task'[q].dom = task[q].dom
        BY <1>0, <1>3, <3>1 DEF CommandOk
      <3>2. CASE Define(q)
        <4>1. h = Target(q) /\ task[q].pc # "none"
          BY <1>0, <1>3, <3>2 DEF Define, TypeOK, TaskType
        <4> QED
          BY <1>0, <4>1 DEF ReqOk, TaskOk
      <3>3. CASE Lookup(q)
        <4>1. h = Named(Host(q), NameOf[Target(q)]) /\ task[q].pc # "none"
          BY <1>0, <1>3, <3>3 DEF Lookup, TypeOK, TaskType
        <4>2. h # NoInst
          BY <1>3, ConstantsAssumption
        <4>3. h \in Inst /\ dom[Host(q)][h] # "absent" /\ NameOf[h] = NameOf[Target(q)]
          BY <4>1, <4>2, NamedFound
        <4>4. Host(q) = row[Target(q)].node /\ Host(q) \in Node
          BY <1>0, <4>1 DEF ContractInv, Placed, ReqOk, TaskOk
        <4> QED
          BY <1>0, <4>1, <4>3, <4>4 DEF IInv, OnlyOnItsNode
      <3>4. CASE Enqueue(q)
        BY <1>0, <3>1, <3>4 DEF Enqueue, TypeOK, TaskType
      <3>5. CASE task'[q] = Moved(task[q], "done") \/ task'[q] = Moved(task[q], FirstStep[req[q].op])
        BY <1>0, <3>1, <3>5 DEF Moved, TaskType
      <3> QED
        BY <1>0, <3>1, <3>2, <3>3, <3>4, <3>5, TaskStep, ExecuteMoves
    <2>2. /\ Target(q) \in Inst /\ Begun(Target(q)) /\ req'[q].target = Target(q)
          /\ task'[q].pc # "none"
      BY <1>0, <2>1, CommandLasts DEF ReqOk, TaskOk, Target
    <2>3. /\ row'[h].status # "unborn" /\ row'[h].node = row[h].node
          /\ row'[Target(q)].node = row[Target(q)].node
      BY <1>0, <2>1, <2>2, RowLasts DEF Begun
    <2> QED
      BY <2>1, <2>2, <2>3
<1> QED
    BY <1>1, <1>2, <1>3 DEF CommandOk, Begun, Target

\* What a step does to a domain: its create makes it, or it goes, or loses its
\* definition, after a delete, or it is there as before.
LEMMA DomainStep ==
    ASSUME ContractInv, [Next]_vars, NEW n \in Node, NEW i \in Inst, dom'[n][i] # dom[n][i]
    PROVE  \/ dom[n][i] = "absent" /\ Define(i) /\ Host(i) = n
           \/ dom[n][i] # "absent" /\ dom'[n][i] \notin {"absent", "loose"}
           \/ dom[n][i] # "absent" /\ DeleteTold(i)
<1> DEFINE Goal == \/ dom[n][i] = "absent" /\ Define(i) /\ Host(i) = n
                   \/ dom[n][i] # "absent" /\ dom'[n][i] \notin {"absent", "loose"}
                   \/ dom[n][i] # "absent" /\ DeleteTold(i)
<1> SUFFICES Goal
    OBVIOUS
<1>0. IInv /\ TypeOK /\ dom \in [Node -> [Inst -> DomState]] /\ PlaceOk(n, i)
    BY DEF ContractInv, IInv, TypeOK
<1>1. ASSUME NEW m, NEW j, NEW st, SetDom(m, j, st)
      PROVE  m = n /\ j = i /\ dom'[n][i] = st
    BY <1>0, <1>1 DEF SetDom
<1>2. dom[n][i] = "loose" => Goal
    BY <1>0 DEF PlaceOk
<1>3. ASSUME NEW r \in Req, Execute(r) PROVE Goal
    <2>0. CommandOk(r) /\ ReqOk(r) /\ TaskOk(r)
      BY <1>0 DEF ContractInv, IInv
    <2>1. CASE Define(r)
      <3>1. r \in Inst /\ Target(r) = r
        BY <2>0, <2>1 DEF CommandOk, ReqOk, Define
      <3>2. Host(r) = n /\ r = i
        BY <1>1, <2>1, <3>1 DEF Define
      <3>3. Named(n, NameOf[i]) = NoInst
        BY <2>1, <3>1, <3>2 DEF Define
      <3> QED
        BY <2>1, <3>2, <3>3, NamedNone
    <2>2. CASE Boot(r)
      BY <1>1, <2>2 DEF Boot
    <2>3. CASE Shutdown(r) \/ Destroy(r)
      <3>1. PICK st \in {"loose", "closing", "absent", "off"} :
                /\ SetDom(Host(r), task[r].dom, st)
                /\ dom[Host(r)][task[r].dom] \in Active
                /\ st \in {"loose", "absent"} => dom[Host(r)][task[r].dom] = "loose"
        BY <2>3 DEF Shutdown, Destroy
      <3>2. Host(r) = n /\ task[r].dom = i /\ dom'[n][i] = st
        BY <1>1, <3>1
      <3> QED
        BY <1>2, <3>1, <3>2 DEF Active
    <2>4. CASE Undefine(r)
      <3>1. PICK st \in {"loose", "absent"} :
                /\ SetDom(Host(r), task[r].dom, st)
                /\ dom[Host(r)][task[r].dom] \in {"on", "closing", "off"}
        BY <2>4 DEF Undefine
      <3>2. Host(r) = n /\ task[r].dom = i
        BY <1>1, <3>1
      <3>3. Target(r) \in Told
        BY <2>0, <2>4 DEF TaskOk, ReqOk, Undefine, Told, Req
      <3>4. NameOf[i] = NameOf[Target(r)] /\ row[i].node = row[Target(r)].node
        BY <2>0, <3>2 DEF CommandOk
      <3> QED
        BY <3>1, <3>2, <3>3, <3>4 DEF DeleteTold
    <2> QED
      BY <1>3, <2>1, <2>2, <2>3, <2>4 DEF Execute, Announce, SayRunning, SayStopped, SayError,
         Report, PrepareFails, RefuseImage, NoMac, Provision, DefineFails, EnsureBridge, Lookup,
         BootFails, Poll, Inspect, Wipe
<1>4. ASSUME NEW m \in Node, NodeReboot(m) PROVE Goal
    <2> DEFINE d == [j \in Inst |-> IF dom[m][j] \in {"absent", "loose"} THEN "absent" ELSE "off"]
    <2>1. dom' = [dom EXCEPT ![m] = d]
      BY <1>4 DEF NodeReboot
    <2>2. d[i] = IF dom[m][i] \in {"absent", "loose"} THEN "absent" ELSE "off"
      OBVIOUS
    <2> HIDE DEF d
    <2>3. m = n /\ dom'[n][i] = d[i]
      BY <1>0, <2>1
    <2> QED
      BY <1>2, <2>2, <2>3
<1>5. ASSUME NEW m \in Node, NEW j \in Inst, GuestHalts(m, j) \/ GuestPowersOff(m, j)
      PROVE  Goal
    <2>1. PICK st \in {"off", "absent"} :
              /\ SetDom(m, j, st) /\ dom[m][j] # "absent"
              /\ st = "absent" => dom[m][j] = "loose"
      BY <1>5 DEF GuestHalts, GuestPowersOff
    <2>2. m = n /\ j = i /\ dom'[n][i] = st
      BY <1>1, <2>1
    <2> QED
      BY <1>2, <2>1, <2>2
<1> HIDE DEF Goal
<1>6. ASSUME NEW r \in Req, Serve(r) PROVE Goal
    BY <1>6 DEF Serve, ReadAgain, Write, Enqueue, Erase
<1>7. ASSUME NEW m \in Node, Deliver(m) \/ Reconcile(m) PROVE Goal
    BY <1>7 DEF Deliver, Reconcile, Snapshot, Resync, Resynced
<1>8. CASE Environment
    BY <1>4, <1>5, <1>8 DEF Environment, Cancel, LoseBatch, AgentCrash, ControllerCrash
<1>9. CASE ClientStep
    BY <1>9 DEF ClientStep, Insert, Begin, BeginDelete
<1>10. ASSUME NEW j \in Inst, SetIP(j) PROVE Goal
    BY <1>10 DEF SetIP
<1> QED
    BY <1>3, <1>6, <1>7, <1>8, <1>9, <1>10 DEF Next, vars

\* A directory is made by the create of its instance.
LEMMA FilesStep ==
    ASSUME ContractInv, [Next]_vars, NEW n \in Node, NEW i \in disk'[n] \ disk[n]
    PROVE  /\ i \in Inst /\ Host(i) = n
           /\ Provision(i) \/ PrepareFails(i)
<1> DEFINE Goal == /\ i \in Inst /\ Host(i) = n
                   /\ Provision(i) \/ PrepareFails(i)
<1> SUFFICES Goal
    OBVIOUS
<1>0. IInv /\ TypeOK /\ disk \in [Node -> SUBSET Inst]
    BY DEF ContractInv, IInv, TypeOK
<1>1. ASSUME NEW r \in Req, Execute(r) PROVE Goal
    <2>0. CommandOk(r) /\ ReqOk(r)
      BY <1>0 DEF ContractInv, IInv
    <2>1. CASE PrepareFails(r) \/ Provision(r)
      <3>1. r \in Inst /\ Target(r) = r
        BY <2>0, <2>1 DEF CommandOk, ReqOk, PrepareFails, Provision
      <3>2. Host(r) = n /\ r = i
        BY <1>0, <2>1, <3>1 DEF PrepareFails, Provision
      <3> QED
        BY <2>1, <3>1, <3>2
    <2>2. CASE Wipe(r)
      BY <1>0, <2>2 DEF Wipe
    <2> QED
      BY <1>1, <2>1, <2>2 DEF Execute, Announce, SayRunning, SayStopped, SayError,
         Report, RefuseImage, NoMac, Define, DefineFails, EnsureBridge, Lookup, Boot,
         BootFails, Shutdown, Poll, Inspect, Destroy, Undefine
<1> HIDE DEF Goal
<1>2. ASSUME NEW r \in Req, Serve(r) PROVE Goal
    BY <1>2 DEF Serve, ReadAgain, Write, Enqueue, Erase
<1>3. ASSUME NEW m \in Node, Deliver(m) \/ Reconcile(m) PROVE Goal
    BY <1>3 DEF Deliver, Reconcile, Snapshot, Resync, Resynced
<1>4. CASE Environment
    BY <1>4 DEF Environment, Cancel, LoseBatch, AgentCrash, NodeReboot, GuestHalts,
       GuestPowersOff, ControllerCrash
<1>5. CASE ClientStep
    BY <1>5 DEF ClientStep, Insert, Begin, BeginDelete
<1>6. ASSUME NEW j \in Inst, SetIP(j) PROVE Goal
    BY <1>6 DEF SetIP
<1> QED
    BY <1>1, <1>2, <1>3, <1>4, <1>5, <1>6 DEF Next, vars

LEMMA PlaceOkNext ==
    ASSUME ContractInv, [Next]_vars, NEW n \in Node, NEW i \in Inst
    PROVE  PlaceOk(n, i)'
<1>0. IInv /\ TypeOK /\ PlaceOk(n, i) /\ i \in Req /\ task[i] \in TaskType /\ task \in [Req -> TaskType]
    BY DEF ContractInv, IInv, TypeOK, Req
<1>1. dom'[n][i] # "absent" => ~ToDefine(i)'
    <2> SUFFICES ASSUME dom'[n][i] # "absent", dom[n][i] = "absent"
                 PROVE  ~ToDefine(i)'
      BY <1>0, NotToCome DEF PlaceOk
    <2>1. Define(i)
      BY DomainStep
    <2>2. task'[i].pc = "boot"
      BY <1>0, <2>1 DEF Define, TaskType
    <2> QED
      BY <2>2 DEF ToDefine
<1>2. i \in disk'[n] => ~ToProvision(i)'
    <2> SUFFICES ASSUME i \in disk'[n], i \notin disk[n]
                 PROVE  ~ToProvision(i)'
      BY <1>0, NotToCome DEF PlaceOk
    <2>1. Provision(i) \/ PrepareFails(i)
      BY FilesStep
    <2>2. task'[i].pc \in {"define", "sayError"}
      BY <1>0, <2>1 DEF Provision, PrepareFails, Goto, TaskType
    <2> QED
      BY <2>2 DEF ToProvision, ToDefine
<1>3. dom'[n][i] = "loose" => DeleteTold(i)'
    <2> SUFFICES ASSUME dom'[n][i] = "loose"
                 PROVE  DeleteTold(i)'
      OBVIOUS
    <2>1. dom[n][i] # "absent"
      <3> SUFFICES ASSUME dom[n][i] = "absent" PROVE FALSE
        OBVIOUS
      <3>1. Define(i) /\ Host(i) = n
        BY DomainStep
      <3>2. Target(i) = i
        BY <1>0 DEF IInv, ReqOk
      <3>3. dom'[n][i] = "off"
        BY <1>0, <3>1, <3>2 DEF Define, SetDom, TypeOK
      <3> QED
        BY <3>3
    <2>2. DeleteTold(i)
      BY <1>0, <2>1, DomainStep DEF PlaceOk
    <2>3. Begun(i)
      BY <1>0, <2>1 DEF IInv, OnlyOnItsNode
    <2> QED
      BY <2>2, <2>3, DeleteToldLasts
<1> QED
    BY <1>1, <1>2, <1>3 DEF PlaceOk

LEMMA InitContractInv == Init => ContractInv
<1> SUFFICES ASSUME Init PROVE ContractInv
    OBVIOUS
<1>1. \A r \in Req : CommandOk(r)
    BY ConstantsAssumption DEF Init, CommandOk
<1>2. \A n \in Node, i \in Inst : PlaceOk(n, i)
    BY DEF Init, PlaceOk
<1>3. Placed
    BY DEF Init, Placed, Begun
<1> QED
    BY <1>1, <1>2, <1>3, InitIInv DEF ContractInv

LEMMA NextContractInv == ContractInv /\ [Next]_vars => ContractInv'
<1> SUFFICES ASSUME ContractInv, [Next]_vars PROVE ContractInv'
    OBVIOUS
<1>1. IInv'
    BY NextIInv DEF ContractInv
<1> QED
    BY <1>1, PlacedNext, CommandOkNext, PlaceOkNext DEF ContractInv

LEMMA ContractInvariant == Spec => []ContractInv
BY InitContractInv, NextContractInv, PTL DEF Spec

-----------------------------------------------------------------------------
(* The steps of the contract *)

\* An instance that is anywhere has begun, at home where it is.
LEMMA AtHome ==
    ASSUME ContractInv, NEW i \in Inst, NEW n \in Node,
           dom[n][i] # "absent" \/ i \in disk[n]
    PROVE  Begun(i) /\ row[i].node = n /\ HomeOf(i) = n /\ HomeOf(i) # NoNode
<1>1. Begun(i) /\ row[i].node = n
    BY DEF ContractInv, IInv, OnlyOnItsNode
<1> QED
    BY <1>1, ConstantsAssumption DEF HomeOf

LEMMA HomeStep ==
    ASSUME ContractInv, [Next]_vars, NEW i \in Inst
    PROVE  HomeOf(i) = NoNode \/ HomeOf(i)' = HomeOf(i)
BY RowLasts DEF ContractInv, HomeOf, Begun

\* Who was told of a delete for a namesake is known by its home as well.
LEMMA NamesakeTold ==
    ASSUME ContractInv, NEW i \in Inst, Begun(i), DeleteTold(i)
    PROVE  \E j \in Told : NameOf[j] = NameOf[i] /\ HomeOf(j) = HomeOf(i)
<1>1. PICK j \in Told : NameOf[j] = NameOf[i] /\ row[j].node = row[i].node
    BY DEF DeleteTold
<1>2. Begun(j)
    BY <1>1 DEF Told, ContractInv, IInv, ReqOk, TaskOk, Req
<1> QED
    BY <1>1, <1>2 DEF HomeOf

\* A domain that is made is the only one of its name at its home.
LEMMA MadeAlone ==
    ASSUME ContractInv, [Next]_vars, NEW i \in Inst, Define(i), Host(i) \in Node,
           NEW j \in Inst, j # i, NameOf[j] = NameOf[i], HomeOf(j) = HomeOf(i),
           NEW m \in Node, dom'[m][j] # "absent"
    PROVE  FALSE
<1>0. /\ IInv /\ dom \in [Node -> [Inst -> DomState]] /\ i \in Req /\ ReqOk(i) /\ TaskOk(i)
    BY DEF ContractInv, IInv, TypeOK, Req
<1>1. Target(i) = i /\ Begun(i) /\ HomeOf(i) = Host(i)
    BY <1>0 DEF ReqOk, TaskOk, Define, HomeOf
<1>2. dom'[m][j] = dom[m][j]
    BY <1>0, <1>1 DEF Define, SetDom
<1>3. m = Host(i)
    BY <1>1, <1>2, AtHome
<1>4. Named(Host(i), NameOf[j]) = NoInst
    BY <1>1 DEF Define
<1> QED
    BY <1>2, <1>3, <1>4, NamedNone

LEMMA DomainContract ==
    ASSUME ContractInv, [Next]_vars, NEW i \in Inst
    PROVE  \/ DomainOf(i)' = DomainOf(i)
           \/ DomainOf(i) = "early" /\ DomainOf(i)' = "past"
           \/ /\ DomainOf(i) = "early" /\ DomainOf(i)' = "there"
              /\ HomeOf(i) # NoNode
              /\ \A j \in Inst \ {i} :
                    NameOf[j] = NameOf[i] /\ HomeOf(j) = HomeOf(i) => DomainOf(j)' # "there"
           \/ /\ DomainOf(i) = "there" /\ DomainOf(i)' = "past"
              /\ \E j \in Told : NameOf[j] = NameOf[i] /\ HomeOf(j) = HomeOf(i)
<1> DEFINE there == \E n \in Node : dom[n][i] # "absent"
<1>0. IInv /\ \A n \in Node : PlaceOk(n, i)
    BY DEF ContractInv
<1>1. CASE there /\ there'
    BY <1>1 DEF DomainOf, Progress
<1>2. CASE there /\ ~there'
    <2>1. PICK n \in Node : dom[n][i] # "absent"
      BY <1>2
    <2>2. dom'[n][i] = "absent"
      BY <1>2
    <2>3. DeleteTold(i)
      BY <2>1, <2>2, DomainStep
    <2>4. Begun(i)
      BY <2>1, AtHome
    <2>5. ~ToDefine(i)'
      BY <1>0, <2>1, NotToCome DEF PlaceOk
    <2>6. DomainOf(i) = "there" /\ DomainOf(i)' = "past"
      BY <1>2, <2>5 DEF DomainOf, Progress
    <2> QED
      BY <2>3, <2>4, <2>6, NamesakeTold
<1>3. CASE ~there /\ there'
    <2>1. PICK n \in Node : dom'[n][i] # "absent"
      BY <1>3
    <2>2. dom[n][i] = "absent"
      BY <1>3, <2>1
    <2>3. Define(i) /\ Host(i) = n
      BY <2>1, <2>2, DomainStep
    <2>4. DomainOf(i) = "early" /\ DomainOf(i)' = "there"
      BY <1>3, <2>3 DEF DomainOf, Progress, Define, ToDefine
    <2>5. ReqOk(i) /\ TaskOk(i) /\ task[i].pc = "define"
      BY <1>0, <2>3 DEF IInv, Req, Define
    <2>6. HomeOf(i) # NoNode
      BY <2>3, <2>5, ConstantsAssumption DEF ReqOk, TaskOk, HomeOf
    <2>7. ASSUME NEW j \in Inst \ {i}, NameOf[j] = NameOf[i], HomeOf(j) = HomeOf(i)
          PROVE  DomainOf(j)' # "there"
      BY <2>3, <2>7, MadeAlone DEF DomainOf, Progress
    <2> QED
      BY <2>4, <2>6, <2>7
<1>4. CASE ~there /\ ~there'
    BY <1>4, NotToCome DEF DomainOf, Progress
<1> QED
    BY <1>1, <1>2, <1>3, <1>4

LEMMA FilesContract ==
    ASSUME ContractInv, [Next]_vars, NEW i \in Inst
    PROVE  \/ DiskOf(i)' = DiskOf(i)
           \/ DiskOf(i) = "early" /\ DiskOf(i)' = "past"
           \/ DiskOf(i) = "early" /\ DiskOf(i)' = "there" /\ HomeOf(i) # NoNode
           \/ DiskOf(i) = "there" /\ DiskOf(i)' = "past" /\ i \in Told
<1> DEFINE there == \E n \in Node : i \in disk[n]
<1>0. IInv /\ \A n \in Node : PlaceOk(n, i)
    BY DEF ContractInv
<1>1. CASE there /\ there'
    BY <1>1 DEF DiskOf, Progress
<1>2. CASE there /\ ~there'
    <2>1. PICK n \in Node : i \in disk[n] /\ i \notin disk'[n]
      BY <1>2
    <2>2. i \in Told
      BY <1>0, <2>1, WipeStep
    <2>3. ~ToProvision(i)'
      BY <1>0, <2>1, NotToCome DEF PlaceOk
    <2> QED
      BY <1>2, <2>2, <2>3 DEF DiskOf, Progress
<1>3. CASE ~there /\ there'
    <2>1. PICK n \in Node : i \in disk'[n] /\ i \notin disk[n]
      BY <1>3
    <2>2. Host(i) = n /\ task[i].pc = "prepare"
      BY <2>1, FilesStep DEF Provision, PrepareFails
    <2>3. ReqOk(i) /\ TaskOk(i)
      BY <1>0 DEF IInv, Req
    <2>4. HomeOf(i) # NoNode
      BY <2>2, <2>3, ConstantsAssumption DEF ReqOk, TaskOk, HomeOf
    <2> QED
      BY <1>3, <2>2, <2>4 DEF DiskOf, Progress, ToProvision, ToDefine
<1>4. CASE ~there /\ ~there'
    BY <1>4, NotToCome DEF DiskOf, Progress
<1> QED
    BY <1>1, <1>2, <1>3, <1>4

LEMMA ErasedContract ==
    ASSUME ContractInv, [Next]_vars
    PROVE  Erased \subseteq Erased' /\ Erased' \ Erased \subseteq Told
<1> SUFFICES ASSUME NEW i \in Inst
             PROVE  /\ row[i].status = "gone" => row'[i].status = "gone"
                    /\ row'[i].status = "gone" => row[i].status = "gone" \/ i \in Told
    BY DEF Erased
<1>0. IInv
    BY DEF ContractInv
<1>1. CASE Begun(i)
    BY <1>0, <1>1, RowLasts, ErasedStep
<1>2. CASE ~Begun(i)
    <2>1. row'[i] = row[i] \/ \E n \in Node : Insert(i, n)
      BY <1>0, <1>2, AbsentStep DEF Begun, Exists
    <2>2. row'[i].status # "gone"
      BY <1>0, <1>2, <2>1 DEF Insert, IInv, TypeOK, Begun
    <2> QED
      BY <1>2, <2>2 DEF Begun
<1> QED
    BY <1>1, <1>2

LEMMA ContractInit == Init => Contract!Init
<1> SUFFICES ASSUME Init PROVE Contract!Init
    OBVIOUS
<1>1. ASSUME NEW i \in Inst
      PROVE  HomeOf(i) = NoNode /\ DomainOf(i) = "early" /\ DiskOf(i) = "early"
    BY DEF Init, HomeOf, Begun, DomainOf, DiskOf, Progress, ToDefine, ToProvision, Req
<1>2. Told = {} /\ Erased = {}
    BY DEF Init, Told, Erased, Req
<1> QED
    BY <1>1, <1>2 DEF Contract!Init

LEMMA ContractStep == ContractInv /\ [Next]_vars => [Contract!Next]_Contract!contractVars
<1> SUFFICES ASSUME ContractInv, [Next]_vars PROVE Contract!Next
    OBVIOUS
<1>1. ContractInv'
    BY NextContractInv
<1>2. ASSUME NEW i \in Inst
      PROVE  /\ HomeOf(i)' \in Node \cup {NoNode}
             /\ DomainOf(i)' \in Contract!Stage /\ DiskOf(i)' \in Contract!Stage
    <2>1. HomeOf(i)' \in Node \cup {NoNode}
      BY <1>1 DEF ContractInv, Placed, HomeOf, Begun
    <2> QED
      BY <2>1 DEF DomainOf, DiskOf, Progress, Contract!Stage
<1>3. ASSUME NEW i \in Inst PROVE Contract!HomeKept(i)
    BY HomeStep DEF Contract!HomeKept
<1>4. ASSUME NEW i \in Inst PROVE Contract!DomainStep(i)
    BY DomainContract
    DEF Contract!DomainStep, Contract!GivenUp, Contract!DomainMade, Contract!DomainGone,
        Contract!Namesake, Told
<1>5. ASSUME NEW i \in Inst PROVE Contract!FilesStep(i)
    BY FilesContract
    DEF Contract!FilesStep, Contract!GivenUp, Contract!FilesMade, Contract!FilesGone
<1>6. Told \subseteq Told' /\ Told' \subseteq Inst
    BY ToldLasts DEF Told
<1> QED
    BY <1>2, <1>3, <1>4, <1>5, <1>6, ErasedContract DEF Contract!Next

(***************************************************************************)
(* InstanceLifecycle implements InstanceContract, for any nodes, instances *)
(* and names, any number of requests that overlap in any way, and any      *)
(* number of lost commands and reports, crashes, reboots and guests that   *)
(* power off: every step is one of the contract.                           *)
(***************************************************************************)
THEOREM LifecycleImplementsContract == Spec => ImplementsContract
BY ContractInvariant, ContractInit, ContractStep, PTL
DEF Spec, ImplementsContract, Contract!Spec

\* What the contract's own steps preserve.
LEMMA NamesApart ==
    ASSUME Contract!PlacedFirst, Contract!OneOfAName, [Contract!Next]_Contract!contractVars
    PROVE  Contract!PlacedFirst' /\ Contract!OneOfAName'
<1>1. CASE UNCHANGED Contract!contractVars
    BY <1>1 DEF Contract!contractVars, Contract!PlacedFirst, Contract!OneOfAName, Contract!Namesake
<1>2. CASE Contract!Next
    <2>1. ASSUME NEW i \in Inst, DomainOf(i)' = "there"
          PROVE  /\ HomeOf(i) # NoNode /\ HomeOf(i)' = HomeOf(i)
                 /\ \/ DomainOf(i) = "there"
                    \/ \A j \in Inst \ {i} :
                          NameOf[j] = NameOf[i] /\ HomeOf(j) = HomeOf(i) => DomainOf(j)' # "there"
      BY <1>2, <2>1 DEF Contract!Next, Contract!PlacedFirst, Contract!HomeKept,
         Contract!DomainStep, Contract!GivenUp, Contract!DomainMade, Contract!DomainGone,
         Contract!Namesake
    <2>2. Contract!PlacedFirst'
      BY <2>1 DEF Contract!PlacedFirst
    <2>3. ASSUME NEW i \in Inst, NEW j \in Inst, DomainOf(i)' = "there", DomainOf(j)' = "there",
                 NameOf[j] = NameOf[i], HomeOf(j)' = HomeOf(i)'
          PROVE  i = j
      BY <2>1, <2>3 DEF Contract!OneOfAName, Contract!Namesake
    <2> QED
      BY <2>2, <2>3 DEF Contract!OneOfAName, Contract!Namesake
<1> QED
    BY <1>1, <1>2

\* Whatever overlaps, fails or crashes, libvirt has one domain of a name on a
\* node at most: that is so of every implementation of the contract.
THEOREM OneDomainOfAName == Spec => []Contract!OneOfAName
<1>1. Contract!Init => Contract!PlacedFirst /\ Contract!OneOfAName
    BY DEF Contract!Init, Contract!PlacedFirst, Contract!OneOfAName
<1>2. Contract!PlacedFirst /\ Contract!OneOfAName /\ [Contract!Next]_Contract!contractVars
          => Contract!PlacedFirst' /\ Contract!OneOfAName'
    BY NamesApart
<1> QED
    BY <1>1, <1>2, LifecycleImplementsContract, PTL DEF ImplementsContract, Contract!Spec

-----------------------------------------------------------------------------
(* Who may lose an address *)

\* a start, stop or delete request has named the instance
NamedByCall(i) == \E r \in Call : req[r].pc # "idle" /\ Target(r) = i

\* InstanceDetail.tsx:180, for the instances nobody has touched: one that runs
\* has an address.
UntouchedHasAddress ==
    \A i \in Inst : ~NamedByCall(i) /\ row[i].status = "running" => row[i].ip

\* The address is written before the command is enqueued, and only a command
\* makes what an agent reports as running.
AddressOk(i) ==
    /\ task[i].pc # "none" \/ req[i].pc = "enqueue" => row[i].ip
    /\ row[i].status = "running" => task[i].pc # "none"
    /\ \A n \in Node : sync[n].view[i] # "none" => task[i].pc # "none"

AddressInv ==
    /\ ContractInv
    /\ \A i \in Inst : ~NamedByCall(i) => AddressOk(i)

LEMMA CallLasts ==
    ASSUME IInv, [Next]_vars, NEW q \in Call, req[q].pc # "idle"
    PROVE  req'[q].pc # "idle" /\ req'[q].target = req[q].target
<1> DEFINE Goal == req'[q].pc # "idle" /\ req'[q].target = req[q].target
<1> SUFFICES Goal
    OBVIOUS
<1>0. TypeOK /\ req \in [Req -> ReqType] /\ q \in Req /\ q \notin Inst /\ req[q] \in ReqType
    BY ConstantsAssumption DEF IInv, TypeOK, Req
<1>1. req'[q] = req[q] => Goal
    OBVIOUS
<1>2. req'[q] = Moved(req[q], "done") => Goal
    BY <1>0, MovedReq
<1>3. ASSUME NEW r \in Req, ReadAgain(r) \/ Write(r) \/ Enqueue(r) \/ Erase(r) \/ Cancel(r)
      PROVE  Goal
    <2>1. CASE r = q
      <3>1. CASE ReadAgain(r)
        <4>1. \/ \E n : req' = [req EXCEPT ![r].pc = "write", ![r].node = n]
              \/ req' = [req EXCEPT ![r].pc = "done"]
          BY <3>1 DEF ReadAgain
        <4> QED
          BY <1>0, <2>1, <4>1 DEF ReqType
      <3>2. CASE Cancel(r)
        BY <1>0, <2>1, <3>2 DEF Cancel, ReqType
      <3>3. CASE Write(r) \/ Enqueue(r) \/ Erase(r)
        <4>1. PICK pc \in {"enqueue", "done", "erase"} : req' = [req EXCEPT ![r].pc = pc]
          BY <3>3 DEF Write, Enqueue, Erase
        <4> QED
          BY <1>0, <2>1, <4>1 DEF ReqType
      <3> QED
        BY <1>3, <3>1, <3>2, <3>3
    <2>2. CASE r # q
      BY <1>0, <1>1, <1>3, <2>2 DEF ReadAgain, Write, Enqueue, Erase, Cancel
    <2> QED
      BY <2>1, <2>2
<1> HIDE DEF Goal
<1>4. ASSUME NEW i \in Inst, NEW n, Insert(i, n) \/ SetIP(i) PROVE Goal
    BY <1>0, <1>1, <1>4 DEF Insert, SetIP
<1>5. ASSUME NEW r \in Req, Execute(r) PROVE Goal
    BY <1>1, <1>5, ExecuteExecuted DEF Executed
<1>6. ASSUME NEW n \in Node, Reconcile(n) \/ Deliver(n) PROVE Goal
    BY <1>1, <1>6 DEF Reconcile, Snapshot, Resync, Resynced, Deliver
<1>7. CASE Environment
    <2>1. ControllerCrash => Goal
      BY <1>0, <1>1, <1>2 DEF ControllerCrash
    <2> QED
      BY <1>1, <1>3, <1>7, <2>1 DEF Environment, LoseBatch, AgentCrash, NodeReboot,
         GuestHalts, GuestPowersOff
<1>8. CASE ClientStep
    <2>1. ASSUME NEW r \in Call, NEW i \in Inst, NEW op, Begin(r, op, i) \/ BeginDelete(r, i)
          PROVE  Goal
      <3>1. r # q
        BY <2>1 DEF Begin, BeginDelete
      <3> QED
        BY <1>0, <1>1, <2>1, <3>1 DEF Begin, BeginDelete
    <2> QED
      BY <1>4, <1>8, <2>1 DEF ClientStep
<1> QED
    BY <1>1, <1>3, <1>4, <1>5, <1>6, <1>7, <1>8 DEF Next, vars, Serve

LEMMA NamedLasts ==
    ASSUME IInv, [Next]_vars, NEW i \in Inst, NamedByCall(i)
    PROVE  NamedByCall(i)'
BY CallLasts DEF NamedByCall, Target

\* What becomes of the row of an instance nobody has touched.
LEMMA UntouchedRow ==
    ASSUME AddressInv, [Next]_vars, NEW i \in Inst, ~NamedByCall(i)
    PROVE  \/ row'[i].ip = row[i].ip /\ row'[i].status # "running"
           \/ row'[i].ip = row[i].ip /\ row[i].status = "running"
           \/ (row'[i].ip = row[i].ip \/ row'[i].ip) /\ task[i].pc # "none"
           \/ \E n \in Node : Insert(i, n)
           \/ SetIP(i) /\ row'[i].ip /\ row'[i].status = "pending"
<1> DEFINE Goal == \/ row'[i].ip = row[i].ip /\ row'[i].status # "running"
                   \/ row'[i].ip = row[i].ip /\ row[i].status = "running"
                   \/ (row'[i].ip = row[i].ip \/ row'[i].ip) /\ task[i].pc # "none"
                   \/ \E n \in Node : Insert(i, n)
                   \/ SetIP(i) /\ row'[i].ip /\ row'[i].status = "pending"
<1> SUFFICES Goal
    OBVIOUS
<1>0. IInv /\ TypeOK /\ row \in [Inst -> RowType] /\ row[i] \in RowType /\ AddressOk(i)
    BY DEF AddressInv, ContractInv, IInv, TypeOK
<1>1. row'[i] = row[i] => Goal
    OBVIOUS
<1>2. ASSUME NEW r \in Call, req[r].pc # "idle" PROVE Target(r) # i
    BY <1>2 DEF NamedByCall
<1>3. ASSUME NEW j, NEW st, NEW ip, SetRow(j, st, ip)
      PROVE  row'[i] = row[i] \/ (j = i /\ row'[i].status = st /\ row'[i].ip = ip)
    BY <1>0, <1>3 DEF SetRow, RowType
<1>4. ASSUME NEW r \in Req, Execute(r) PROVE Goal
    <2>0. ReqOk(r) /\ TaskOk(r) /\ task[r].pc # "none"
      BY <1>0, <1>4, ExecuteMoves DEF IInv
    <2>1. ASSUME NEW st, NEW ip \in BOOLEAN, NEW next, Report(r, st, ip, next) PROVE Goal
      <3>1. SetRow(Target(r), st, row[Target(r)].ip \/ ip) \/ UNCHANGED row
        BY <2>1 DEF Report
      <3>2. CASE Target(r) = i
        <4>1. r = i
          BY <1>2, <2>0, <3>2 DEF ReqOk, TaskOk, Req
        <4>2. row'[i] = row[i] \/ row'[i].ip = (row[i].ip \/ ip)
          BY <1>3, <3>1, <3>2
        <4>3. row'[i].ip = row[i].ip \/ row'[i].ip
          BY <1>0, <4>2 DEF RowType
        <4> QED
          BY <2>0, <4>1, <4>3
      <3>3. CASE Target(r) # i
        BY <1>1, <1>3, <3>1, <3>3
      <3> QED
        BY <3>2, <3>3
    <2>2. CASE Announce(r) \/ SayRunning(r) \/ SayStopped(r) \/ SayError(r)
      <3>1. (req[r].op = "create") \in BOOLEAN
        OBVIOUS
      <3> QED
        BY <2>1, <2>2, <3>1 DEF Announce, SayRunning, SayStopped, SayError
    <2> QED
      BY <1>1, <1>4, <2>2 DEF Execute, PrepareFails, RefuseImage, NoMac, Provision, Define, DefineFails,
         EnsureBridge, Lookup, Boot, BootFails, Shutdown, Poll, Inspect, Destroy, Undefine, Wipe
<1>5. ASSUME NEW j \in Inst, NEW n \in Node, Insert(j, n) PROVE Goal
    BY <1>0, <1>1, <1>5 DEF Insert
<1>6. ASSUME NEW j \in Inst, SetIP(j) PROVE Goal
    <2>1. SetRow(j, "pending", TRUE) \/ UNCHANGED row
      BY <1>6 DEF SetIP
    <2>2. row'[i] = row[i] \/ (j = i /\ row'[i].status = "pending" /\ row'[i].ip = TRUE)
      BY <1>3, <2>1
    <2> QED
      BY <1>1, <1>6, <2>2
<1>7. ASSUME NEW r \in Req, Serve(r) PROVE Goal
    <2>0. ReqOk(r)
      BY <1>0 DEF IInv
    <2>1. CASE Write(r)
      <3>1. r \in Call /\ Target(r) # i
        BY <1>2, <2>0, <2>1 DEF ReqOk, Write, Req
      <3>2. SetRow(Target(r), StatusOf[req[r].op], FALSE) \/ UNCHANGED row
        BY <2>1 DEF Write
      <3> QED
        BY <1>1, <1>3, <3>1, <3>2
    <2>2. CASE Erase(r)
      <3>1. r \in Call /\ Target(r) # i
        BY <1>2, <2>0, <2>2 DEF ReqOk, Erase, Req
      <3> QED
        BY <1>0, <1>1, <2>2, <3>1 DEF Erase
    <2> QED
      BY <1>1, <1>7, <2>1, <2>2 DEF Serve, ReadAgain, Enqueue
<1>8. ASSUME NEW n \in Node, Reconcile(n) PROVE Goal
    <2>1. ASSUME NEW j \in Inst, Resync(n, j) PROVE Goal
      <3>1. SetRow(j, sync[n].view[j], row[j].ip) \/ UNCHANGED row
        BY <2>1 DEF Resync
      <3>2. row'[i] = row[i] \/ (j = i /\ row'[i].ip = row[i].ip)
        BY <1>3, <3>1
      <3>3. j = i => task[i].pc # "none"
        BY <1>0, <2>1 DEF AddressOk, Resync
      <3> QED
        BY <1>1, <3>2, <3>3
    <2> QED
      BY <1>1, <1>8, <2>1 DEF Reconcile, Snapshot, Resynced
<1> HIDE DEF Goal
<1>9. ASSUME NEW n \in Node, Deliver(n) PROVE Goal
    BY <1>1, <1>9 DEF Deliver
<1>10. CASE Environment
    BY <1>1, <1>10 DEF Environment, Cancel, LoseBatch, AgentCrash, NodeReboot, GuestHalts,
       GuestPowersOff, ControllerCrash
<1>11. CASE ClientStep
    BY <1>1, <1>5, <1>11 DEF ClientStep, Begin, BeginDelete
<1> QED
    BY <1>1, <1>4, <1>6, <1>7, <1>8, <1>9, <1>10, <1>11 DEF Next, vars

LEMMA BecomesEnqueue ==
    ASSUME IInv, [Next]_vars, NEW i \in Inst, req'[i].pc = "enqueue", req[i].pc # "enqueue"
    PROVE  SetIP(i) /\ req[i].ctx = "ok"
<1> DEFINE Goal == SetIP(i) /\ req[i].ctx = "ok"
<1> SUFFICES Goal
    OBVIOUS
<1>0. /\ TypeOK /\ req \in [Req -> ReqType] /\ i \in Req /\ i \notin Call
      /\ ReqOk(i) /\ req[i] \in ReqType
    BY ConstantsAssumption DEF IInv, TypeOK, Req
<1>1. req'[i] # req[i]
    OBVIOUS
<1>2. ASSUME NEW j \in Inst, SetIP(j) PROVE Goal
    <2>1. j = i
      BY <1>0, <1>1, <1>2 DEF SetIP
    <2> QED
      BY <1>0, <1>2, <2>1 DEF SetIP, ReqType
<1>3. ASSUME NEW j \in Inst, NEW n \in Node, Insert(j, n) PROVE FALSE
    <2>1. j = i
      BY <1>0, <1>1, <1>3 DEF Insert
    <2> QED
      BY <1>0, <1>3, <2>1 DEF Insert, ReqType
<1>4. ASSUME NEW r \in Req, ReadAgain(r) \/ Write(r) \/ Enqueue(r) \/ Erase(r) \/ Cancel(r)
      PROVE  FALSE
    <2>1. r = i
      BY <1>0, <1>1, <1>4 DEF ReadAgain, Write, Enqueue, Erase, Cancel
    <2>2. ~Write(r) /\ ~ReadAgain(r)
      BY <1>0, <2>1 DEF ReqOk, Write, ReadAgain
    <2> QED
      BY <1>0, <1>4, <2>1, <2>2 DEF Enqueue, Erase, Cancel, ReqType
<1>5. ~ControllerCrash
    <2>1. Moved(req[i], "done").pc = "done"
      BY <1>0, MovedReq
    <2> QED
      BY <1>0, <1>1, <2>1 DEF ControllerCrash
<1> HIDE DEF Goal
<1>6. ASSUME NEW r \in Req, Execute(r) PROVE FALSE
    BY <1>1, <1>6, ExecuteExecuted DEF Executed
<1>7. ASSUME NEW n \in Node, Reconcile(n) \/ Deliver(n) PROVE FALSE
    BY <1>1, <1>7 DEF Reconcile, Snapshot, Resync, Resynced, Deliver
<1>8. CASE Environment
    BY <1>1, <1>4, <1>5, <1>8 DEF Environment, LoseBatch, AgentCrash, NodeReboot,
       GuestHalts, GuestPowersOff
<1>9. CASE ClientStep
    BY <1>0, <1>1, <1>3, <1>9 DEF ClientStep, Begin, BeginDelete
<1> QED
    BY <1>1, <1>2, <1>4, <1>6, <1>7, <1>8, <1>9 DEF Next, vars, Serve

\* A create gets to its enqueue only through the write of the address.
LEMMA EnqueueAfterAddress ==
    ASSUME AddressInv, [Next]_vars, NEW i \in Inst, ~NamedByCall(i), req'[i].pc = "enqueue"
    PROVE  row'[i].ip
<1>0. /\ IInv /\ TypeOK /\ row \in [Inst -> RowType] /\ req \in [Req -> ReqType]
      /\ i \in Req /\ ReqOk(i) /\ AddressOk(i) /\ req[i] \in ReqType /\ row[i] \in RowType
    BY DEF AddressInv, ContractInv, IInv, TypeOK, Req
<1>1. CASE req[i].pc = "enqueue"
    <2>1. row[i].ip
      BY <1>0, <1>1 DEF AddressOk
    <2>2. \A n \in Node : ~Insert(i, n)
      BY <1>1 DEF Insert
    <2> QED
      BY <2>1, <2>2, UntouchedRow
<1>2. CASE req[i].pc # "enqueue"
    <2>1. SetIP(i) /\ req[i].ctx = "ok"
      BY <1>0, <1>2, BecomesEnqueue
    <2>2. Exists(i)
      <3>1. row[i].status # "unborn"
        BY <1>0, <2>1 DEF SetIP, ReqOk, Begun
      <3>2. ASSUME row[i].status = "gone" PROVE FALSE
        <4>1. PICK r \in Call : Target(r) = i /\ task[r].pc # "none"
          BY <1>0, <3>2 DEF IInv, ErasedAfterCommand
        <4> QED
          BY <1>0, <4>1 DEF IInv, TaskOk, NamedByCall, Req
      <3> QED
        BY <3>1, <3>2 DEF Exists
    <2> QED
      BY <1>0, <2>1, <2>2 DEF SetIP, SetRow, RowType
<1> QED
    BY <1>1, <1>2

\* reconcileVMs learns of what libvirt has.
LEMMA SeenIsThere ==
    ASSUME IInv, [Next]_vars, NEW n \in Node, NEW i \in Inst,
           sync[n].view[i] = "none", sync'[n].view[i] # "none"
    PROVE  \E m \in Node : dom[m][i] # "absent"
<1> DEFINE Goal == \E m \in Node : dom[m][i] # "absent"
<1> SUFFICES Goal
    OBVIOUS
<1>0. /\ TypeOK /\ sync \in [Node -> SyncType] /\ sync[n] \in SyncType
      /\ sync' # sync /\ sync'[n] # sync[n]
    BY DEF IInv, TypeOK
<1>1. ASSUME NEW m \in Node, AgentRestarts(m) PROVE FALSE
    <2>1. sync' = [sync EXCEPT ![m] = [pc |-> "boot", view |-> Nothing]]
      BY <1>1 DEF AgentRestarts
    <2>2. sync'[n].view = Nothing
      BY <1>0, <2>1
    <2> QED
      BY <2>2 DEF Nothing
<1>2. ASSUME NEW m \in Node, Snapshot(m) PROVE Goal
    <2>1. PICK view \in [Inst -> {"none", "running", "stopped"}] :
              /\ \A j \in Inst : view[j] \in Seen(dom[m][j]) \cup {"none"}
              /\ sync' = [sync EXCEPT ![m] = [pc |-> "report", view |-> view]]
      BY <1>2 DEF Snapshot
    <2>2. m = n /\ sync'[n].view = view
      BY <1>0, <2>1
    <2>3. view[i] \in Seen(dom[n][i])
      BY <2>1, <2>2
    <2>4. dom[n][i] # "absent"
      BY <2>2, <2>3 DEF Seen
    <2> QED
      BY <2>4
<1>3. ASSUME NEW m \in Node, NEW j \in Inst, Resync(m, j) PROVE FALSE
    <2> DEFINE v == [sync[m].view EXCEPT ![j] = "none"]
               s == [sync[m] EXCEPT !.view = v]
    <2>1. sync' = [sync EXCEPT ![m] = s] /\ m = n
      BY <1>0, <1>3 DEF Resync
    <2>2. s.view = v /\ v[i] = "none"
      BY <1>0, <2>1 DEF SyncType
    <2> HIDE DEF s, v
    <2> QED
      BY <1>0, <2>1, <2>2
<1>4. ASSUME NEW m \in Node, Resynced(m) PROVE FALSE
    BY <1>0, <1>4 DEF Resynced, SyncType
<1> HIDE DEF Goal
<1>5. ASSUME NEW r \in Req, Execute(r) PROVE FALSE
    BY <1>0, <1>5, ExecuteExecuted DEF Executed
<1>6. ASSUME NEW r \in Req, Serve(r) \/ Cancel(r) PROVE FALSE
    BY <1>0, <1>6 DEF Serve, ReadAgain, Write, Enqueue, Erase, Cancel
<1>7. CASE Environment
    BY <1>0, <1>1, <1>6, <1>7 DEF Environment, LoseBatch, AgentCrash, NodeReboot, GuestHalts,
       GuestPowersOff, ControllerCrash
<1>8. CASE ClientStep
    BY <1>0, <1>8 DEF ClientStep, Insert, Begin, BeginDelete
<1>9. ASSUME NEW m \in Node, Deliver(m) PROVE FALSE
    BY <1>0, <1>9 DEF Deliver
<1>10. ASSUME NEW j \in Inst, SetIP(j) PROVE FALSE
    BY <1>0, <1>10 DEF SetIP
<1> QED
    BY <1>0, <1>2, <1>3, <1>4, <1>5, <1>6, <1>7, <1>8, <1>9, <1>10 DEF Next, Reconcile, vars

LEMMA AddressOkNext ==
    ASSUME AddressInv, [Next]_vars, NEW i \in Inst, ~NamedByCall(i)
    PROVE  AddressOk(i)'
<1>0. /\ ContractInv /\ IInv /\ TypeOK /\ AddressOk(i) /\ i \in Req /\ TaskOk(i)
      /\ row \in [Inst -> RowType] /\ row[i] \in RowType
    BY DEF AddressInv, ContractInv, IInv, TypeOK, Req
<1>1. task[i].pc # "none" => task'[i].pc # "none"
    BY <1>0, CommandLasts
<1>2. task'[i].pc # "none" => row'[i].ip
    <2>1. CASE task[i].pc # "none"
      <3>1. row[i].ip /\ req[i].pc \notin {"idle", "setip"}
        BY <1>0, <2>1 DEF AddressOk, ContractInv, CommandOk
      <3>2. ~SetIP(i) /\ \A n \in Node : ~Insert(i, n)
        BY <3>1 DEF SetIP, Insert
      <3> QED
        BY <3>1, <3>2, UntouchedRow
    <2>2. CASE task[i].pc = "none" /\ task'[i].pc # "none"
      <3>1. Enqueue(i)
        BY <1>0, <2>2, TaskStep, ExecuteMoves
      <3> QED
        BY <1>0, <3>1 DEF Enqueue, AddressOk
    <2> QED
      BY <2>1, <2>2
<1>3. row'[i].status = "running" => task'[i].pc # "none"
    <2>1. ASSUME NEW n \in Node, Insert(i, n) PROVE row'[i].status = "pending"
      BY <1>0, <2>1 DEF Insert
    <2> QED
      BY <1>0, <1>1, <2>1, UntouchedRow DEF AddressOk
<1>4. ASSUME NEW n \in Node, sync'[n].view[i] # "none" PROVE task'[i].pc # "none"
    <2>1. CASE sync[n].view[i] # "none"
      BY <1>0, <1>1, <2>1 DEF AddressOk
    <2>2. CASE sync[n].view[i] = "none"
      <3>1. \E m \in Node : dom[m][i] # "absent"
        BY <1>0, <1>4, <2>2, SeenIsThere
      <3>2. ~ToDefine(i)
        BY <1>0, <3>1 DEF ContractInv, PlaceOk
      <3> QED
        BY <1>1, <3>2 DEF ToDefine
    <2> QED
      BY <2>1, <2>2
<1> QED
    BY <1>2, <1>3, <1>4, EnqueueAfterAddress DEF AddressOk

LEMMA InitAddressInv == Init => AddressInv
BY InitContractInv DEF Init, AddressInv, AddressOk, Nothing, Req

LEMMA NextAddressInv == AddressInv /\ [Next]_vars => AddressInv'
<1> SUFFICES ASSUME AddressInv, [Next]_vars PROVE AddressInv'
    OBVIOUS
<1>1. ContractInv /\ IInv
    BY DEF AddressInv, ContractInv
<1> QED
    BY <1>1, NextContractInv, AddressOkNext, NamedLasts DEF AddressInv

\* What InstanceDetail.tsx:180 tells the user is true of every instance nobody
\* has asked to start, stop or delete, whatever other requests do and whatever
\* fails: only those handlers write an address away.
THEOREM RunningUntouchedHasAddress == Spec => []UntouchedHasAddress
<1>1. AddressInv => UntouchedHasAddress
    BY DEF AddressInv, AddressOk, UntouchedHasAddress
<1> QED
    BY <1>1, InitAddressInv, NextAddressInv, PTL DEF Spec

===============================================================================
