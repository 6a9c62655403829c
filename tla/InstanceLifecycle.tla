-------------------------- MODULE InstanceLifecycle --------------------------
(***************************************************************************)
(* The life of VM instances across the controller's API handlers, the      *)
(* instances table, the command queues, the goroutines of the agents'      *)
(* executors and the libvirt domains and disks of the nodes.               *)
(*                                                                         *)
(* Every HTTP request is a process: the POST that creates instance i is    *)
(* named by i itself, start/stop/delete requests by the members of Call.   *)
(* A request that gets that far enqueues one command, named by the         *)
(* request; the command becomes a goroutine on the node.  Each database    *)
(* statement, each libvirt call and each report is a step.                 *)
(*                                                                         *)
(* Left out: resources, payload contents, VPC networks (EnsureBridge is an *)
(* outcome), the value of an address (whether a row has one is kept).      *)
(***************************************************************************)
EXTENDS Naturals, FiniteSets

CONSTANTS
    Node,        \* nodes, each with its agent and libvirt
    Inst,        \* instances; i stands for its POST as well
    Call,        \* start, stop and delete requests
    Name,        \* names clients give to instances
    NameOf,      \* the name in the POST of i; nothing makes it unique
    BadImage,    \* instances whose os_image the agent refuses
    Serial,      \* TRUE: clients act as the page Instances.tsx does
    MaxFault,    \* bound: disturbances (lost call, crash, cancelled request)
    NoNode, NoInst

ASSUME ConstantsAssumption ==
    /\ Inst \cap Call = {}
    /\ NameOf \in [Inst -> Name]
    /\ BadImage \subseteq Inst
    /\ Serial \in BOOLEAN
    /\ MaxFault \in Nat
    /\ NoNode \notin Node
    /\ NoInst \notin Inst

Req == Inst \cup Call

VARIABLES
    row,      \* the instances table, see RowType
    req,      \* the HTTP request's goroutine in the controller
    task,     \* the request's command: in the queue, then a goroutine
    dom,      \* dom[n][i]: libvirt's domain with UUID i on node n
    disk,     \* disk[n]: instances with a directory under images/ on n
    sync,     \* sync[n]: the agent's reconcileVMs
    faults    \* disturbances so far

vars == <<row, req, task, dom, disk, sync, faults>>

-----------------------------------------------------------------------------
(* Types and initial state *)

Settled    == {"running", "stopped", "error"}
Transition == {"pending", "starting", "stopping", "terminating"}

RowType == [status : {"unborn", "gone"} \cup Settled \cup Transition,
            node   : Node \cup {NoNode},
            ip     : BOOLEAN]              \* ip_address is not NULL

ReqType == [pc     : {"idle", "setip", "again", "write", "enqueue", "erase", "done"},
            op     : {"create", "start", "stop", "delete"},
            target : Inst \cup {NoInst},
            node   : Node \cup {NoNode},   \* the node id the handler has read
            ctx    : {"ok", "cancelled"}]  \* r.Context()

TaskType == [pc  : {"none", "queued", "announce", "prepare", "define", "bridge",
                    "lookup", "boot", "shutdown", "poll", "inspect", "destroy",
                    "undefine", "wipe", "sayRunning", "sayStopped", "sayError",
                    "done"},
             dom : Inst \cup {NoInst}]     \* the libvirt handle it looked up

\* "closing": active, shutdown requested; "loose": active but undefined
DomState == {"absent", "off", "on", "closing", "loose"}
Active   == {"on", "closing", "loose"}

SyncType == [pc   : {"idle", "boot", "report"},
             view : [Inst -> {"none", "running", "stopped"}]]  \* still to report

TypeOK ==
    /\ row \in [Inst -> RowType]
    /\ req \in [Req -> ReqType]
    /\ task \in [Req -> TaskType]
    /\ dom \in [Node -> [Inst -> DomState]]
    /\ disk \in [Node -> SUBSET Inst]
    /\ sync \in [Node -> SyncType]
    /\ faults \in 0..MaxFault

Nothing == [i \in Inst |-> "none"]

\* Every agent has been up long enough to have reconciled an empty node.
Init ==
    /\ row = [i \in Inst |-> [status |-> "unborn", node |-> NoNode, ip |-> FALSE]]
    /\ req = [r \in Req |->
                [pc |-> "idle", op |-> IF r \in Inst THEN "create" ELSE "start",
                 target |-> IF r \in Inst THEN r ELSE NoInst,
                 node |-> NoNode, ctx |-> "ok"]]
    /\ task = [r \in Req |-> [pc |-> "none", dom |-> NoInst]]
    /\ dom = [n \in Node |-> [i \in Inst |-> "absent"]]
    /\ disk = [n \in Node |-> {}]
    /\ sync = [n \in Node |-> [pc |-> "idle", view |-> Nothing]]
    /\ faults = 0

Disturb == faults < MaxFault /\ faults' = faults + 1
Calm    == UNCHANGED faults

\* the process s, moved to another place
Moved(s, pc) == [s EXCEPT !.pc = pc]

Exists(i) == row[i].status \notin {"unborn", "gone"}

\* Mutant of SetRow: an upsert.
UpsertRow(i, status, ip) ==
    row' = [row EXCEPT ![i].status = status, ![i].ip = ip]

\* UPDATE instances SET status, ip_address WHERE id = i: no row, no change
SetRow(i, status, ip) ==
    row' = IF Exists(i) THEN [row EXCEPT ![i].status = status, ![i].ip = ip] ELSE row

Target(r) == req[r].target
Host(r)   == req[r].node

-----------------------------------------------------------------------------
(* InstanceService.Create *)

\* Mutant of Insert: PickNode is asked again for the node of the command.
InsertPicksTwice(i, n) ==
    /\ req[i].pc = "idle"
    /\ row' = [row EXCEPT ![i] = [status |-> "pending", node |-> n, ip |-> FALSE]]
    /\ \E m \in Node : req' = [req EXCEPT ![i].pc = "setip", ![i].node = m]
    /\ Calm /\ UNCHANGED <<task, dom, disk, sync>>

\* Checks passed, PickNode chose n, INSERT.
Insert(i, n) ==
    /\ req[i].pc = "idle"
    /\ row' = [row EXCEPT ![i] = [status |-> "pending", node |-> n, ip |-> FALSE]]
    /\ req' = [req EXCEPT ![i].pc = "setip", ![i].node = n]
    /\ Calm /\ UNCHANGED <<task, dom, disk, sync>>

\* Other clients see the row by now: they may have started or deleted it.
SetIP(i) ==
    /\ req[i].pc = "setip"
    /\ IF req[i].ctx = "ok"
       THEN SetRow(i, "pending", TRUE) /\ req' = [req EXCEPT ![i].pc = "enqueue"]
       ELSE UNCHANGED row /\ req' = [req EXCEPT ![i].pc = "done"]
    /\ Calm /\ UNCHANGED <<task, dom, disk, sync>>

-----------------------------------------------------------------------------
(* Start, Stop and Delete: handlers and services *)

Waiting(i) == \E r \in Req : Target(r) = i /\ req[r].pc \notin {"idle", "done"}

\* The buttons the list shows for a row in this status, the view being fresh,
\* to an operator who waits for each answer.
Offered(op, i) ==
    /\ ~Waiting(i)
    /\ op = "start"  => row[i].status \in Settled \ {"running"}
    /\ op = "stop"   => row[i].status = "running"
    /\ op = "delete" => row[i].status \in Settled

\* Start and Stop read the row once.
Begin(r, op, i) ==
    /\ req[r].pc = "idle"
    /\ Exists(i)
    /\ Serial => Offered(op, i)
    /\ req' = [req EXCEPT ![r] = [@ EXCEPT !.pc = "write", !.op = op,
                                           !.target = i, !.node = row[i].node]]
    /\ Calm /\ UNCHANGED <<row, task, dom, disk, sync>>

\* InstanceHandler.Delete reads the row and answers 409 if it is running.
BeginDelete(r, i) ==
    /\ req[r].pc = "idle"
    /\ Exists(i)
    /\ Serial => Offered("delete", i)
    /\ req' = [req EXCEPT ![r] = [@ EXCEPT
                  !.pc = IF row[i].status = "running" THEN "done" ELSE "again",
                  !.op = "delete", !.target = i]]
    /\ Calm /\ UNCHANGED <<row, task, dom, disk, sync>>

\* InstanceService.Delete reads it again.
ReadAgain(r) ==
    /\ req[r].pc = "again"
    /\ req' = IF req[r].ctx = "ok" /\ Exists(Target(r))
              THEN [req EXCEPT ![r].pc = "write", ![r].node = row[Target(r)].node]
              ELSE [req EXCEPT ![r].pc = "done"]
    /\ Calm /\ UNCHANGED <<row, task, dom, disk, sync>>

StatusOf == [start |-> "starting", stop |-> "stopping", delete |-> "terminating"]

\* Mutant of Write: the status of the row is not touched.
WriteNoStatus(r) ==
    /\ req[r].pc = "write"
    /\ req' = [req EXCEPT ![r].pc =
                 IF req[r].ctx = "ok" \/ req[r].op = "delete" THEN "enqueue" ELSE "done"]
    /\ Calm /\ UNCHANGED <<row, task, dom, disk, sync>>

\* Mutant of Write: Delete erases the row before it enqueues the command.
WriteThenErase(r) ==
    /\ req[r].pc = "write"
    /\ SetRow(Target(r), StatusOf[req[r].op], FALSE)
    /\ req' = [req EXCEPT ![r].pc = IF req[r].op = "delete" THEN "erase" ELSE "enqueue"]
    /\ Calm /\ UNCHANGED <<task, dom, disk, sync>>

\* Mutant of Write: the name of the operation is stored for the status.
WriteOperation(r) ==
    /\ req[r].pc = "write"
    /\ SetRow(Target(r), req[r].op, FALSE)
    /\ req' = [req EXCEPT ![r].pc = "enqueue"]
    /\ Calm /\ UNCHANGED <<task, dom, disk, sync>>

\* UpdateStatus with no address; Delete ignores its failure.
Write(r) ==
    /\ req[r].pc = "write"
    /\ IF req[r].ctx = "ok"
       THEN SetRow(Target(r), StatusOf[req[r].op], FALSE)
       ELSE UNCHANGED row
    /\ req' = [req EXCEPT ![r].pc =
                 IF req[r].ctx = "ok" \/ req[r].op = "delete" THEN "enqueue" ELSE "done"]
    /\ Calm /\ UNCHANGED <<task, dom, disk, sync>>

\* Dispatcher.Enqueue for the node the handler has read.
Enqueue(r) ==
    /\ req[r].pc = "enqueue"
    /\ task' = [task EXCEPT ![r].pc = "queued"]
    /\ req' = [req EXCEPT ![r].pc = IF req[r].op = "delete" THEN "erase" ELSE "done"]
    /\ Calm /\ UNCHANGED <<row, dom, disk, sync>>

\* InstanceStore.Delete
Erase(r) ==
    /\ req[r].pc = "erase"
    /\ row' = IF req[r].ctx = "ok" /\ Exists(Target(r))
              THEN [row EXCEPT ![Target(r)].status = "gone"]
              ELSE row
    /\ req' = [req EXCEPT ![r].pc = "done"]
    /\ Calm /\ UNCHANGED <<task, dom, disk, sync>>

\* The client goes away: every later statement of the request fails.
Cancel(r) ==
    /\ req[r].pc \in {"setip", "again", "write", "enqueue", "erase"}
    /\ req[r].ctx = "ok"
    /\ Disturb
    /\ req' = [req EXCEPT ![r].ctx = "cancelled"]
    /\ UNCHANGED <<row, task, dom, disk, sync>>

-----------------------------------------------------------------------------
(* Delivery: one heartbeat drains the queue, Handle starts the goroutines *)

Queue(n) == {r \in Req : task[r].pc = "queued" /\ Host(r) = n}

FirstStep == [create |-> "announce", start |-> "bridge",
              stop |-> "lookup", delete |-> "lookup"]

Deliver(n) ==
    /\ Queue(n) # {}
    /\ task' = [r \in Req |-> IF r \in Queue(n)
                              THEN Moved(task[r], FirstStep[req[r].op])
                              ELSE task[r]]
    /\ Calm /\ UNCHANGED <<row, req, dom, disk, sync>>

\* What a heartbeat drained does not arrive (see NodeSession).
LoseBatch(n) ==
    /\ Queue(n) # {}
    /\ Disturb
    /\ task' = [r \in Req |-> IF r \in Queue(n)
                              THEN Moved(task[r], "done")
                              ELSE task[r]]
    /\ UNCHANGED <<row, req, dom, disk, sync>>

-----------------------------------------------------------------------------
(* The goroutines of Executor: createVM, startVM, stopVM, deleteVM *)

Goto(r, pc) == task' = [task EXCEPT ![r].pc = pc]

\* libvirt's domain of this name on node n, or NoInst: names are unique there
Named(n, name) ==
    LET found == {i \in Inst : dom[n][i] # "absent" /\ NameOf[i] = name}
    IN  IF found = {} THEN NoInst ELSE CHOOSE i \in found : TRUE

SetDom(n, i, state) == dom' = [dom EXCEPT ![n][i] = state]

\* ReportVMStatus -> UpdateVMStatus keeps an address unless one is given; the
\* executor ignores a failure and goes on.
Report(r, status, ip, next) ==
    /\ \/ SetRow(Target(r), status, row[Target(r)].ip \/ ip) /\ Calm
       \/ UNCHANGED row /\ Disturb
    /\ Goto(r, next)
    /\ UNCHANGED <<req, dom, disk, sync>>

Announce(r)   == task[r].pc = "announce"   /\ Report(r, "pending", FALSE, "prepare")
SayRunning(r) == task[r].pc = "sayRunning" /\ Report(r, "running", req[r].op = "create", "done")
SayStopped(r) == task[r].pc = "sayStopped" /\ Report(r, "stopped", FALSE, "done")
SayError(r)   == task[r].pc = "sayError"   /\ Report(r, "error", FALSE, "done")

\* The two failures of createVM that it reports before the domain is tried:
\* EnsureBridge, before the image name is looked at, and Provision, which may
\* fail after it made the directory.
PrepareFails(r) ==
    /\ task[r].pc = "prepare"
    /\ Goto(r, "sayError")
    /\ \/ UNCHANGED disk
       \/ /\ Target(r) \notin BadImage
          /\ disk' = [disk EXCEPT ![Host(r)] = @ \cup {Target(r)}]
    /\ Calm /\ UNCHANGED <<row, req, dom, sync>>

\* A refused image name ends createVM without a report.
RefuseImage(r) ==
    /\ task[r].pc = "prepare"
    /\ Target(r) \in BadImage
    /\ Goto(r, "done")
    /\ Calm /\ UNCHANGED <<row, req, dom, disk, sync>>

\* So does a MAC address that cannot be drawn (libvirt.RandomMAC).
NoMac(r) ==
    /\ task[r].pc = "prepare"
    /\ Target(r) \notin BadImage
    /\ Goto(r, "done")
    /\ Calm /\ UNCHANGED <<row, req, dom, disk, sync>>

Provision(r) ==
    /\ task[r].pc = "prepare"
    /\ Target(r) \notin BadImage
    /\ Goto(r, "define")
    /\ disk' = [disk EXCEPT ![Host(r)] = @ \cup {Target(r)}]
    /\ Calm /\ UNCHANGED <<row, req, dom, sync>>

\* DomainDefineXML refuses a name that another UUID has.
Define(r) ==
    /\ task[r].pc = "define"
    /\ Named(Host(r), NameOf[Target(r)]) = NoInst
    /\ SetDom(Host(r), Target(r), "off")
    /\ task' = [task EXCEPT ![r].pc = "boot", ![r].dom = Target(r)]
    /\ Calm /\ UNCHANGED <<row, req, disk, sync>>

\* Mutant of DefineFails: the error is returned without a report.
DefineFailsSilently(r) ==
    /\ task[r].pc = "define"
    /\ Goto(r, "done")
    /\ Calm /\ UNCHANGED <<row, req, dom, disk, sync>>

DefineFails(r) ==
    /\ task[r].pc = "define"
    /\ Goto(r, "sayError")
    /\ Calm /\ UNCHANGED <<row, req, dom, disk, sync>>

\* startVM calls EnsureBridge first.
EnsureBridge(r) ==
    /\ task[r].pc = "bridge"
    /\ \E next \in {"lookup", "sayError"} : Goto(r, next)
    /\ Calm /\ UNCHANGED <<row, req, dom, disk, sync>>

\* Mutant of Lookup: deleteVM gives up when there is no domain.
LookupEndsDelete(r) ==
    /\ task[r].pc = "lookup"
    /\ LET found == Named(Host(r), NameOf[Target(r)])
           pc == IF found # NoInst
                 THEN [start |-> "boot", stop |-> "shutdown", delete |-> "inspect"]
                 ELSE [start |-> "sayError", stop |-> "done", delete |-> "done"]
       IN  task' = [task EXCEPT ![r].pc = pc[req[r].op], ![r].dom = found]
    /\ Calm /\ UNCHANGED <<row, req, dom, disk, sync>>

\* getDomain: the handle is found by name, later calls use its UUID.
Lookup(r) ==
    /\ task[r].pc = "lookup"
    /\ LET found == Named(Host(r), NameOf[Target(r)])
           pc == IF found # NoInst
                 THEN [start |-> "boot", stop |-> "shutdown", delete |-> "inspect"]
                 ELSE [start |-> "sayError", stop |-> "done", delete |-> "wipe"]
       IN  task' = [task EXCEPT ![r].pc = pc[req[r].op], ![r].dom = found]
    /\ Calm /\ UNCHANGED <<row, req, dom, disk, sync>>

\* DomainCreate needs an inactive domain and its disk.
Boot(r) ==
    /\ task[r].pc = "boot"
    /\ dom[Host(r)][task[r].dom] = "off"
    /\ task[r].dom \in disk[Host(r)]
    /\ SetDom(Host(r), task[r].dom, "on")
    /\ Goto(r, "sayRunning")
    /\ Calm /\ UNCHANGED <<row, req, disk, sync>>

BootFails(r) ==
    /\ task[r].pc = "boot"
    /\ Goto(r, "sayError")
    /\ Calm /\ UNCHANGED <<row, req, dom, disk, sync>>

\* DomainShutdown asks an active guest to halt; on error stopVM ends there.
Shutdown(r) ==
    /\ task[r].pc = "shutdown"
    /\ IF dom[Host(r)][task[r].dom] \in Active
       THEN /\ SetDom(Host(r), task[r].dom,
                      IF dom[Host(r)][task[r].dom] = "loose" THEN "loose" ELSE "closing")
            /\ Goto(r, "poll")
       ELSE UNCHANGED dom /\ Goto(r, "done")
    /\ Calm /\ UNCHANGED <<row, req, disk, sync>>

\* Mutant of Poll: after the deadline the domain is taken to be off.
PollNeverForces(r) ==
    /\ task[r].pc = "poll"
    /\ Goto(r, "sayStopped")
    /\ Calm /\ UNCHANGED <<row, req, dom, disk, sync>>

\* The poll that ends the loop sees the domain shut off, or gets an error, or
\* is the last one before the deadline.
Poll(r) ==
    /\ task[r].pc = "poll"
    /\ Goto(r, IF dom[Host(r)][task[r].dom] = "off" THEN "sayStopped" ELSE "destroy")
    /\ Calm /\ UNCHANGED <<row, req, dom, disk, sync>>

\* DomainGetState of deleteVM; a guest that is halting may be seen either way.
Inspect(r) ==
    /\ task[r].pc = "inspect"
    /\ LET state == dom[Host(r)][task[r].dom]
       IN  \/ state \in Active /\ Goto(r, "destroy")
           \/ state \notin {"on", "loose"} /\ Goto(r, "undefine")
    /\ Calm /\ UNCHANGED <<row, req, dom, disk, sync>>

\* DomainDestroy fails on an inactive domain: deleteVM goes on, stopVM ends
\* without a report.
Destroy(r) ==
    /\ task[r].pc = "destroy"
    /\ LET state == dom[Host(r)][task[r].dom]
       IN  /\ IF state \in Active
              THEN SetDom(Host(r), task[r].dom, IF state = "loose" THEN "absent" ELSE "off")
              ELSE UNCHANGED dom
           /\ Goto(r, CASE req[r].op = "delete" -> "undefine"
                        [] req[r].op # "delete" /\ state \in Active -> "sayStopped"
                        [] OTHER -> "done")
    /\ Calm /\ UNCHANGED <<row, req, disk, sync>>

\* DomainUndefineFlags leaves an active domain running, with no definition.
Undefine(r) ==
    /\ task[r].pc = "undefine"
    /\ LET state == dom[Host(r)][task[r].dom]
       IN  IF state \in {"on", "closing"} THEN SetDom(Host(r), task[r].dom, "loose")
           ELSE IF state = "off" THEN SetDom(Host(r), task[r].dom, "absent")
           ELSE UNCHANGED dom
    /\ Goto(r, "wipe")
    /\ Calm /\ UNCHANGED <<row, req, disk, sync>>

\* Mutant of Wipe: the files of the domain that was found are removed.
WipeFoundDomain(r) ==
    /\ task[r].pc = "wipe"
    /\ disk' = [disk EXCEPT ![Host(r)] = @ \ {task[r].dom}]
    /\ Goto(r, "done")
    /\ Calm /\ UNCHANGED <<row, req, dom, sync>>

\* storage.Local.Delete, by instance id
Wipe(r) ==
    /\ task[r].pc = "wipe"
    /\ disk' = [disk EXCEPT ![Host(r)] = @ \ {Target(r)}]
    /\ Goto(r, "done")
    /\ Calm /\ UNCHANGED <<row, req, dom, sync>>

-----------------------------------------------------------------------------
(* reconcileVMs, once after each start of an agent *)

Seen(state) ==
    CASE state = "absent"  -> {"none"}
      [] state = "off"     -> {"stopped"}
      [] state = "closing" -> {"running", "stopped"}
      [] OTHER             -> {"running"}

\* ListVMInfos takes the states of all domains; on an error it skips one
\* domain, or all of them ...
Snapshot(n) ==
    /\ sync[n].pc = "boot"
    /\ \E view \in [Inst -> {"none", "running", "stopped"}] :
          /\ \/ Calm /\ \A i \in Inst : view[i] \in Seen(dom[n][i])
             \/ Disturb /\ \A i \in Inst : view[i] \in Seen(dom[n][i]) \cup {"none"}
          /\ sync' = [sync EXCEPT ![n] = [pc |-> "report", view |-> view]]
    /\ UNCHANGED <<row, req, task, dom, disk>>

\* ... which are then reported one by one, however old they are by then.
Resync(n, i) ==
    /\ sync[n].pc = "report"
    /\ sync[n].view[i] # "none"
    /\ \/ SetRow(i, sync[n].view[i], row[i].ip) /\ Calm
       \/ UNCHANGED row /\ Disturb
    /\ sync' = [sync EXCEPT ![n].view[i] = "none"]
    /\ UNCHANGED <<req, task, dom, disk>>

Resynced(n) ==
    /\ sync[n].pc = "report"
    /\ sync[n].view = Nothing
    /\ sync' = [sync EXCEPT ![n].pc = "idle"]
    /\ Calm /\ UNCHANGED <<row, req, task, dom, disk>>

-----------------------------------------------------------------------------
(* Guests, crashes *)

\* A guest that was asked to halt does.
GuestHalts(n, i) ==
    /\ dom[n][i] = "closing"
    /\ SetDom(n, i, "off")
    /\ Calm /\ UNCHANGED <<row, req, task, disk, sync>>

\* A guest powers off on its own.
GuestPowersOff(n, i) ==
    /\ dom[n][i] \in {"on", "loose"}
    /\ Disturb
    /\ SetDom(n, i, IF dom[n][i] = "on" THEN "off" ELSE "absent")
    /\ UNCHANGED <<row, req, task, disk, sync>>

Running(n) == {r \in Req : Host(r) = n /\ task[r].pc \notin {"none", "queued", "done"}}

\* The agent's goroutines end with it; systemd starts it again.
AgentRestarts(n) ==
    /\ task' = [r \in Req |-> IF r \in Running(n)
                              THEN Moved(task[r], "done")
                              ELSE task[r]]
    /\ sync' = [sync EXCEPT ![n] = [pc |-> "boot", view |-> Nothing]]

\* Domains outlive the agent ...
AgentCrash(n) ==
    /\ Disturb
    /\ AgentRestarts(n)
    /\ UNCHANGED <<row, req, dom, disk>>

\* ... but not the host.
NodeReboot(n) ==
    /\ Disturb
    /\ AgentRestarts(n)
    /\ dom' = [dom EXCEPT ![n] = [i \in Inst |->
                 IF @[i] \in {"absent", "loose"} THEN "absent" ELSE "off"]]
    /\ UNCHANGED <<row, req, disk>>

\* Queues and requests live in memory.
ControllerCrash ==
    /\ Disturb
    /\ req' = [r \in Req |-> IF req[r].pc = "idle" THEN req[r]
                             ELSE Moved(req[r], "done")]
    /\ task' = [r \in Req |-> IF task[r].pc = "queued"
                              THEN Moved(task[r], "done")
                              ELSE task[r]]
    /\ UNCHANGED <<row, dom, disk, sync>>

-----------------------------------------------------------------------------
\* Steps of a request once its first read or insert is done.
Serve(r) == ReadAgain(r) \/ Write(r) \/ Enqueue(r) \/ Erase(r)

Execute(r) ==
    \/ Announce(r) \/ PrepareFails(r) \/ RefuseImage(r) \/ NoMac(r)
    \/ Provision(r) \/ Define(r) \/ DefineFails(r) \/ EnsureBridge(r) \/ Lookup(r)
    \/ Boot(r) \/ BootFails(r) \/ Shutdown(r) \/ Poll(r) \/ Inspect(r)
    \/ Destroy(r) \/ Undefine(r) \/ Wipe(r)
    \/ SayRunning(r) \/ SayStopped(r) \/ SayError(r)

Reconcile(n) == Snapshot(n) \/ (\E i \in Inst : Resync(n, i)) \/ Resynced(n)

ClientStep ==
    \/ \E i \in Inst, n \in Node : Insert(i, n)
    \/ \E r \in Call, i \in Inst :
          BeginDelete(r, i) \/ \E op \in {"start", "stop"} : Begin(r, op, i)

Environment ==
    \/ \E r \in Req : Cancel(r)
    \/ \E n \in Node : LoseBatch(n) \/ AgentCrash(n) \/ NodeReboot(n)
    \/ \E n \in Node, i \in Inst : GuestHalts(n, i) \/ GuestPowersOff(n, i)
    \/ ControllerCrash

Next ==
    \/ ClientStep
    \/ \E i \in Inst : SetIP(i)
    \/ \E r \in Req : Serve(r) \/ Execute(r)
    \/ \E n \in Node : Deliver(n) \/ Reconcile(n)
    \/ Environment

\* Goroutines that can run do run and heartbeats go on; clients and guests
\* owe nothing.
Fairness ==
    /\ \A i \in Inst : WF_vars(SetIP(i))
    /\ \A r \in Req : WF_vars(Serve(r)) /\ WF_vars(Execute(r))
    /\ \A n \in Node : WF_vars(Deliver(n)) /\ WF_vars(Reconcile(n))

Spec == Init /\ [][Next]_vars /\ Fairness

-----------------------------------------------------------------------------
(* Properties for any clients and with disturbances *)

Begun(i) == row[i].status # "unborn"

\* A domain or a disk of instance i exists only on the node its row names (or
\* named when it was erased): a handler enqueues for the node it has read, the
\* executor defines and provisions under the instance's own id.
OnlyOnItsNode ==
    \A n \in Node, i \in Inst :
        dom[n][i] # "absent" \/ i \in disk[n] => Begun(i) /\ row[i].node = n

\* A row is erased only after a delete command for it was handed to the
\* dispatcher (InstanceService.Delete: Enqueue, then store.Delete), so that no
\* crash between the two steps can leave a domain nobody was told to remove.
ErasedAfterCommand ==
    \A i \in Inst : row[i].status = "gone" =>
        \E r \in Call : Target(r) = i /\ req[r].op = "delete" /\ task[r].pc # "none"

\* Reports that arrive late, from commands or from reconcileVMs, and updates of
\* other requests never bring an erased row back (both are plain UPDATEs).
ErasedForGood ==
    [][\A i \in Inst : row[i].status = "gone" => row'[i] = row[i]]_row

\* The files of an instance go away only if a delete request named that very
\* instance, whatever domain its name led to (storage.Local.Delete takes the id).
WipedOnlyOnRequest ==
    [][\A n \in Node : \A i \in disk[n] \ disk'[n] :
          \E r \in Call : Target(r) = i /\ req[r].op = "delete"]_disk

\* The contract's state: a domain is still to come while its create has not got
\* as far as DomainDefineXML, past when it is neither there nor to come.
ToDefine(i)    == task[i].pc \in {"none", "queued", "announce", "prepare", "define"}
ToProvision(i) == ToDefine(i) /\ task[i].pc # "define"

Progress(isThere, isToCome) ==
    IF isThere THEN "there" ELSE IF isToCome THEN "early" ELSE "past"

HomeOf(i)   == IF Begun(i) THEN row[i].node ELSE NoNode
DomainOf(i) == Progress(\E n \in Node : dom[n][i] # "absent", ToDefine(i))
DiskOf(i)   == Progress(\E n \in Node : i \in disk[n], ToProvision(i))
Told        == {i \in Inst : \E r \in Call :
                  Target(r) = i /\ req[r].op = "delete" /\ task[r].pc # "none"}
Erased      == {i \in Inst : row[i].status = "gone"}

\* What the controller and the executors together promise of an instance, with
\* any overlap of requests, lost commands and reports, crashes and reboots: one
\* node for good, a domain and files made once at most and taken away only after
\* a delete, a row erased only after a delete was enqueued.
Contract == INSTANCE InstanceContract WITH
    home   <- [i \in Inst |-> HomeOf(i)],
    domain <- [i \in Inst |-> DomainOf(i)],
    files  <- [i \in Inst |-> DiskOf(i)],
    told   <- Told,
    erased <- Erased

ImplementsContract == Contract!Spec

-----------------------------------------------------------------------------
(* Properties for clients that act as Instances.tsx does, when nothing fails *)

Working(i) == \E r \in Req : Target(r) = i /\ task[r].pc \notin {"none", "done"}

\* Once the list offers buttons for an instance (Instances.tsx:157) no command
\* for it is queued or running: each executor function reports a settled status
\* as its very last step.
SettledIsIdle ==
    \A i \in Inst : row[i].status \in Settled /\ ~Waiting(i) => ~Working(i)

\* When nobody works on an instance, the table tells the truth about libvirt.
TableAgrees ==
    \A i \in Inst : ~Waiting(i) /\ ~Working(i) =>
        LET status == row[i].status
            state == IF Begun(i) THEN dom[row[i].node][i] ELSE "absent"
        IN  /\ status = "running" => state = "on"
            /\ status \in {"stopped", "stopping"} => state = "off"
            /\ status = "error" => state \in {"absent", "off"}
            /\ status \notin Settled \cup {"stopping"} => state = "absent"

\* A deleted instance leaves neither a domain nor files on any node.
NothingLeft ==
    \A i \in Inst : row[i].status = "gone" /\ ~Waiting(i) /\ ~Working(i) =>
        \A n \in Node : dom[n][i] = "absent" /\ i \notin disk[n]

\* What the silent returns of createVM leave: a row that says "pending", on a
\* node that has no file of the instance yet, and no goroutine.
LeftPending(i) ==
    /\ row[i].status = "pending"
    /\ task[i].pc = "done"
    /\ i \notin disk[row[i].node]

\* Creating, starting and deleting come to an end: every path of the executor
\* from Provision on ends in a report.  Before that createVM returns without one
\* for a refused image and for a MAC address it cannot draw (executor.go:112-120)
\* and leaves the row pending for good; stopping is excepted, see StopSettles.
TransitionsEnd ==
    \A i \in Inst :
        row[i].status \in Transition \ {"stopping"}
            ~> row[i].status \in Settled \cup {"gone", "stopping"} \/ LeftPending(i)

-----------------------------------------------------------------------------
(* What docs and comments say, and the code does not do *)

\* InstanceDetail.tsx:180 tells the user of an instance without an address to
\* wait until the VM has started: a running instance has one.
RunningHasAddress ==
    \A i \in Inst : row[i].status = "running" => row[i].ip

\* manager.go:91-92: StopVM forces the domain off where the guest does not
\* halt in time.  So a stop that ran to its end does not leave "stopping".
StopSettles ==
    \A i \in Inst : row[i].status = "stopping" => Waiting(i) \/ Working(i)

\* agent/cmd/main.go:180-181: what the agent reports after a restart repairs
\* what its crash during a creation left behind.  So an instance that is pending
\* when its agent starts does not stay pending.
ReconcileRepairs ==
    \A i \in Inst :
        row[i].status = "pending" /\ sync[row[i].node].pc = "boot"
            ~> row[i].status # "pending"
=============================================================================
