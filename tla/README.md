# TLA+ models of RigStack

RigStack is a small private cloud: a *controller* (REST API, PostgreSQL, gRPC
server) and one *agent* per hypervisor that runs the controller's commands
through libvirt, `ip` and `iptables`. This directory holds TLA+ modules of its
control plane, the TLC configurations that check them and proofs for TLAPS.

## 1. The system

```
 browser: instance list, instance page, nodes, network, images, dashboard, gate
        | HTTP (one goroutine per request)          | WebSocket
 handler -> service -> store --------> tables nodes, instances, vpcs
                  \-> scheduler            ^            ^       |
                  \-> dispatcher.Enqueue   |            |   console proxy
                          | queue per node | heartbeat  | ReportVMStatus
                   Server.Heartbeat (one goroutine per stream)  |
                          | commands in the response            |
 Client.RunHeartbeat -> Executor.Handle (one goroutine per command)
                          -> network, storage, libvirt -> report
                          -> wget (images)          agent console server -> PTY
```

| Component | State | Operations | Interacts with |
|---|---|---|---|
| Dispatcher (`dispatcher.go`) | a queue of commands per node id, in memory | `Enqueue`, `Drain` | services call the one, heartbeat handlers the other |
| Session, controller (`grpcserver/server.go`, `store/postgres/node.go`) | table `nodes`; per stream the handler's `nodeID` and drained batch | `RegisterNode`, `Heartbeat`, `ReportVMStatus` | streams, dispatcher, tables |
| Session, agent (`agent/internal/controller/client.go`, `agent/cmd/main.go`) | `nodeID`, the current stream | `Register`, `RunHeartbeat`, reconnect loop | controller, executor |
| Registry and scheduler (`service/node.go`, `scheduler.go`) | reads `nodes`: status, memory, age of the last heartbeat | `List`, `Delete`, `PickNode`, `HealthyNodes` | services |
| Instances (`handler/instance.go`, `service/instance.go`, `store/postgres/instance.go`) | table `instances` | `Create`, `Start`, `Stop`, `Delete`, `allocateIP` | scheduler, dispatcher, reports |
| Executor (`executor.go`) | its goroutines | `create_vm`, `start_vm`, `stop_vm`, `delete_vm`, `create_vpc`, `delete_vpc`, `download_image` | libvirt, storage, network, reports |
| libvirt manager, storage | domains; directories per instance | `CreateVM` ... `DeleteVM`, `Provision`, `Delete` | executor |
| Reconciliation (`reconcileVMs`) | the states it has listed | one pass after each start | reports |
| VPC networking, agent (`agent/internal/network/*.go`) | bridges, namespaces, MASQUERADE rules, all in the kernel | `CreateVPC`, `EnsureBridge`, `DeleteVPC`, each a sequence of `ip`, `sysctl` and `iptables` commands | executor (commands of VPCs and of VMs) |
| VPC networking, controller (`service/vpc.go`, `store/postgres/vpc.go`) | table `vpcs` | `Create`, `Delete`, `List` | scheduler, dispatcher, instances (foreign key) |
| Images (`service/image.go`, `executor.downloadImage`) | a constant catalogue; `<image>.qcow2` and `<image>.qcow2.tmp` in the base directory of each node | `Deploy`, `downloadImage` | dispatcher; `Provision` reads the file |
| Console (`handler/console.go`, `agent/internal/console/server.go`) | per session three connections, four copy goroutines, two error channels | connect, copy, close | page, libvirt's PTY |
| Metrics (the same two files) | none | one answer | page |
| Instance list (`real/Instances.tsx`) | rows read last, optimistic statuses, dialogs, flags | 15 s timer, `load`, create, start, stop, delete | REST API |
| Instance page (`real/InstanceDetail.tsx`) | row, tab, metrics, socket | 15 s and 6 s timers, start, stop, tabs, console | REST API, console |
| Nodes, Network, Images, Dashboard (`real/*.tsx`) | rows read last, flags, dialogs; view mode in `localStorage` | timers (Nodes, Dashboard), lists, create, delete, deploy | REST API |
| Health gate (`HealthGate.tsx`) | `ready`, two timers of its text | a poll every 2 s | REST API |
| Demo (`pages/*.tsx`, `data/mock.ts`) | rows in the component alone | create, start, stop, delete, a 2 s timer per created row | none |

What is hard here:

* *Delivery.* A heartbeat drains the queue before the response is sent; the
  stream may break in between; the handler of a stream the agent gave up on
  keeps running next to the new one; queues die with the controller.
* *Concurrency on the node.* Every command runs in its own goroutine, so
  nothing keeps their order once they are delivered: neither commands for one
  VM, nor for one VPC, nor two downloads of one image.
* *Two truths.* The table says what an instance should be, libvirt what it is.
  They meet through single-attempt reports and one reconciliation at start.
* *Names and ids.* Libvirt is asked by name, everything else goes by id.
* *Partial failure.* Requests are several statements without a transaction,
  under a context that is cancelled when the client goes away; a VPC is up to
  six commands of which any may fail, with an undo for only some of them.
* *Answers out of order.* Pages send list requests without waiting for the ones
  under way, change rows before the controller has agreed, and keep their state
  when the route goes from one instance to another.
* *Who closes what.* A console session is ended by whichever of its four
  goroutines fails first; the others have to be thrown out of a blocked read or
  write by the closes that follow, on both machines.

What makes each part correct:

* dispatcher and session: at most once, in order, never to another node; a live
  agent is listed healthy and its queue is drained;
* instances: a domain and its files exist only where the row says, go only when
  somebody asked for it, and an erased row stays erased; for an operator who
  waits, a settled status means that nobody works on the instance and that the
  table and libvirt agree;
* addresses: distinct, inside the network, outside the reserved range;
* scheduler: a node is found exactly when one fits, and the best of them; the
  memory drawn as used is between nothing and all;
* VPCs: a create that reports success leaves bridge, address, namespace and
  rule; when calls follow one another, a delete that reports success leaves nothing
  but what a removal that failed, and whose error was dropped, did not take away, and
  no node is told to make a VPC after it was told to remove it;
* images: what carries the final name is complete; the nodes a page names for a
  download are those that were told to make it;
* console: a session that ends at one point ends everywhere;
* pages: what a page shows becomes what the controller has; its flags follow the
  requests they stand for; keystrokes and metrics belong to the instance of the
  route.

`PROJECT.json` lists the components, the hazards with their lines and, for each
definition, the lines it models.

## 2. Modules

| Module | What it is |
|---|---|
| `CommandChannel` | abstract: per node a stream of commands of which the agent sees a subsequence, in order, each once; runs of waiting commands may be lost |
| `NodeSession` | detailed: one agent, its row, its streams, a handler per stream, the queues |
| `NodeSessionProofs` | theorems about `NodeSession`, with its refinement of `CommandChannel` |
| `InstanceContract` | abstract: what an operator may rely on for an instance, whatever overlaps, is lost or crashes |
| `InstanceLifecycle`, `InstanceLifecycleMC` | requests, rows, command goroutines, domains, files, reconciliation |
| `InstanceLifecycleProofs` | theorems about `InstanceLifecycle`, with its refinement of `InstanceContract` |
| `IPAllocation`, `IPAllocationMC` | `allocateIP` under concurrent creates and deletes |
| `IPAllocationProofs` | theorems about `IPAllocation` |
| `ImageDownload` | the `download_image` goroutines of a node for one image |
| `ImageDownloadProofs` | theorems about `ImageDownload` |
| `VpcNetwork` | `CreateVPC`, `EnsureBridge`, `DeleteVPC` of a node, command by command |
| `VpcNetworkProofs` | theorems about `VpcNetwork` |
| `VpcService` | `VPCService.Create` and `Delete`, statement by statement |
| `Placement` | the rows of `nodes` with memory and age; `GetHealthy`, `PickNode` |
| `InfrastructureMC` | instances of the last four components for TLC |
| `InfrastructureProofs` | theorems about `VpcService`, `Placement` and all of `InfrastructureMC` |
| `InstancesPage`, `InstanceDetailPage` | the instance list; the page of one instance |
| `ConsoleProxy` | one console session from the browser to the PTY |
| `InstancePagesMC` | instances of these three for TLC |
| `InstancePagesProofs` | theorems about the three and about `InstancePagesMC` |
| `NodesPage`, `NetworkPage`, `ImagesPage`, `DashboardPage` | the other pages with the handlers that answer them |
| `HealthGate` | the gate in front of all pages |
| `DemoInstances` | the instance list of the demo |
| `OperatorPagesMC` | instances of these six for TLC |
| `OperatorPagesProofs` | theorems about the six and about `OperatorPagesMC` |

### NodeSession

`node` is the row of the agent's address, `lastId` the number of ids the database
has generated, `agent` the program counter of `main`'s loop with `client.nodeID`,
`stream[k]` both ends of the k-th stream: the link, the handler's program counter
and `nodeID`, the request or response under way, the drained batch. Each database
statement, `Drain`, `Send` and `Recv` is an action. Commands are tickets in the
order of `Enqueue`, which makes "in order, at most once" the formula
`Increasing(received \o on the way)`. Response and batch share one field:
between `Send` and `Recv` the batch is what the response holds.

Disturbances (`faults`, bounded by `MaxFault`): a failed registration that may or
may not have been applied, a stream that cannot be opened, a broken link, a
failed `UpdateHeartbeat`, a row deleted through the API, an agent that stops (in
order or not) and a restart of the controller. Agents share state only if they
register the same address (the default `NODE_ADDR` of two hosts would); this
configuration is not modelled.

### InstanceLifecycle

Each HTTP request is a process `req[r]`, each command a process `task[r]` that is
first queued and then a goroutine of the executor. `row` is the table, `dom` and
`disk` are libvirt and the instance directories on every node, `sync` is
`reconcileVMs`. A database statement, a libvirt call and a report are one action
each, so that requests, goroutines and reports interleave everywhere the code
allows. Domains found by name (`Named`) and handles used afterwards (`task[r].dom`)
are kept apart, and so is a domain that was undefined while active (`"loose"`).

Libvirt is external and modelled by what the code relies on: names and UUIDs are
unique among the domains of a node, `DomainCreate` needs an inactive domain,
`DomainDestroy` and `DomainShutdown` an active one, undefining an active domain
leaves it running. Any preparing or creating call may fail. `EnsureBridge` is an
outcome only. Queues are sets here, because `Handle` starts a goroutine for each
command at once; `NodeSession` has their order.

`Serial` restricts clients to what the list page offers (`Instances.tsx:156-203`)
to an operator with a fresh view who waits for answers. `FALSE` lets any client
call anything at any time; the detail page, for one, offers start and stop in
transition states (`InstanceDetail.tsx:133-147`).

`InstanceContract` is the abstract specification of all of this, in five
variables: the home of an instance, its domain and its files (`"early"`, `"there"`,
`"past"`), the instances a delete was enqueued for, and the erased ones. A domain is made
once at most, on a node where no other of its name is, and goes away only after a delete
for an instance of that name on that node: the executor finds domains by name, so the
contract cannot promise more. Files are found by id, so theirs needs a delete of that very
instance. A row is erased only after its delete was enqueued. The mapping
(`HomeOf`, `DomainOf`, `DiskOf`, `Told`, `Erased`) reads `"early"` off the place of the create
in the executor: before the call that makes the thing it is still to come, afterwards it
never will. A crash or a reboot moves many instances in one step, which is why the
contract's steps are about all of them at once. It promises nothing about time, and does
not say that a domain goes away with its row, because for clients that do not wait it need not.

### IPAllocation

The count, the INSERT and the command of a create are separate steps; the last
octet is `byte(11 + count)` modulo 256. `Existing` rows are there already, so that
the wrap is within reach. A deleted row takes its VM with it, which is the best
case: in `InstanceLifecycle` a VM may outlive its row.

### ImageDownload

`parts[f]` are the parts that file `f` holds, `tmp` and `target` the files under
the two names, `file[d]` and `at[d]` the file a `wget` has open and its own offset.
A rename or a removal changes a name and leaves the open file to its writer, which
is why a `wget` may go on writing into a file that already has the final name. The
three shell steps of `downloadImage` (`executor.go`) are the program counter
`pc[d]`; the agent may die at each, and `mv` and `rm` may fail on a file that is there
(`LeaveTmp`), which nobody takes notice of.

### VpcNetwork and VpcService

A call is a task that stands at its next command. `NextPc` and `ErrorPc` are the
sequences as the code has them, errors that are dropped included; `Possible` says
when `ip` or `iptables` can carry a command out, `Effect` what it does. The tables
are records and conditionals, so that a proof can look a step up in them.
Any command of any call may also fail for a reason of its own, an agent that dies
takes its calls with it where they stand (`AgentCrash`), and a reboot clears the kernel
besides. `missed[t]` is history: the removals of `deleteNATGW` (`natgw.go:26-30`) that
failed in delete `t`, whose errors the code drops.
`VpcService` has the row, `PickNode`, the queue and the foreign key; its commands only
pile up in `queue`, because what becomes of them is the subject of the others.

### Placement

`row[n]` has total and free memory, status and the age of the last heartbeat in
steps of 10 s; `ram` is the machine, `libvirt` where it can be asked. `PickNode` is a
fold over the rows in any order, so that ties and the `ORDER BY` do not matter.

### Pages

Each page has its component state in one place, list requests `list[l]` (a snapshot
of the table taken at one moment and shown at a later one, in any order) and other
requests `call[c]` with `mine`, which is whether the visit that sent it is still
there: leaving drops state and timers but aborts no request. `View` or `Screen` are
the early returns before the JSX; an action that needs a button has the screen that
shows it as its guard. The controller's handlers are actions of the same modules,
reduced to what they do to the rows shown, and the world changes rows too.

* `InstancesPage`: `load` from timer, buttons and handlers; the optimistic
  `terminating`; the create dialog with its draft, its `creating` flag and the
  `setTimeout(load, 1500)` after a delete.
* `InstanceDetailPage`: the route's id, the row found for an id asked for earlier,
  the metrics effect with its `cancelled` flag, the console effect with its socket.
  The row has any of the eight statuses; metrics are asked of the agent by the name of
  the domain, and every such request may be answered with an error, as each one is while
  there is no domain or the agent is away (`console.go:86-97`).
* `NodesPage`: the list with its timer and removal, and agents that register,
  lose their stream and come back behind its back, after a removal with another id
  (`ids`). The row of a node is found by address, a removal names the id the page has read.
* `NetworkPage`: no timer; the mode both Network pages keep in `localStorage`.
* `ImagesPage`: a flag and an answer per image. The handler of a deploy reads the healthy
  nodes, enqueues for one after the other and answers, in steps of their own, while
  health changes and other deploys are in their loops. An answer gives names, a queue goes
  by id; here both are the node.
* `DashboardPage`: two tables read at two moments by overlapping rounds.
* `HealthGate`: the poll, also run twice as StrictMode does in a development build.
* `DemoInstances`: the timer that boots a created row whatever was done to it.

### ConsoleProxy

`link[l]` is one of the three connections with a queue per direction of `Room`
messages; `copier[c]` is where a copy goroutine stands, `errc[h]` what the error
channel of a handler holds, `main[h]` the handler: waiting, or closing what it holds
in the order of its defers. A closed link fails reads and writes on both ends.

### The three MC modules

`InfrastructureMC`, `InstancePagesMC` and `OperatorPagesMC` put several components into
one model. They do not interact with each other in a step, so the parts are not
interleaved but explored side by side: `part` or `open` is chosen in the first state
and says which variables move, the others have the value `"off"`. Pages that keep the
same kind of state share its variable. Each property is that of the part, restricted to
its states.

Some components are explored twice, with different bounds. In `InfrastructureMC` they are
two instances: downloads one at a time (`Images`) and overlapping (`Overlap`); VPC calls
that overlap on one VPC (`Network`) and calls for two VPCs one
after the other (`NetworkSerial`). These are instances of the modules of proofs, which
extend the components, so that what is proved there holds of each of them. In
`InstancePagesMC` the list and the instance page are one instance each, and `Bounds` says
how much of it a part makes use of: many requests and few loads (`list_calls`,
`page_clicks`) or the other way round (`list_loads`, `page_loads`). In `page_loads` one
row goes through the statuses in `Made` and the other is running or gone (`OneMoves`).
Only the parts with fairness have liveness properties, and in those `Bounds` holds back
nothing but what the operator, the table or a fault would begin.

## 3. Runs

| Run | Result | Question | Bounds |
|---|---|---|---|
| `node_session` | holds | types, `InOrderAtMostOnce`, `ImplementsChannel`, `ListedHealthyAgain`, `QueueDrained` | 2 disturbances, 2 commands, so 3 streams and 3 ids; 54,539 states |
| `offline_queue` | violated | `OfflineQueueKept`: the comment of `dispatcher.go:11-12` | same |
| `lifecycle_any` | holds | types, `OnlyOnItsNode`, `ImplementsContract`, `ErasedForGood`, `WipedOnlyOnRequest` | 2 nodes, 2 instances of one name, 1 request, 1 disturbance; 932,737 states up to symmetry |
| `lifecycle_serial` | holds | `SettledIsIdle`, `TableAgrees`, `NothingLeft`, `TransitionsEnd` | 1 node, 2 instances (one with a refused image), 3 requests, no disturbance; 54,359 states |
| `lifecycle_address` | violated | `RunningHasAddress`: what `InstanceDetail.tsx:180` says | 1 instance, 2 requests |
| `lifecycle_stop` | violated | `StopSettles`: what `manager.go:91-92` says | same |
| `lifecycle_reconcile` | violated | `ReconcileRepairs`: what `agent/cmd/main.go:180-181` says | 1 instance, 1 disturbance |
| `ip_allocation` | holds | `SharingBound`, `HostAddress` | 240 rows + 4 creates, 2 open at a time, 2 deletes |
| `infrastructure` | holds | types, `TargetWhole`, `WholeAtRest`, `CreatedIsReady`, `OnlyMissedLeft`, `CreateBeforeDelete`, `PickIsBest`, `UsedInRange` | 3 downloads of 3 parts; 3 overlapping or 4 serial VPC calls, 2 faults; 2 nodes, 2 VPCs, 4 requests; memory of 2 units; 718,282 states |
| `instance_pages` | holds | types, `OneCreate`, `SocketOfRoute`, `MetricsOfRoute`, `ListConverges`, `PageConverges`, `SessionEnds` | 1 listed instance, 2 with a page, 1 or 2 requests of a kind, 1 fault, 1 message per direction of a link; 372,962 states |
| `operator_pages` | holds | types, `CreatingIsCreate`, `DeployingIsCall`, `QueuedOn`, `DeletedStaysDeleted`, `NodesConverge`, `AcceptedShown`, `DashboardConverges`, `GateOpens` | 1 node, 2 removals, 2 faults; 1 VPC, 2 requests; 2 images on 2 nodes, 2 deploys; 2 changes per table; 4 demo rows; 179,681 states |
| `ip_shared` | violated | `NoSharedAddress`: what `service/instance.go:217` says | creates one at a time, 1 delete |

*Why the bounds are enough.* Two disturbances let a handler be left behind, a
second one too, and the row be deleted and come back; three disturbances were
run once by hand (1.27 million states) with the same result, and the theorems
cover every bound for types and order. Two instances of one name and one
other request already give every pair of goroutines on one name (two creates, a
create and a delete, ...), and with one disturbance each kind of crash, lost call
and cancelled request. Failures that need an earlier one (a report lost during
reconciliation, after the crash that led to it) lie outside that run's bound.
`lifecycle_serial` has enough requests for create, stop, start and create, stop,
delete. `TransitionsEnd` allows an instance to stay pending where `createVM` returned
without a report before it had made anything: for an image name it refuses and for a MAC
address that cannot be drawn (`executor.go:112-120`). Every later path ends in a report.

Three downloads allow one to rename a file while a second one writes it and a
third one truncates it; three parts distinguish the beginning, the middle and the
end of a file. Of three overlapping VPC calls one can make the bridge, one fail on
it and one ensure it; four serial ones are create, failed create, ensure, delete.
Four requests of the API are two creates and two deletes. A page needs two list
requests for an answer to overtake another, two requests of a kind for one of an
earlier visit next to one of this visit, and one fault for an error box that stays;
two instances are what a route can go between, and the second one need not be
listed. A queue of one message is enough to block a writer. Two deploys are of one
image or of two, and two nodes let the loop of one stand between its rounds while the
other and a change of health go by. One of each status and two created rows let a
timer of the demo fire next to another.

*Deadlock.* Checked for `NodeSession`, `instance_pages` and `operator_pages`: pages and
sessions go on for ever. The other models have a finite number of requests, calls
or downloads and really stop when all have been served.

*Symmetry.* Requests and nodes (`InstanceLifecycleMC`) and create requests
(`IPAllocationMC`) are interchangeable; symmetric runs check invariants and
action properties only.

*Fairness.* `NodeSession`: weak fairness of the agent's loop and of each handler,
because goroutines that can run are scheduled, the ticker fires every 10 s and
systemd restarts the agent (`Restart=always`). Disturbances are finite in number
and never fair. `InstanceLifecycle`: weak fairness of requests, of delivery, of
each command's goroutine and of reconciliation; clients and guests owe nothing: a
guest need not react to ACPI. A loop that polls with a deadline ends by itself.
Pages: weak fairness of the browser's timers, of the controller's queries and of the
answer to each request, which arrives or fails because a connection times out (of a
metrics request nothing more is assumed: all of them may fail); an
agent that lost its stream registers again (its own loop). Nothing is assumed of the
operator, so each liveness property says "while the page stays open". `HealthGate`:
the loop, not the controller. `ConsoleProxy`: its goroutines run and the guest takes
its input; `SessionEnds` assumes in its own statement that the page goes on taking
its output, because no write of the proxy has a deadline.

### What the violated runs show

1. **Queue of an offline agent** (`OfflineQueueKept`). The handler of a stream that
   broke may already hold a request: it drains the queue, and what it drained is
   lost when `Send` fails or nobody reads. The queue survives an absence only if
   no handler was left with a request; that it then does is the theorem
   `OfflineQueueUnheld`.
2. **Address lost by stop and start** (`RunningHasAddress`). `UpdateStatus` writes
   `NULL` when it gets no address, and `Start`, `Stop` and `Delete` give none. The theorem
   `RunningUntouchedHasAddress` says that these requests are the only cause: an instance
   none of them has named has its address whenever it is shown running.
3. **Stop that never settles** (`StopSettles`). If the guest halts between the last
   poll and the forced destroy, or before the shutdown call, libvirt returns an
   error and the executor reports nothing.
4. **Reconciliation** (`ReconcileRepairs`) reports only domains that exist; a crash
   before the definition leaves the row pending for ever.
5. **Next available address** (`NoSharedAddress`). The address follows the number of
   rows, so after a delete it is one that is in use. The theorem `OwnUntilDelete` says that
   the first delete is where it begins, as long as creates follow one another.

### What the code does that no property forbids

The models contain these behaviours, and the properties are stated so as to
allow them.

* `Instances.tsx:67` shows `terminating` before the controller has agreed; a list
  request sent earlier and answered later (line 36) replaces it, with the buttons
  enabled again. `ListConverges` says what the page shows in the end.
* `InstanceDetail.tsx:215` prints the name of the row read last, the socket of line 78
  belongs to the id of the route: between two routes the header names the one and
  the keystrokes go to the other. `SocketOfRoute` is about the socket,
  `PageConverges` about the header.
* `InstanceDetail.tsx:47-58`: nothing clears the metrics when the route changes. Where the
  new instance has no domain, or its agent is away, only errors come, and the figures of
  the earlier one stay under the error. `PageConverges` demands the own figures only if from
  some moment on no metrics request fails, and otherwise that foreign ones never stay
  without an error over them.
* `executor.go:112-120`: a refused image name and a MAC address that cannot be drawn end
  a create without a report; the row stays pending. `TransitionsEnd` names the case
  (`LeftPending`).
* The create dialog can be closed and opened again while its request is under way;
  the answer then closes it and wipes the later draft.
* `Nodes.tsx:18`, and the list, network and dashboard pages alike: the error of one
  failed request is never taken back, although later ones succeed, and its box hides
  the page until it is left. `ListConverges`, `NodesConverge`, `DashboardConverges` and
  `AcceptedShown` except it.
* `natgw.go:26-30`: `deleteNATGW` drops the errors of `iptables -D` and `ip netns del` and
  returns nil, so that the warning of `manager.go:47-49` is never given and `DeleteVPC` can
  report success with the rule or the namespace still there. The namespace makes the next
  `ip netns add` of the VPC fail. `OnlyMissedLeft` says that nothing else is ever left.
* `manager.go:65-68`: `EnsureBridge` is content with a link that exists, also one that
  a failed create left without an address or a rule. `CreatedIsReady` is about
  creates for that reason.
* `iptables.go:4-12`: `-C` and `-A` are two commands, so overlapping calls can add the
  rule twice; one delete removes one. `OnlyMissedLeft` is about calls that follow one
  another, and about VPCs of different CIDRs: the rule is named by the CIDR alone.
* `service/vpc.go:35-45`: a VPC made while no node is healthy gets no command.
* `service/vpc.go:59-67`: `delete_vpc` is enqueued before the row is deleted, which
  the foreign key may refuse. With overlapping requests the commands of a create and
  of a delete may be turned round; `CreateBeforeDelete` is about requests that follow
  one another.
* `executor.go:190-208`: an image being written again by an overlapping download may
  have the final name while it is incomplete. `TargetWhole` is about one download at
  a time, `WholeAtRest` about any overlap once all have ended.
* `Instances.tsx` of the demo: a row that was started and stopped while it boots runs
  again when its timer fires.

## 4. Proofs

`NodeSessionProofs` assumes only that `MaxFault` and `MaxCmd` are natural numbers
(`BoundAssumption`, evaluated by TLC in the runs of `NodeSession`).

* `TypeCorrect`: `Spec => []TypeOK`. The hard part is that ids and streams stay in
  `1..(MaxFault + 1)`: a row is inserted again only after a deletion, a stream
  opened again only after one broke. `IdBudget` and `StreamBudget` say it: each is
  at most the number of disturbances, plus one while a row, or a live stream,
  exists. `FreshStreams` and `KnownNode` complete the invariant `TypeInv`.
* `DeliveryCorrect`: `Spec => []InOrderAtMostOnce`. The property is not inductive. It
  needs `SessionInv` (handler and agent work in lock step on a stream: at most one
  of request, batch and response is under way, and a stream the agent is not
  waiting on is at rest) and `OrderInv` (received, live batch and queue increase,
  each stays below the next, all stay below the next ticket). `IInv` is their
  conjunction with `TypeInv`; the lemmas on sequences (`JoinIncreasing`,
  `OrderedDrop`, `OrderedTake`, `OrderedAppend`) say what losing, handing over and
  enqueueing do to the three parts.
* `SessionImplementsChannel`: `Spec => ImplementsChannel`, the refinement of
  `CommandChannel` under the mapping of `NodeSession`, where what waits is the live
  batch followed by the queue. `StepTransfers` classifies every step once: it hands
  the batch to the agent (`HandsOver`), enqueues the next ticket (`Queues`), or is
  `Quiet`: at each node id it keeps or loses the batch and the queue (`Loses`), or
  moves the queue into an empty batch (`Drains`). Order and refinement both follow from that classification;
  `LosesPart` shows that what a loss leaves is the old sequence without one run.
* `OfflineQueueUnheld`: `Spec => UnheldQueueKept`, what remains true of the comment of
  `dispatcher.go:11-12`: while the agent is offline and no handler is `Holding` a request,
  its queue only grows (a restart of the controller aside), and none comes to hold one.

`InstanceLifecycleProofs` assumes `ConstantsAssumption` of `InstanceLifecycle`: mainly
that instances and requests have different names and that the values standing for
"none" are none of them. Neither the sets of nodes and instances nor the names are
bounded, and `Serial` is either value.

* `TypeCorrect`, `PlacementCorrect`, `ErasedAfterCommandAlways`: `Spec => []TypeOK`,
  `[]OnlyOnItsNode`, `[]ErasedAfterCommand`. No one of them is inductive. The
  executor acts on the node id a handler read some steps earlier, so `ReqOk` says of
  each place in a handler that the row still names that node (rows never move), that
  a create has not been begun before its INSERT, and that a delete that is about to
  erase has its command enqueued. `TaskOk` says of each command which places in the
  executor its operation can reach. `IInv` joins them with the three properties. No
  run lists `ErasedAfterCommand`, because the contract contains it.
* The proof has one lemma per action or group of like actions. `Executed` sums up what every
  step of an executor goroutine has in common (it moves its own command ahead, keeps
  rows on their nodes, makes domains and files only for its own instance on its own
  node) and `ExecutedPreserves` is proved once from it; `RequestStep`, `ManyMove`
  and `ReconcileStep` do the same for handlers, for crashes and deliveries, and for
  `reconcileVMs`.
* `ErasedForGoodAlways`: an erased row does not change. Everything but `Insert` is an
  UPDATE or DELETE guarded by existence; for `Insert` it takes `ReqOk`, that the row
  of a POST that has not inserted yet is unborn.
* `WipedOnlyOnRequestAlways`: only `Wipe` makes a directory go away, and by `TaskOk` and
  `ReqOk` only a delete request for that instance gets there.

* `SettledMeansSettled`, `TableTellsTruth`, `DeletedLeavesNothing`: `Spec => []SettledIsIdle`,
  `[]TableAgrees` and `[]NothingLeft` from `SerialClients`: `Serial`, no disturbances, and
  names that nobody gives twice. That is the situation of `lifecycle_serial`, without its
  bounds on nodes, instances and requests. The strengthening is `SerialInv`: one request
  works on an instance at a time (`Alone`); `Stage` says, for its operation and for each
  place in the handler or in the executor, what the row, the domain and the files are;
  and an instance nobody works on is at rest (`AtRest`). The three properties are read
  off `AtRest` and the last stages. Each step of a request takes it from one row of
  `Stage` to another, or from the last one to `AtRest`, and leaves other instances alone;
  the latter is where different names are needed, because libvirt is asked by name.

* `LifecycleImplementsContract`: `Spec => ImplementsContract`, again for any clients and
  disturbances. The step simulation needs `ContractInv`, which adds to `IInv` that whoever
  has begun is placed, that a request enqueues its command just before it ends and that the
  domain a command holds has its name and its node (`CommandOk`), and that what is there was made, while a
  domain without definition was undefined by a delete (`PlaceOk`). There is one lemma per
  piece of the abstract state: a row keeps its node and ends only after its delete was
  told (`RowLasts`), what is past stays past (`NotToCome`), what was told stays
  told (`ToldLasts`), and `DomainStep` and `FilesStep` say how a domain and a directory
  may change. `TaskStep` and `ExecuteMoves` sum up what a step does to one command.
* `OneDomainOfAName`: `Spec => []Contract!OneOfAName`. It is proved of the contract, where
  two variables are all it takes, and holds of the code's model by the refinement.
* `RunningUntouchedHasAddress`: `Spec => []UntouchedHasAddress`. `AddressInv` says, of an
  instance no start, stop or delete has named: `Create` writes the address before it
  enqueues the command, and neither a row that shows running nor a state `reconcileVMs`
  has listed comes without a command. Reports leave an address that is there.

`IPAllocationProofs` assumes `BoundAssumption`.

* `TypeCorrect` and `NoWrap` (`Spec => []HostAddress`): rows and creates still to come
  together never exceed the bound, so a count is below 244 and `byte(11 + count)` does
  not wrap.
* `SharingIsBounded` (`Spec => []SharingBound`), as long as the existing rows and the
  creates are at most 256, so that different counts are different octets. It counts, for
  each count `v`, the creates that hold it (row, command or VM) and those about to INSERT
  with it. `Grown`, the number of rows plus the deletes so far, never shrinks, and each
  INSERT adds one to it: whoever holds `v` has either overlapped with the others or found
  the count lowered by a delete, and there are no more of the first kind than `MaxOpen`.
* `OwnUntilDelete`: with creates one at a time (`MaxOpen = 1`) and no more than 256 rows,
  `Spec => [](deletes = 0 => NoSharedAddress)`. It is the sharing bound at its smallest.

`ImageDownloadProofs` and `VpcNetworkProofs` are about their component's own
specification, for any number of downloads and calls.

* `TypeCorrect`, `RestIsWhole` (`Spec => []WholeAtRest`) and `TargetStaysWhole`
  (`Spec => []TargetWhole`) from `DownloadAssumption`; the last one
  also from one download at a time and finitely many of them. `RestIsWhole` follows,
  through renames and removals, the `wget` that truncated a file last: while it is
  at work it is the one that will complete the file, and once it has ended without
  failing the file is whole whatever the others wrote over it.
* `CreatedStaysReady`: `VpcAssumption` implies
  `Spec => CreatedIsReady`. The invariant finds, for each bridge, the one call whose
  `ip link add` succeeded: no other create gets past its own, because it fails on the
  existing link, and creates that failed there never reach the undo (an `ensure` has
  none). So only the holder, or a delete, can take the bridge down, and what the holder
  has set up by its program counter is still there when it ends.
* `DeletedLeavesOnlyMissed`: `OnlyMissedLeftStep` holds of every step, from `SerialCalls`:
  calls one after the other, finitely many. Nothing is assumed of what fails. Between two
  calls a VPC is `Calm`: unless a delete has missed a rule of it since the last reboot, it
  has one at most, and none without its bridge, whatever a call that stopped half way has
  left; `Halfway` says how far the call at work is from that. What a delete missed
  is not forgotten before the next reboot (`MissedKept`), which clears it with the rule.

The remaining three modules prove the safety properties of the MC modules themselves,
for every value of their constants; what the run shows on one instance is the same
formula. The invariant of a composition is that the part explored has its own. They
assume the `BoundsAssumption` of the module, which collects those of the parts.

* `InfrastructureProofs`: `TypeCorrect`, `TargetStaysWhole`, `RestIsWhole`,
  `CreatedStaysReady` and `DeletedLeavesOnlyMissed` carry the results on downloads and VPC
  calls over (with up to three of either overlapping, as the instances have it), with a budget for rules that types need: no more rules than calls that
  have ended. `CreateComesFirst` (`Spec => []CreateBeforeDelete`): ids are generated once
  (`Fresh`), what a queue or a row names was generated (`Known`, `Named`), and a create
  that has not sent its command is alone with its id (`OneAtATime`), so no delete can be
  queued yet. `UsedStaysInRange` (`Spec => []UsedInRange`) needs that a row whose free
  memory was measured has at most what the machine has (`MeasuredFits`), also when the
  total in the row is an older one. `BestIsPicked` (`Spec => []PickIsBest`) shows that the fold
  `PickNode` is what the loop of the code computes row by row (`PickIsLoop`), and then that
  the loop keeps the best so far (`BestHolds`). Each induction is over a set of row numbers
  (`NatSet`, by the least number outside it), not over a predicate. It assumes that
  `Node` is finite, because `PickNode` is a loop, and that `"none"` is not one of the nodes.
* `InstancePagesProofs`: `TypeCorrect`, `OneCreateAtMost` (`Spec => []OneCreate`),
  `KeysOfRoute` (`Spec => []SocketOfRoute`), `MetricsStayOfRoute` (`Spec => MetricsOfRoute`).
  The steps of a part keep its invariant whatever `Bounds` lets through. The flag and
  the request are counted together (`ListInv`): the flag is set exactly while one create
  of this visit is under way, which is what the button's guard and `finally` do to the
  two. `PageInv` rests on the cleanups of the two effects: whatever changes the route or
  the tab closes the socket and drops the metrics requests in the same commit. Types need
  that a list request is sent with an id of the route only (`Asked`).
* `OperatorPagesProofs`: `TypeCorrect`, `CreatingIsACreate`, `DeployingIsACall`,
  `NamedWasQueued` (`Spec => []QueuedOn`) and `DeletedForGood`
  (`Spec => DeletedStaysDeleted`). The flag of `NetworkPage` and its create are counted
  together, and away from the page there is neither a flag nor a request of the visit
  (`NetInv`). For images, the flag of each is set while a deploy of it is under way
  (`Flags`). The queue remembers which deploy put a download into it: while one is under
  way, what it has enqueued is exactly what its handler has appended so far, and its answer
  is that list (`Named`); once it is over nothing is added to it, so the page keeps naming
  what one finished deploy enqueued (`Shown`). `DemoGone` goes through the steps of the demo list:
  timers and buttons map over the rows that are there, and a new row has an id of its own.

TLC confirmed the parts of the inductive invariants on small instances before they were
proved.

Only model-checked is liveness (`ListedHealthyAgain`, `QueueDrained`, `TransitionsEnd`,
`ListConverges`, `PageConverges`, `SessionEnds`, `NodesConverge`, `AcceptedShown`,
`DashboardConverges`, `GateOpens`), which rests on fairness and ENABLED and is out of the
prover's reach. Every invariant and every action property of the passing runs is proved.

## 5. Not modelled, and the plan

Not modelled:

* generated protocol code, route tables, connection set-up, migrations beyond the
  shape of the tables, the install script beyond its restart policy: no state of
  their own, or plain I/O;
* message contents, encodings and formats, figures and their arithmetic, the
  libvirt XML, cloud-init files, passwords: data no property tells apart;
* timing beyond order, except the age of heartbeats in `Placement`;
* paused and crashed guests, metrics of libvirt: states the pages never name;
* networks narrower than /24, where an address may leave its network;
* two agents that register one address;
* of the pages: the search box and the filter, which hide rows and change none, the
  marks of copied or visible fields, and everything that is drawn;
* the demo pages over constant data (Databases, Kubernetes, Object Storage, ...),
  which hold a view mode, a selected tab or nothing;
* the composition of the executor's three parts: `InstanceLifecycle` keeps
  `EnsureBridge` and the image as outcomes that may fail, and does not follow them
  into `VpcNetwork` and `ImageDownload`, whose states would multiply its own.

Plan, most important first:

1. A module that composes `VpcService`, the queues of `NodeSession` as `CommandChannel`
   promises them and `VpcNetwork`: which networks a node ends up with after lost and
   reordered commands.
2. `EnsureBridge` and the image within `InstanceLifecycle`, by what `VpcNetwork` and
   `ImageDownload` promise: a VM started on a bridge that a delete takes away.
3. The address arithmetic of narrow networks.
