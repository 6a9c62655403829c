----------------------------- MODULE VpcService -----------------------------
(***************************************************************************)
(* The VPC requests of the controller's API: VPCService.Create and Delete, *)
(* one goroutine per request, each a sequence of calls to the database,    *)
(* the scheduler and the dispatcher that others may come between.          *)
(*                                                                         *)
(* What a node does with a command is VpcNetwork's subject; here the       *)
(* commands only pile up in the order they were enqueued.                  *)
(***************************************************************************)
EXTENDS Naturals, Sequences, FiniteSets

CONSTANTS
    Node,
    Vpc,        \* ids the database generates
    NoVpc,
    Request,    \* bound: requests, numbered
    AtOnce      \* requests that may overlap

ServiceAssumption == NoVpc \notin Vpc /\ AtOnce \in Nat \ {0}

VARIABLES
    rows,       \* table vpcs
    used,       \* ids generated so far
    hosts,      \* VPCs an instance refers to
    healthy,    \* nodes PickNode may choose from
    queue,      \* queue[n]: the commands enqueued for n so far
    request     \* request[r]: [op, vpc, pc]

vars == <<rows, used, hosts, healthy, queue, request>>

Cmd == {"create_vpc", "delete_vpc"} \X Vpc
Pc == {"unused", "insert", "pick", "get", "delete", "ok", "failed"}
Ended == {"unused", "ok", "failed"}

TypeOK ==
    /\ hosts \subseteq rows /\ rows \subseteq used /\ used \subseteq Vpc
    /\ healthy \subseteq Node
    /\ \A n \in Node : queue[n] \in Seq(Cmd)
    /\ request \in [Request -> [op : {"create", "delete"}, vpc : Vpc \cup {NoVpc},
                                pc : Pc]]

Init ==
    /\ rows = {} /\ used = {} /\ hosts = {}
    /\ healthy \in SUBSET Node
    /\ queue = [n \in Node |-> <<>>]
    /\ request = [r \in Request |-> [op |-> "create", vpc |-> NoVpc, pc |-> "unused"]]

----------------------------------------------------------------------------

Running == {r \in Request : request[r].pc \notin Ended}
At(r, op, pc) == request[r].op = op /\ request[r].pc = pc
Goto(r, pc) == request' = [request EXCEPT ![r].pc = pc]

Begin(r, op, v, pc) ==
    /\ request[r].pc = "unused" /\ Cardinality(Running) < AtOnce
    /\ \A s \in Request : request[s].pc = "unused" => r <= s
    /\ request' = [request EXCEPT ![r] = [op |-> op, vpc |-> v, pc |-> pc]]
    /\ UNCHANGED <<rows, used, hosts, healthy, queue>>

\* the request has come; its CIDR parses
CreateBegins(r) == Begin(r, "create", NoVpc, "insert")

\* store.Get finds the row, or the request ends
DeleteBegins(r) ==
    \E v \in used : Begin(r, "delete", v, IF v \in rows THEN "pick" ELSE "failed")

\* Mutant of Insert: the id of a deleted row is given out again.
InsertReused(r) ==
    /\ At(r, "create", "insert")
    /\ \E v \in Vpc \ rows :
        /\ rows' = rows \cup {v} /\ used' = used \cup {v}
        /\ request' = [request EXCEPT ![r].vpc = v, ![r].pc = "pick"]
    /\ UNCHANGED <<hosts, healthy, queue>>

\* store.Create: uuid_generate_v4() gives each row an id of its own
Insert(r) ==
    /\ At(r, "create", "insert")
    /\ \E v \in Vpc \ used :
        /\ rows' = rows \cup {v} /\ used' = used \cup {v}
        /\ request' = [request EXCEPT ![r].vpc = v, ![r].pc = "pick"]
    /\ UNCHANGED <<hosts, healthy, queue>>

\* PickNode and Enqueue: the command goes to any healthy node, or nowhere
Enqueue(type, v) ==
    \/ \E n \in healthy : queue' = [queue EXCEPT ![n] = Append(@, <<type, v>>)]
    \/ healthy = {} /\ UNCHANGED queue

SendCreate(r) ==
    /\ At(r, "create", "pick")
    /\ Enqueue("create_vpc", request[r].vpc)
    /\ Goto(r, "get")
    /\ UNCHANGED <<rows, used, hosts, healthy>>

\* store.Get of the new row
Reread(r) ==
    /\ At(r, "create", "get")
    /\ Goto(r, IF request[r].vpc \in rows THEN "ok" ELSE "failed")
    /\ UNCHANGED <<rows, used, hosts, healthy, queue>>

SendDelete(r) ==
    /\ At(r, "delete", "pick")
    /\ Enqueue("delete_vpc", request[r].vpc)
    /\ Goto(r, "delete")
    /\ UNCHANGED <<rows, used, hosts, healthy>>

\* instances.vpc_id REFERENCES vpcs(id); deleting no row is no error
Deletable(v) == v \notin hosts

\* store.Delete
DeleteRow(r) ==
    /\ At(r, "delete", "delete")
    /\ IF Deletable(request[r].vpc)
       THEN rows' = rows \ {request[r].vpc} /\ Goto(r, "ok")
       ELSE Goto(r, "failed") /\ UNCHANGED rows
    /\ UNCHANGED <<used, hosts, healthy, queue>>

----------------------------------------------------------------------------
(* What goes on around the requests.                                       *)

\* instances come and go
Host(v) ==
    /\ v \in rows
    /\ hosts' = IF v \in hosts THEN hosts \ {v} ELSE hosts \cup {v}
    /\ UNCHANGED <<rows, used, healthy, queue, request>>

\* heartbeats come and stop
HealthChanges(n) ==
    /\ healthy' = IF n \in healthy THEN healthy \ {n} ELSE healthy \cup {n}
    /\ UNCHANGED <<rows, used, hosts, queue, request>>

Step(r) ==
    Insert(r) \/ SendCreate(r) \/ Reread(r) \/ SendDelete(r) \/ DeleteRow(r)

Next ==
    \/ \E r \in Request : CreateBegins(r) \/ DeleteBegins(r) \/ Step(r)
    \/ \E v \in Vpc : Host(v)
    \/ \E n \in Node : HealthChanges(n)

Spec == Init /\ [][Next]_vars

----------------------------------------------------------------------------
(* Properties.                                                             *)

(***************************************************************************)
(* As long as requests follow one another, no node is told to make a VPC   *)
(* after it was told to remove it: a delete that comes between the row and *)
(* the command of a create would turn them round, and the bridge would     *)
(* stay for ever.                                                          *)
(***************************************************************************)
CreateBeforeDelete ==
    \A n \in Node : \A i, j \in DOMAIN queue[n] :
        queue[n][i][2] = queue[n][j][2] /\ queue[n][i][1] = "delete_vpc" /\ i < j =>
            queue[n][j][1] = "delete_vpc"
=============================================================================
