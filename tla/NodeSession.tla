----------------------------- MODULE NodeSession -----------------------------
(***************************************************************************)
(* The session between one agent and the controller: registration, the     *)
(* heartbeat streams with one handler goroutine each, the dispatcher's     *)
(* per-node queues and the status of the row in table nodes.               *)
(*                                                                         *)
(* Sessions of agents with different addresses share no state, so one      *)
(* agent is modelled.  A row deleted through the API comes back under a    *)
(* fresh id; a stream the agent gave up on leaves a handler behind in the  *)
(* controller, which keeps running next to the handler of the new stream.  *)
(*                                                                         *)
(* Commands are tickets 1, 2, ... in the order they were enqueued.  Times  *)
(* and resource figures are left out.                                      *)
(***************************************************************************)
EXTENDS Naturals, Sequences

CONSTANTS MaxFault,   \* bound: disturbances (crash, lost call, broken link,
                      \*        failed update, deleted row)
          MaxCmd      \* bound: commands enqueued

ASSUME BoundAssumption == MaxFault \in Nat /\ MaxCmd \in Nat

Id     == 1..(MaxFault + 1)     \* ids the database generates, in order
NoId   == 0
Stream == 1..(MaxFault + 1)     \* heartbeat streams, in the order opened

VARIABLES
    node,      \* the row for the agent's address: [id, status]; NoId: no row
    lastId,    \* ids generated so far
    agent,     \* [pc, id]: where the agent's main loop is, its client.nodeID
    cur,       \* streams opened so far; the agent reads only stream[cur]
    stream,    \* both ends of each stream, see StreamType
    queue,     \* the dispatcher's queues[nodeID]
    issued,    \* commands enqueued so far
    received,  \* received[id]: commands handed to the executor under that id
    faults     \* disturbances so far

vars == <<node, lastId, agent, cur, stream, queue, issued, received, faults>>

-----------------------------------------------------------------------------
(* Types and initial state *)

\* "boot": not registered yet; "open": about to call Heartbeat; "beat": waits
\* for the ticker; "await": in stream.Recv; "retry": sleeps before registering
AgentPc == {"boot", "open", "beat", "await", "retry"}

\* where Server.Heartbeat stands: in Recv, before UpdateHeartbeat, before
\* Drain, before Send, returned
HandlerPc == {"recv", "update", "drain", "send", "closed"}

StreamType ==
    [link    : {"up", "eof", "broken"},  \* "eof": the agent called CloseSend
     pc      : HandlerPc,
     id      : Id \cup {NoId},           \* the handler's nodeID
     request : Id \cup {NoId},           \* NodeId of a request under way
     batch   : Seq(1..MaxCmd),           \* commands drained, not yet received
     replied : BOOLEAN]                  \* the response has been sent

IdleStream == [link |-> "up", pc |-> "recv", id |-> NoId, request |-> NoId,
               batch |-> <<>>, replied |-> FALSE]

TypeOK ==
    /\ node \in [id : Id \cup {NoId}, status : {"healthy", "unreachable"}]
    /\ lastId \in Id \cup {NoId}
    /\ node.id <= lastId
    /\ agent \in [pc : AgentPc, id : Id \cup {NoId}]
    /\ cur \in Stream \cup {0}
    /\ stream \in [Stream -> StreamType]
    /\ queue \in [Id -> Seq(1..MaxCmd)]
    /\ issued \in 0..MaxCmd
    /\ received \in [Id -> Seq(1..MaxCmd)]
    /\ faults \in 0..MaxFault
    /\ agent.pc \in {"beat", "await"} => cur \in Stream

Init ==
    /\ node = [id |-> NoId, status |-> "unreachable"]
    /\ lastId = NoId
    /\ agent = [pc |-> "boot", id |-> NoId]
    /\ cur = 0
    /\ stream = [k \in Stream |-> IdleStream]
    /\ queue = [id \in Id |-> <<>>]
    /\ issued = 0
    /\ received = [id \in Id |-> <<>>]
    /\ faults = 0

\* A disturbance happens; the bound on their number is the only guard.
Disturb == faults < MaxFault /\ faults' = faults + 1
Calm    == UNCHANGED faults

\* The agent has given up on a stream, or never had one.
Offline == agent.pc \in {"boot", "open", "retry"}

-----------------------------------------------------------------------------
(* Registration *)

\* NodeStore.Upsert: the row of this address keeps its id if it exists.
Upsert ==
    /\ lastId' = IF node.id = NoId THEN lastId + 1 ELSE lastId
    /\ node' = [id     |-> IF node.id = NoId THEN lastId' ELSE node.id,
                status |-> "healthy"]

\* Register succeeds, at boot or after a lost stream.
Register ==
    /\ agent.pc \in {"boot", "retry"}
    /\ Upsert
    /\ agent' = [pc |-> "open", id |-> node'.id]
    /\ Calm /\ UNCHANGED <<cur, stream, queue, issued, received>>

\* The call fails, before or after the controller applied it.  At boot the
\* agent exits and is started again; later it goes on with the id it had.
RegisterFails ==
    /\ agent.pc \in {"boot", "retry"}
    /\ Disturb
    /\ \/ Upsert
       \/ UNCHANGED <<node, lastId>>
    /\ agent' = IF agent.pc = "boot" THEN agent ELSE [agent EXCEPT !.pc = "open"]
    /\ UNCHANGED <<cur, stream, queue, issued, received>>

-----------------------------------------------------------------------------
(* The agent's end of the stream: Client.RunHeartbeat *)

OpenStream ==
    /\ agent.pc = "open"
    /\ cur' = cur + 1
    /\ agent' = [agent EXCEPT !.pc = "beat"]
    /\ Calm /\ UNCHANGED <<node, lastId, stream, queue, issued, received>>

OpenStreamFails ==
    /\ agent.pc = "open"
    /\ Disturb
    /\ agent' = [agent EXCEPT !.pc = "retry"]
    /\ UNCHANGED <<node, lastId, cur, stream, queue, issued, received>>

\* Mutant of Receive: the commands of a response are handled before the
\* response is taken off the stream, so a second read hands them out again.
ReceiveTwice ==
    /\ agent.pc = "await"
    /\ stream[cur].replied
    /\ received' = [received EXCEPT ![stream[cur].id] = @ \o stream[cur].batch]
    /\ UNCHANGED <<agent, stream>>
    /\ Calm /\ UNCHANGED <<node, lastId, cur, queue, issued>>

\* Mutant of Receive: RunHeartbeat returns after each response, so the agent
\* opens a stream for every beat.
ReceiveReturns ==
    /\ agent.pc = "await"
    /\ stream[cur].replied
    /\ received' = [received EXCEPT ![stream[cur].id] = @ \o stream[cur].batch]
    /\ stream' = [stream EXCEPT ![cur].replied = FALSE, ![cur].batch = <<>>]
    /\ agent' = [agent EXCEPT !.pc = "retry"]
    /\ Calm /\ UNCHANGED <<node, lastId, cur, queue, issued>>

\* The ticker fires; the request leaves and the agent blocks in Recv.
Tick ==
    /\ agent.pc = "beat"
    /\ stream[cur].link = "up"
    /\ stream' = [stream EXCEPT ![cur].request = agent.id]
    /\ agent' = [agent EXCEPT !.pc = "await"]
    /\ Calm /\ UNCHANGED <<node, lastId, cur, queue, issued, received>>

\* Recv returns: every command of the response goes to Executor.Handle.  A
\* response that left before the link broke may still be read.
Receive ==
    /\ agent.pc = "await"
    /\ stream[cur].replied
    /\ received' = [received EXCEPT ![stream[cur].id] = @ \o stream[cur].batch]
    /\ stream' = [stream EXCEPT ![cur].replied = FALSE, ![cur].batch = <<>>]
    /\ agent' = [agent EXCEPT !.pc = "beat"]
    /\ Calm /\ UNCHANGED <<node, lastId, cur, queue, issued>>

\* Send or Recv returns an error.
LoseStream ==
    /\ agent.pc \in {"beat", "await"}
    /\ stream[cur].link = "broken"
    /\ agent' = [agent EXCEPT !.pc = "retry"]
    /\ Calm /\ UNCHANGED <<node, lastId, cur, stream, queue, issued, received>>

-----------------------------------------------------------------------------
(* The controller's end: Server.Heartbeat, one handler per stream *)

HandlerRecv(k) ==
    /\ k <= cur
    /\ stream[k].pc = "recv"
    /\ stream[k].request # NoId
    /\ stream' = [stream EXCEPT ![k].pc = "update", ![k].request = NoId,
                                ![k].id = stream[k].request]
    /\ Calm /\ UNCHANGED <<node, lastId, agent, cur, queue, issued, received>>

\* Mutant of HandlerUpdate: only last_seen and the figures are written.
HandlerUpdateKeepsStatus(k) ==
    /\ k <= cur
    /\ stream[k].pc = "update"
    /\ stream' = [stream EXCEPT ![k].pc = "drain"]
    /\ Calm /\ UNCHANGED <<node, lastId, agent, cur, queue, issued, received>>

\* UpdateHeartbeat changes no row when the id's row was deleted.
HandlerUpdate(k) ==
    /\ k <= cur
    /\ stream[k].pc = "update"
    /\ node' = IF node.id = stream[k].id
               THEN [node EXCEPT !.status = "healthy"]
               ELSE node
    /\ stream' = [stream EXCEPT ![k].pc = "drain"]
    /\ Calm /\ UNCHANGED <<lastId, agent, cur, queue, issued, received>>

\* Mutant of HandlerUpdateFails: the handler goes back to Recv, without an
\* answer.
HandlerUpdateContinues(k) ==
    /\ k <= cur
    /\ stream[k].pc = "update"
    /\ IF stream[k].link = "broken" THEN Calm ELSE Disturb
    /\ stream' = [stream EXCEPT ![k].pc = "recv"]
    /\ UNCHANGED <<node, lastId, agent, cur, queue, issued, received>>

\* The update runs under the stream's context and fails with it, or the
\* database fails; the error is only logged.
HandlerUpdateFails(k) ==
    /\ k <= cur
    /\ stream[k].pc = "update"
    /\ IF stream[k].link = "broken" THEN Calm ELSE Disturb
    /\ stream' = [stream EXCEPT ![k].pc = "drain"]
    /\ UNCHANGED <<node, lastId, agent, cur, queue, issued, received>>

\* Mutant of HandlerDrain: the queue is copied but not deleted.
HandlerDrainKeepsQueue(k) ==
    /\ k <= cur
    /\ stream[k].pc = "drain"
    /\ stream' = [stream EXCEPT ![k].pc = "send", ![k].batch = queue[stream[k].id]]
    /\ Calm /\ UNCHANGED <<node, lastId, agent, cur, queue, issued, received>>

\* Dispatcher.Drain takes the whole queue under the mutex.
HandlerDrain(k) ==
    /\ k <= cur
    /\ stream[k].pc = "drain"
    /\ stream' = [stream EXCEPT ![k].pc = "send", ![k].batch = queue[stream[k].id]]
    /\ queue' = [queue EXCEPT ![stream[k].id] = <<>>]
    /\ Calm /\ UNCHANGED <<node, lastId, agent, cur, issued, received>>

HandlerSend(k) ==
    /\ k <= cur
    /\ stream[k].pc = "send"
    /\ stream' = [stream EXCEPT ![k].pc = "recv", ![k].replied = TRUE]
    /\ Calm /\ UNCHANGED <<node, lastId, agent, cur, queue, issued, received>>

\* Send fails: the handler returns, and what it drained is gone.
HandlerSendFails(k) ==
    /\ k <= cur
    /\ stream[k].pc = "send"
    /\ stream[k].link = "broken"
    /\ stream' = [stream EXCEPT ![k].pc = "closed", ![k].batch = <<>>]
    /\ Calm /\ UNCHANGED <<node, lastId, agent, cur, queue, issued, received>>

\* Recv fails, possibly long after the agent gave the stream up.
HandlerRecvError(k) ==
    /\ k <= cur
    /\ stream[k].pc = "recv"
    /\ stream[k].link # "up"
    /\ node' = IF stream[k].id # NoId /\ node.id = stream[k].id
               THEN [node EXCEPT !.status = "unreachable"]
               ELSE node
    /\ stream' = [stream EXCEPT ![k].pc = "closed"]
    /\ Calm /\ UNCHANGED <<lastId, agent, cur, queue, issued, received>>

\* Recv returns io.EOF: the row keeps its status.
HandlerRecvEOF(k) ==
    /\ k <= cur
    /\ stream[k].pc = "recv"
    /\ stream[k].link = "eof"
    /\ stream[k].request = NoId
    /\ stream' = [stream EXCEPT ![k].pc = "closed"]
    /\ Calm /\ UNCHANGED <<node, lastId, agent, cur, queue, issued, received>>

-----------------------------------------------------------------------------
(* The services of the controller *)

\* Dispatcher.Enqueue, for a node that has or once had a row: a service reads
\* the node id, or an instance's node id, some steps before it enqueues.
Enqueue(id) ==
    /\ id <= lastId
    /\ issued < MaxCmd
    /\ issued' = issued + 1
    /\ queue' = [queue EXCEPT ![id] = Append(@, issued + 1)]
    /\ Calm /\ UNCHANGED <<node, lastId, agent, cur, stream, received>>

\* NodeStore.Delete; the agent is not told, and its queue stays.
DeleteNode ==
    /\ node.id # NoId
    /\ Disturb
    /\ node' = [node EXCEPT !.id = NoId]
    /\ UNCHANGED <<lastId, agent, cur, stream, queue, issued, received>>

-----------------------------------------------------------------------------
(* Crashes and broken links *)

BreakLink ==
    /\ cur # 0
    /\ stream[cur].link = "up"
    /\ Disturb
    /\ stream' = [stream EXCEPT ![cur].link = "broken"]
    /\ UNCHANGED <<node, lastId, agent, cur, queue, issued, received>>

\* The agent stops and systemd starts it again.  Only a SIGTERM that finds it
\* waiting for the ticker closes the stream in order.
AgentStops(link) ==
    /\ agent.pc # "boot"
    /\ link = "eof" => agent.pc = "beat" /\ stream[cur].link = "up"
    /\ Disturb
    /\ agent' = [pc |-> "boot", id |-> NoId]
    /\ stream' = IF agent.pc \in {"beat", "await"}
                 THEN [stream EXCEPT ![cur].link = link]
                 ELSE stream
    /\ UNCHANGED <<node, lastId, cur, queue, issued, received>>

\* The handler is gone; a response already sent may still reach the agent.
Crashed(s) ==
    [s EXCEPT !.link = "broken", !.pc = "closed", !.request = NoId,
              !.batch = IF s.replied THEN s.batch ELSE <<>>]

\* Queues and handlers live in memory, the row does not.
ControllerCrash ==
    /\ Disturb
    /\ queue' = [id \in Id |-> <<>>]
    /\ stream' = [k \in Stream |-> IF k > cur THEN stream[k] ELSE Crashed(stream[k])]
    /\ UNCHANGED <<node, lastId, agent, cur, issued, received>>

-----------------------------------------------------------------------------
Handler(k) ==
    \/ HandlerRecv(k) \/ HandlerUpdate(k) \/ HandlerUpdateFails(k)
    \/ HandlerDrain(k) \/ HandlerSend(k) \/ HandlerSendFails(k)
    \/ HandlerRecvError(k) \/ HandlerRecvEOF(k)

Agent == Register \/ OpenStream \/ Tick \/ Receive \/ LoseStream

Fault ==
    \/ RegisterFails \/ OpenStreamFails \/ DeleteNode \/ BreakLink
    \/ AgentStops("eof") \/ AgentStops("broken") \/ ControllerCrash

Next ==
    \/ Agent
    \/ \E k \in Stream : Handler(k)
    \/ \E id \in Id : Enqueue(id)
    \/ Fault

\* Goroutines that can run do run, the ticker keeps firing, systemd restarts
\* the agent.  Nothing is assumed of disturbances and of callers.
Fairness == WF_vars(Agent) /\ \A k \in Stream : WF_vars(Handler(k))

Spec == Init /\ [][Next]_vars /\ Fairness

-----------------------------------------------------------------------------
(* Properties *)

Increasing(s) == \A i, j \in DOMAIN s : i < j => s[i] < s[j]

\* what the agent may still receive under this id
OnTheWay(id) ==
    IF agent.pc = "await" /\ stream[cur].id = id
    THEN stream[cur].batch \o queue[id]
    ELSE queue[id]

\* However handlers of old and new streams interleave, and whatever is lost,
\* the agent is handed each command at most once and in the order the services
\* enqueued them (Dispatcher.Enqueue, Drain; Server.Heartbeat; RunHeartbeat).
InOrderAtMostOnce ==
    \A id \in Id : Increasing(received[id] \o OnTheWay(id))

\* The session keeps the whole promise of CommandChannel: nothing is invented,
\* duplicated, reordered or sent to another node, although commands may be lost.
Channel == INSTANCE CommandChannel WITH
               pending   <- [id \in Id |-> OnTheWay(id)],
               delivered <- received
ImplementsChannel == Channel!Spec

\* The late MarkUnreachable of a handler left behind never has the last word:
\* once disturbances are over, the row under which the agent sends its
\* heartbeats is healthy for good.
ListedHealthyAgain == <>[](agent.id = node.id => node.status = "healthy")

\* Once disturbances are over, commands do not stay in the queue of the id
\* under which the agent sends its heartbeats.
QueueDrained == <>[](agent.id # NoId /\ queue[agent.id] = <<>>)

\* dispatcher.go:11-12 says that commands stay queued until an offline agent
\* has reconnected: as long as the agent has no stream, its queue only grows
\* (a restart of the controller aside).
OfflineQueueKept ==
    [][Offline /\ Offline' =>
         \/ ControllerCrash
         \/ \A id \in Id : \E more \in {<<>>, <<issued + 1>>} :
                queue'[id] = queue[id] \o more]_vars
=============================================================================
