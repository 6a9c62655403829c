-------------------------- MODULE NodeSessionProofs --------------------------
(***************************************************************************)
(* Proofs about NodeSession for every value of its bounds: its types, that *)
(* commands arrive in order and at most once, that it implements           *)
(* CommandChannel, and who may empty the queue of an offline agent.        *)
(***************************************************************************)
EXTENDS NodeSession, SequenceTheorems, TLAPS

-----------------------------------------------------------------------------
(* Types.  The identifiers stay within their bounds because a row is only   *)
(* inserted again after a deletion, and a stream only opened again after    *)
(* the last one broke: each uses up a disturbance.                          *)

IdBudget == lastId <= faults \/ (node.id # NoId /\ lastId <= faults + 1)

OnLiveStream == agent.pc \in {"beat", "await"} /\ stream[cur].link = "up"

StreamBudget == cur <= faults \/ (OnLiveStream /\ cur <= faults + 1)

Between == {"update", "drain", "send"}   \* the handler holds a request

KnownNode == \A k \in Stream : stream[k].pc \in Between => stream[k].id # NoId

FreshStreams == \A k \in Stream : k > cur => stream[k] = IdleStream

TypeInv == TypeOK /\ IdBudget /\ StreamBudget /\ KnownNode /\ FreshStreams

-----------------------------------------------------------------------------
(* Order.  The handler and the agent work in lock step on a stream: at most *)
(* one of request, batch and response is under way.                         *)

LockStep(s) ==
    /\ s.pc \in Between => s.request = NoId /\ ~s.replied
    /\ s.pc \in {"update", "drain"} => s.batch = <<>>
    /\ s.request # NoId => s.batch = <<>> /\ ~s.replied
    /\ s.replied => s.id # NoId

Rests(s) == s.request = NoId /\ ~s.replied /\ s.batch = <<>> /\ s.pc \notin Between

Registered == agent.pc # "boot" => agent.id # NoId

SessionInv ==
    /\ \A k \in Stream : LockStep(stream[k])
    /\ agent.pc = "beat" => Rests(stream[cur])
    /\ Registered

\* every element of s is below every element of t
Below(s, t) == \A i \in DOMAIN s, j \in DOMAIN t : s[i] < t[j]

AtMost(s, n) == \A i \in DOMAIN s : s[i] <= n

\* r, b and q, one after the other, increase and stay below n + 1
Ordered(r, b, q, n) ==
    /\ Increasing(r) /\ Increasing(b) /\ Increasing(q)
    /\ Below(r, b) /\ Below(r, q) /\ Below(b, q)
    /\ AtMost(r, n) /\ AtMost(b, n) /\ AtMost(q, n)

\* what the current stream may still hand to the agent
LiveBatch(id) ==
    IF agent.pc = "await" /\ stream[cur].id = id THEN stream[cur].batch ELSE <<>>

OrderInv ==
    \A id \in Id : Ordered(received[id], LiveBatch(id), queue[id], issued)

IInv == TypeInv /\ SessionInv /\ OrderInv

-----------------------------------------------------------------------------
USE BoundAssumption DEF Id, NoId, Stream

LEMMA TypeInit == Init => TypeInv
<1> SUFFICES ASSUME Init PROVE TypeInv
    OBVIOUS
<1>1. TypeOK
    BY DEF Init, TypeOK, StreamType, IdleStream, HandlerPc, AgentPc
<1>2. KnownNode /\ FreshStreams
    BY DEF Init, KnownNode, FreshStreams, IdleStream, Between
<1> QED
    BY <1>1, <1>2 DEF Init, TypeInv, IdBudget, StreamBudget

\* The counters are numbers.
LEMMA Numbers ==
    ASSUME TypeOK
    PROVE  lastId \in Nat /\ cur \in Nat /\ faults \in Nat /\ faults <= MaxFault /\ MaxFault \in Nat
BY DEF TypeOK

\* The budgets outlast a step that generates no id and opens no stream, unless
\* it takes the row or the live stream away without using up a disturbance.
LEMMA BudgetKept ==
    ASSUME TypeInv, lastId' = lastId, cur' = cur,
           \/ /\ faults' = faults
              /\ node.id # NoId => node'.id # NoId
              /\ OnLiveStream => OnLiveStream'
           \/ faults' = faults + 1
    PROVE  IdBudget' /\ StreamBudget'
<1>1. lastId \in Nat /\ cur \in Nat /\ faults \in Nat
    BY Numbers DEF TypeInv
<1>2. lastId <= faults + 1 /\ cur <= faults + 1
    BY <1>1 DEF TypeInv, IdBudget, StreamBudget
<1>3. CASE faults' = faults + 1
    BY <1>1, <1>2, <1>3 DEF IdBudget, StreamBudget
<1>4. CASE faults' # faults + 1
    BY <1>4 DEF TypeInv, IdBudget, StreamBudget
<1> QED
    BY <1>3, <1>4

\* One end of an opened stream changes some fields, the link not among them.
LEMMA StreamUpdate ==
    ASSUME TypeInv, NEW k \in Stream, k <= cur, NEW s \in StreamType,
           stream' = [stream EXCEPT ![k] = s], cur' = cur,
           s.link = stream[k].link, s.pc \in Between => s.id # NoId
    PROVE  /\ stream' \in [Stream -> StreamType]
           /\ \A m \in Stream : stream'[m].link = stream[m].link
           /\ KnownNode' /\ FreshStreams'
<1>1. stream \in [Stream -> StreamType] /\ cur \in Stream \cup {0}
    BY DEF TypeInv, TypeOK
<1>2. stream' \in [Stream -> StreamType]
    BY <1>1
<1>3. \A m \in Stream : stream'[m] = IF m = k THEN s ELSE stream[m]
    BY <1>1
<1>4. \A m \in Stream : stream'[m].link = stream[m].link
    BY <1>3
<1>5. KnownNode'
    BY <1>3 DEF KnownNode, TypeInv
<1>6. FreshStreams'
    BY <1>1, <1>3 DEF FreshStreams, TypeInv
<1> QED
    BY <1>2, <1>4, <1>5, <1>6

\* What such a change does to the row, the agent and the dispatcher is typed.
LEMMA TypeAfterUpdate ==
    ASSUME TypeInv, NEW k \in Stream, k <= cur, NEW s \in StreamType,
           stream' = [stream EXCEPT ![k] = s],
           s.link = stream[k].link, s.pc \in Between => s.id # NoId,
           cur' = cur, lastId' = lastId, issued' = issued,
           (faults' = faults \/ faults' = faults + 1), faults' <= MaxFault,
           node' \in [id : {node.id}, status : {"healthy", "unreachable"}],
           agent' \in [pc : AgentPc, id : {agent.id}],
           agent.pc \in {"beat", "await"} <=> agent'.pc \in {"beat", "await"},
           queue' \in [Id -> Seq(1..MaxCmd)],
           received' \in [Id -> Seq(1..MaxCmd)]
    PROVE  TypeInv'
<1>1. /\ stream' \in [Stream -> StreamType]
      /\ \A m \in Stream : stream'[m].link = stream[m].link
      /\ KnownNode' /\ FreshStreams'
    BY StreamUpdate
<1>2. TypeOK
    BY DEF TypeInv
<1>3. node'.id = node.id /\ agent'.id = agent.id
    OBVIOUS
<1>4. node' \in [id : Id \cup {NoId}, status : {"healthy", "unreachable"}]
      /\ agent' \in [pc : AgentPc, id : Id \cup {NoId}]
    BY <1>2 DEF TypeOK
<1>5. faults' \in 0..MaxFault
    <2>1. faults \in Nat /\ MaxFault \in Nat
      BY <1>2, Numbers
    <2>2. faults' \in Nat
      BY <2>1
    <2> QED
      BY <2>1, <2>2
<1>6. TypeOK'
    BY <1>1, <1>2, <1>3, <1>4, <1>5 DEF TypeOK
<1>7. OnLiveStream => OnLiveStream'
    BY <1>1, <1>2 DEF TypeOK, OnLiveStream
<1>8. IdBudget' /\ StreamBudget'
    BY <1>3, <1>7, BudgetKept
<1> QED
    BY <1>1, <1>6, <1>8 DEF TypeInv

\* What a crash of the controller leaves of a stream.
LEMMA CrashedType ==
    ASSUME NEW s \in StreamType
    PROVE  Crashed(s) \in StreamType /\ Crashed(s).pc = "closed"
<1>1. s.batch \in Seq(1..MaxCmd) /\ <<>> \in Seq(1..MaxCmd)
    BY DEF StreamType
<1>2. (IF s.replied THEN s.batch ELSE <<>>) \in Seq(1..MaxCmd)
    BY <1>1
<1> QED
    BY <1>2 DEF Crashed, StreamType, HandlerPc

LEMMA TypeStep == TypeInv /\ [Next]_vars => TypeInv'
<1> SUFFICES ASSUME TypeInv, [Next]_vars PROVE TypeInv'
    OBVIOUS
<1>a. TypeOK
    BY DEF TypeInv
<1>b. stream \in [Stream -> StreamType]
    BY <1>a DEF TypeOK
<1> USE DEF Disturb, Calm
<1>1. CASE Register \/ RegisterFails
  <2>a. /\ lastId' \in {lastId, lastId + 1} /\ (lastId' = lastId + 1 => node.id = NoId)
        /\ node' \in [id : {node.id, lastId'}, status : {"healthy", "unreachable"}]
        /\ node.id = NoId => (lastId' = lastId /\ node'.id = NoId) \/ node'.id = lastId + 1
        /\ node.id # NoId => lastId' = lastId /\ node'.id = node.id
    BY <1>1, <1>a DEF Register, RegisterFails, Upsert, TypeOK
  <2>b. lastId' \in Id \cup {NoId}
    BY <2>a, <1>a DEF TypeInv, TypeOK, IdBudget
  <2>c. cur' = cur /\ stream' = stream /\ queue' = queue /\ issued' = issued /\ received' = received
    BY <1>1 DEF Register, RegisterFails
  <2>d. (faults' = faults \/ faults' = faults + 1) /\ faults' <= MaxFault
    BY <1>1, <1>a DEF Register, RegisterFails, TypeOK
  <2>e. agent' \in [pc : {"boot", "open"}, id : Id \cup {NoId}] /\ ~OnLiveStream
    BY <1>1, <1>a, <2>a, <2>b DEF Register, RegisterFails, TypeOK, AgentPc, OnLiveStream
  <2>1. TypeOK'
    <3>1. faults' \in 0..MaxFault
      BY <1>a, <2>d, Numbers
    <3>2. node' \in [id : Id \cup {NoId}, status : {"healthy", "unreachable"}] /\ node'.id <= lastId'
      BY <1>a, <2>a, <2>b DEF TypeOK
    <3>3. agent' \in [pc : AgentPc, id : Id \cup {NoId}] /\ agent'.pc \notin {"beat", "await"}
      BY <2>e DEF AgentPc
    <3> QED
      BY <1>a, <2>b, <2>c, <3>1, <3>2, <3>3 DEF TypeOK
  <2>n. lastId \in Nat /\ cur \in Nat /\ faults \in Nat
    BY <1>a, Numbers
  <2>2. IdBudget'
    <3>1. lastId' = lastId + 1 => lastId <= faults /\ node'.id = lastId + 1
      BY <2>a, <2>n DEF TypeInv, IdBudget
    <3>2. lastId <= faults + 1 /\ (lastId <= faults \/ node.id # NoId)
      BY <2>n DEF TypeInv, IdBudget
    <3>3. CASE lastId' = lastId + 1
      BY <2>d, <2>n, <3>1, <3>3 DEF IdBudget
    <3>4. CASE lastId' = lastId
      BY <2>a, <2>d, <2>n, <3>2, <3>4 DEF IdBudget
    <3> QED
      BY <2>a, <3>3, <3>4
  <2>3. StreamBudget'
    <3>1. cur <= faults
      BY <2>e DEF TypeInv, StreamBudget
    <3> QED
      BY <2>c, <2>d, <2>n, <3>1 DEF StreamBudget
  <2>4. KnownNode' /\ FreshStreams'
    BY <2>c DEF TypeInv, KnownNode, FreshStreams
  <2> QED
    BY <2>1, <2>2, <2>3, <2>4 DEF TypeInv
<1>2. CASE OpenStream
  <2>0. cur <= faults
    BY <1>2 DEF OpenStream, TypeInv, StreamBudget, OnLiveStream
  <2>a. cur' \in Stream /\ cur' = cur + 1 /\ faults' = faults
    BY <1>2, <2>0, <1>a DEF OpenStream, TypeOK
  <2>b. stream'[cur'].link = "up"
    <3>1. cur' > cur /\ stream' = stream
      BY <1>2, <1>a, <2>a, Numbers DEF OpenStream
    <3>2. stream[cur'] = IdleStream
      BY <2>a, <3>1 DEF TypeInv, FreshStreams
    <3> QED
      BY <3>1, <3>2 DEF IdleStream
  <2>1. TypeOK'
    BY <1>2, <1>a, <2>a DEF OpenStream, TypeOK, AgentPc
  <2>2. IdBudget'
    BY <1>2 DEF OpenStream, TypeInv, IdBudget
  <2>3. StreamBudget'
    BY <1>2, <1>a, <2>0, <2>a, <2>b DEF OpenStream, TypeOK, StreamBudget, OnLiveStream
  <2>4. KnownNode' /\ FreshStreams'
    BY <1>2, <1>a, <2>a DEF OpenStream, TypeInv, TypeOK, KnownNode, FreshStreams
  <2> QED
    BY <2>1, <2>2, <2>3, <2>4 DEF TypeInv
<1>3. CASE OpenStreamFails
  <2>1. TypeOK'
    BY <1>3, <1>a DEF OpenStreamFails, TypeOK, AgentPc
  <2>2. IdBudget'
    BY <1>3, <1>a DEF OpenStreamFails, TypeInv, TypeOK, IdBudget
  <2>3. StreamBudget'
    BY <1>3, <1>a DEF OpenStreamFails, TypeInv, TypeOK, StreamBudget, OnLiveStream
  <2>4. KnownNode' /\ FreshStreams'
    BY <1>3 DEF OpenStreamFails, TypeInv, KnownNode, FreshStreams
  <2> QED
    BY <2>1, <2>2, <2>3, <2>4 DEF TypeInv
<1>4. CASE LoseStream
  <2>1. TypeOK'
    BY <1>4, <1>a DEF LoseStream, TypeOK, AgentPc
  <2>2. IdBudget'
    BY <1>4, <1>a DEF LoseStream, TypeInv, TypeOK, IdBudget
  <2>3. StreamBudget'
    BY <1>4, <1>a DEF LoseStream, TypeInv, TypeOK, StreamBudget, OnLiveStream
  <2>4. KnownNode' /\ FreshStreams'
    BY <1>4 DEF LoseStream, TypeInv, KnownNode, FreshStreams
  <2> QED
    BY <2>1, <2>2, <2>3, <2>4 DEF TypeInv
<1>5. CASE DeleteNode
  <2>1. TypeOK'
    <3>1. node' \in [id : {NoId}, status : {"healthy", "unreachable"}]
      BY <1>5, <1>a DEF DeleteNode, TypeOK
    <3>2. UNCHANGED <<lastId, agent, cur, stream, queue, issued, received>>
          /\ faults < MaxFault /\ faults' = faults + 1
      BY <1>5 DEF DeleteNode
    <3>3. faults' \in 0..MaxFault /\ lastId \in Nat /\ node'.id = 0
      BY <1>a, <3>1, <3>2, Numbers
    <3> QED
      BY <1>a, <3>1, <3>2, <3>3 DEF TypeOK
  <2>2. IdBudget'
    BY <1>5, <1>a DEF DeleteNode, TypeInv, TypeOK, IdBudget
  <2>3. StreamBudget'
    BY <1>5, <1>a DEF DeleteNode, TypeInv, TypeOK, StreamBudget, OnLiveStream
  <2>4. KnownNode' /\ FreshStreams'
    BY <1>5 DEF DeleteNode, TypeInv, KnownNode, FreshStreams
  <2> QED
    BY <2>1, <2>2, <2>3, <2>4 DEF TypeInv
<1>6. CASE Tick
  <2>0. cur \in Stream /\ stream[cur] \in StreamType
    BY <1>6, <1>a, <1>b DEF Tick, TypeOK
  <2> DEFINE s == [stream[cur] EXCEPT !.request = agent.id]
  <2>1. s \in StreamType /\ s.link = stream[cur].link
    BY <1>a, <2>0 DEF StreamType, TypeOK
  <2>2. s.pc \in Between => s.id # NoId
    BY <2>0 DEF StreamType, TypeInv, KnownNode
  <2>3. stream' = [stream EXCEPT ![cur] = s]
    BY <1>6 DEF Tick
  <2> HIDE DEF s
  <2>4. UNCHANGED <<cur, lastId, issued, node, queue, received, faults>> /\ cur <= cur
    BY <1>6, <2>0 DEF Tick
  <2>5. agent' \in [pc : AgentPc, id : {agent.id}]
        /\ agent.pc \in {"beat", "await"} /\ agent'.pc \in {"beat", "await"}
    BY <1>6, <1>a DEF Tick, TypeOK, AgentPc
  <2>6. /\ node' \in [id : {node.id}, status : {"healthy", "unreachable"}]
        /\ queue' \in [Id -> Seq(1..MaxCmd)] /\ received' \in [Id -> Seq(1..MaxCmd)]
        /\ (faults' = faults \/ faults' = faults + 1) /\ faults' <= MaxFault
    BY <2>4, <1>a DEF TypeOK
  <2> QED
    BY <2>0, <2>1, <2>2, <2>3, <2>4, <2>5, <2>6, TypeAfterUpdate
<1>7. CASE Receive
  <2>0. cur \in Stream /\ stream[cur] \in StreamType
    BY <1>7, <1>a, <1>b DEF Receive, TypeOK
  <2> DEFINE s == [stream[cur] EXCEPT !.replied = FALSE, !.batch = <<>>]
  <2>1. s \in StreamType /\ s.link = stream[cur].link
    <3>1. <<>> \in Seq(1..MaxCmd)
      OBVIOUS
    <3> QED
      BY <2>0, <3>1 DEF StreamType
  <2>2. s.pc \in Between => s.id # NoId
    BY <2>0 DEF StreamType, TypeInv, KnownNode
  <2>3. stream' = [stream EXCEPT ![cur] = s]
    BY <1>7 DEF Receive
  <2>a. received' \in [Id -> Seq(1..MaxCmd)]
    <3>1. stream[cur].batch \in Seq(1..MaxCmd)
      BY <2>0 DEF StreamType
    <3>2. received \in [Id -> Seq(1..MaxCmd)]
      BY <1>a DEF TypeOK
    <3>3. \A id \in Id : received[id] \o stream[cur].batch \in Seq(1..MaxCmd)
      BY <3>1, <3>2
    <3> QED
      BY <1>7, <3>2, <3>3 DEF Receive
  <2> HIDE DEF s
  <2>4. UNCHANGED <<cur, lastId, issued, node, queue, faults>> /\ cur <= cur
    BY <1>7, <2>0 DEF Receive
  <2>5. agent' \in [pc : AgentPc, id : {agent.id}]
        /\ agent.pc \in {"beat", "await"} /\ agent'.pc \in {"beat", "await"}
    BY <1>7, <1>a DEF Receive, TypeOK, AgentPc
  <2>6. /\ node' \in [id : {node.id}, status : {"healthy", "unreachable"}]
        /\ queue' \in [Id -> Seq(1..MaxCmd)]
        /\ (faults' = faults \/ faults' = faults + 1) /\ faults' <= MaxFault
    BY <2>4, <1>a DEF TypeOK
  <2> QED
    BY <2>0, <2>1, <2>2, <2>3, <2>a, <2>4, <2>5, <2>6, TypeAfterUpdate
<1>8. ASSUME NEW k \in Stream, Handler(k) PROVE TypeInv'
  <2>0. stream[k] \in StreamType
    BY <1>b
  <2>1. CASE HandlerRecv(k)
    <3> DEFINE s == [stream[k] EXCEPT !.pc = "update", !.request = NoId, !.id = stream[k].request]
    <3>1. s \in StreamType /\ s.link = stream[k].link
      BY <1>a, <2>0, <2>1 DEF HandlerRecv, StreamType, HandlerPc, TypeInv, TypeOK, KnownNode, Between
    <3>2. s.pc \in Between => s.id # NoId
      BY <2>0, <2>1 DEF HandlerRecv, StreamType, TypeInv, KnownNode, Between
    <3>3. stream' = [stream EXCEPT ![k] = s]
      BY <2>1 DEF HandlerRecv
    <3> HIDE DEF s
    <3>4. k <= cur /\ UNCHANGED <<cur, lastId, issued, agent, received>>
      BY <2>1 DEF HandlerRecv
    <3>5. (faults' = faults \/ faults' = faults + 1) /\ faults' <= MaxFault
      BY <2>1, <1>a DEF HandlerRecv, TypeOK
    <3>6. node' \in [id : {node.id}, status : {"healthy", "unreachable"}]
      BY <2>1, <1>a DEF HandlerRecv, TypeOK
    <3>7. queue' \in [Id -> Seq(1..MaxCmd)]
      BY <2>1, <1>a DEF HandlerRecv, TypeOK
    <3>8. agent' \in [pc : AgentPc, id : {agent.id}] /\ received' \in [Id -> Seq(1..MaxCmd)]
      BY <3>4, <1>a DEF TypeOK
    <3> QED
      BY <3>1, <3>2, <3>3, <3>4, <3>5, <3>6, <3>7, <3>8, TypeAfterUpdate
  <2>2. CASE HandlerUpdate(k)
    <3> DEFINE s == [stream[k] EXCEPT !.pc = "drain"]
    <3>1. s \in StreamType /\ s.link = stream[k].link
      BY <1>a, <2>0, <2>2 DEF HandlerUpdate, StreamType, HandlerPc, TypeInv, TypeOK, KnownNode, Between
    <3>2. s.pc \in Between => s.id # NoId
      BY <2>0, <2>2 DEF HandlerUpdate, StreamType, TypeInv, KnownNode, Between
    <3>3. stream' = [stream EXCEPT ![k] = s]
      BY <2>2 DEF HandlerUpdate
    <3> HIDE DEF s
    <3>4. k <= cur /\ UNCHANGED <<cur, lastId, issued, agent, received>>
      BY <2>2 DEF HandlerUpdate
    <3>5. (faults' = faults \/ faults' = faults + 1) /\ faults' <= MaxFault
      BY <2>2, <1>a DEF HandlerUpdate, TypeOK
    <3>6. node' \in [id : {node.id}, status : {"healthy", "unreachable"}]
      BY <2>2, <1>a DEF HandlerUpdate, TypeOK
    <3>7. queue' \in [Id -> Seq(1..MaxCmd)]
      BY <2>2, <1>a DEF HandlerUpdate, TypeOK
    <3>8. agent' \in [pc : AgentPc, id : {agent.id}] /\ received' \in [Id -> Seq(1..MaxCmd)]
      BY <3>4, <1>a DEF TypeOK
    <3> QED
      BY <3>1, <3>2, <3>3, <3>4, <3>5, <3>6, <3>7, <3>8, TypeAfterUpdate
  <2>3. CASE HandlerUpdateFails(k)
    <3> DEFINE s == [stream[k] EXCEPT !.pc = "drain"]
    <3>1. s \in StreamType /\ s.link = stream[k].link
      BY <1>a, <2>0, <2>3 DEF HandlerUpdateFails, StreamType, HandlerPc, TypeInv, TypeOK, KnownNode, Between
    <3>2. s.pc \in Between => s.id # NoId
      BY <2>0, <2>3 DEF HandlerUpdateFails, StreamType, TypeInv, KnownNode, Between
    <3>3. stream' = [stream EXCEPT ![k] = s]
      BY <2>3 DEF HandlerUpdateFails
    <3> HIDE DEF s
    <3>4. k <= cur /\ UNCHANGED <<cur, lastId, issued, agent, received>>
      BY <2>3 DEF HandlerUpdateFails
    <3>5. (faults' = faults \/ faults' = faults + 1) /\ faults' <= MaxFault
      BY <2>3, <1>a DEF HandlerUpdateFails, TypeOK
    <3>6. node' \in [id : {node.id}, status : {"healthy", "unreachable"}]
      BY <2>3, <1>a DEF HandlerUpdateFails, TypeOK
    <3>7. queue' \in [Id -> Seq(1..MaxCmd)]
      BY <2>3, <1>a DEF HandlerUpdateFails, TypeOK
    <3>8. agent' \in [pc : AgentPc, id : {agent.id}] /\ received' \in [Id -> Seq(1..MaxCmd)]
      BY <3>4, <1>a DEF TypeOK
    <3> QED
      BY <3>1, <3>2, <3>3, <3>4, <3>5, <3>6, <3>7, <3>8, TypeAfterUpdate
  <2>4. CASE HandlerDrain(k)
    <3> DEFINE s == [stream[k] EXCEPT !.pc = "send", !.batch = queue[stream[k].id]]
    <3>1. s \in StreamType /\ s.link = stream[k].link
      BY <1>a, <2>0, <2>4 DEF HandlerDrain, StreamType, HandlerPc, TypeInv, TypeOK, KnownNode, Between
    <3>2. s.pc \in Between => s.id # NoId
      BY <2>0, <2>4 DEF HandlerDrain, StreamType, TypeInv, KnownNode, Between
    <3>3. stream' = [stream EXCEPT ![k] = s]
      BY <2>4 DEF HandlerDrain
    <3> HIDE DEF s
    <3>4. k <= cur /\ UNCHANGED <<cur, lastId, issued, agent, received>>
      BY <2>4 DEF HandlerDrain
    <3>5. (faults' = faults \/ faults' = faults + 1) /\ faults' <= MaxFault
      BY <2>4, <1>a DEF HandlerDrain, TypeOK
    <3>6. node' \in [id : {node.id}, status : {"healthy", "unreachable"}]
      BY <2>4, <1>a DEF HandlerDrain, TypeOK
    <3>7. queue' \in [Id -> Seq(1..MaxCmd)]
      <4>1. queue \in [Id -> Seq(1..MaxCmd)] /\ <<>> \in Seq(1..MaxCmd)
        BY <1>a DEF TypeOK
      <4>2. queue' = [queue EXCEPT ![stream[k].id] = <<>>]
        BY <2>4 DEF HandlerDrain
      <4> QED
        BY <4>1, <4>2
    <3>8. agent' \in [pc : AgentPc, id : {agent.id}] /\ received' \in [Id -> Seq(1..MaxCmd)]
      BY <3>4, <1>a DEF TypeOK
    <3> QED
      BY <3>1, <3>2, <3>3, <3>4, <3>5, <3>6, <3>7, <3>8, TypeAfterUpdate
  <2>5. CASE HandlerSend(k)
    <3> DEFINE s == [stream[k] EXCEPT !.pc = "recv", !.replied = TRUE]
    <3>1. s \in StreamType /\ s.link = stream[k].link
      BY <1>a, <2>0, <2>5 DEF HandlerSend, StreamType, HandlerPc, TypeInv, TypeOK, KnownNode, Between
    <3>2. s.pc \in Between => s.id # NoId
      BY <2>0, <2>5 DEF HandlerSend, StreamType, TypeInv, KnownNode, Between
    <3>3. stream' = [stream EXCEPT ![k] = s]
      BY <2>5 DEF HandlerSend
    <3> HIDE DEF s
    <3>4. k <= cur /\ UNCHANGED <<cur, lastId, issued, agent, received>>
      BY <2>5 DEF HandlerSend
    <3>5. (faults' = faults \/ faults' = faults + 1) /\ faults' <= MaxFault
      BY <2>5, <1>a DEF HandlerSend, TypeOK
    <3>6. node' \in [id : {node.id}, status : {"healthy", "unreachable"}]
      BY <2>5, <1>a DEF HandlerSend, TypeOK
    <3>7. queue' \in [Id -> Seq(1..MaxCmd)]
      BY <2>5, <1>a DEF HandlerSend, TypeOK
    <3>8. agent' \in [pc : AgentPc, id : {agent.id}] /\ received' \in [Id -> Seq(1..MaxCmd)]
      BY <3>4, <1>a DEF TypeOK
    <3> QED
      BY <3>1, <3>2, <3>3, <3>4, <3>5, <3>6, <3>7, <3>8, TypeAfterUpdate
  <2>6. CASE HandlerSendFails(k)
    <3> DEFINE s == [stream[k] EXCEPT !.pc = "closed", !.batch = <<>>]
    <3>1. s \in StreamType /\ s.link = stream[k].link
      <4>1. <<>> \in Seq(1..MaxCmd)
        OBVIOUS
      <4> QED
        BY <2>0, <4>1 DEF StreamType, HandlerPc
    <3>2. s.pc \in Between => s.id # NoId
      BY <2>0, <2>6 DEF HandlerSendFails, StreamType, TypeInv, KnownNode, Between
    <3>3. stream' = [stream EXCEPT ![k] = s]
      BY <2>6 DEF HandlerSendFails
    <3> HIDE DEF s
    <3>4. k <= cur /\ UNCHANGED <<cur, lastId, issued, agent, received>>
      BY <2>6 DEF HandlerSendFails
    <3>5. (faults' = faults \/ faults' = faults + 1) /\ faults' <= MaxFault
      BY <2>6, <1>a DEF HandlerSendFails, TypeOK
    <3>6. node' \in [id : {node.id}, status : {"healthy", "unreachable"}]
      BY <2>6, <1>a DEF HandlerSendFails, TypeOK
    <3>7. queue' \in [Id -> Seq(1..MaxCmd)]
      BY <2>6, <1>a DEF HandlerSendFails, TypeOK
    <3>8. agent' \in [pc : AgentPc, id : {agent.id}] /\ received' \in [Id -> Seq(1..MaxCmd)]
      BY <3>4, <1>a DEF TypeOK
    <3> QED
      BY <3>1, <3>2, <3>3, <3>4, <3>5, <3>6, <3>7, <3>8, TypeAfterUpdate
  <2>7. CASE HandlerRecvError(k)
    <3> DEFINE s == [stream[k] EXCEPT !.pc = "closed"]
    <3>1. s \in StreamType /\ s.link = stream[k].link
      BY <1>a, <2>0, <2>7 DEF HandlerRecvError, StreamType, HandlerPc, TypeInv, TypeOK, KnownNode, Between
    <3>2. s.pc \in Between => s.id # NoId
      BY <2>0, <2>7 DEF HandlerRecvError, StreamType, TypeInv, KnownNode, Between
    <3>3. stream' = [stream EXCEPT ![k] = s]
      BY <2>7 DEF HandlerRecvError
    <3> HIDE DEF s
    <3>4. k <= cur /\ UNCHANGED <<cur, lastId, issued, agent, received>>
      BY <2>7 DEF HandlerRecvError
    <3>5. (faults' = faults \/ faults' = faults + 1) /\ faults' <= MaxFault
      BY <2>7, <1>a DEF HandlerRecvError, TypeOK
    <3>6. node' \in [id : {node.id}, status : {"healthy", "unreachable"}]
      BY <2>7, <1>a DEF HandlerRecvError, TypeOK
    <3>7. queue' \in [Id -> Seq(1..MaxCmd)]
      BY <2>7, <1>a DEF HandlerRecvError, TypeOK
    <3>8. agent' \in [pc : AgentPc, id : {agent.id}] /\ received' \in [Id -> Seq(1..MaxCmd)]
      BY <3>4, <1>a DEF TypeOK
    <3> QED
      BY <3>1, <3>2, <3>3, <3>4, <3>5, <3>6, <3>7, <3>8, TypeAfterUpdate
  <2>8. CASE HandlerRecvEOF(k)
    <3> DEFINE s == [stream[k] EXCEPT !.pc = "closed"]
    <3>1. s \in StreamType /\ s.link = stream[k].link
      BY <1>a, <2>0, <2>8 DEF HandlerRecvEOF, StreamType, HandlerPc, TypeInv, TypeOK, KnownNode, Between
    <3>2. s.pc \in Between => s.id # NoId
      BY <2>0, <2>8 DEF HandlerRecvEOF, StreamType, TypeInv, KnownNode, Between
    <3>3. stream' = [stream EXCEPT ![k] = s]
      BY <2>8 DEF HandlerRecvEOF
    <3> HIDE DEF s
    <3>4. k <= cur /\ UNCHANGED <<cur, lastId, issued, agent, received>>
      BY <2>8 DEF HandlerRecvEOF
    <3>5. (faults' = faults \/ faults' = faults + 1) /\ faults' <= MaxFault
      BY <2>8, <1>a DEF HandlerRecvEOF, TypeOK
    <3>6. node' \in [id : {node.id}, status : {"healthy", "unreachable"}]
      BY <2>8, <1>a DEF HandlerRecvEOF, TypeOK
    <3>7. queue' \in [Id -> Seq(1..MaxCmd)]
      BY <2>8, <1>a DEF HandlerRecvEOF, TypeOK
    <3>8. agent' \in [pc : AgentPc, id : {agent.id}] /\ received' \in [Id -> Seq(1..MaxCmd)]
      BY <3>4, <1>a DEF TypeOK
    <3> QED
      BY <3>1, <3>2, <3>3, <3>4, <3>5, <3>6, <3>7, <3>8, TypeAfterUpdate
  <2> QED
    BY <1>8, <2>1, <2>2, <2>3, <2>4, <2>5, <2>6, <2>7, <2>8 DEF Handler
<1>9. ASSUME NEW id \in Id, Enqueue(id) PROVE TypeInv'
  <2>1. queue' \in [Id -> Seq(1..MaxCmd)] /\ issued' \in 0..MaxCmd
    BY <1>9, <1>a DEF Enqueue, TypeOK
  <2>2. TypeOK'
    BY <1>9, <1>a, <2>1 DEF Enqueue, TypeOK
  <2> QED
    BY <1>9, <2>2 DEF Enqueue, TypeInv, IdBudget, StreamBudget, OnLiveStream,
       KnownNode, FreshStreams
<1>10. CASE BreakLink
  <2>1. cur \in Stream /\ stream[cur] \in StreamType /\ stream[cur].link = "up"
    BY <1>10, <1>a, <1>b DEF BreakLink, TypeOK
  <2> DEFINE s == [stream[cur] EXCEPT !.link = "broken"]
  <2>2. s \in StreamType /\ s.pc = stream[cur].pc /\ s.id = stream[cur].id
    BY <2>1 DEF StreamType
  <2>3. stream' = [stream EXCEPT ![cur] = s]
    BY <1>10 DEF BreakLink
  <2> HIDE DEF s
  <2>4. stream' \in [Stream -> StreamType]
    BY <1>b, <2>2, <2>3
  <2>5. TypeOK'
    BY <1>10, <1>a, <2>4 DEF BreakLink, TypeOK
  <2>6. IdBudget' /\ StreamBudget'
    BY <1>10, <1>a DEF BreakLink, TypeInv, TypeOK, IdBudget, StreamBudget, OnLiveStream
  <2>7. KnownNode'
    BY <1>b, <2>1, <2>2, <2>3 DEF TypeInv, KnownNode
  <2>8. FreshStreams'
    BY <1>10, <1>a, <1>b, <2>1, <2>3 DEF BreakLink, TypeInv, TypeOK, FreshStreams
  <2> QED
    BY <2>5, <2>6, <2>7, <2>8 DEF TypeInv
<1>11. ASSUME NEW link \in {"eof", "broken"}, AgentStops(link) PROVE TypeInv'
  <2>0. ASSUME agent.pc \in {"beat", "await"}
        PROVE  stream' \in [Stream -> StreamType] /\ KnownNode' /\ FreshStreams'
    <3> DEFINE s == [stream[cur] EXCEPT !.link = link]
    <3>1. cur \in Stream /\ stream[cur] \in StreamType
      BY <2>0, <1>a, <1>b DEF TypeOK
    <3>2. s \in StreamType /\ s.pc = stream[cur].pc /\ s.id = stream[cur].id
      BY <3>1 DEF StreamType
    <3>3. stream' = [stream EXCEPT ![cur] = s]
      BY <1>11, <2>0 DEF AgentStops
    <3> HIDE DEF s
    <3>4. stream' \in [Stream -> StreamType]
      BY <1>b, <3>2, <3>3
    <3>5. KnownNode'
      BY <1>b, <3>1, <3>2, <3>3 DEF TypeInv, KnownNode
    <3>6. FreshStreams'
      BY <1>11, <1>a, <1>b, <3>1, <3>3 DEF AgentStops, TypeInv, TypeOK, FreshStreams
    <3> QED
      BY <3>4, <3>5, <3>6
  <2>2. ASSUME agent.pc \notin {"beat", "await"}
        PROVE  stream' \in [Stream -> StreamType] /\ KnownNode' /\ FreshStreams'
    <3>1. stream' = stream /\ cur' = cur
      BY <1>11, <2>2 DEF AgentStops
    <3> QED
      BY <1>b, <3>1 DEF TypeInv, KnownNode, FreshStreams
  <2>3. stream' \in [Stream -> StreamType] /\ KnownNode' /\ FreshStreams'
    BY <2>0, <2>2
  <2>4. TypeOK'
    BY <1>11, <1>a, <2>3 DEF AgentStops, TypeOK, AgentPc
  <2>5. IdBudget' /\ StreamBudget'
    BY <1>11, <1>a DEF AgentStops, TypeInv, TypeOK, IdBudget, StreamBudget, OnLiveStream
  <2> QED
    BY <2>3, <2>4, <2>5 DEF TypeInv
<1>12. CASE ControllerCrash
  <2>1. \A k \in Stream : Crashed(stream[k]) \in StreamType /\ Crashed(stream[k]).pc = "closed"
    BY <1>b, CrashedType
  <2>2. \A k \in Stream : stream'[k] = IF k > cur THEN stream[k] ELSE Crashed(stream[k])
    BY <1>12 DEF ControllerCrash
  <2>3. stream' \in [Stream -> StreamType]
    BY <1>12, <1>b, <2>1 DEF ControllerCrash
  <2>4. queue' \in [Id -> Seq(1..MaxCmd)]
    BY <1>12 DEF ControllerCrash
  <2>5. UNCHANGED <<node, lastId, agent, cur, issued, received>> /\ faults < MaxFault
        /\ faults' = faults + 1
    BY <1>12 DEF ControllerCrash
  <2>6. TypeOK'
    BY <1>a, <2>3, <2>4, <2>5 DEF TypeOK
  <2>7. IdBudget' /\ StreamBudget'
    BY <1>a, <2>5 DEF TypeInv, TypeOK, IdBudget, StreamBudget, OnLiveStream
  <2>8. KnownNode'
    BY <2>1, <2>2 DEF TypeInv, KnownNode, Between
  <2>9. FreshStreams'
    BY <2>2, <2>5 DEF TypeInv, FreshStreams
  <2> QED
    BY <2>6, <2>7, <2>8, <2>9 DEF TypeInv
<1>13. CASE UNCHANGED vars
  BY <1>13 DEF vars, TypeInv, TypeOK, IdBudget, StreamBudget, OnLiveStream, KnownNode, FreshStreams
<1> QED
  BY <1>1, <1>2, <1>3, <1>4, <1>5, <1>6, <1>7, <1>8, <1>9, <1>10, <1>11, <1>12, <1>13
     DEF Next, Agent, Fault

\* Ids and streams never run out, the agent's place in its loop goes with an
\* open stream, and everything else has its type (NodeStore.Upsert, Register,
\* RunHeartbeat, Server.Heartbeat).
THEOREM TypeCorrect == Spec => []TypeOK
<1>1. TypeInv => TypeOK
  BY DEF TypeInv
<1> QED
  BY <1>1, TypeInit, TypeStep, PTL DEF Spec

-----------------------------------------------------------------------------
\* One stream changes and the agent stays where it is.
LEMMA SessionUpdate ==
    ASSUME TypeInv, SessionInv, NEW k \in Stream, NEW s,
           stream' = [stream EXCEPT ![k] = s], UNCHANGED <<agent, cur>>,
           LockStep(s), Rests(stream[k]) => Rests(s)
    PROVE  SessionInv'
<1>1. \A m \in Stream : stream'[m] = IF m = k THEN s ELSE stream[m]
    BY DEF TypeInv, TypeOK
<1>2. agent.pc = "beat" => cur \in Stream
    BY DEF TypeInv, TypeOK
<1>3. \A m \in Stream : LockStep(stream'[m])
    BY <1>1 DEF SessionInv
<1>4. agent.pc = "beat" => Rests(stream'[cur])
    BY <1>1, <1>2 DEF SessionInv
<1> QED
    BY <1>3, <1>4 DEF SessionInv, Registered

\* The agent moves and the streams stay as they are.
LEMMA SessionMove ==
    ASSUME SessionInv, stream' = stream, Registered',
           agent'.pc = "beat" => Rests(stream[cur'])
    PROVE  SessionInv'
BY DEF SessionInv

LEMMA SessionInit == Init => SessionInv
BY DEF Init, SessionInv, LockStep, Registered, IdleStream, Between

LEMMA CrashedLockStep ==
    ASSUME NEW s \in StreamType, LockStep(s)
    PROVE  LockStep(Crashed(s)) /\ (Rests(s) => Rests(Crashed(s)))
<1> DEFINE b == IF s.replied THEN s.batch ELSE <<>>
<1>1. /\ Crashed(s).pc = "closed" /\ Crashed(s).request = NoId /\ Crashed(s).batch = b
      /\ Crashed(s).replied = s.replied /\ Crashed(s).id = s.id
    BY DEF Crashed, StreamType
<1>2. s.batch = <<>> => b = <<>>
    OBVIOUS
<1> HIDE DEF b
<1> QED
    BY <1>1, <1>2 DEF LockStep, Rests, Between

LEMMA SessionStep == TypeInv /\ SessionInv /\ [Next]_vars => SessionInv'
<1> SUFFICES ASSUME TypeInv, SessionInv, [Next]_vars PROVE SessionInv'
    OBVIOUS
<1>a. TypeOK
    BY DEF TypeInv
<1>b. stream \in [Stream -> StreamType]
    BY <1>a DEF TypeOK
<1>1. CASE Register \/ RegisterFails
  <2>1. node'.id # NoId \/ ~Register
    <3>1. CASE node.id = NoId
      BY <1>a, <3>1, Numbers DEF Register, Upsert, TypeOK
    <3>2. CASE node.id # NoId
      BY <3>2 DEF Register, Upsert
    <3> QED
      BY <3>1, <3>2
  <2>2. Registered' /\ agent'.pc # "beat" /\ stream' = stream
    BY <1>1, <1>a, <2>1 DEF Register, RegisterFails, SessionInv, Registered, TypeOK
  <2> QED
    BY <2>2, SessionMove
<1>2. CASE OpenStream
  <2>1. cur' = cur + 1 /\ stream' = stream /\ cur' \in Stream
    BY <1>2, TypeStep DEF OpenStream, TypeInv, TypeOK, AgentPc
  <2>2. stream[cur'] = IdleStream
    BY <1>a, <2>1, Numbers DEF TypeInv, FreshStreams
  <2>3. Rests(stream[cur'])
    BY <2>2 DEF Rests, IdleStream, Between
  <2>4. Registered'
    BY <1>2, <1>a DEF OpenStream, SessionInv, Registered, TypeOK
  <2> QED
    BY <2>1, <2>3, <2>4, SessionMove
<1>3. CASE OpenStreamFails \/ LoseStream
  <2>1. Registered' /\ agent'.pc # "beat" /\ stream' = stream
    BY <1>3, <1>a DEF OpenStreamFails, LoseStream, SessionInv, Registered, TypeOK
  <2> QED
    BY <2>1, SessionMove
<1>4. CASE Tick
  <2>0. cur \in Stream /\ stream[cur] \in StreamType /\ Rests(stream[cur])
    BY <1>4, <1>a, <1>b DEF Tick, TypeOK, SessionInv
  <2> DEFINE s == [stream[cur] EXCEPT !.request = agent.id]
  <2>1. /\ s.request = agent.id /\ s.pc = stream[cur].pc /\ s.id = stream[cur].id
        /\ s.batch = stream[cur].batch /\ s.replied = stream[cur].replied
    BY <2>0 DEF StreamType
  <2>2. stream' = [stream EXCEPT ![cur] = s]
    BY <1>4 DEF Tick
  <2> HIDE DEF s
  <2>3. LockStep(s)
    BY <2>0, <2>1 DEF Rests, LockStep, Between
  <2>4. \A m \in Stream : stream'[m] = IF m = cur THEN s ELSE stream[m]
    BY <1>b, <2>2
  <2>5. agent'.pc = "await" /\ Registered'
    BY <1>4, <1>a DEF Tick, SessionInv, Registered, TypeOK
  <2> QED
    BY <2>3, <2>4, <2>5 DEF SessionInv
<1>5. CASE Receive
  <2>0. cur \in Stream /\ stream[cur] \in StreamType /\ LockStep(stream[cur]) /\ stream[cur].replied
    BY <1>5, <1>a, <1>b DEF Receive, TypeOK, SessionInv
  <2> DEFINE s == [stream[cur] EXCEPT !.replied = FALSE, !.batch = <<>>]
  <2>1. /\ s.request = stream[cur].request /\ s.pc = stream[cur].pc
        /\ s.id = stream[cur].id /\ s.batch = <<>> /\ s.replied = FALSE
    BY <2>0 DEF StreamType
  <2>2. stream' = [stream EXCEPT ![cur] = s]
    BY <1>5 DEF Receive
  <2> HIDE DEF s
  <2>3. LockStep(s) /\ Rests(s)
    BY <2>0, <2>1 DEF Rests, LockStep, Between
  <2>4. \A m \in Stream : stream'[m] = IF m = cur THEN s ELSE stream[m]
    BY <1>b, <2>2
  <2>5. cur' = cur /\ Registered'
    BY <1>5, <1>a DEF Receive, SessionInv, Registered, TypeOK
  <2> QED
    BY <2>0, <2>3, <2>4, <2>5 DEF SessionInv
<1>6. ASSUME NEW k \in Stream, Handler(k) PROVE SessionInv'
  <2>0. stream[k] \in StreamType /\ LockStep(stream[k])
    BY <1>b DEF SessionInv
  <2>1. CASE HandlerRecv(k)
    <3> DEFINE s == [stream[k] EXCEPT !.pc = "update", !.request = NoId, !.id = stream[k].request]
    <3>1. s.pc = "update" /\ s.request = NoId /\ s.batch = stream[k].batch /\ s.replied = stream[k].replied
      BY <2>0 DEF StreamType
    <3>2. stream' = [stream EXCEPT ![k] = s] /\ UNCHANGED <<agent, cur>>
      BY <2>1 DEF HandlerRecv
    <3> HIDE DEF s
    <3>3. LockStep(s)
      BY <2>0, <2>1, <3>1 DEF HandlerRecv, StreamType, SessionInv, LockStep, Between, TypeInv, KnownNode
    <3>4. Rests(stream[k]) => Rests(s)
      BY <2>0, <2>1, <3>1 DEF HandlerRecv, StreamType, Rests, Between
    <3> QED
      BY <3>2, <3>3, <3>4, SessionUpdate
  <2>2. CASE HandlerUpdate(k)
    <3> DEFINE s == [stream[k] EXCEPT !.pc = "drain"]
    <3>1. s.pc = "drain" /\ s.request = stream[k].request /\ s.id = stream[k].id /\ s.batch = stream[k].batch /\ s.replied = stream[k].replied
      BY <2>0 DEF StreamType
    <3>2. stream' = [stream EXCEPT ![k] = s] /\ UNCHANGED <<agent, cur>>
      BY <2>2 DEF HandlerUpdate
    <3> HIDE DEF s
    <3>3. LockStep(s)
      BY <2>0, <2>2, <3>1 DEF HandlerUpdate, StreamType, SessionInv, LockStep, Between, TypeInv, KnownNode
    <3>4. Rests(stream[k]) => Rests(s)
      BY <2>0, <2>2, <3>1 DEF HandlerUpdate, StreamType, Rests, Between
    <3> QED
      BY <3>2, <3>3, <3>4, SessionUpdate
  <2>3. CASE HandlerUpdateFails(k)
    <3> DEFINE s == [stream[k] EXCEPT !.pc = "drain"]
    <3>1. s.pc = "drain" /\ s.request = stream[k].request /\ s.id = stream[k].id /\ s.batch = stream[k].batch /\ s.replied = stream[k].replied
      BY <2>0 DEF StreamType
    <3>2. stream' = [stream EXCEPT ![k] = s] /\ UNCHANGED <<agent, cur>>
      BY <2>3 DEF HandlerUpdateFails
    <3> HIDE DEF s
    <3>3. LockStep(s)
      BY <2>0, <2>3, <3>1 DEF HandlerUpdateFails, StreamType, SessionInv, LockStep, Between, TypeInv, KnownNode
    <3>4. Rests(stream[k]) => Rests(s)
      BY <2>0, <2>3, <3>1 DEF HandlerUpdateFails, StreamType, Rests, Between
    <3> QED
      BY <3>2, <3>3, <3>4, SessionUpdate
  <2>4. CASE HandlerDrain(k)
    <3> DEFINE s == [stream[k] EXCEPT !.pc = "send", !.batch = queue[stream[k].id]]
    <3>1. s.pc = "send" /\ s.request = stream[k].request /\ s.id = stream[k].id /\ s.replied = stream[k].replied
      BY <2>0 DEF StreamType
    <3>2. stream' = [stream EXCEPT ![k] = s] /\ UNCHANGED <<agent, cur>>
      BY <2>4 DEF HandlerDrain
    <3> HIDE DEF s
    <3>3. LockStep(s)
      BY <2>0, <2>4, <3>1 DEF HandlerDrain, StreamType, SessionInv, LockStep, Between, TypeInv, KnownNode
    <3>4. Rests(stream[k]) => Rests(s)
      BY <2>0, <2>4, <3>1 DEF HandlerDrain, StreamType, Rests, Between
    <3> QED
      BY <3>2, <3>3, <3>4, SessionUpdate
  <2>5. CASE HandlerSend(k)
    <3> DEFINE s == [stream[k] EXCEPT !.pc = "recv", !.replied = TRUE]
    <3>1. s.pc = "recv" /\ s.replied = TRUE /\ s.request = stream[k].request /\ s.id = stream[k].id /\ s.batch = stream[k].batch
      BY <2>0 DEF StreamType
    <3>2. stream' = [stream EXCEPT ![k] = s] /\ UNCHANGED <<agent, cur>>
      BY <2>5 DEF HandlerSend
    <3> HIDE DEF s
    <3>3. LockStep(s)
      BY <2>0, <2>5, <3>1 DEF HandlerSend, StreamType, SessionInv, LockStep, Between, TypeInv, KnownNode
    <3>4. Rests(stream[k]) => Rests(s)
      BY <2>0, <2>5, <3>1 DEF HandlerSend, StreamType, Rests, Between
    <3> QED
      BY <3>2, <3>3, <3>4, SessionUpdate
  <2>6. CASE HandlerSendFails(k)
    <3> DEFINE s == [stream[k] EXCEPT !.pc = "closed", !.batch = <<>>]
    <3>1. s.pc = "closed" /\ s.batch = <<>> /\ s.request = stream[k].request /\ s.id = stream[k].id /\ s.replied = stream[k].replied
      BY <2>0 DEF StreamType
    <3>2. stream' = [stream EXCEPT ![k] = s] /\ UNCHANGED <<agent, cur>>
      BY <2>6 DEF HandlerSendFails
    <3> HIDE DEF s
    <3>3. LockStep(s)
      BY <2>0, <2>6, <3>1 DEF HandlerSendFails, StreamType, SessionInv, LockStep, Between, TypeInv, KnownNode
    <3>4. Rests(stream[k]) => Rests(s)
      BY <2>0, <2>6, <3>1 DEF HandlerSendFails, StreamType, Rests, Between
    <3> QED
      BY <3>2, <3>3, <3>4, SessionUpdate
  <2>7. CASE HandlerRecvError(k)
    <3> DEFINE s == [stream[k] EXCEPT !.pc = "closed"]
    <3>1. s.pc = "closed" /\ s.request = stream[k].request /\ s.id = stream[k].id /\ s.batch = stream[k].batch /\ s.replied = stream[k].replied
      BY <2>0 DEF StreamType
    <3>2. stream' = [stream EXCEPT ![k] = s] /\ UNCHANGED <<agent, cur>>
      BY <2>7 DEF HandlerRecvError
    <3> HIDE DEF s
    <3>3. LockStep(s)
      BY <2>0, <2>7, <3>1 DEF HandlerRecvError, StreamType, SessionInv, LockStep, Between, TypeInv, KnownNode
    <3>4. Rests(stream[k]) => Rests(s)
      BY <2>0, <2>7, <3>1 DEF HandlerRecvError, StreamType, Rests, Between
    <3> QED
      BY <3>2, <3>3, <3>4, SessionUpdate
  <2>8. CASE HandlerRecvEOF(k)
    <3> DEFINE s == [stream[k] EXCEPT !.pc = "closed"]
    <3>1. s.pc = "closed" /\ s.request = stream[k].request /\ s.id = stream[k].id /\ s.batch = stream[k].batch /\ s.replied = stream[k].replied
      BY <2>0 DEF StreamType
    <3>2. stream' = [stream EXCEPT ![k] = s] /\ UNCHANGED <<agent, cur>>
      BY <2>8 DEF HandlerRecvEOF
    <3> HIDE DEF s
    <3>3. LockStep(s)
      BY <2>0, <2>8, <3>1 DEF HandlerRecvEOF, StreamType, SessionInv, LockStep, Between, TypeInv, KnownNode
    <3>4. Rests(stream[k]) => Rests(s)
      BY <2>0, <2>8, <3>1 DEF HandlerRecvEOF, StreamType, Rests, Between
    <3> QED
      BY <3>2, <3>3, <3>4, SessionUpdate
  <2> QED
    BY <1>6, <2>1, <2>2, <2>3, <2>4, <2>5, <2>6, <2>7, <2>8 DEF Handler
<1>7. CASE (\E id \in Id : Enqueue(id)) \/ DeleteNode
  BY <1>7 DEF Enqueue, DeleteNode, SessionInv, Registered
<1>8. CASE BreakLink
  <2>0. cur \in Stream /\ stream[cur] \in StreamType /\ LockStep(stream[cur])
    BY <1>8, <1>a, <1>b DEF BreakLink, TypeOK, SessionInv
  <2> DEFINE s == [stream[cur] EXCEPT !.link = "broken"]
  <2>1. /\ s.request = stream[cur].request /\ s.pc = stream[cur].pc /\ s.id = stream[cur].id
        /\ s.batch = stream[cur].batch /\ s.replied = stream[cur].replied
    BY <2>0 DEF StreamType
  <2>2. stream' = [stream EXCEPT ![cur] = s] /\ UNCHANGED <<agent, cur>>
    BY <1>8 DEF BreakLink
  <2> HIDE DEF s
  <2>3. LockStep(s) /\ (Rests(stream[cur]) => Rests(s))
    BY <2>0, <2>1 DEF LockStep, Rests
  <2> QED
    BY <2>0, <2>2, <2>3, SessionUpdate
<1>9. ASSUME NEW link \in {"eof", "broken"}, AgentStops(link) PROVE SessionInv'
  <2>1. agent'.pc = "boot"
    BY <1>9 DEF AgentStops
  <2>2. ASSUME agent.pc \in {"beat", "await"} PROVE \A m \in Stream : LockStep(stream'[m])
    <3>0. cur \in Stream /\ stream[cur] \in StreamType /\ LockStep(stream[cur])
      BY <1>a, <1>b, <2>2 DEF TypeOK, SessionInv
    <3> DEFINE s == [stream[cur] EXCEPT !.link = link]
    <3>1. /\ s.request = stream[cur].request /\ s.pc = stream[cur].pc /\ s.id = stream[cur].id
          /\ s.batch = stream[cur].batch /\ s.replied = stream[cur].replied
      BY <3>0 DEF StreamType
    <3>2. stream' = [stream EXCEPT ![cur] = s]
      BY <1>9, <2>2 DEF AgentStops
    <3> HIDE DEF s
    <3>3. LockStep(s)
      BY <3>0, <3>1 DEF LockStep
    <3> QED
      BY <1>b, <3>2, <3>3 DEF SessionInv
  <2>3. ASSUME agent.pc \notin {"beat", "await"} PROVE stream' = stream
    BY <1>9, <2>3 DEF AgentStops
  <2> QED
    BY <2>1, <2>2, <2>3 DEF SessionInv, Registered
<1>10. CASE ControllerCrash
  <2>1. UNCHANGED <<agent, cur>>
        /\ \A k \in Stream : stream'[k] = IF k > cur THEN stream[k] ELSE Crashed(stream[k])
    BY <1>10 DEF ControllerCrash
  <2>2. \A k \in Stream : LockStep(Crashed(stream[k]))
                          /\ (Rests(stream[k]) => Rests(Crashed(stream[k])))
    BY <1>b, CrashedLockStep DEF SessionInv
  <2>3. agent.pc = "beat" => cur \in Stream /\ ~(cur > cur)
    BY <1>a, Numbers DEF TypeOK
  <2> QED
    BY <2>1, <2>2, <2>3 DEF SessionInv, Registered
<1>11. CASE UNCHANGED vars
  BY <1>11 DEF vars, SessionInv, Registered
<1> QED
  BY <1>1, <1>2, <1>3, <1>4, <1>5, <1>6, <1>7, <1>8, <1>9, <1>10, <1>11
     DEF Next, Agent, Fault

-----------------------------------------------------------------------------
(* What the steps do to the three sequences of a node *)

Commands == Seq(1..MaxCmd)

LEMMA ElementType ==
    ASSUME NEW s \in Commands
    PROVE  /\ DOMAIN s = 1..Len(s) /\ Len(s) \in Nat
           /\ \A i \in DOMAIN s : s[i] \in Nat /\ s[i] <= MaxCmd
BY DEF Commands

LEMMA EmptyOrdered ==
    /\ <<>> \in Commands /\ Increasing(<<>>)
    /\ \A s, n : Below(s, <<>>) /\ Below(<<>>, s) /\ AtMost(<<>>, n)
BY DEF Commands, Increasing, Below, AtMost

LEMMA JoinIncreasing ==
    ASSUME NEW s \in Commands, NEW t \in Commands,
           Increasing(s), Increasing(t), Below(s, t)
    PROVE  s \o t \in Commands /\ Increasing(s \o t)
<1> DEFINE st == s \o t
<1>1. /\ st \in Commands /\ Len(st) = Len(s) + Len(t)
      /\ \A i \in 1..Len(s) : st[i] = s[i]
      /\ \A i \in Len(s)+1 .. Len(s)+Len(t) : st[i] = t[i - Len(s)]
    BY DEF Commands
<1>2. SUFFICES ASSUME NEW i \in DOMAIN st, NEW j \in DOMAIN st, i < j
               PROVE  st[i] < st[j]
    BY <1>1 DEF Increasing
<1> HIDE DEF st
<1>3. i \in 1..Len(st) /\ j \in 1..Len(st) /\ Len(s) \in Nat /\ Len(t) \in Nat
    BY <1>1, ElementType
<1>4. CASE j <= Len(s)
    <2>1. i \in DOMAIN s /\ j \in DOMAIN s /\ st[i] = s[i] /\ st[j] = s[j]
      BY <1>1, <1>2, <1>3, <1>4, ElementType
    <2> QED
      BY <1>2, <2>1 DEF Increasing
<1>5. CASE i > Len(s)
    <2>1. /\ i - Len(s) \in DOMAIN t /\ j - Len(s) \in DOMAIN t
          /\ st[i] = t[i - Len(s)] /\ st[j] = t[j - Len(s)]
          /\ i - Len(s) < j - Len(s)
      BY <1>1, <1>2, <1>3, <1>5, ElementType
    <2> QED
      BY <2>1 DEF Increasing
<1>6. CASE i <= Len(s) /\ j > Len(s)
    <2>1. i \in DOMAIN s /\ j - Len(s) \in DOMAIN t /\ st[i] = s[i] /\ st[j] = t[j - Len(s)]
      BY <1>1, <1>2, <1>3, <1>6, ElementType
    <2> QED
      BY <2>1 DEF Below
<1> QED
    BY <1>3, <1>4, <1>5, <1>6

\* An element of a join is an element of one of its parts.
LEMMA JoinElements ==
    ASSUME NEW s \in Commands, NEW t \in Commands, NEW i \in DOMAIN (s \o t)
    PROVE  (\E k \in DOMAIN s : (s \o t)[i] = s[k]) \/ (\E k \in DOMAIN t : (s \o t)[i] = t[k])
<1> DEFINE st == s \o t
<1>1. /\ Len(st) = Len(s) + Len(t) /\ i \in 1..Len(st)
      /\ \A m \in 1..Len(s) : st[m] = s[m]
      /\ \A m \in Len(s)+1 .. Len(s)+Len(t) : st[m] = t[m - Len(s)]
    BY DEF Commands
<1> HIDE DEF st
<1>2. CASE i <= Len(s)
    BY <1>1, <1>2, ElementType DEF st
<1>3. CASE i > Len(s)
    <2>1. i - Len(s) \in DOMAIN t /\ st[i] = t[i - Len(s)]
      BY <1>1, <1>3, ElementType
    <2> QED
      BY <2>1 DEF st
<1> QED
    BY <1>1, <1>2, <1>3, ElementType

LEMMA OrderedDrop ==
    ASSUME NEW r, NEW b, NEW q, NEW n, Ordered(r, b, q, n)
    PROVE  /\ Ordered(r, <<>>, q, n)
           /\ Ordered(r, b, <<>>, n)
           /\ Ordered(r, <<>>, <<>>, n)
           /\ Ordered(r, q, <<>>, n)
BY EmptyOrdered DEF Ordered

LEMMA OrderedTake ==
    ASSUME NEW r \in Commands, NEW b \in Commands, NEW q \in Commands, NEW n,
           Ordered(r, b, q, n)
    PROVE  Ordered(r \o b, <<>>, q, n)
<1>1. Increasing(r \o b)
    BY JoinIncreasing DEF Ordered
<1>2. Below(r \o b, q) /\ AtMost(r \o b, n)
    <2>1. ASSUME NEW i \in DOMAIN (r \o b)
          PROVE  (r \o b)[i] <= n /\ \A j \in DOMAIN q : (r \o b)[i] < q[j]
      BY JoinElements DEF Ordered, Below, AtMost
    <2> QED
      BY <2>1 DEF Below, AtMost
<1> QED
    BY <1>1, <1>2, EmptyOrdered DEF Ordered

LEMMA OrderedAppend ==
    ASSUME NEW r \in Commands, NEW b \in Commands, NEW q \in Commands,
           NEW n \in Nat, n < MaxCmd, Ordered(r, b, q, n)
    PROVE  Ordered(r, b, Append(q, n + 1), n + 1)
<1> DEFINE a == Append(q, n + 1)
<1>1. /\ DOMAIN a = 1..(Len(q) + 1) /\ Len(q) \in Nat /\ DOMAIN q = 1..Len(q)
      /\ \A i \in DOMAIN q : a[i] = q[i]
      /\ a[Len(q) + 1] = n + 1
    BY DEF Commands
<1> HIDE DEF a
<1>2. \A i \in DOMAIN a : i \in DOMAIN q \/ i = Len(q) + 1
    BY <1>1
<1>3. \A s \in Commands : AtMost(s, n) => \A i \in DOMAIN s : s[i] \in Nat /\ s[i] < n + 1
    BY ElementType DEF AtMost
<1>4. AtMost(r, n + 1) /\ AtMost(b, n + 1) /\ AtMost(a, n + 1)
    BY <1>1, <1>2, <1>3 DEF Ordered, AtMost
<1>5. Below(r, a) /\ Below(b, a)
    BY <1>1, <1>2, <1>3 DEF Ordered, Below
<1>6. Increasing(a)
    <2> SUFFICES ASSUME NEW i \in DOMAIN a, NEW j \in DOMAIN a, i < j PROVE a[i] < a[j]
      BY DEF Increasing
    <2>1. i \in DOMAIN q /\ a[i] = q[i]
      BY <1>1
    <2>2. CASE j \in DOMAIN q
      BY <1>1, <2>1, <2>2 DEF Ordered, Increasing
    <2>3. CASE j = Len(q) + 1
      BY <1>1, <1>3, <2>1, <2>3 DEF Ordered
    <2> QED
      BY <1>2, <2>2, <2>3
<1> QED
    BY <1>4, <1>5, <1>6 DEF Ordered, a

LEMMA OrderedJoin ==
    ASSUME NEW r \in Commands, NEW b \in Commands, NEW q \in Commands, NEW n,
           Ordered(r, b, q, n)
    PROVE  Increasing(r \o (b \o q))
<1>1. b \o q \in Commands /\ Increasing(b \o q)
    BY JoinIncreasing DEF Ordered
<1>2. Below(r, b \o q)
    <2>1. ASSUME NEW j \in DOMAIN (b \o q)
          PROVE  \A i \in DOMAIN r : r[i] < (b \o q)[j]
      BY JoinElements DEF Ordered, Below
    <2> QED
      BY <2>1 DEF Below
<1> QED
    BY <1>1, <1>2, JoinIncreasing DEF Ordered

-----------------------------------------------------------------------------
(* Commands arrive in order and at most once *)

LEMMA QueueTypes ==
    ASSUME TypeInv, NEW id \in Id
    PROVE  received[id] \in Commands /\ LiveBatch(id) \in Commands /\ queue[id] \in Commands
<1>1. received[id] \in Commands /\ queue[id] \in Commands
    BY DEF TypeInv, TypeOK, Commands
<1>2. agent.pc = "await" => stream[cur] \in StreamType
    BY DEF TypeInv, TypeOK
<1>3. LiveBatch(id) \in Commands
    BY <1>2, EmptyOrdered DEF StreamType, LiveBatch, Commands
<1> QED
    BY <1>1, <1>3

LEMMA OrderedWeaken ==
    ASSUME NEW r \in Commands, NEW b \in Commands, NEW q \in Commands,
           NEW n \in Nat, Ordered(r, b, q, n)
    PROVE  Ordered(r, b, q, n + 1)
<1>1. \A s \in Commands : AtMost(s, n) => AtMost(s, n + 1)
    BY ElementType DEF AtMost
<1> QED
    BY <1>1 DEF Ordered

LEMMA CrashedBatch ==
    ASSUME NEW s \in StreamType
    PROVE  /\ Crashed(s).batch = s.batch \/ Crashed(s).batch = <<>>
           /\ Crashed(s).id = s.id
BY DEF Crashed, StreamType

-----------------------------------------------------------------------------
(* A step does one of three things to what is on its way: it may lose the  *)
(* queue or the batch of a node, or move the one to the other; it hands a  *)
(* batch to the agent; or it enqueues a command.                           *)

Loses(id) ==
    /\ queue'[id] = queue[id] \/ queue'[id] = <<>>
    /\ LiveBatch(id)' = LiveBatch(id) \/ LiveBatch(id)' = <<>>

Drains(id) ==
    /\ LiveBatch(id) = <<>>
    /\ LiveBatch(id)' = queue[id]
    /\ queue'[id] = <<>>

Quiet ==
    /\ UNCHANGED <<issued, received>>
    /\ \A id \in Id : Loses(id) \/ Drains(id)

HandsOver(node0) ==
    /\ received' = [received EXCEPT ![node0] = @ \o LiveBatch(node0)]
    /\ \A id \in Id : LiveBatch(id)' = <<>> /\ (id # node0 => LiveBatch(id) = <<>>)
    /\ UNCHANGED <<issued, queue>>

Queues(node0) ==
    /\ issued < MaxCmd /\ issued' = issued + 1
    /\ queue' = [queue EXCEPT ![node0] = Append(@, issued + 1)]
    /\ \A id \in Id : LiveBatch(id)' = LiveBatch(id)
    /\ UNCHANGED received

Transfer == Quiet \/ \E id \in Id : HandsOver(id) \/ Queues(id)

LEMMA QuietLosing ==
    ASSUME received' = received, issued' = issued,
           \A id \in Id : queue'[id] = queue[id] \/ queue'[id] = <<>>,
           \A id \in Id : LiveBatch(id)' = LiveBatch(id) \/ LiveBatch(id)' = <<>>
    PROVE  Transfer
BY DEF Transfer, Quiet, Loses

\* A stream changes but its batch stays with its id or is emptied.
LEMMA LiveUpdate ==
    ASSUME TypeInv, NEW k \in Stream, NEW s,
           stream' = [stream EXCEPT ![k] = s], UNCHANGED <<agent, cur>>,
           s.batch = <<>> \/ (s.batch = stream[k].batch /\ s.id = stream[k].id)
    PROVE  \A id \in Id : LiveBatch(id)' = LiveBatch(id) \/ LiveBatch(id)' = <<>>
<1>1. \A m \in Stream : stream'[m] = IF m = k THEN s ELSE stream[m]
    BY DEF TypeInv, TypeOK
<1>2. agent.pc = "await" => cur \in Stream
    BY DEF TypeInv, TypeOK
<1> QED
    BY <1>1, <1>2 DEF LiveBatch

LEMMA OrderInit == Init => OrderInv
<1> SUFFICES ASSUME Init, NEW id \in Id
             PROVE  Ordered(received[id], LiveBatch(id), queue[id], issued)
    BY DEF OrderInv
<1>1. received[id] = <<>> /\ LiveBatch(id) = <<>> /\ queue[id] = <<>>
    BY DEF Init, LiveBatch
<1> QED
    BY <1>1, EmptyOrdered DEF Ordered

LEMMA StepTransfers == TypeInv /\ SessionInv /\ [Next]_vars => Transfer
<1> SUFFICES ASSUME TypeInv, SessionInv, [Next]_vars PROVE Transfer
    OBVIOUS
<1>a. TypeOK
    BY DEF TypeInv
<1>b. stream \in [Stream -> StreamType]
    BY <1>a DEF TypeOK
<1>1. CASE Register \/ RegisterFails \/ OpenStream \/ OpenStreamFails \/ LoseStream
  <2>1. agent'.pc # "await"
    BY <1>1, <1>a DEF Register, RegisterFails, OpenStream, OpenStreamFails, LoseStream, TypeOK
  <2>2. UNCHANGED <<queue, issued, received>>
    BY <1>1 DEF Register, RegisterFails, OpenStream, OpenStreamFails, LoseStream
  <2> QED
    BY <2>1, <2>2, QuietLosing DEF LiveBatch
<1>2. CASE Tick
  <2>0. cur \in Stream /\ stream[cur] \in StreamType /\ Rests(stream[cur])
    BY <1>2, <1>a, <1>b DEF Tick, TypeOK, SessionInv
  <2>1. stream'[cur].batch = <<>> /\ cur' = cur
    BY <1>2, <1>b, <2>0 DEF Tick, Rests, StreamType
  <2>2. UNCHANGED <<queue, issued, received>>
    BY <1>2 DEF Tick
  <2> QED
    BY <2>1, <2>2, QuietLosing DEF LiveBatch
<1>3. CASE Receive
  <2>0. cur \in Stream /\ stream[cur] \in StreamType /\ LockStep(stream[cur])
    BY <1>3, <1>a, <1>b DEF Receive, TypeOK, SessionInv
  <2>1. stream[cur].id \in Id /\ stream[cur].id # NoId
    BY <1>3, <2>0 DEF Receive, LockStep, StreamType
  <2>2. agent'.pc # "await" /\ agent.pc = "await" /\ UNCHANGED <<queue, issued>>
    BY <1>3, <1>a DEF Receive, TypeOK
  <2>3. received' = [received EXCEPT ![stream[cur].id] = @ \o stream[cur].batch]
        /\ received \in [Id -> Seq(1..MaxCmd)]
    BY <1>3, <1>a DEF Receive, TypeOK
  <2>4. LiveBatch(stream[cur].id) = stream[cur].batch
    BY <2>2 DEF LiveBatch
  <2>5. \A id \in Id : LiveBatch(id)' = <<>> /\ (id # stream[cur].id => LiveBatch(id) = <<>>)
    BY <2>2 DEF LiveBatch
  <2>6. HandsOver(stream[cur].id)
    BY <2>2, <2>3, <2>4, <2>5 DEF HandsOver
  <2> QED
    BY <2>1, <2>6 DEF Transfer
<1>4. ASSUME NEW k \in Stream, Handler(k) PROVE Transfer
  <2>0. stream[k] \in StreamType /\ LockStep(stream[k])
    BY <1>b DEF SessionInv
  <2>1. CASE HandlerRecv(k)
    <3> DEFINE s == [stream[k] EXCEPT !.pc = "update", !.request = NoId, !.id = stream[k].request]
    <3>1. s.batch = <<>>
      BY <2>0, <2>1 DEF StreamType, HandlerRecv, LockStep
    <3>2. stream' = [stream EXCEPT ![k] = s] /\ UNCHANGED <<agent, cur, queue, issued, received>>
      BY <2>1 DEF HandlerRecv
    <3> HIDE DEF s
    <3> QED
      BY <3>1, <3>2, LiveUpdate, QuietLosing
  <2>2. CASE HandlerUpdate(k)
    <3> DEFINE s == [stream[k] EXCEPT !.pc = "drain"]
    <3>1. s.id = stream[k].id /\ s.batch = stream[k].batch
      BY <2>0 DEF StreamType
    <3>2. stream' = [stream EXCEPT ![k] = s] /\ UNCHANGED <<agent, cur, queue, issued, received>>
      BY <2>2 DEF HandlerUpdate
    <3> HIDE DEF s
    <3> QED
      BY <3>1, <3>2, LiveUpdate, QuietLosing
  <2>3. CASE HandlerUpdateFails(k)
    <3> DEFINE s == [stream[k] EXCEPT !.pc = "drain"]
    <3>1. s.id = stream[k].id /\ s.batch = stream[k].batch
      BY <2>0 DEF StreamType
    <3>2. stream' = [stream EXCEPT ![k] = s] /\ UNCHANGED <<agent, cur, queue, issued, received>>
      BY <2>3 DEF HandlerUpdateFails
    <3> HIDE DEF s
    <3> QED
      BY <3>1, <3>2, LiveUpdate, QuietLosing
  <2>4. CASE HandlerSend(k)
    <3> DEFINE s == [stream[k] EXCEPT !.pc = "recv", !.replied = TRUE]
    <3>1. s.id = stream[k].id /\ s.batch = stream[k].batch
      BY <2>0 DEF StreamType
    <3>2. stream' = [stream EXCEPT ![k] = s] /\ UNCHANGED <<agent, cur, queue, issued, received>>
      BY <2>4 DEF HandlerSend
    <3> HIDE DEF s
    <3> QED
      BY <3>1, <3>2, LiveUpdate, QuietLosing
  <2>5. CASE HandlerSendFails(k)
    <3> DEFINE s == [stream[k] EXCEPT !.pc = "closed", !.batch = <<>>]
    <3>1. s.batch = <<>>
      BY <2>0 DEF StreamType
    <3>2. stream' = [stream EXCEPT ![k] = s] /\ UNCHANGED <<agent, cur, queue, issued, received>>
      BY <2>5 DEF HandlerSendFails
    <3> HIDE DEF s
    <3> QED
      BY <3>1, <3>2, LiveUpdate, QuietLosing
  <2>6. CASE HandlerRecvError(k)
    <3> DEFINE s == [stream[k] EXCEPT !.pc = "closed"]
    <3>1. s.id = stream[k].id /\ s.batch = stream[k].batch
      BY <2>0 DEF StreamType
    <3>2. stream' = [stream EXCEPT ![k] = s] /\ UNCHANGED <<agent, cur, queue, issued, received>>
      BY <2>6 DEF HandlerRecvError
    <3> HIDE DEF s
    <3> QED
      BY <3>1, <3>2, LiveUpdate, QuietLosing
  <2>7. CASE HandlerRecvEOF(k)
    <3> DEFINE s == [stream[k] EXCEPT !.pc = "closed"]
    <3>1. s.id = stream[k].id /\ s.batch = stream[k].batch
      BY <2>0 DEF StreamType
    <3>2. stream' = [stream EXCEPT ![k] = s] /\ UNCHANGED <<agent, cur, queue, issued, received>>
      BY <2>7 DEF HandlerRecvEOF
    <3> HIDE DEF s
    <3> QED
      BY <3>1, <3>2, LiveUpdate, QuietLosing
  <2>8. CASE HandlerDrain(k)
    <3> DEFINE s == [stream[k] EXCEPT !.pc = "send", !.batch = queue[stream[k].id]]
    <3>1. s.id = stream[k].id /\ s.batch = queue[stream[k].id]
      BY <2>0 DEF StreamType
    <3>2. stream' = [stream EXCEPT ![k] = s] /\ UNCHANGED <<agent, cur, issued, received>>
      BY <2>8 DEF HandlerDrain
    <3> HIDE DEF s
    <3>3. \A m \in Stream : stream'[m] = IF m = k THEN s ELSE stream[m]
      BY <1>b, <3>2
    <3>4. \A id \in Id : queue'[id] = IF id = stream[k].id THEN <<>> ELSE queue[id]
      BY <2>8, <1>a DEF HandlerDrain, TypeOK
    <3>5. agent.pc = "await" => cur \in Stream
      BY <1>a DEF TypeOK
    <3> SUFFICES ASSUME NEW id \in Id PROVE Loses(id) \/ Drains(id)
      BY <3>2 DEF Transfer, Quiet
    <3>7. CASE agent.pc = "await" /\ cur = k /\ id = stream[k].id
      <4>1. LiveBatch(id)' = queue[id] /\ queue'[id] = <<>>
        BY <3>1, <3>2, <3>3, <3>4, <3>7 DEF LiveBatch
      <4>2. LiveBatch(id) = <<>>
        BY <2>0, <2>8, <3>7 DEF LiveBatch, LockStep, HandlerDrain
      <4> QED
        BY <4>1, <4>2 DEF Drains
    <3>8. CASE ~(agent.pc = "await" /\ cur = k /\ id = stream[k].id)
      <4>1. LiveBatch(id)' = LiveBatch(id)
        BY <3>1, <3>2, <3>3, <3>5, <3>8 DEF LiveBatch
      <4> QED
        BY <3>4, <4>1 DEF Loses
    <3> QED
      BY <3>7, <3>8
  <2> QED
    BY <1>4, <2>1, <2>2, <2>3, <2>4, <2>5, <2>6, <2>7, <2>8 DEF Handler
<1>5. ASSUME NEW node0 \in Id, Enqueue(node0) PROVE Transfer
  <2>1. \A id \in Id : LiveBatch(id)' = LiveBatch(id)
    BY <1>5 DEF Enqueue, LiveBatch
  <2> QED
    BY <1>5, <2>1 DEF Enqueue, Transfer, Queues
<1>6. CASE DeleteNode \/ UNCHANGED vars
  BY <1>6, QuietLosing DEF DeleteNode, vars, LiveBatch
<1>7. CASE BreakLink
  <2>0. cur \in Stream /\ stream[cur] \in StreamType
    BY <1>7, <1>a, <1>b DEF BreakLink, TypeOK
  <2> DEFINE s == [stream[cur] EXCEPT !.link = "broken"]
  <2>1. s.batch = stream[cur].batch /\ s.id = stream[cur].id
    BY <2>0 DEF StreamType
  <2>2. stream' = [stream EXCEPT ![cur] = s] /\ UNCHANGED <<agent, cur, queue, issued, received>>
    BY <1>7 DEF BreakLink
  <2> HIDE DEF s
  <2> QED
    BY <2>0, <2>1, <2>2, LiveUpdate, QuietLosing
<1>8. CASE AgentStops("eof") \/ AgentStops("broken")
  <2>1. agent'.pc # "await" /\ UNCHANGED <<queue, issued, received>>
    BY <1>8 DEF AgentStops
  <2> QED
    BY <2>1, QuietLosing DEF LiveBatch
<1>9. CASE ControllerCrash
  <2>1. UNCHANGED <<agent, cur, issued, received>>
        /\ \A k \in Stream : stream'[k] = IF k > cur THEN stream[k] ELSE Crashed(stream[k])
    BY <1>9 DEF ControllerCrash
  <2>2. \A id \in Id : queue'[id] = <<>>
    BY <1>9 DEF ControllerCrash
  <2>3. agent.pc = "await" => cur \in Stream /\ ~(cur > cur)
    BY <1>a, Numbers DEF TypeOK
  <2>4. agent.pc = "await" =>
          /\ Crashed(stream[cur]).batch = stream[cur].batch \/ Crashed(stream[cur]).batch = <<>>
          /\ Crashed(stream[cur]).id = stream[cur].id
    BY <1>b, <2>3, CrashedBatch
  <2>5. \A id \in Id : LiveBatch(id)' = LiveBatch(id) \/ LiveBatch(id)' = <<>>
    BY <2>1, <2>3, <2>4 DEF LiveBatch
  <2> QED
    BY <2>1, <2>2, <2>5, QuietLosing
<1> QED
  BY <1>1, <1>2, <1>3, <1>4, <1>5, <1>6, <1>7, <1>8, <1>9 DEF Next, Agent, Fault

-----------------------------------------------------------------------------
(* Order is kept, and the channel's promise with it *)

LEMMA OrderStep == IInv /\ [Next]_vars => OrderInv'
<1> SUFFICES ASSUME TypeInv, OrderInv, Transfer, NEW id \in Id
             PROVE  Ordered(received'[id], LiveBatch(id)', queue'[id], issued')
    BY StepTransfers DEF IInv, OrderInv
<1>1. Ordered(received[id], LiveBatch(id), queue[id], issued)
    BY DEF OrderInv
<1>2. /\ received \in [Id -> Seq(1..MaxCmd)] /\ queue \in [Id -> Seq(1..MaxCmd)]
      /\ issued \in Nat
    BY BoundAssumption DEF TypeInv, TypeOK
<1>3. CASE Quiet
    BY <1>1, <1>3, OrderedDrop DEF Quiet, Loses, Drains
<1>4. ASSUME NEW node0 \in Id, HandsOver(node0)
      PROVE  Ordered(received'[id], LiveBatch(id)', queue'[id], issued')
  <2>1. /\ received'[id] = IF id = node0 THEN received[id] \o LiveBatch(id) ELSE received[id]
        /\ LiveBatch(id)' = <<>> /\ queue'[id] = queue[id] /\ issued' = issued
    BY <1>2, <1>4 DEF HandsOver
  <2>2. Ordered(received[id] \o LiveBatch(id), <<>>, queue[id], issued)
    BY <1>1, QueueTypes, OrderedTake
  <2> QED
    BY <1>1, <2>1, <2>2, OrderedDrop
<1>5. ASSUME NEW node0 \in Id, Queues(node0)
      PROVE  Ordered(received'[id], LiveBatch(id)', queue'[id], issued')
  <2>1. /\ queue'[id] = IF id = node0 THEN Append(queue[id], issued + 1) ELSE queue[id]
        /\ LiveBatch(id)' = LiveBatch(id) /\ received'[id] = received[id]
        /\ issued' = issued + 1 /\ issued < MaxCmd
    BY <1>2, <1>5 DEF Queues
  <2>2. Ordered(received[id], LiveBatch(id), Append(queue[id], issued + 1), issued + 1)
    BY <1>1, <1>2, <2>1, QueueTypes, OrderedAppend
  <2>3. Ordered(received[id], LiveBatch(id), queue[id], issued + 1)
    BY <1>1, <1>2, QueueTypes, OrderedWeaken
  <2> QED
    BY <2>1, <2>2, <2>3
<1> QED
    BY <1>3, <1>4, <1>5 DEF Transfer

LEMMA InvInit == Init => IInv
BY TypeInit, SessionInit, OrderInit DEF IInv

LEMMA InvStep == IInv /\ [Next]_vars => IInv'
BY TypeStep, SessionStep, OrderStep DEF IInv

LEMMA InvImplies == IInv => InOrderAtMostOnce
<1> SUFFICES ASSUME TypeInv, OrderInv, NEW id \in Id
             PROVE  Increasing(received[id] \o OnTheWay(id))
    BY DEF IInv, InOrderAtMostOnce
<1>1. /\ received[id] \in Commands /\ LiveBatch(id) \in Commands /\ queue[id] \in Commands
      /\ Ordered(received[id], LiveBatch(id), queue[id], issued)
    BY QueueTypes DEF OrderInv
<1>2. Increasing(received[id] \o (LiveBatch(id) \o queue[id]))
    BY <1>1, OrderedJoin
<1>3. <<>> \o queue[id] = queue[id]
    BY <1>1 DEF Commands
<1>4. OnTheWay(id) = LiveBatch(id) \o queue[id]
    BY <1>3 DEF OnTheWay, LiveBatch
<1> QED
    BY <1>2, <1>4

\* However many streams the agent opens and whatever is lost, it is handed
\* the commands of each id in the order they were enqueued and none of them
\* twice (Dispatcher.Enqueue, Drain; Server.Heartbeat; Client.RunHeartbeat).
THEOREM DeliveryCorrect == Spec => []InOrderAtMostOnce
<1> QED
  BY InvInit, InvStep, InvImplies, PTL DEF Spec
-----------------------------------------------------------------------------
(* NodeSession implements CommandChannel *)

LEMMA OnTheWayIs ==
    ASSUME TypeInv, NEW id \in Id
    PROVE  OnTheWay(id) = LiveBatch(id) \o queue[id]
<1>1. <<>> \o queue[id] = queue[id]
    BY QueueTypes, ConcatEmptySeq DEF Commands
<1> QED
    BY <1>1 DEF OnTheWay, LiveBatch

\* A batch followed by a queue falls apart into the two.
LEMMA SplitJoin ==
    ASSUME NEW b \in Commands, NEW q \in Commands
    PROVE  /\ b \o q \in Commands /\ Len(b \o q) = Len(b) + Len(q)
           /\ Len(b) \in Nat /\ Len(q) \in Nat
           /\ SubSeq(b \o q, 1, Len(b)) = b
           /\ SubSeq(b \o q, Len(b) + 1, Len(b \o q)) = q
           /\ b # <<>> => Len(b) \in 1..Len(b \o q)
<1> DEFINE s == b \o q
<1>1. s \in Commands /\ Len(s) = Len(b) + Len(q) /\ Len(b) \in Nat /\ Len(q) \in Nat
    BY ConcatProperties, LenProperties DEF Commands
<1>2. \A i \in 1..Len(s) : s[i] \in 1..MaxCmd
  <2> HIDE DEF s
  <2> QED
    BY <1>1, ElementOfSeq DEF Commands
<1>3. SubSeq(s, 1, Len(b)) = b
  <2>1. \A i \in 1..Len(b) : s[i] = b[i] /\ s[i] \in 1..MaxCmd
    BY <1>1, ConcatProperties, ElementOfSeq DEF Commands
  <2>2. /\ SubSeq(s, 1, Len(b)) \in Commands /\ Len(SubSeq(s, 1, Len(b))) = Len(b)
        /\ \A i \in 1..Len(b) : SubSeq(s, 1, Len(b))[i] = b[i]
    BY <1>1, <2>1, SubSeqProperties DEF Commands
  <2> QED
    BY <2>2, SeqEqual DEF Commands
<1>4. SubSeq(s, Len(b) + 1, Len(s)) = q
  <2>1. \A i \in 1..Len(q) : s[Len(b) + i] = q[i] /\ q[i] \in 1..MaxCmd
    BY <1>1, ConcatProperties, ElementOfSeq DEF Commands
  <2>2. \A i \in Len(b) + 1 .. Len(s) : s[i] \in 1..MaxCmd
    <3> HIDE DEF s
    <3> QED
      BY <1>1, <1>2
  <2>3. /\ SubSeq(s, Len(b) + 1, Len(s)) \in Commands
        /\ Len(SubSeq(s, Len(b) + 1, Len(s))) = Len(q)
        /\ \A i \in 1..Len(q) : SubSeq(s, Len(b) + 1, Len(s))[i] = q[i]
    BY <1>1, <2>1, <2>2, SubSeqProperties DEF Commands
  <2> QED
    BY <2>3, SeqEqual DEF Commands
<1>5. b # <<>> => Len(b) \in 1..Len(s)
    BY <1>1, EmptySeq DEF Commands
<1> QED
    BY <1>1, <1>3, <1>4, <1>5

LEMMA JoinAppend ==
    ASSUME NEW b \in Commands, NEW q \in Commands, NEW e \in 1..MaxCmd
    PROVE  b \o Append(q, e) = Append(b \o q, e)
<1>1. <<e>> \in Commands
    BY DEF Commands
<1>2. Append(q, e) = q \o <<e>>
    BY AppendIsConcat DEF Commands
<1>3. b \o q \in Commands
    BY ConcatProperties DEF Commands
<1>4. Append(b \o q, e) = (b \o q) \o <<e>>
    BY <1>3, AppendIsConcat DEF Commands
<1>5. (b \o q) \o <<e>> = b \o (q \o <<e>>)
    BY <1>1, ConcatAssociative DEF Commands
<1> QED
    BY <1>2, <1>4, <1>5

\* What remains when a batch, a queue, both or neither is lost is what there
\* was without one run of commands.
LEMMA LosesPart ==
    ASSUME NEW b \in Commands, NEW q \in Commands
    PROVE  /\ Channel!LosesOneRun(b \o q, b \o q)
           /\ Channel!LosesOneRun(b \o q, b)
           /\ Channel!LosesOneRun(b \o q, q)
           /\ Channel!LosesOneRun(b \o q, <<>>)
<1> DEFINE s == b \o q
<1>1. s \in Commands /\ Len(s) = Len(b) + Len(q) /\ Len(b) \in Nat /\ Len(q) \in Nat
    BY SplitJoin
<1>3. SubSeq(s, 1, 0) = <<>> /\ SubSeq(s, Len(s) + 1, Len(s)) = <<>>
    BY <1>1, SubSeqEmpty
<1>4. SubSeq(s, 1, Len(s)) = s
    BY <1>1, SubSeqFull DEF Commands
<1>5. SubSeq(s, 1, Len(b)) = b
    BY SplitJoin
<1>6. SubSeq(s, Len(b) + 1, Len(s)) = q
    BY SplitJoin
<1>7. /\ s \o <<>> = s /\ b \o <<>> = b /\ <<>> \o q = q /\ <<>> \o <<>> = <<>>
    BY <1>1, ConcatEmptySeq, EmptyOrdered DEF Commands
<1> HIDE DEF s
<1>8. Channel!LosesOneRun(s, s)
  <2>1. Len(s) \in 0..Len(s) /\ Len(s) \in 0..Len(s) /\ Len(s) <= Len(s)
    BY <1>1
  <2>2. s = SubSeq(s, 1, Len(s)) \o SubSeq(s, Len(s) + 1, Len(s))
    BY <1>1, <1>3, <1>7, <1>4
  <2> QED
    BY <2>1, <2>2 DEF Channel!LosesOneRun
<1>9. Channel!LosesOneRun(s, b)
  <2>1. Len(b) \in 0..Len(s) /\ Len(s) \in 0..Len(s) /\ Len(b) <= Len(s)
    BY <1>1
  <2>2. b = SubSeq(s, 1, Len(b)) \o SubSeq(s, Len(s) + 1, Len(s))
    BY <1>1, <1>3, <1>7, <1>5
  <2> QED
    BY <2>1, <2>2 DEF Channel!LosesOneRun
<1>10. Channel!LosesOneRun(s, q)
  <2>1. 0 \in 0..Len(s) /\ Len(b) \in 0..Len(s) /\ 0 <= Len(b)
    BY <1>1
  <2>2. q = SubSeq(s, 1, 0) \o SubSeq(s, Len(b) + 1, Len(s))
    BY <1>1, <1>3, <1>7, <1>6
  <2> QED
    BY <2>1, <2>2 DEF Channel!LosesOneRun
<1>11. Channel!LosesOneRun(s, <<>>)
  <2>1. 0 \in 0..Len(s) /\ Len(s) \in 0..Len(s) /\ 0 <= Len(s)
    BY <1>1
  <2>2. <<>> = SubSeq(s, 1, 0) \o SubSeq(s, Len(s) + 1, Len(s))
    BY <1>1, <1>3, <1>7
  <2> QED
    BY <2>1, <2>2 DEF Channel!LosesOneRun
<1> QED
    BY <1>8, <1>9, <1>10, <1>11 DEF s

LEMMA ChannelInit == Init => Channel!Init
BY DEF Init, Channel!Init, OnTheWay

LEMMA ChannelStep == IInv /\ IInv' /\ [Next]_vars => [Channel!Next]_(Channel!channelVars)
<1> SUFFICES ASSUME TypeInv, TypeInv', Transfer
             PROVE  Channel!Next \/ UNCHANGED Channel!channelVars
    BY StepTransfers DEF IInv
<1>1. \A id \in Id : /\ OnTheWay(id) = LiveBatch(id) \o queue[id]
                     /\ OnTheWay(id)' = LiveBatch(id)' \o queue'[id]
  <2>1. ASSUME NEW id \in Id PROVE OnTheWay(id)' = LiveBatch(id)' \o queue'[id]
    <3>1. <<>> \o queue'[id] = queue'[id]
      BY ConcatEmptySeq DEF TypeInv, TypeOK
    <3> QED
      BY <3>1 DEF OnTheWay, LiveBatch
  <2> QED
    BY <2>1, OnTheWayIs
<1>2. \A id \in Id : LiveBatch(id) \in Commands /\ queue[id] \in Commands
    BY QueueTypes
<1>3. CASE Quiet
  <2>1. ASSUME NEW id \in Id PROVE Channel!LosesOneRun(OnTheWay(id), OnTheWay(id)')
    <3>1. \A s \in Commands : <<>> \o s = s /\ s \o <<>> = s
      BY ConcatEmptySeq DEF Commands
    <3>2. /\ Channel!LosesOneRun(LiveBatch(id) \o queue[id], LiveBatch(id) \o queue[id])
          /\ Channel!LosesOneRun(LiveBatch(id) \o queue[id], LiveBatch(id))
          /\ Channel!LosesOneRun(LiveBatch(id) \o queue[id], queue[id])
          /\ Channel!LosesOneRun(LiveBatch(id) \o queue[id], <<>>)
      BY <1>2, LosesPart
    <3>3. OnTheWay(id)' \in {LiveBatch(id) \o queue[id], LiveBatch(id), queue[id], <<>>}
      BY <1>1, <1>2, <1>3, <3>1, EmptyOrdered DEF Quiet, Loses, Drains
    <3> QED
      BY <1>1, <3>2, <3>3
  <2>2. Channel!Lose
    BY <1>3, <2>1 DEF Channel!Lose, Quiet
  <2> QED
    BY <2>2 DEF Channel!Next
<1>4. ASSUME NEW node0 \in Id, HandsOver(node0)
      PROVE  Channel!Next \/ UNCHANGED Channel!channelVars
  <2> DEFINE b == LiveBatch(node0)
             q == queue[node0]
  <2>1. b \in Commands /\ q \in Commands /\ received[node0] \in Commands
    BY QueueTypes
  <2>2. \A id \in Id : id # node0 => OnTheWay(id)' = OnTheWay(id)
    BY <1>1, <1>4 DEF HandsOver
  <2>3. OnTheWay(node0) = b \o q /\ OnTheWay(node0)' = q
    BY <1>1, <1>4, <2>1, ConcatEmptySeq DEF HandsOver, Commands
  <2>4. received' = [received EXCEPT ![node0] = @ \o b] /\ issued' = issued
    BY <1>4 DEF HandsOver
  <2>5. CASE b = <<>>
    <3>1. OnTheWay(node0)' = OnTheWay(node0)
      BY <2>1, <2>3, <2>5, ConcatEmptySeq DEF Commands
    <3>2. received[node0] \o b = received[node0]
      BY <2>1, <2>5, ConcatEmptySeq DEF Commands
    <3>3. received' = received
      BY <2>4, <3>2 DEF TypeInv, TypeOK
    <3>4. [id \in Id |-> OnTheWay(id)]' = [id \in Id |-> OnTheWay(id)]
      BY <2>2, <3>1
    <3> QED
      BY <2>4, <3>3, <3>4 DEF Channel!channelVars
  <2>6. CASE b # <<>>
    <3>1. /\ Len(b) \in 1..Len(b \o q)
          /\ SubSeq(b \o q, 1, Len(b)) = b
          /\ SubSeq(b \o q, Len(b) + 1, Len(b \o q)) = q
      BY <2>1, <2>6, SplitJoin
    <3>2. [id \in Id |-> OnTheWay(id)]' =
            [[id \in Id |-> OnTheWay(id)] EXCEPT ![node0] = q]
      BY <2>2, <2>3
    <3>3. Channel!Deliver(node0)
      <4> DEFINE pending == [id \in Id |-> OnTheWay(id)]
      <4>1. pending[node0] = b \o q
        BY <2>3
      <4>2. /\ received' = [received EXCEPT ![node0] = @ \o SubSeq(pending[node0], 1, Len(b))]
            /\ pending' = [pending EXCEPT ![node0] = SubSeq(@, Len(b) + 1, Len(@))]
        BY <2>4, <3>1, <3>2, <4>1
      <4>3. Len(b) \in 1..Len(pending[node0])
        BY <3>1, <4>1
      <4> QED
        BY <2>4, <4>2, <4>3 DEF Channel!Deliver
    <3> QED
      BY <3>3 DEF Channel!Next
  <2> QED
    BY <2>5, <2>6
<1>5. ASSUME NEW node0 \in Id, Queues(node0) PROVE Channel!Next
  <2>1. LiveBatch(node0) \in Commands /\ queue[node0] \in Commands
    BY <1>2
  <2>2. issued + 1 \in 1..MaxCmd
    BY <1>5, BoundAssumption DEF Queues, TypeInv, TypeOK
  <2>3. ASSUME NEW id \in Id, id # node0 PROVE OnTheWay(id)' = OnTheWay(id)
    <3>1. queue'[id] = queue[id]
      BY <1>5, <2>3 DEF Queues, TypeInv, TypeOK
    <3> QED
      BY <1>1, <1>5, <3>1 DEF Queues
  <2>4. OnTheWay(node0)' = Append(OnTheWay(node0), issued + 1)
    <3>1. queue'[node0] = Append(queue[node0], issued + 1)
      BY <1>5 DEF Queues, TypeInv, TypeOK
    <3>2. LiveBatch(node0) \o Append(queue[node0], issued + 1)
            = Append(LiveBatch(node0) \o queue[node0], issued + 1)
      BY <2>1, <2>2, JoinAppend
    <3> QED
      BY <1>1, <1>5, <3>1, <3>2 DEF Queues
  <2>5. [id \in Id |-> OnTheWay(id)]' =
          [[id \in Id |-> OnTheWay(id)] EXCEPT ![node0] = Append(@, issued + 1)]
    BY <2>3, <2>4
  <2>6. Channel!Enqueue(node0)
    BY <1>5, <2>5 DEF Queues, Channel!Enqueue
  <2> QED
    BY <2>6 DEF Channel!Next
<1> QED
    BY <1>3, <1>4, <1>5 DEF Transfer

(***************************************************************************)
(* The session keeps the whole promise of CommandChannel, for any number   *)
(* of disturbances and commands: nothing is invented, doubled, reordered   *)
(* or sent to another node, and what is lost at one moment is one run of   *)
(* the commands on their way (the batch, the queue, or both).              *)
(***************************************************************************)
THEOREM SessionImplementsChannel == Spec => ImplementsChannel
<1> QED
  BY InvInit, InvStep, ChannelInit, ChannelStep, PTL DEF Spec, ImplementsChannel, Channel!Spec

-----------------------------------------------------------------------------
(* Who empties the queue of an offline agent *)

\* a handler may yet drain a queue without another heartbeat
Holding == \E k \in Stream : stream[k].request # NoId \/ stream[k].pc \in {"update", "drain"}

QueueGrows ==
    \A id \in Id : \E more \in {<<>>, <<issued + 1>>} : queue'[id] = queue[id] \o more

\* What dispatcher.go:11-12 says of the queues of an offline agent, for an agent
\* that left no handler with a request: until it sends a heartbeat again its queue
\* only grows and no handler gets a request (Server.Heartbeat, Dispatcher.Drain).
UnheldQueueKept ==
    [][Offline /\ ~Holding => ~Holding' /\ (ControllerCrash \/ QueueGrows)]_vars

LEMMA SameQueueGrows ==
    ASSUME TypeOK, queue' = queue
    PROVE  QueueGrows
<1> SUFFICES ASSUME NEW id \in Id PROVE queue[id] = queue[id] \o <<>>
    BY DEF QueueGrows
<1>1. queue[id] \in Seq(1..MaxCmd)
    BY DEF TypeOK
<1> QED
    BY <1>1, ConcatEmptySeq

LEMMA EnqueueGrows ==
    ASSUME TypeOK, NEW node0 \in Id, Enqueue(node0)
    PROVE  QueueGrows
<1> SUFFICES ASSUME NEW id \in Id
             PROVE  queue'[id] = queue[id] \o <<>> \/ queue'[id] = queue[id] \o <<issued + 1>>
    BY DEF QueueGrows
<1>1. queue \in [Id -> Seq(1..MaxCmd)] /\ queue[id] \in Seq(1..MaxCmd)
    BY DEF TypeOK
<1>2. CASE id = node0
    <2>1. queue'[id] = Append(queue[id], issued + 1)
      BY <1>1, <1>2 DEF Enqueue
    <2>2. Append(queue[id], issued + 1) = queue[id] \o <<issued + 1>>
      BY <1>1
    <2> QED
      BY <2>1, <2>2
<1>3. CASE id # node0
    <2>1. queue'[id] = queue[id]
      BY <1>1, <1>3 DEF Enqueue
    <2> QED
      BY <1>1, <2>1, ConcatEmptySeq
<1> QED
    BY <1>2, <1>3

\* While nobody holds a request, a handler only answers or ends.
LEMMA IdleHandler ==
    ASSUME TypeOK, ~Holding, NEW k \in Stream, Handler(k)
    PROVE  ~Holding' /\ queue' = queue
<1>1. stream \in [Stream -> StreamType]
    BY DEF TypeOK
<1>2. stream[k].request = NoId /\ stream[k].pc \notin {"update", "drain"}
    BY DEF Holding
<1>3. HandlerSend(k) \/ HandlerSendFails(k) \/ HandlerRecvError(k) \/ HandlerRecvEOF(k)
    BY <1>2 DEF Handler, HandlerRecv, HandlerUpdate, HandlerUpdateFails, HandlerDrain
<1>4. queue' = queue
    BY <1>3 DEF HandlerSend, HandlerSendFails, HandlerRecvError, HandlerRecvEOF
<1>5. ASSUME NEW j \in Stream
      PROVE  stream'[j].request = NoId /\ stream'[j].pc \notin {"update", "drain"}
    <2>1. stream[j] \in StreamType /\ stream[j].request = NoId /\ stream[j].pc \notin {"update", "drain"}
      BY <1>1 DEF Holding
    <2>2. CASE HandlerSend(k)
      BY <1>1, <2>1, <2>2 DEF HandlerSend, StreamType
    <2>3. CASE HandlerSendFails(k)
      BY <1>1, <2>1, <2>3 DEF HandlerSendFails, StreamType
    <2>4. CASE HandlerRecvError(k) \/ HandlerRecvEOF(k)
      <3>1. stream' = [stream EXCEPT ![k].pc = "closed"]
        BY <2>4 DEF HandlerRecvError, HandlerRecvEOF
      <3> QED
        BY <1>1, <2>1, <3>1 DEF StreamType
    <2> QED
      BY <1>3, <2>2, <2>3, <2>4
<1> QED
    BY <1>4, <1>5 DEF Holding

LEMMA OfflineStep ==
    ASSUME TypeOK, [Next]_vars, Offline, ~Holding
    PROVE  ~Holding' /\ (ControllerCrash \/ QueueGrows)
<1>1. stream \in [Stream -> StreamType] /\ agent.pc \notin {"beat", "await"}
    BY DEF TypeOK, Offline
<1>2. CASE stream' = stream /\ queue' = queue
    BY <1>2, SameQueueGrows DEF Holding
<1>3. CASE \E k \in Stream : Handler(k)
    BY <1>3, IdleHandler, SameQueueGrows
<1>4. CASE \E id \in Id : Enqueue(id)
    <2>1. stream' = stream
      BY <1>4 DEF Enqueue
    <2> QED
      BY <1>4, <2>1, EnqueueGrows DEF Holding
<1>5. CASE BreakLink
    <2>1. queue' = queue
      BY <1>5 DEF BreakLink
    <2>2. \A k \in Stream : stream'[k].request = stream[k].request /\ stream'[k].pc = stream[k].pc
      BY <1>1, <1>5 DEF BreakLink, StreamType
    <2> QED
      BY <2>1, <2>2, SameQueueGrows DEF Holding
<1>6. CASE ControllerCrash
    <2>1. \A k \in Stream : stream'[k] = stream[k] \/ stream'[k] = Crashed(stream[k])
      BY <1>6 DEF ControllerCrash
    <2>2. \A k \in Stream : Crashed(stream[k]).request = NoId /\ Crashed(stream[k]).pc = "closed"
      BY <1>1 DEF Crashed, StreamType
    <2>3. ~Holding'
      BY <2>1, <2>2 DEF Holding
    <2> QED
      BY <1>6, <2>3
<1>7. CASE Agent \/ RegisterFails \/ OpenStreamFails \/ DeleteNode \/ AgentStops("eof") \/ AgentStops("broken")
    <2>1. stream' = stream /\ queue' = queue
      BY <1>1, <1>7 DEF Agent, Register, OpenStream, Tick, Receive, LoseStream,
         RegisterFails, OpenStreamFails, DeleteNode, AgentStops
    <2> QED
      BY <1>2, <2>1
<1>8. UNCHANGED vars => stream' = stream /\ queue' = queue
    BY DEF vars
<1> QED
    BY <1>2, <1>3, <1>4, <1>5, <1>6, <1>7, <1>8 DEF Next, Fault

(***************************************************************************)
(* The handler an agent leaves behind is the only cause of what            *)
(* NodeSessionOffline.cfg shows, for any number of disturbances: without   *)
(* one, the queue of an offline agent only grows.                          *)
(***************************************************************************)
THEOREM OfflineQueueUnheld == Spec => UnheldQueueKept
<1>1. TypeOK /\ [Next]_vars
        => [Offline /\ ~Holding => ~Holding' /\ (ControllerCrash \/ QueueGrows)]_vars
    BY OfflineStep
<1> QED
    BY <1>1, TypeCorrect, PTL DEF Spec, UnheldQueueKept
=============================================================================
