------------------------- MODULE InstancePagesProofs -------------------------
(***************************************************************************)
(* Proofs about what an operator does with instances, for any number of    *)
(* instances and of requests of each kind: the list and its create dialog, *)
(* whose console and whose metrics the page of one instance holds, and the *)
(* goroutines of a console session, as InstancePagesMC composes them.      *)
(*                                                                         *)
(* Each part has an inductive invariant of its own, which its own steps    *)
(* keep whatever the bounds are; the invariant of the composition is that  *)
(* the part explored has its own.                                          *)
(***************************************************************************)
EXTENDS InstancePagesMC, FiniteSets, TLAPS

----------------------------------------------------------------------------
(* InstancesPage: the flag of the create dialog and the requests under     *)
(* way.                                                                    *)

CallType == [st : {"unused", "sent", "ok", "err", "done"},
             op : {"start", "stop", "delete", "create"},
             inst : Listed, mine : BOOLEAN]

\* a create of this visit whose answer the page still waits for
Awaited(k) == k.op = "create" /\ k.mine = TRUE /\ k.st \in {"sent", "ok", "err"}

ListInv == call \in [Call -> CallType] /\ creating \in BOOLEAN /\ List!OneCreate

LEMMA MyCreatesIs ==
    ASSUME call \in [Call -> CallType]
    PROVE  List!MyCreates = {c \in Call : Awaited(call[c])}
BY DEF List!MyCreates, List!Mine, List!Answered, Awaited, CallType

LEMMA MyCreatesIsNext ==
    ASSUME call' \in [Call -> CallType]
    PROVE  List!MyCreates' = {c \in Call : Awaited(call'[c])}
BY DEF List!MyCreates, List!Mine, List!Answered, Awaited, CallType

\* no create of this visit is sent or answered
LEMMA Kept ==
    ASSUME ListInv, call' \in [Call -> CallType], creating' = creating,
           \A c \in Call : Awaited(call'[c]) <=> Awaited(call[c])
    PROVE  ListInv'
<1>1. List!MyCreates' = List!MyCreates
  BY MyCreatesIs, MyCreatesIsNext DEF ListInv
<1> QED
  BY <1>1 DEF ListInv, List!OneCreate

LEMMA ClosedType ==
    ASSUME Listed # {}, NEW st \in {"unused", "done"}
    PROVE  List!Closed(st) \in CallType /\ ~Awaited(List!Closed(st))
BY DEF List!Closed, CallType, Awaited

LEMMA SendStep ==
    ASSUME ListInv, NEW op \in {"start", "stop", "delete"}, NEW i \in Listed, List!Send(op, i),
           creating' = creating
    PROVE  ListInv'
<1>1. PICK c \in Call :
        /\ call[c].st = "unused"
        /\ call' = [call EXCEPT ![c] = [st |-> "sent", op |-> op, inst |-> i,
                                        mine |-> TRUE]]
  BY DEF List!Send
<1>2. call' \in [Call -> CallType]
  BY <1>1 DEF ListInv, CallType
<1>3. \A d \in Call : Awaited(call'[d]) <=> Awaited(call[d])
  BY <1>1 DEF ListInv, Awaited
<1> QED
  BY <1>2, <1>3, Kept

LEMMA CloseStep ==
    ASSUME Listed # {}, ListInv, NEW c \in Call, List!Close(c), call[c].op # "create",
           creating' = creating
    PROVE  ListInv'
<1>1. List!Closed("done") \in CallType /\ ~Awaited(List!Closed("done"))
  BY ClosedType
<1>2. call' \in [Call -> CallType]
  BY <1>1 DEF ListInv, List!Close
<1>3. \A d \in Call : Awaited(call'[d]) <=> Awaited(call[d])
  BY <1>1 DEF ListInv, Awaited, List!Close
<1> QED
  BY <1>2, <1>3, Kept

LEMMA CreateStep == ASSUME ListInv, form \in Listed \cup {NoInst}, List!handleCreate PROVE ListInv'
<1>1. ~creating /\ creating' = TRUE /\ form \in Listed
  BY DEF List!handleCreate, List!CanSubmit
<1>2. PICK c \in Call :
        call' = [call EXCEPT ![c] = [st |-> "sent", op |-> "create", inst |-> form,
                                     mine |-> TRUE]]
  BY DEF List!handleCreate, List!Send
<1>3. call' \in [Call -> CallType]
  BY <1>1, <1>2 DEF ListInv, CallType
<1>4. \A d \in Call : ~Awaited(call[d])
  BY <1>1, MyCreatesIs DEF ListInv, List!OneCreate
<1>5. \A d \in Call : Awaited(call'[d]) <=> d = c
  BY <1>2, <1>4 DEF ListInv, Awaited
<1>6. List!MyCreates' = {c}
  BY <1>3, <1>5, MyCreatesIsNext
<1> QED
  BY <1>1, <1>3, <1>6 DEF ListInv, List!OneCreate

LEMMA CreateEnds ==
    ASSUME Listed # {}, ListInv, NEW c \in Call, List!CreateDone(c) \/ List!CreateFailed(c)
    PROVE  ListInv'
<1>1. List!Mine(c, "create") /\ List!Answered(c) /\ List!Close(c) /\ creating' = FALSE
  BY DEF List!CreateDone, List!CreateFailed, List!Answered
<1>2. List!Closed("done") \in CallType /\ ~Awaited(List!Closed("done"))
  BY ClosedType
<1>3. call' \in [Call -> CallType]
  BY <1>1, <1>2 DEF ListInv, List!Close
<1>4. c \in List!MyCreates
  BY <1>1 DEF List!MyCreates
<1>5. \A d \in Call \ {c} : ~Awaited(call[d])
  BY <1>4, MyCreatesIs DEF ListInv, List!OneCreate
<1>6. \A d \in Call : ~Awaited(call'[d])
  BY <1>1, <1>2, <1>5 DEF ListInv, List!Close
<1>7. List!MyCreates' = {}
  BY <1>3, <1>6, MyCreatesIsNext
<1> QED
  BY <1>1, <1>3, <1>7 DEF ListInv, List!OneCreate

LEMMA LeaveStep == ASSUME Listed # {}, ListInv, List!Leave PROVE ListInv'
<1>1. call' = [c \in Call |-> IF call[c].st = "sent"
                                THEN [call[c] EXCEPT !.mine = FALSE]
                                ELSE IF List!Answered(c) THEN List!Closed("done")
                                ELSE call[c]]
  BY DEF List!Leave
<1>2. List!Closed("done") \in CallType /\ ~Awaited(List!Closed("done"))
  BY ClosedType
<1>3. ASSUME NEW c \in Call
      PROVE  call'[c] \in CallType /\ ~Awaited(call'[c])
  <2>1. call[c] \in CallType
    BY DEF ListInv
  <2>2. CASE call[c].st = "sent"
    BY <1>1, <2>1, <2>2 DEF CallType, Awaited
  <2>3. CASE call[c].st # "sent"
    BY <1>1, <1>2, <2>1, <2>3 DEF Awaited, List!Answered
  <2> QED
    BY <2>2, <2>3
<1>4. call' \in [Call -> CallType]
  BY <1>1, <1>3
<1>5. List!MyCreates' = {}
  BY <1>3, <1>4, MyCreatesIsNext
<1>6. creating' = FALSE
  BY DEF List!Leave
<1> QED
  BY <1>4, <1>5, <1>6 DEF ListInv, List!OneCreate

LEMMA AnswerStep ==
    ASSUME Listed # {}, ListInv, NEW c \in Call, List!Handle(c) \/ List!AnswerLost(c)
    PROVE  ListInv'
<1>1. call[c] \in CallType /\ call[c].st \in {"sent", "ok"} /\ creating' = creating
  BY DEF ListInv, List!Handle, List!AnswerLost, List!page
<1>2. List!Closed("done") \in CallType /\ ~Awaited(List!Closed("done"))
  BY ClosedType
<1>3. PICK k \in CallType : /\ call' = [call EXCEPT ![c] = k]
                            /\ Awaited(k) <=> Awaited(call[c])
  <2>1. ASSUME NEW st \in {"ok", "err"}, call' = [call EXCEPT ![c] = List!Answer(c, st)]
        PROVE  \E k \in CallType : /\ call' = [call EXCEPT ![c] = k]
                                   /\ Awaited(k) <=> Awaited(call[c])
    <3>1. CASE call[c].mine = TRUE
      <4>1. List!Answer(c, st) = [call[c] EXCEPT !.st = st]
        BY <3>1 DEF List!Answer
      <4> QED
        BY <1>1, <2>1, <4>1 DEF CallType, Awaited
    <3>2. CASE call[c].mine = FALSE
      <4>1. List!Answer(c, st) = List!Closed("done")
        BY <3>2 DEF List!Answer
      <4> QED
        BY <1>2, <2>1, <3>2, <4>1 DEF Awaited
    <3> QED
      BY <1>1, <3>1, <3>2 DEF CallType
  <2>2. CASE List!Handle(c)
    BY <2>1, <2>2 DEF List!Handle
  <2>3. CASE List!AnswerLost(c)
    <3> DEFINE k == [call[c] EXCEPT !.st = "err"]
    <3>1. call' = [call EXCEPT ![c] = k]
      BY <2>3 DEF List!AnswerLost, ListInv
    <3>2. k \in CallType
      BY <1>1 DEF CallType
    <3>3. Awaited(k) <=> Awaited(call[c])
      <4>1. call[c].st = "ok"
        BY <2>3 DEF List!AnswerLost
      <4>2. k.st = "err" /\ k.op = call[c].op /\ k.mine = call[c].mine
        BY <1>1 DEF CallType
      <4> QED
        BY <4>1, <4>2 DEF Awaited
    <3> HIDE DEF k
    <3> QED
      BY <3>1, <3>2, <3>3
  <2> QED
    BY <2>2, <2>3
<1>4. call' \in [Call -> CallType]
  BY <1>3 DEF ListInv
<1>5. \A d \in Call : Awaited(call'[d]) <=> Awaited(call[d])
  BY <1>3 DEF ListInv
<1> QED
  BY <1>1, <1>4, <1>5, Kept

LEMMA ListInvInit == ASSUME Listed # {}, List!Init PROVE ListInv
<1>1. call \in [Call -> CallType] /\ \A c \in Call : ~Awaited(call[c])
  BY ClosedType DEF List!Init
<1> QED
  BY <1>1, MyCreatesIs DEF List!Init, ListInv, List!OneCreate

LEMMA ListInvNext ==
    ASSUME Listed # {}, ListInv, form \in Listed \cup {NoInst},
           deleteTarget \in Listed \cup {NoInst}, [List!Next]_(List!vars)
    PROVE  ListInv'
<1>1. CASE UNCHANGED <<call, creating>>
  BY <1>1 DEF ListInv, List!OneCreate, List!MyCreates, List!Mine, List!Answered
<1>2. ASSUME NEW l \in Load, List!ListRead(l) \/ List!ListDone(l) \/ List!ListFailed(l)
      PROVE  ListInv'
  BY <1>1, <1>2 DEF List!ListRead, List!ListDone, List!ListFailed, List!page, List!dialogs
<1>3. ASSUME NEW c \in Call, List!Handle(c) \/ List!AnswerLost(c) PROVE ListInv'
  BY <1>3, AnswerStep
<1>4. ASSUME NEW c \in Call, List!Respond(c) PROVE ListInv'
  <2>1. CASE List!CreateDone(c) \/ List!CreateFailed(c)
    BY <2>1, CreateEnds
  <2>2. CASE List!RowActionDone(c) \/ List!DeleteDone(c)
    BY <2>2, CloseStep DEF List!RowActionDone, List!DeleteDone, List!Mine, List!dialogs
  <2> QED
    BY <1>4, <2>1, <2>2 DEF List!Respond
<1>5. ASSUME NEW i \in Listed, List!RowAction(i) PROVE ListInv'
  <2>1. creating' = creating /\ (List!Send("stop", i) \/ List!Send("start", i))
    BY <1>5 DEF List!RowAction, List!page
  <2> QED
    BY <2>1, SendStep
<1>6. ASSUME NEW i \in Listed,
             List!AskDelete(i) \/ List!Edit(i) \/ List!Settle(i) \/ List!Disturb(i)
      PROVE  ListInv'
  BY <1>1, <1>6 DEF List!AskDelete, List!Edit, List!Settle, List!Disturb, List!page
<1>7. CASE List!confirmDelete
  <2>1. creating' = creating /\ List!Send("delete", deleteTarget) /\ deleteTarget \in Listed
    BY <1>7 DEF List!confirmDelete
  <2> QED
    BY <2>1, SendStep
<1>8. CASE List!handleCreate
  BY <1>8, CreateStep
<1>9. CASE \/ List!CancelDelete \/ List!ToggleModal \/ List!Tick
           \/ List!ReloadTimeout \/ List!Refresh \/ List!Enter
  BY <1>1, <1>9 DEF List!CancelDelete, List!ToggleModal, List!Tick,
              List!ReloadTimeout, List!Refresh, List!Enter, List!dialogs
<1>10. CASE List!Leave
  BY <1>10, LeaveStep
<1>11. CASE UNCHANGED List!vars
  BY <1>1, <1>11 DEF List!vars
<1> QED
  BY <1>2, <1>3, <1>4, <1>5, <1>6, <1>7, <1>8, <1>9, <1>10, <1>11 DEF List!Next

\* a list request whose answer is a table
LoadType == [st : {"idle", "sent", "read"}, rows : List!Table]

LEMMA ListLoad ==
    ASSUME list \in [Load -> LoadType], List!load
    PROVE  loading' = TRUE /\ list' \in [Load -> LoadType]
<1> DEFINE free == CHOOSE l \in Load : list[l].st = "idle"
<1>1. loading' = TRUE /\ list' = [list EXCEPT ![free].st = "sent"]
  BY DEF List!load
<1>2. free \in Load
  BY DEF List!load
<1> HIDE DEF free
<1> QED
  BY <1>1, <1>2 DEF LoadType

LEMMA ListIdle == List!Empty \in List!Table /\ List!Idle \in LoadType
BY DEF List!Empty, List!Table, List!Idle, LoadType

\* the values of every variable the create dialog does not need
ListRest ==
    /\ rows \in List!Table /\ shown \in List!Table
    /\ mounted \in BOOLEAN /\ loading \in BOOLEAN /\ error \in BOOLEAN
    /\ showModal \in BOOLEAN
    /\ form \in Listed \cup {NoInst} /\ deleteTarget \in Listed \cup {NoInst}
    /\ timeouts \in Nat
    /\ list \in [Load -> LoadType]
    /\ faults \in 0..MaxFault

LEMMA ListRestNext ==
    ASSUME List!PageAssumption, ListRest, call \in [Call -> CallType],
           [List!Next]_(List!vars)
    PROVE  ListRest'
<1> USE DEF ListRest
<1>1. CASE UNCHANGED <<List!server, List!page, list>>
  BY <1>1 DEF List!server, List!page
<1>2. ASSUME NEW l \in Load, List!ListRead(l) \/ List!ListDone(l) PROVE ListRest'
  <2>1. CASE List!ListRead(l)
    <3>1. [st |-> "read", rows |-> rows] \in LoadType
      BY DEF LoadType
    <3> QED
      BY <2>1, <3>1 DEF List!ListRead, List!server, List!page
  <2>2. CASE List!ListDone(l)
    <3>1. list[l].rows \in List!Table
      BY DEF LoadType
    <3> QED
      BY <2>2, <3>1, ListIdle DEF List!ListDone, List!Finally, List!server, List!dialogs
  <2> QED
    BY <1>2, <2>1, <2>2
<1>3. ASSUME NEW l \in Load, List!ListFailed(l) PROVE ListRest'
  <2>1. faults' \in 0..MaxFault
    BY <1>3, SMT DEF List!ListFailed, List!PageAssumption
  <2> QED
    BY <1>3, <2>1, ListIdle DEF List!ListFailed, List!Finally, List!dialogs
<1>4. ASSUME NEW c \in Call, List!Handle(c) PROVE ListRest'
  <2>1. call[c].inst \in Listed /\ call[c].op \in {"start", "stop", "delete", "create"}
    BY DEF CallType
  <2>2. List!After(call[c].op) \in List!Status
    BY <2>1, SMT DEF List!After, List!Status, List!TRANSITION_STATES
  <2>3. rows' \in List!Table
    BY <1>4, <2>1, <2>2 DEF List!Handle, List!Table
  <2> QED
    BY <1>4, <2>3 DEF List!Handle, List!page
<1>5. ASSUME NEW c \in Call, List!AnswerLost(c) PROVE ListRest'
  <2>1. faults' \in 0..MaxFault
    BY <1>5, SMT DEF List!AnswerLost, List!PageAssumption
  <2> QED
    BY <1>5, <2>1 DEF List!AnswerLost, List!page
<1>6. ASSUME NEW c \in Call, List!Respond(c) PROVE ListRest'
  <2>1. CASE List!RowActionDone(c) \/ List!CreateDone(c)
    BY <2>1, ListLoad DEF List!RowActionDone, List!CreateDone, List!server, List!dialogs
  <2>2. CASE List!DeleteDone(c)
    BY <2>2, SMT DEF List!DeleteDone, List!server, List!dialogs
  <2>3. CASE List!CreateFailed(c)
    BY <2>3 DEF List!CreateFailed, List!server
  <2> QED
    BY <1>6, <2>1, <2>2, <2>3 DEF List!Respond
<1>7. ASSUME NEW i \in Listed, List!RowAction(i) \/ List!AskDelete(i) \/ List!Edit(i)
      PROVE  ListRest'
  BY <1>1, <1>7 DEF List!RowAction, List!AskDelete, List!Edit, List!server, List!page
<1>8. ASSUME NEW i \in Listed, List!Settle(i) PROVE ListRest'
  <2>1. rows' \in List!Table
    BY <1>8 DEF List!Settle, List!Table, List!Status, List!Settled
  <2> QED
    BY <1>8, <2>1 DEF List!Settle, List!page
<1>9. ASSUME NEW i \in Listed, List!Disturb(i) PROVE ListRest'
  <2>1. faults' \in 0..MaxFault
    BY <1>9, SMT DEF List!Disturb, List!PageAssumption
  <2>2. rows' \in List!Table
    BY <1>9 DEF List!Disturb, List!Table
  <2> QED
    BY <1>9, <2>1, <2>2 DEF List!Disturb, List!page
<1>10. CASE List!confirmDelete
  <2>1. shown' \in List!Table
    BY <1>10 DEF List!confirmDelete, List!Table, List!Status, List!TRANSITION_STATES
  <2> QED
    BY <1>10, <2>1 DEF List!confirmDelete, List!server
<1>11. CASE List!ReloadTimeout
  <2>1. timeouts' \in Nat
    BY <1>11, SMT DEF List!ReloadTimeout
  <2> QED
    BY <1>11, <2>1, ListLoad DEF List!ReloadTimeout, List!server, List!dialogs
<1>12. CASE List!Tick \/ List!Refresh \/ List!Enter
  BY <1>12, ListLoad DEF List!Tick, List!Effect, List!Refresh, List!Enter, List!server,
     List!dialogs
<1>13. CASE List!CancelDelete \/ List!ToggleModal \/ List!handleCreate
  BY <1>13 DEF List!CancelDelete, List!ToggleModal, List!handleCreate, List!server
<1>14. CASE List!Leave
  BY <1>14, ListIdle DEF List!Leave, List!server
<1>15. CASE UNCHANGED List!vars
  BY <1>1, <1>15 DEF List!vars, List!server, List!page
<1> QED
  BY <1>2, <1>3, <1>4, <1>5, <1>6, <1>7, <1>8, <1>9, <1>10, <1>11, <1>12, <1>13, <1>14, <1>15
     DEF List!Next

LEMMA ListStep ==
    ASSUME BoundsAssumption, ListInv, ListRest, [List!Next]_(List!vars)
    PROVE  ListInv' /\ ListRest'
BY ListInvNext, ListRestNext DEF BoundsAssumption, ListInv, ListRest

LEMMA ListHolds ==
    ASSUME ListInv, ListRest
    PROVE  List!TypeOK /\ List!OneCreate
BY DEF ListInv, ListRest, List!TypeOK, CallType, LoadType

LEMMA ListStarts == ASSUME BoundsAssumption, List!Init PROVE ListInv /\ ListRest
<1>1. ListInv
  BY ListInvInit DEF BoundsAssumption
<1>2. rows \in List!Table
  BY DEF List!Init, List!Table, List!Status, List!TRANSITION_STATES, List!Settled
<1>3. faults \in 0..MaxFault
  BY SMT DEF List!Init, BoundsAssumption, List!PageAssumption
<1> QED
  BY <1>1, <1>2, <1>3, ListIdle DEF List!Init, ListRest

----------------------------------------------------------------------------
(* InstanceDetailPage: both properties rest on the cleanups of the two     *)
(* effects: what runs for an instance and a tab is stopped in the commit   *)
(* that leaves either.                                                     *)

RouteTypes ==
    /\ id \in Inst \cup {NoInst}
    /\ sockets \in [Inst -> Nat]
    /\ fetch \in [Fetch -> Inst \cup {NoInst}]

\* metrics requests that still count are those of the route
FetchOfRoute ==
    \A f \in Fetch : fetch[f] # NoInst => fetch[f] = id /\ tab = "metrics"

PageInv == RouteTypes /\ Page!SocketOfRoute /\ FetchOfRoute

LEMMA NoneOpen ==
    ASSUME PageInv, NEW i \in Inst, i # id \/ tab # "console"
    PROVE  sockets[i] = 0
BY SMT DEF PageInv, RouteTypes, Page!SocketOfRoute

\* the cleanup of the console effect leaves no socket open
LEMMA AllClosed ==
    ASSUME Page!DetailAssumption, PageInv
    PROVE  Page!CloseSocket = [i \in Inst |-> 0]
<1>1. CASE id = NoInst \/ tab # "console"
  <2>1. \A i \in Inst : sockets[i] = 0
    BY <1>1, NoneOpen DEF Page!DetailAssumption
  <2>2. sockets = [i \in Inst |-> 0]
    BY <2>1 DEF PageInv, RouteTypes
  <2> QED
    BY <1>1, <2>2 DEF Page!CloseSocket
<1>2. CASE id # NoInst /\ tab = "console"
  <2>1. id \in Inst
    BY <1>2 DEF PageInv, RouteTypes
  <2>2. \A i \in Inst \ {id} : sockets[i] = 0
    BY NoneOpen
  <2>3. sockets[id] \in {0, 1}
    BY <1>2, <2>1, SMT DEF PageInv, RouteTypes, Page!SocketOfRoute
  <2>4. Page!CloseSocket = [sockets EXCEPT ![id] = IF @ = 0 THEN 0 ELSE @ - 1]
    BY <1>2 DEF Page!CloseSocket
  <2>5. Page!CloseSocket = [sockets EXCEPT ![id] = 0]
    <3>1. (IF sockets[id] = 0 THEN 0 ELSE sockets[id] - 1) = 0
      BY <2>3, SMT
    <3> QED
      BY <2>4, <3>1
  <2> QED
    BY <2>1, <2>2, <2>5 DEF PageInv, RouteTypes
<1> QED
  BY <1>1, <1>2

LEMMA SocketStep ==
    ASSUME Page!DetailAssumption, PageInv, NEW t, NEW i \in Inst, NEW screen,
           Page!ConsoleEffect(t, i, screen), id' = i, tab' = t
    PROVE  sockets' \in [Inst -> Nat] /\ Page!SocketOfRoute'
<1>1. sockets' = IF t = "console" /\ screen = "page"
                 THEN [Page!CloseSocket EXCEPT ![i] = @ + 1] ELSE Page!CloseSocket
  BY DEF Page!ConsoleEffect
<1>2. Page!CloseSocket = [j \in Inst |-> 0]
  BY AllClosed
<1> HIDE DEF Page!CloseSocket
<1>3. CASE t = "console" /\ screen = "page"
  <2>1. sockets' = [j \in Inst |-> IF j = i THEN 1 ELSE 0]
    BY <1>1, <1>2, <1>3, SMT
  <2> QED
    BY <2>1, <1>3, SMT DEF Page!SocketOfRoute
<1>4. CASE ~(t = "console" /\ screen = "page")
  <2>1. sockets' = [j \in Inst |-> 0]
    BY <1>1, <1>2, <1>4
  <2> QED
    BY <2>1, SMT DEF Page!SocketOfRoute
<1> QED
  BY <1>3, <1>4

LEMMA FetchStep ==
    ASSUME Page!DetailAssumption, NEW t, NEW i \in Inst, Page!MetricsEffect(t, i),
           id' = i, tab' = t
    PROVE  fetch' \in [Fetch -> Inst \cup {NoInst}] /\ FetchOfRoute'
BY DEF Page!MetricsEffect, Page!fetchMetrics, Page!Cancelled, FetchOfRoute

LEMMA PageInvInit == ASSUME Page!DetailAssumption, Page!Init PROVE PageInv
BY SMT DEF Page!DetailAssumption, Page!Init, Page!Fresh, PageInv, RouteTypes,
           Page!SocketOfRoute, FetchOfRoute

LEMMA PageInvNext == ASSUME Page!DetailAssumption, PageInv, [Page!Next]_(Page!vars) PROVE PageInv'
<1>1. CASE UNCHANGED <<id, tab, sockets, fetch>>
  BY <1>1 DEF PageInv, RouteTypes, Page!SocketOfRoute, FetchOfRoute
<1>2. ASSUME NEW l \in Load, Page!ListRead(l) \/ Page!ListDone(l) \/ Page!ListFailed(l)
      PROVE  PageInv'
  BY <1>1, <1>2 DEF Page!ListRead, Page!ListDone, Page!ListFailed, Page!view, Page!pane
<1>3. ASSUME NEW f \in Fetch, Page!FetchDone(f) \/ Page!FetchFailed(f) PROVE PageInv'
  <2>1. UNCHANGED <<id, tab, sockets>> /\ fetch' = [fetch EXCEPT ![f] = NoInst]
    BY <1>3 DEF Page!FetchDone, Page!FetchFailed, Page!view
  <2> QED
    BY <2>1 DEF PageInv, RouteTypes, Page!SocketOfRoute, FetchOfRoute
<1>4. ASSUME NEW i \in Inst, Page!Enter(i) PROVE PageInv'
  <2>1. id = NoInst /\ id' = i /\ tab' = "overview" /\ UNCHANGED <<sockets, fetch>>
    BY <1>4 DEF Page!Enter, Page!Mount
  <2>2. \A j \in Inst : sockets[j] = 0
    BY <2>1, NoneOpen DEF Page!DetailAssumption
  <2>3. \A f \in Fetch : fetch[f] = NoInst
    BY <2>1 DEF PageInv, FetchOfRoute
  <2>4. Page!SocketOfRoute'
    BY <2>1, <2>2, SMT DEF Page!SocketOfRoute
  <2> QED
    BY <2>1, <2>3, <2>4 DEF PageInv, RouteTypes, FetchOfRoute
<1>5. ASSUME NEW i \in Inst, Page!Navigate(i) PROVE PageInv'
  <2>1. /\ id' = i /\ tab' = tab /\ Page!MetricsEffect(tab, i)
        /\ Page!ConsoleEffect(tab, i, Page!Screen)
    BY <1>5 DEF Page!Navigate
  <2> QED
    BY <2>1, FetchStep, SocketStep DEF PageInv, RouteTypes
<1>6. ASSUME NEW i \in Inst, Page!SocketClosed(i) PROVE PageInv'
  <2>1. /\ sockets[i] > 0 /\ sockets' = [sockets EXCEPT ![i] = @ - 1]
        /\ UNCHANGED <<id, tab, fetch>>
    BY <1>6 DEF Page!SocketClosed, Page!view
  <2>2. sockets \in [Inst -> Nat] /\ sockets[i] \in Nat
    BY DEF PageInv, RouteTypes
  <2>3. sockets' \in [Inst -> Nat] /\ \A j \in Inst : sockets'[j] <= sockets[j]
    BY <2>1, <2>2, SMT
  <2>4. Page!SocketOfRoute'
    BY <2>1, <2>2, <2>3, SMT DEF PageInv, Page!SocketOfRoute
  <2> QED
    BY <2>1, <2>3, <2>4 DEF PageInv, RouteTypes, FetchOfRoute
<1>7. ASSUME NEW i \in Inst, Page!Report(i) PROVE PageInv'
  BY <1>1, <1>7 DEF Page!Report, Page!view, Page!pane
<1>8. ASSUME NEW t \in Page!Tab, Page!setTab(t) PROVE PageInv'
  <2>1. /\ id' = id /\ id # NoInst /\ tab' = t
        /\ Page!MetricsEffect(t, id) /\ Page!ConsoleEffect(t, id, "page")
    BY <1>8 DEF Page!setTab, Page!Screen
  <2>2. id \in Inst
    BY <2>1 DEF PageInv, RouteTypes
  <2> QED
    BY <2>1, <2>2, FetchStep, SocketStep DEF PageInv, RouteTypes
<1>9. CASE Page!FetchTick
  <2>1. /\ id # NoInst /\ tab = "metrics" /\ UNCHANGED <<id, tab, sockets>>
        /\ \E f \in Fetch : fetch' = [fetch EXCEPT ![f] = id]
    BY <1>9 DEF Page!FetchTick, Page!MetricsInterval, Page!fetchMetrics, Page!view
  <2> QED
    BY <2>1 DEF PageInv, RouteTypes, Page!SocketOfRoute, FetchOfRoute
<1>10. CASE Page!Leave
  <2>1. /\ id' = NoInst /\ sockets' = Page!CloseSocket /\ fetch' = [f \in Fetch |-> NoInst]
    BY <1>10 DEF Page!Leave, Page!Mount, Page!Cancelled
  <2>2. sockets' = [i \in Inst |-> 0]
    BY <2>1, AllClosed
  <2>3. sockets' \in [Inst -> Nat] /\ Page!SocketOfRoute'
    BY <2>2, SMT DEF Page!SocketOfRoute
  <2> QED
    BY <2>1, <2>3 DEF PageInv, RouteTypes, FetchOfRoute
<1>11. CASE \/ Page!Tick \/ Page!Refresh \/ Page!ClickPower
            \/ Page!HandlePower \/ Page!PowerDone \/ Page!PowerFailed
  BY <1>1, <1>11 DEF Page!Tick, Page!Refresh, Page!ClickPower, Page!HandlePower,
              Page!PowerDone, Page!PowerFailed, Page!view, Page!pane
<1>12. CASE UNCHANGED Page!vars
  BY <1>1, <1>12 DEF Page!vars
<1> QED
  BY <1>2, <1>3, <1>4, <1>5, <1>6, <1>7, <1>8, <1>9, <1>10, <1>11, <1>12 DEF Page!Next

\* only an answer to a metrics request, or leaving the page, changes the metrics
LEMMA MetricsOfInv ==
    ASSUME Page!DetailAssumption, PageInv, [Page!Next]_(Page!vars)
    PROVE  Page!MetricsOfRouteStep
<1>1. SUFFICES ASSUME metrics' # metrics, metrics' # NoInst
               PROVE  metrics' = id' /\ tab' = "metrics"
  BY DEF Page!MetricsOfRouteStep
<1>2. PICK f \in Fetch : Page!FetchDone(f)
  BY <1>1 DEF Page!Next, Page!vars, Page!view, Page!pane, Page!ListRead, Page!ListDone,
     Page!ListFailed, Page!FetchFailed, Page!Enter, Page!Mount, Page!Navigate,
     Page!SocketClosed, Page!Report, Page!setTab, Page!Tick, Page!Refresh, Page!FetchTick,
     Page!Leave, Page!ClickPower, Page!HandlePower, Page!PowerDone, Page!PowerFailed
<1>3. fetch[f] # NoInst /\ metrics' = fetch[f] /\ UNCHANGED <<id, tab>>
  BY <1>2 DEF Page!FetchDone, Page!view
<1> QED
  BY <1>3 DEF PageInv, FetchOfRoute

PageLoad == [st : {"idle", "sent", "read"}, id : Inst \cup {NoInst}, found : Page!Row]
PowerType == [st : {"idle", "sent", "ok", "err"}, of : Inst \cup {NoInst},
              op : {"start", "stop"}, id : Inst \cup {NoInst}]

\* the values of every variable the sockets and the metrics requests do not need
PageRest ==
    /\ rows \in [Inst -> Page!Status]
    /\ instance \in Page!Row
    /\ tab \in Page!Tab
    /\ loading \in BOOLEAN /\ metricsLoading \in BOOLEAN /\ metricsError \in BOOLEAN
    /\ metrics \in Inst \cup {NoInst}
    /\ list \in [Load -> PageLoad]
    /\ power \in PowerType
    /\ clicks \in 0..MaxClick /\ faults \in 0..MaxFault

\* a list request that was sent looks for an instance
Asked == \A l \in Load : list[l].st # "idle" => list[l].id \in Inst

LEMMA PageFresh ==
    /\ Page!NoRow \in Page!Row
    /\ Page!IdleLoad \in PageLoad /\ Page!IdleLoad.st = "idle"
    /\ Page!NoPower \in PowerType /\ Page!NoPower.st = "idle"
BY DEF Page!NoRow, Page!Row, Page!IdleLoad, PageLoad, Page!NoPower, PowerType, Page!Status

LEMMA PageLoads ==
    ASSUME list \in [Load -> PageLoad], Asked, NEW i \in Inst, Page!load(i)
    PROVE  list' \in [Load -> PageLoad] /\ Asked'
<1> DEFINE k == [Page!IdleLoad EXCEPT !.st = "sent", !.id = i]
<1>1. k \in PageLoad /\ k.id = i
  BY PageFresh DEF Page!IdleLoad, PageLoad
<1>2. list' = [list EXCEPT ![Page!FreeLoad] = k]
  BY DEF Page!load
<1>3. Page!FreeLoad \in Load
  BY DEF Page!load, Page!FreeLoad
<1> HIDE DEF k
<1> QED
  BY <1>1, <1>2, <1>3 DEF Asked

LEMMA PageUnloads ==
    ASSUME list \in [Load -> PageLoad], Asked, NEW l \in Load,
           list' = [list EXCEPT ![l] = Page!IdleLoad]
    PROVE  list' \in [Load -> PageLoad] /\ Asked'
BY PageFresh DEF Asked

\* the row a query finds, for the instance the callback looks for
LEMMA PageReads ==
    ASSUME rows \in [Inst -> Page!Status], list \in [Load -> PageLoad], Asked,
           NEW l \in Load, Page!ListRead(l)
    PROVE  list' \in [Load -> PageLoad] /\ Asked'
<1> DEFINE i == list[l].id
           found == IF rows[i] = "none" THEN Page!NoRow ELSE [of |-> i, status |-> rows[i]]
           k1 == [list[l] EXCEPT !.st = "read"]
           k == [k1 EXCEPT !.found = found]
<1>1. list[l] \in PageLoad /\ i \in Inst
  BY DEF Asked, Page!ListRead
<1>2. found \in Page!Row
  BY <1>1, PageFresh DEF Page!Row
<1>3. list' = [list EXCEPT ![l] = k]
  BY <1>1 DEF Page!ListRead
<1> HIDE DEF found
<1>4. k1 \in PageLoad /\ k1.id = i
  BY <1>1 DEF PageLoad
<1> HIDE DEF k1
<1>5. k \in PageLoad /\ k.id = i
  BY <1>2, <1>4 DEF PageLoad
<1> HIDE DEF k
<1> QED
  BY <1>1, <1>3, <1>5 DEF Asked

LEMMA PageRestNext ==
    ASSUME Page!DetailAssumption, PageRest, Asked, PageInv, [Page!Next]_(Page!vars)
    PROVE  PageRest' /\ Asked'
<1> USE DEF PageRest
<1>1. id \in Inst \cup {NoInst} /\ fetch \in [Fetch -> Inst \cup {NoInst}]
  BY DEF PageInv, RouteTypes
<1>2. CASE UNCHANGED Page!vars
  BY <1>2 DEF Page!vars, Asked
<1>3. ASSUME NEW l \in Load, Page!ListRead(l) PROVE PageRest' /\ Asked'
  BY <1>3, PageReads DEF Page!ListRead, Page!view, Page!pane
<1>4. ASSUME NEW l \in Load, Page!ListDone(l) PROVE PageRest' /\ Asked'
  <2>1. list[l].found \in Page!Row
    BY DEF PageLoad
  <2> QED
    BY <1>4, <2>1, PageUnloads DEF Page!ListDone, Page!pane
<1>5. ASSUME NEW l \in Load, Page!ListFailed(l) PROVE PageRest' /\ Asked'
  <2>1. faults' \in 0..MaxFault
    BY <1>5, SMT DEF Page!ListFailed, Page!DetailAssumption
  <2> QED
    BY <1>5, <2>1, PageUnloads DEF Page!ListFailed, Page!view, Page!pane
<1>6. ASSUME NEW f \in Fetch, Page!FetchDone(f) PROVE PageRest' /\ Asked'
  BY <1>1, <1>6 DEF Page!FetchDone, Page!view, Asked
<1>7. ASSUME NEW f \in Fetch, Page!FetchFailed(f) PROVE PageRest' /\ Asked'
  BY <1>7 DEF Page!FetchFailed, Page!view, Asked
<1>8. ASSUME NEW i \in Inst, Page!Enter(i) PROVE PageRest' /\ Asked'
  BY <1>8, PageFresh, PageLoads DEF Page!Enter, Page!Mount, Page!Tab
<1>9. ASSUME NEW i \in Inst, Page!Navigate(i) PROVE PageRest' /\ Asked'
  <2>1. metricsLoading' \in BOOLEAN
    BY <1>9 DEF Page!Navigate, Page!MetricsEffect, Page!fetchMetrics
  <2> QED
    BY <1>9, <2>1, PageLoads DEF Page!Navigate
<1>10. ASSUME NEW i \in Inst, Page!SocketClosed(i) PROVE PageRest' /\ Asked'
  BY <1>10 DEF Page!SocketClosed, Page!view, Asked
<1>11. ASSUME NEW i \in Inst, Page!Report(i) PROVE PageRest' /\ Asked'
  <2>1. rows' \in [Inst -> Page!Status]
    BY <1>11 DEF Page!Report, Page!Status
  <2> QED
    BY <1>11, <2>1 DEF Page!Report, Page!view, Page!pane, Asked
<1>12. ASSUME NEW t \in Page!Tab, Page!setTab(t) PROVE PageRest' /\ Asked'
  <2>1. metricsLoading' \in BOOLEAN
    BY <1>12 DEF Page!setTab, Page!MetricsEffect, Page!fetchMetrics
  <2> QED
    BY <1>12, <2>1 DEF Page!setTab, Asked
<1>13. CASE Page!Tick \/ Page!Refresh
  <2>1. /\ id \in Inst /\ Page!load(id)
        /\ UNCHANGED <<rows, Page!view, Page!pane, power, clicks, faults>>
    BY <1>1, <1>13 DEF Page!Tick, Page!Interval, Page!Refresh, Page!Screen
  <2> QED
    BY <2>1, PageLoads DEF Page!view, Page!pane
<1>14. CASE Page!FetchTick
  BY <1>14 DEF Page!FetchTick, Page!fetchMetrics, Page!view, Asked
<1>15. CASE Page!Leave
  BY <1>15, PageFresh DEF Page!Leave, Page!Mount, Page!Tab, PowerType, Asked
<1>16. CASE Page!ClickPower
  <2>1. clicks' \in 0..MaxClick
    BY <1>16, SMT DEF Page!ClickPower, Page!DetailAssumption
  <2>2. power' \in PowerType
    BY <1>1, <1>16 DEF Page!ClickPower, PowerType, Page!Row
  <2> QED
    BY <1>16, <2>1, <2>2 DEF Page!ClickPower, Page!view, Page!pane, Asked
<1>17. CASE Page!HandlePower
  <2>1. rows' \in [Inst -> Page!Status]
    BY <1>17 DEF Page!HandlePower, Page!Status
  <2>2. power' \in PowerType
    BY <1>17 DEF Page!HandlePower, PowerType
  <2> QED
    BY <1>17, <2>1, <2>2 DEF Page!HandlePower, Page!view, Page!pane, Asked
<1>18. CASE Page!PowerDone
  <2>1. CASE power.id = NoInst
    BY <1>18, <2>1, PageFresh DEF Page!PowerDone, Page!view, Page!pane, Asked
  <2>2. CASE power.id # NoInst
    <3>1. power.id \in Inst
      BY <2>2 DEF PowerType
    <3> QED
      BY <1>18, <2>2, <3>1, PageFresh, PageLoads DEF Page!PowerDone, Page!view, Page!pane
  <2> QED
    BY <2>1, <2>2
<1>19. CASE Page!PowerFailed
  BY <1>19, PageFresh DEF Page!PowerFailed, Page!view, Page!pane, Asked
<1> QED
  BY <1>2, <1>3, <1>4, <1>5, <1>6, <1>7, <1>8, <1>9, <1>10, <1>11, <1>12, <1>13, <1>14,
     <1>15, <1>16, <1>17, <1>18, <1>19 DEF Page!Next

LEMMA PageStep ==
    ASSUME BoundsAssumption, PageInv, PageRest, Asked, [Page!Next]_(Page!vars)
    PROVE  PageInv' /\ PageRest' /\ Asked'
BY PageInvNext, PageRestNext DEF BoundsAssumption

LEMMA PageHolds ==
    ASSUME PageInv, PageRest
    PROVE  Page!TypeOK /\ Page!SocketOfRoute
BY DEF PageInv, RouteTypes, PageRest, Page!TypeOK, PageLoad, PowerType

LEMMA PageStarts == ASSUME BoundsAssumption, Page!Init PROVE PageInv /\ PageRest /\ Asked
<1>1. PageInv
  BY PageInvInit DEF BoundsAssumption
<1>2. rows \in [Inst -> Page!Status]
  BY DEF Page!Init, Page!Status
<1>3. clicks \in 0..MaxClick /\ faults \in 0..MaxFault
  BY SMT DEF Page!Init, BoundsAssumption, Page!DetailAssumption
<1> QED
  BY <1>1, <1>2, <1>3, PageFresh DEF Page!Init, Page!Fresh, Page!Tab, PageRest, Asked

----------------------------------------------------------------------------
(* ConsoleProxy: its type invariant is inductive, for a goroutine takes    *)
(* from a queue that has something, writes where there is room, and finds  *)
(* its place in the channel, which has one for each of the two.            *)

\* a step that changes one direction of a link keeps the others
LEMMA QueueStep ==
    ASSUME Console!RoomAssumption, Console!TypeOK, NEW l \in Console!Link,
           NEW w \in Console!Way, NEW n \in 0..Room,
           queue' = [queue EXCEPT ![l][w] = n]
    PROVE  queue' \in [Console!Link -> [Console!Way -> 0..Room]]
<1>1. queue' = [queue EXCEPT ![l] = [queue[l] EXCEPT ![w] = n]]
  BY DEF Console!TypeOK
<1> QED
  BY <1>1 DEF Console!TypeOK

LEMMA ConsoleStarts == ASSUME BoundsAssumption, Console!Init PROVE Console!TypeOK
<1>1. 0 \in 0..Room
  BY SMT DEF BoundsAssumption, Console!RoomAssumption
<1> QED
  BY <1>1 DEF Console!Init, Console!TypeOK

LEMMA ConsoleEnds ==
    /\ "browser" \in Console!Link /\ "agent" \in Console!Link /\ "pty" \in Console!Link
    /\ \A h \in Console!Handler :
        Console!Inner(h) \in Console!Link /\ Console!Outer(h) \in Console!Link
    /\ \A c \in Console!Copier :
        /\ c[1] \in Console!Handler /\ c[2] \in Console!Way
        /\ Console!From(c) \in Console!Link /\ Console!To(c) \in Console!Link
BY DEF Console!Link, Console!Handler, Console!Copier, Console!Way, Console!Inner, Console!Outer,
       Console!From, Console!To

LEMMA ConsoleStep ==
    ASSUME BoundsAssumption, Console!TypeOK, [Console!Next]_(Console!vars)
    PROVE  Console!TypeOK'
<1> USE DEF Console!TypeOK
<1>0. /\ Room \in Nat \ {0} /\ Console!RoomAssumption /\ 0 \in 0..Room
      /\ Console!Empty \in [Console!Way -> 0..Room]
  BY SMT DEF BoundsAssumption, Console!RoomAssumption, Console!Empty
<1>1. CASE Console!Request
  BY <1>1 DEF Console!Request
<1>2. CASE Console!Dial
  BY <1>2 DEF Console!Dial, Console!Started
<1>3. CASE Console!DialFails \/ Console!UpgradeFails
  BY <1>3 DEF Console!DialFails, Console!UpgradeFails
<1>4. CASE Console!Upgrade
  BY <1>4 DEF Console!Upgrade, Console!Started
<1>5. ASSUME NEW c \in Console!Copier, Console!Read(c) PROVE Console!TypeOK'
  <2> DEFINE n == queue[Console!From(c)][c[2]]
  <2>1. n \in 0..Room /\ n > 0
    BY <1>5, ConsoleEnds DEF Console!Read
  <2>2. n - 1 \in 0..Room
    BY <1>0, <2>1, SMT
  <2>3. queue' \in [Console!Link -> [Console!Way -> 0..Room]]
    BY <1>0, <1>5, <2>2, ConsoleEnds, QueueStep DEF Console!Read
  <2> QED
    BY <1>5, <2>3 DEF Console!Read
<1>6. ASSUME NEW c \in Console!Copier, Console!Write(c) PROVE Console!TypeOK'
  <2> DEFINE n == queue[Console!To(c)][c[2]]
  <2>1. n \in 0..Room /\ n < Room
    BY <1>6, ConsoleEnds DEF Console!Write, Console!HasRoom
  <2>2. n + 1 \in 0..Room
    BY <1>0, <2>1, SMT
  <2>3. queue' \in [Console!Link -> [Console!Way -> 0..Room]]
    BY <1>0, <1>6, <2>2, ConsoleEnds, QueueStep DEF Console!Write
  <2> QED
    BY <1>6, <2>3 DEF Console!Write
<1>7. ASSUME NEW c \in Console!Copier, Console!Fail(c) PROVE Console!TypeOK'
  BY <1>7 DEF Console!Fail
<1>8. ASSUME NEW c \in Console!Copier, Console!Report(c) PROVE Console!TypeOK'
  <2>1. errc[c[1]] \in 0..2 /\ errc[c[1]] < 2
    BY <1>8, ConsoleEnds DEF Console!Report, Console!ErrcFree
  <2>2. errc[c[1]] + 1 \in 0..2
    BY <2>1, SMT
  <2>3. errc' \in [Console!Handler -> 0..2]
    BY <1>8, <2>2, ConsoleEnds DEF Console!Report
  <2> QED
    BY <1>8, <2>3 DEF Console!Report
<1>9. ASSUME NEW h \in Console!Handler, Console!Wake(h) PROVE Console!TypeOK'
  <2>1. errc[h] \in 0..2 /\ errc[h] > 0
    BY <1>9 DEF Console!Wake, Console!Enough
  <2>2. errc[h] - 1 \in 0..2
    BY <2>1, SMT
  <2>3. errc' \in [Console!Handler -> 0..2]
    BY <1>9, <2>2 DEF Console!Wake
  <2> QED
    BY <1>9, <2>3 DEF Console!Wake
<1>10. ASSUME NEW h \in Console!Handler, Console!Close(h) PROVE Console!TypeOK'
  <2>1. PICK l \in Console!Link, st \in {"close2", "done"} :
          /\ main' = [main EXCEPT ![h] = st] /\ link' = [link EXCEPT ![l] = "closed"]
          /\ queue' = [queue EXCEPT ![l] = Console!Empty] /\ UNCHANGED <<copier, errc>>
    <3>1. Console!Inner(h) \in Console!Link /\ Console!Outer(h) \in Console!Link
      BY ConsoleEnds
    <3> QED
      BY <1>10, <3>1 DEF Console!Close
  <2> QED
    BY <1>0, <2>1
<1>11. ASSUME NEW l \in Console!Link, Console!Break(l) PROVE Console!TypeOK'
  BY <1>0, <1>11 DEF Console!Break
<1>12. ASSUME NEW l \in Console!Link, NEW w \in Console!Way, Console!Produce(l, w)
       PROVE  Console!TypeOK'
  <2>1. queue[l][w] \in 0..Room /\ queue[l][w] < Room
    BY <1>12 DEF Console!Produce
  <2>2. queue[l][w] + 1 \in 0..Room
    BY <1>0, <2>1, SMT
  <2>3. queue' \in [Console!Link -> [Console!Way -> 0..Room]]
    BY <1>0, <1>12, <2>2, QueueStep DEF Console!Produce
  <2> QED
    BY <1>12, <2>3 DEF Console!Produce
<1>13. ASSUME NEW l \in Console!Link, NEW w \in Console!Way, Console!Consume(l, w)
       PROVE  Console!TypeOK'
  <2>1. queue[l][w] \in 0..Room /\ queue[l][w] > 0
    BY <1>13 DEF Console!Consume
  <2>2. queue[l][w] - 1 \in 0..Room
    BY <1>0, <2>1, SMT
  <2>3. queue' \in [Console!Link -> [Console!Way -> 0..Room]]
    BY <1>0, <1>13, <2>2, QueueStep DEF Console!Consume
  <2> QED
    BY <1>13, <2>3 DEF Console!Consume
<1>14. CASE Console!Again
  BY <1>0, <1>14 DEF Console!Again
<1>15. CASE UNCHANGED Console!vars
  BY <1>15 DEF Console!vars
<1> QED
  BY <1>1, <1>2, <1>3, <1>4, <1>5, <1>6, <1>7, <1>8, <1>9, <1>10, <1>11, <1>12, <1>13,
     <1>14, <1>15 DEF Console!Next

----------------------------------------------------------------------------
(* The parts side by side.                                                 *)


Inv ==
    /\ open \in {"list_calls", "list_loads"} => ListInv /\ ListRest
    /\ open \in {"page_clicks", "page_loads"} => PageInv /\ PageRest /\ Asked
    /\ open = "console" => Console!TypeOK

\* every step is one of the part that is open
LEMMA PartSteps ==
    ASSUME [Next]_vars
    PROVE  /\ open' = open
           /\ open \in {"list_calls", "list_loads"} => [List!Next]_(List!vars)
           /\ open \in {"page_clicks", "page_loads"} => [Page!Next]_(Page!vars)
           /\ open = "console" => [Console!Next]_(Console!vars)
<1>1. CASE ListNext
  BY <1>1 DEF ListNext
<1>2. CASE PageNext
  BY <1>2 DEF PageNext
<1>3. CASE ConsoleNext
  BY <1>3 DEF ConsoleNext
<1>4. CASE UNCHANGED vars
  BY <1>4 DEF vars, listVars, pageVars, consoleVars, List!vars, Page!vars, Console!vars
<1> QED
  BY <1>1, <1>2, <1>3, <1>4 DEF Next

LEMMA InvInit == Init => Inv
BY BoundsAssumption, ListStarts, PageStarts, ConsoleStarts DEF Init, Inv

LEMMA InvNext == Inv /\ [Next]_vars => Inv'
<1> SUFFICES ASSUME Inv, [Next]_vars PROVE Inv'
  OBVIOUS
<1>1. (open \in {"list_calls", "list_loads"} => ListInv /\ ListRest)'
  BY PartSteps, BoundsAssumption, ListStep DEF Inv
<1>2. (open \in {"page_clicks", "page_loads"} => PageInv /\ PageRest /\ Asked)'
  BY PartSteps, BoundsAssumption, PageStep DEF Inv
<1>3. (open = "console" => Console!TypeOK)'
  BY PartSteps, BoundsAssumption, ConsoleStep DEF Inv
<1> QED
  BY <1>1, <1>2, <1>3 DEF Inv

(***************************************************************************)
(* Both pages and the console session keep their values in their types: no *)
(* query is made for an instance the page never asked for, no direction of *)
(* a link holds more than it has room for, and no goroutine of a session   *)
(* finds the channel of its handler full.                                  *)
(***************************************************************************)
THEOREM TypeCorrect == Spec => []TypeOK
<1>1. Inv => TypeOK
  BY ListHolds, PageHolds DEF Inv, TypeOK
<1> QED
  BY <1>1, InvInit, InvNext, PTL DEF Spec

(***************************************************************************)
(* A visit has at most one create under way, and the flag that disables    *)
(* the button says so (Instances.tsx, handleCreate and its finally), for   *)
(* any number of instances and requests, whatever else the page sends,     *)
(* whoever leaves it and comes back, and whatever the controller answers.  *)
(***************************************************************************)
THEOREM OneCreateAtMost == Spec => []OneCreate
<1>1. Inv => OneCreate
  BY ListHolds DEF Inv, OneCreate
<1> QED
  BY <1>1, InvInit, InvNext, PTL DEF Spec

(***************************************************************************)
(* Keystrokes reach the instance of the route or nobody: at most one       *)
(* socket is open, only while the console tab is, and it belongs to that   *)
(* instance (InstanceDetail.tsx, the effect on [tab, id]), for any number  *)
(* of instances and whatever navigation, answers and ended sessions do.    *)
(***************************************************************************)
THEOREM KeysOfRoute == Spec => []SocketOfRoute
<1>1. Inv => SocketOfRoute
  BY PageHolds DEF Inv, SocketOfRoute
<1> QED
  BY <1>1, InvInit, InvNext, PTL DEF Spec

(***************************************************************************)
(* New metrics are those of the instance of the route, shown while its     *)
(* metrics tab is: an answer that comes after either was left is dropped   *)
(* (the cancelled flag of the metrics effect).                             *)
(***************************************************************************)
THEOREM MetricsStayOfRoute == Spec => MetricsOfRoute
<1>1. Inv /\ [Next]_vars =>
        [(open \in {"page_clicks", "page_loads"}) => Page!MetricsOfRouteStep]_vars
  BY PartSteps, BoundsAssumption, MetricsOfInv DEF Inv, BoundsAssumption
<1> QED
  BY <1>1, InvInit, InvNext, PTL DEF Spec, MetricsOfRoute

=============================================================================
