------------------------- MODULE OperatorPagesProofs -------------------------
(***************************************************************************)
(* Proofs about the other pages of the web interface, for any number of    *)
(* nodes, VPCs, images, instances and requests: the flags that disable the *)
(* buttons of a create and of a deploy, the nodes the catalogue names, the *)
(* demo's deleted instances, and the types of all six parts side by side,  *)
(* as OperatorPagesMC composes them.                                       *)
(*                                                                         *)
(* Each part has an inductive invariant of its own; the invariant of the   *)
(* composition is that the part explored has its own.                      *)
(***************************************************************************)
EXTENDS OperatorPagesMC, FiniteSets, TLAPS

----------------------------------------------------------------------------
(* NodesPage.                                                              *)

NodesIds == [Node -> Nat]
NodesScreen == [mounted : BOOLEAN, nodes : Nodes!Table, ids : NodesIds, loading : BOOLEAN,
                error : BOOLEAN, showModal : BOOLEAN]
NodesLoad == [st : {"idle", "sent", "read"}, rows : Nodes!Table, ids : NodesIds]
Removal == [st : {"idle", "sent", "done"}, node : Node \cup {NoNode}, id : Nat,
            mine : BOOLEAN]

LEMMA NodesTyped ==
    Nodes!TypeOK <=>
        /\ rows \in Nodes!Table /\ ids \in NodesIds /\ agent \in [Node -> {"absent", "connected", "lost"}]
        /\ hosts \subseteq Node /\ page \in NodesScreen /\ list \in [Two -> NodesLoad]
        /\ removal \in Removal /\ deletes \in 0..MaxDelete /\ faults \in 0..MaxFault
BY DEF Nodes!TypeOK, NodesScreen, NodesLoad, Removal, NodesIds

LEMMA NodesFresh ==
    /\ Nodes!Empty \in Nodes!Table /\ Nodes!NoIds \in NodesIds /\ Nodes!Idle \in NodesLoad
    /\ Nodes!NoRemoval \in Removal
    /\ Nodes!Mounted(TRUE) \in NodesScreen /\ Nodes!Mounted(FALSE) \in NodesScreen
<1>1. Nodes!Empty \in Nodes!Table
  BY DEF Nodes!Empty, Nodes!Table, Nodes!Status
<1>2. Nodes!NoIds \in NodesIds /\ 0 \in Nat
  BY SMT DEF Nodes!NoIds, NodesIds
<1> QED
  BY <1>1, <1>2 DEF Nodes!Idle, NodesLoad, Nodes!NoRemoval, Removal, Nodes!Mounted, NodesScreen

\* load, and the fields it and its answers set
LEMMA NodesLoads ==
    ASSUME list \in [Two -> NodesLoad], Nodes!load
    PROVE  list' \in [Two -> NodesLoad]
<1>1. Nodes!FreeLoad \in Two
  BY DEF Nodes!load, Nodes!FreeLoad
<1>2. list' = [list EXCEPT ![Nodes!FreeLoad].st = "sent"]
  BY DEF Nodes!load
<1> QED
  BY <1>1, <1>2 DEF NodesLoad

LEMMA NodesShown ==
    ASSUME page \in NodesScreen, NEW r \in Nodes!Table, NEW s \in NodesIds,
           page' = [page EXCEPT !.nodes = r, !.ids = s, !.loading = FALSE]
    PROVE  page' \in NodesScreen
<1> DEFINE k == [page EXCEPT !.nodes = r]
           k2 == [k EXCEPT !.ids = s]
<1>1. page' = [k2 EXCEPT !.loading = FALSE]
  OBVIOUS
<1>2. k \in NodesScreen
  BY DEF NodesScreen
<1> HIDE DEF k
<1>3. k2 \in NodesScreen
  BY <1>2 DEF NodesScreen
<1> HIDE DEF k2
<1> QED
  BY <1>1, <1>3 DEF NodesScreen

LEMMA NodesError ==
    ASSUME page \in NodesScreen, page' = [page EXCEPT !.error = TRUE, !.loading = FALSE]
    PROVE  page' \in NodesScreen
<1> DEFINE k == [page EXCEPT !.error = TRUE]
<1>1. page' = [k EXCEPT !.loading = FALSE]
  OBVIOUS
<1>2. k \in NodesScreen
  BY DEF NodesScreen
<1> HIDE DEF k
<1> QED
  BY <1>1, <1>2 DEF NodesScreen

LEMMA NodesStarts == ASSUME BoundsAssumption, Nodes!Init PROVE Nodes!TypeOK
<1>1. 0 \in 0..MaxDelete /\ 0 \in 0..MaxFault
  BY SMT DEF BoundsAssumption, Nodes!NodesAssumption
<1> QED
  BY <1>1, NodesFresh, NodesTyped DEF Nodes!Init

LEMMA NodesStep ==
    ASSUME BoundsAssumption, Nodes!TypeOK, [Nodes!Next]_(Nodes!vars)
    PROVE  Nodes!TypeOK'
<1> DEFINE Typed ==
        /\ rows \in Nodes!Table /\ ids \in NodesIds /\ agent \in [Node -> {"absent", "connected", "lost"}]
        /\ hosts \subseteq Node /\ page \in NodesScreen /\ list \in [Two -> NodesLoad]
        /\ removal \in Removal /\ deletes \in 0..MaxDelete /\ faults \in 0..MaxFault
<1>0. /\ Typed /\ (Typed' => Nodes!TypeOK')
      /\ (Nodes!Fault => faults' \in 0..MaxFault)
  <2>1. Nodes!TypeOK' <=> Typed'
    BY DEF Nodes!TypeOK, NodesScreen, NodesLoad, Removal, NodesIds
  <2>2. Nodes!Fault => faults' \in 0..MaxFault
    BY SMT DEF Nodes!Fault, Nodes!TypeOK, BoundsAssumption, Nodes!NodesAssumption
  <2> QED
    BY <2>1, <2>2, NodesTyped
<1> SUFFICES Typed'
  BY <1>0
<1>1. CASE UNCHANGED Nodes!vars
  BY <1>0, <1>1 DEF Nodes!vars
<1>2. ASSUME NEW l \in Two, Nodes!ListRead(l) PROVE Typed'
  <2>1. [st |-> "read", rows |-> rows, ids |-> ids] \in NodesLoad
    BY <1>0 DEF NodesLoad
  <2> QED
    BY <1>0, <1>2, <2>1 DEF Nodes!ListRead, Nodes!server, Nodes!bounds
<1>3. ASSUME NEW l \in Two, Nodes!ListDone(l) PROVE Typed'
  <2>1. list[l].rows \in Nodes!Table /\ list[l].ids \in NodesIds
    BY <1>0 DEF NodesLoad
  <2>2. page' \in NodesScreen
    BY <1>0, <1>3, <2>1, NodesShown DEF Nodes!ListDone
  <2> QED
    BY <1>0, <1>3, <2>2, NodesFresh DEF Nodes!ListDone, Nodes!server, Nodes!bounds
<1>4. ASSUME NEW l \in Two, Nodes!ListFailed(l) PROVE Typed'
  <2>1. page' \in NodesScreen
    BY <1>0, <1>4, NodesError DEF Nodes!ListFailed
  <2> QED
    BY <1>0, <1>4, <2>1, NodesFresh DEF Nodes!ListFailed, Nodes!server
<1>5. CASE Nodes!Tick \/ Nodes!Refresh \/ Nodes!Enter
  <2>1. page' \in NodesScreen
    BY <1>0, <1>5, NodesFresh DEF Nodes!Tick, Nodes!Refresh, Nodes!Enter, NodesScreen
  <2> QED
    BY <1>0, <1>5, <2>1, NodesLoads
       DEF Nodes!Tick, Nodes!Refresh, Nodes!Enter, Nodes!server, Nodes!bounds
<1>6. CASE Nodes!Leave
  <2>1. removal' \in Removal
    BY <1>0, <1>6 DEF Nodes!Leave, Removal
  <2> QED
    BY <1>0, <1>6, <2>1, NodesFresh DEF Nodes!Leave, Nodes!server, Nodes!bounds
<1>7. CASE Nodes!OpenModal \/ Nodes!CloseModal
  <2>1. page' \in NodesScreen
    BY <1>0, <1>7 DEF Nodes!OpenModal, Nodes!CloseModal, NodesScreen
  <2> QED
    BY <1>0, <1>7, <2>1 DEF Nodes!OpenModal, Nodes!CloseModal, Nodes!server, Nodes!bounds
<1>8. ASSUME NEW n \in Node, Nodes!handleDelete(n) PROVE Typed'
  <2>1. deletes' \in 0..MaxDelete
    BY <1>0, <1>8, SMT DEF Nodes!handleDelete, BoundsAssumption, Nodes!NodesAssumption
  <2>2. removal' \in Removal
    BY <1>0, <1>8 DEF Nodes!handleDelete, Removal, NodesScreen, NodesIds
  <2> QED
    BY <1>0, <1>8, <2>1, <2>2 DEF Nodes!handleDelete, Nodes!server
<1>9. CASE Nodes!RemovalHandled
  <2>1. removal' \in Removal
    BY <1>0, <1>9 DEF Nodes!RemovalHandled, Removal
  <2>2. rows' \in Nodes!Table
    BY <1>0, <1>9 DEF Nodes!RemovalHandled, Nodes!Table, Nodes!Status
  <2>3. faults' \in 0..MaxFault
    BY <1>0, <1>9 DEF Nodes!RemovalHandled
  <2> QED
    BY <1>0, <1>9, <2>1, <2>2, <2>3 DEF Nodes!RemovalHandled
<1>10. CASE Nodes!RemovalDone
  <2>1. page' \in NodesScreen
    BY <1>0, <1>10 DEF Nodes!RemovalDone, NodesScreen
  <2>2. list' \in [Two -> NodesLoad]
    BY <1>0, <1>10, NodesLoads DEF Nodes!RemovalDone
  <2> QED
    BY <1>0, <1>10, <2>1, <2>2, NodesFresh DEF Nodes!RemovalDone, Nodes!server, Nodes!bounds
<1>11. ASSUME NEW n \in Node, Nodes!Register(n) \/ Nodes!Heartbeat(n) PROVE Typed'
  <2>1. rows' \in Nodes!Table /\ agent' \in [Node -> {"absent", "connected", "lost"}]
    BY <1>0, <1>11 DEF Nodes!Register, Nodes!Heartbeat, Nodes!Table, Nodes!Status
  <2>2. ids' \in NodesIds
    BY <1>0, <1>11, SMT DEF Nodes!Register, Nodes!Heartbeat, NodesIds
  <2> QED
    BY <1>0, <1>11, <2>1, <2>2 DEF Nodes!Register, Nodes!Heartbeat, Nodes!bounds
<1>12. ASSUME NEW n \in Node, Nodes!StreamLost(n) PROVE Typed'
  <2>1. rows' \in Nodes!Table /\ agent' \in [Node -> {"absent", "connected", "lost"}]
    BY <1>0, <1>12 DEF Nodes!StreamLost, Nodes!Table, Nodes!Status
  <2> QED
    BY <1>0, <1>12, <2>1 DEF Nodes!StreamLost
<1>13. ASSUME NEW n \in Node, Nodes!Place(n) \/ Nodes!Vacate(n) PROVE Typed'
  BY <1>0, <1>13 DEF Nodes!Place, Nodes!Vacate, Nodes!bounds
<1> HIDE DEF Typed
<1> QED
  BY <1>1, <1>2, <1>3, <1>4, <1>5, <1>6, <1>7, <1>8, <1>9, <1>10, <1>11, <1>12, <1>13
     DEF Nodes!Next

----------------------------------------------------------------------------
(* NetworkPage: the flag of the create dialog.  A visit never has a second *)
(* create, for the flag disables the button until the first one is over.   *)

NetScreen == [vpcs : SUBSET Vpc, loading : BOOLEAN, error : BOOLEAN, showModal : BOOLEAN,
              creating : BOOLEAN, form : Vpc \cup {NoVpc}]
NetLoad == [st : {"idle", "sent", "read"}, rows : SUBSET Vpc]
NetCall == [st : {"unused", "sent", "ok", "err", "done"}, op : {"create", "delete"},
            vpc : Vpc \cup {NoVpc}, mine : BOOLEAN]

\* a create of this visit whose answer the page still waits for
Creating(k) == k.op = "create" /\ k.mine = TRUE /\ k.st \in {"sent", "ok", "err"}

\* away from the page no flag is set
NetTyped ==
    /\ rows \subseteq Vpc /\ hosts \subseteq rows
    /\ route \in {"real", "demo", "away"}
    /\ page \in NetScreen /\ (route # "real" => page.creating = FALSE)
    /\ view \in Network!Mode /\ stored \in Network!Mode \cup {"none"}
    /\ list \in [Two -> NetLoad]
    /\ call \in [Two -> NetCall]
    /\ faults \in 0..1

OneCreate ==
    /\ page.creating = TRUE <=> \E c \in Two : Creating(call[c])
    /\ \A c, d \in Two : Creating(call[c]) /\ Creating(call[d]) => c = d

NetInv == NetTyped /\ OneCreate

LEMMA NetFresh ==
    /\ Network!Idle \in NetLoad
    /\ Network!Fresh \in NetScreen /\ Network!Fresh.creating = FALSE
    /\ \A st \in {"unused", "done"} :
        Network!Finished(st) \in NetCall /\ ~Creating(Network!Finished(st))
BY DEF Network!Idle, NetLoad, Network!Fresh, NetScreen, Network!Finished, NetCall, Creating

LEMMA NetLoads ==
    ASSUME list \in [Two -> NetLoad], Network!load
    PROVE  list' \in [Two -> NetLoad]
<1>1. Network!FreeLoad \in Two
  BY DEF Network!load, Network!FreeLoad
<1>2. list' = [list EXCEPT ![Network!FreeLoad].st = "sent"]
  BY DEF Network!load
<1> QED
  BY <1>1, <1>2 DEF NetLoad

LEMMA NetShown ==
    ASSUME page \in NetScreen, NEW r \in SUBSET Vpc,
           page' = [page EXCEPT !.vpcs = r, !.loading = FALSE]
    PROVE  page' \in NetScreen /\ page'.creating = page.creating
<1> DEFINE k == [page EXCEPT !.vpcs = r]
<1>1. page' = [k EXCEPT !.loading = FALSE]
  OBVIOUS
<1>2. k \in NetScreen /\ k.creating = page.creating
  BY DEF NetScreen
<1> HIDE DEF k
<1> QED
  BY <1>1, <1>2 DEF NetScreen

LEMMA NetError ==
    ASSUME page \in NetScreen, page' = [page EXCEPT !.error = TRUE, !.loading = FALSE]
    PROVE  page' \in NetScreen /\ page'.creating = page.creating
<1> DEFINE k == [page EXCEPT !.error = TRUE]
<1>1. page' = [k EXCEPT !.loading = FALSE]
  OBVIOUS
<1>2. k \in NetScreen /\ k.creating = page.creating
  BY DEF NetScreen
<1> HIDE DEF k
<1> QED
  BY <1>1, <1>2 DEF NetScreen

LEMMA NetCreated ==
    ASSUME page \in NetScreen, page' = Network!AfterCreate
    PROVE  page' \in NetScreen /\ page'.creating = FALSE
<1> DEFINE k1 == [page EXCEPT !.showModal = FALSE]
           k2 == [k1 EXCEPT !.form = NoVpc]
           k3 == [k2 EXCEPT !.creating = FALSE]
<1>1. page' = [k3 EXCEPT !.loading = TRUE]
  BY DEF Network!AfterCreate
<1>2. k1 \in NetScreen
  BY DEF NetScreen
<1> HIDE DEF k1
<1>3. k2 \in NetScreen
  BY <1>2 DEF NetScreen
<1> HIDE DEF k2
<1>4. k3 \in NetScreen /\ k3.creating = FALSE
  BY <1>3 DEF NetScreen
<1> HIDE DEF k3
<1> QED
  BY <1>1, <1>4 DEF NetScreen

\* creates go on as they were
LEMMA NetKept ==
    ASSUME NetInv, page'.creating = page.creating,
           \A c \in Two : Creating(call'[c]) <=> Creating(call[c])
    PROVE  OneCreate'
BY DEF NetInv, OneCreate

\* none is left, and the flag says so
LEMMA NetNone ==
    ASSUME page'.creating = FALSE, \A c \in Two : ~Creating(call'[c])
    PROVE  OneCreate'
BY DEF OneCreate

LEMMA NetSends ==
    ASSUME call \in [Two -> NetCall], NEW op \in {"create", "delete"}, NEW v \in Vpc,
           Network!Send(op, v)
    PROVE  /\ call' \in [Two -> NetCall]
           /\ \E c \in Two : /\ ~Creating(call[c]) /\ (Creating(call'[c]) <=> op = "create")
                             /\ \A d \in Two \ {c} : call'[d] = call[d]
<1> DEFINE k == [st |-> "sent", op |-> op, vpc |-> v, mine |-> TRUE]
<1>1. PICK c \in Two : call[c].st = "unused" /\ call' = [call EXCEPT ![c] = k]
  BY DEF Network!Send
<1>2. k \in NetCall /\ (Creating(k) <=> op = "create")
  BY DEF NetCall, Creating
<1>3. ~Creating(call[c])
  BY <1>1 DEF Creating
<1> HIDE DEF k
<1> QED
  BY <1>1, <1>2, <1>3

LEMMA NetCloses ==
    ASSUME call \in [Two -> NetCall], NEW c \in Two, Network!Close(c)
    PROVE  /\ call' \in [Two -> NetCall] /\ ~Creating(call'[c])
           /\ \A d \in Two \ {c} : call'[d] = call[d]
BY NetFresh DEF Network!Close

\* an answer, which is no answer for a request of an earlier visit
LEMMA NetAnswers ==
    ASSUME NetInv, NEW c \in Two, call[c].st = "sent", NEW st \in {"ok", "err"},
           call' = [call EXCEPT ![c] = IF @.mine THEN [@ EXCEPT !.st = st]
                                       ELSE Network!Finished("done")],
           UNCHANGED page
    PROVE  call' \in [Two -> NetCall] /\ OneCreate'
<1>1. call[c] \in NetCall
  BY DEF NetInv, NetTyped
<1>2. PICK k \in NetCall : /\ call' = [call EXCEPT ![c] = k]
                           /\ Creating(k) <=> Creating(call[c])
  <2>1. CASE call[c].mine = TRUE
    <3> DEFINE k == [call[c] EXCEPT !.st = st]
    <3>1. call' = [call EXCEPT ![c] = k]
      BY <2>1 DEF NetInv, NetTyped
    <3>2. k \in NetCall /\ k.st = st /\ k.op = call[c].op /\ k.mine = call[c].mine
      BY <1>1 DEF NetCall
    <3>3. Creating(k) <=> Creating(call[c])
      BY <3>2 DEF Creating
    <3> HIDE DEF k
    <3> QED
      BY <3>1, <3>2, <3>3
  <2>2. CASE call[c].mine = FALSE
    <3>1. call' = [call EXCEPT ![c] = Network!Finished("done")]
      BY <2>2 DEF NetInv, NetTyped
    <3> QED
      BY <2>2, <3>1, NetFresh DEF Creating
  <2> QED
    BY <1>1, <2>1, <2>2 DEF NetCall
<1>3. call' \in [Two -> NetCall] /\ \A d \in Two : Creating(call'[d]) <=> Creating(call[d])
  BY <1>2 DEF NetInv, NetTyped
<1> QED
  BY <1>3, NetKept

LEMMA NetLeaves ==
    ASSUME NetTyped, Network!Leave
    PROVE  call' \in [Two -> NetCall] /\ \A c \in Two : ~Creating(call'[c])
<1>1. ASSUME NEW c \in Two PROVE call'[c] \in NetCall /\ ~Creating(call'[c])
  <2>1. call[c] \in NetCall
    BY DEF NetTyped
  <2>2. CASE call[c].st = "sent"
    <3>1. call'[c] = [call[c] EXCEPT !.mine = FALSE]
      BY <2>2 DEF Network!Leave
    <3> QED
      BY <2>1, <3>1 DEF NetCall, Creating
  <2>3. CASE call[c].st \in {"ok", "err"}
    BY <2>3, NetFresh DEF Network!Leave
  <2>4. CASE call[c].st \notin {"sent", "ok", "err"}
    <3>1. call'[c] = call[c]
      BY <2>4 DEF Network!Leave
    <3> QED
      BY <2>1, <2>4, <3>1 DEF Creating
  <2> QED
    BY <2>2, <2>3, <2>4
<1>2. call' = [c \in Two |-> call'[c]]
  BY DEF Network!Leave
<1> QED
  BY <1>1, <1>2

LEMMA NetStarts == ASSUME Network!Init PROVE NetInv
<1>1. call = [c \in Two |-> Network!Finished("unused")]
  BY DEF Network!Init
<1>2. call \in [Two -> NetCall] /\ \A c \in Two : ~Creating(call[c])
  BY <1>1, NetFresh
<1>3. 0 \in 0..1
  BY SMT
<1> QED
  BY <1>2, <1>3, NetFresh DEF Network!Init, Network!Mode, NetInv, NetTyped, OneCreate

LEMMA NetStep ==
    ASSUME BoundsAssumption, NetInv, [Network!Next]_(Network!vars)
    PROVE  NetInv'
<1> USE DEF NetTyped
<1>0. /\ NetTyped /\ OneCreate /\ (Network!Fault => faults' \in 0..1)
      /\ call \in [Two -> NetCall] /\ page \in NetScreen /\ list \in [Two -> NetLoad]
      /\ NoVpc \notin Vpc
  BY SMT DEF NetInv, Network!Fault, BoundsAssumption, Network!NetworkAssumption
<1>a. ASSUME UNCHANGED call, page'.creating = page.creating PROVE OneCreate'
  BY <1>a, NetKept
<1>b. Network!View = "page" => route = "real"
  BY DEF Network!View
<1>1. CASE UNCHANGED Network!vars
  BY <1>0, <1>1 DEF Network!vars, NetInv, OneCreate
<1>2. ASSUME NEW l \in Two, Network!ListRead(l) PROVE NetInv'
  <2>1. [st |-> "read", rows |-> rows] \in NetLoad
    BY <1>0 DEF NetLoad
  <2> QED
    BY <1>0, <1>a, <1>2, <2>1 DEF Network!ListRead, Network!server, Network!screen, NetInv
<1>3. ASSUME NEW l \in Two, Network!ListDone(l) PROVE NetInv'
  <2>1. list[l].rows \in SUBSET Vpc
    BY <1>0 DEF NetLoad
  <2>2. page' \in NetScreen /\ page'.creating = page.creating
    BY <1>0, <1>3, <2>1, NetShown DEF Network!ListDone
  <2> QED
    BY <1>0, <1>a, <1>3, <2>2, NetFresh
       DEF Network!ListDone, Network!server, Network!screen, NetInv
<1>4. ASSUME NEW l \in Two, Network!ListFailed(l) PROVE NetInv'
  <2>1. page' \in NetScreen /\ page'.creating = page.creating
    BY <1>0, <1>4, NetError DEF Network!ListFailed
  <2> QED
    BY <1>0, <1>a, <1>4, <2>1, NetFresh
       DEF Network!ListFailed, Network!server, Network!screen, NetInv
<1>5. CASE Network!Refresh
  <2>1. page' \in NetScreen /\ page'.creating = page.creating
    BY <1>0, <1>5 DEF Network!Refresh, NetScreen
  <2> QED
    BY <1>0, <1>a, <1>5, <2>1, NetLoads
       DEF Network!Refresh, Network!server, Network!screen, NetInv
<1>6. CASE Network!ToggleModal
  <2>1. page' \in NetScreen /\ page'.creating = page.creating
    BY <1>0, <1>6 DEF Network!ToggleModal, NetScreen
  <2> QED
    BY <1>0, <1>a, <1>6, <2>1 DEF Network!ToggleModal, Network!server, Network!screen, NetInv
<1>7. ASSUME NEW v \in Vpc, Network!Edit(v) PROVE NetInv'
  <2>1. page' \in NetScreen /\ page'.creating = page.creating
    BY <1>0, <1>7 DEF Network!Edit, NetScreen
  <2> QED
    BY <1>0, <1>a, <1>7, <2>1 DEF Network!Edit, Network!server, Network!screen, NetInv
<1>8. CASE Network!handleCreate
  <2>1. page.form \in Vpc /\ page.creating = FALSE
    BY <1>0, <1>8 DEF Network!handleCreate, Network!CanSubmit, NetScreen
  <2>2. page' \in NetScreen /\ page'.creating = TRUE
    BY <1>0, <1>8 DEF Network!handleCreate, NetScreen
  <2>3. PICK c \in Two : Creating(call'[c]) /\ \A d \in Two \ {c} : call'[d] = call[d]
    BY <1>0, <1>8, <2>1, NetSends DEF Network!handleCreate
  <2>4. \A d \in Two : ~Creating(call[d])
    BY <1>0, <2>1 DEF OneCreate
  <2>5. OneCreate'
    BY <2>2, <2>3, <2>4 DEF OneCreate
  <2>6. call' \in [Two -> NetCall]
    BY <1>0, <1>8, <2>1, NetSends DEF Network!handleCreate
  <2> QED
    BY <1>0, <1>b, <1>8, <2>2, <2>5, <2>6
       DEF Network!handleCreate, Network!CanSubmit, Network!server, Network!screen, NetInv
<1>9. ASSUME NEW c \in Two, Network!CreateDone(c) \/ Network!CreateFailed(c) PROVE NetInv'
  <2>1. Creating(call[c]) /\ Network!Close(c)
    BY <1>0, <1>9 DEF Network!CreateDone, Network!CreateFailed, Network!Mine, Creating
  <2>2. call' \in [Two -> NetCall] /\ \A d \in Two : ~Creating(call'[d])
    BY <1>0, <2>1, NetCloses DEF OneCreate
  <2>3. page' \in NetScreen /\ page'.creating = FALSE
    <3>1. CASE Network!CreateDone(c)
      BY <1>0, <3>1, NetCreated DEF Network!CreateDone
    <3>2. CASE Network!CreateFailed(c)
      BY <1>0, <3>2 DEF Network!CreateFailed, NetScreen
    <3> QED
      BY <1>9, <3>1, <3>2
  <2>4. list' \in [Two -> NetLoad]
    BY <1>0, <1>9, NetLoads DEF Network!CreateDone, Network!CreateFailed, Network!Reload
  <2>5. OneCreate'
    BY <2>2, <2>3, NetNone
  <2> QED
    BY <1>0, <1>9, <2>2, <2>3, <2>4, <2>5
       DEF Network!CreateDone, Network!CreateFailed, Network!server, Network!screen, NetInv
<1>10. ASSUME NEW v \in Vpc, Network!handleDelete(v) PROVE NetInv'
  <2>1. /\ call' \in [Two -> NetCall]
        /\ \A d \in Two : Creating(call'[d]) <=> Creating(call[d])
    BY <1>0, <1>10, NetSends DEF Network!handleDelete
  <2>2. OneCreate'
    BY <1>10, <2>1, NetKept DEF Network!handleDelete
  <2> QED
    BY <1>0, <1>10, <2>1, <2>2 DEF Network!handleDelete, Network!server, Network!screen, NetInv
<1>11. ASSUME NEW c \in Two, Network!DeleteDone(c) PROVE NetInv'
  <2>1. ~Creating(call[c])
    BY <1>11 DEF Network!DeleteDone, Network!Mine, Creating
  <2>2. /\ call' \in [Two -> NetCall]
        /\ \A d \in Two : Creating(call'[d]) <=> Creating(call[d])
    BY <1>0, <1>11, <2>1, NetCloses DEF Network!DeleteDone
  <2>3. page' \in NetScreen /\ page'.creating = page.creating
    BY <1>0, <1>11 DEF Network!DeleteDone, NetScreen
  <2>4. OneCreate'
    BY <2>2, <2>3, NetKept
  <2> QED
    BY <1>0, <1>11, <2>2, <2>3, <2>4, NetLoads
       DEF Network!DeleteDone, Network!server, Network!screen, NetInv
<1>12. CASE Network!Enter
  <2>1. page' = Network!Fresh /\ UNCHANGED call /\ view' \in Network!Mode
    BY <1>0, <1>12 DEF Network!Enter, Network!Remembered, Network!Mode
  <2>2. \A c \in Two : ~Creating(call[c])
    BY <1>0, <1>12 DEF Network!Enter, OneCreate
  <2>3. OneCreate'
    BY <2>1, <2>2, NetFresh, NetNone
  <2> QED
    BY <1>0, <1>12, <2>1, <2>3, NetFresh, NetLoads DEF Network!Enter, Network!server, NetInv
<1>13. CASE Network!EnterDemo
  <2>1. view' \in Network!Mode
    BY <1>0, <1>13 DEF Network!EnterDemo, Network!Remembered, Network!Mode
  <2> QED
    BY <1>0, <1>a, <1>13, <2>1 DEF Network!EnterDemo, Network!server, NetInv
<1>14. CASE Network!Leave
  <2>1. call' \in [Two -> NetCall] /\ \A c \in Two : ~Creating(call'[c])
    BY <1>0, <1>14, NetLeaves
  <2>2. page' = Network!Fresh /\ list' \in [Two -> NetLoad]
    BY <1>14, NetFresh DEF Network!Leave
  <2>3. OneCreate'
    BY <2>1, <2>2, NetFresh, NetNone
  <2> QED
    BY <1>0, <1>14, <2>1, <2>2, <2>3, NetFresh DEF Network!Leave, Network!server, NetInv
<1>15. ASSUME NEW mode \in Network!Mode, Network!change(mode) PROVE NetInv'
  BY <1>0, <1>a, <1>15 DEF Network!change, Network!server, NetInv
<1>16. ASSUME NEW c \in Two, Network!Handle(c) PROVE NetInv'
  <2>1. /\ call[c] \in NetCall /\ call[c].st = "sent"
        /\ UNCHANGED <<hosts, Network!screen, page, list>>
    BY <1>0, <1>16 DEF Network!Handle
  <2>2. PICK st \in {"ok", "err"} :
          call' = [call EXCEPT ![c] = IF @.mine THEN [@ EXCEPT !.st = st]
                                      ELSE Network!Finished("done")]
    BY <1>16 DEF Network!Handle
  <2>3. call' \in [Two -> NetCall] /\ OneCreate'
    BY <2>1, <2>2, NetAnswers, <1>0 DEF NetInv
  <2>4. rows' \subseteq Vpc /\ hosts' \subseteq rows'
    <3>1. Network!Apply(c) => rows' \subseteq Vpc /\ hosts \subseteq rows'
      BY <1>0, <2>1 DEF Network!Apply, Network!Create, Network!Delete, NetCall
    <3> QED
      BY <1>0, <1>16, <2>1, <3>1 DEF Network!Handle
  <2>5. faults' \in 0..1
    BY <1>0, <1>16 DEF Network!Handle
  <2> QED
    BY <1>0, <2>1, <2>3, <2>4, <2>5 DEF Network!screen, NetInv
<1>17. ASSUME NEW v \in Vpc, Network!Host(v) PROVE NetInv'
  <2>1. hosts' \subseteq rows /\ UNCHANGED rows
    BY <1>0, <1>17 DEF Network!Host
  <2> QED
    BY <1>0, <1>a, <1>17, <2>1 DEF Network!Host, Network!screen, NetInv
<1> QED
  BY <1>1, <1>2, <1>3, <1>4, <1>5, <1>6, <1>7, <1>8, <1>9, <1>10, <1>11, <1>12, <1>13,
     <1>14, <1>15, <1>16, <1>17 DEF Network!Next, Network!Respond

LEMMA NetHolds ==
    ASSUME NetInv PROVE Network!TypeOK /\ Network!CreatingIsCreate
<1>1. Network!TypeOK
  BY DEF NetInv, NetTyped, Network!TypeOK, NetScreen, NetLoad, NetCall
<1>2. \A c \in Two : c \in Network!MyCreates <=> Creating(call[c])
  BY DEF NetInv, NetTyped, NetCall, Network!MyCreates, Network!Mine, Creating
<1>3. page.creating \in BOOLEAN /\ Network!MyCreates \subseteq Two
  BY DEF NetInv, NetTyped, NetScreen, Network!MyCreates
<1> QED
  BY <1>1, <1>2, <1>3 DEF NetInv, OneCreate, Network!CreatingIsCreate

----------------------------------------------------------------------------
(* ImagesPage: a flag for each image, which keeps a visit from a second    *)
(* deploy of it, and the nodes an answer names.                            *)

ImgScreen == [mounted : BOOLEAN, images : {{}, Img}, loading : BOOLEAN, error : BOOLEAN,
              deploying : [Img -> BOOLEAN], deployed : [Img -> SUBSET ImgNode]]
ImgCall == [st : {"unused", "sent", "loop", "ok", "err", "done"}, img : Img,
            nodes : SUBSET ImgNode, queued : SUBSET ImgNode, mine : BOOLEAN]

\* a deploy of this visit whose answer the page still waits for
Deploying(k) == k.mine = TRUE /\ k.st \in {"sent", "loop", "ok", "err"}

\* until it is over, request c has enqueued its image for the nodes in k.queued
\* and nothing else
Named(c, k) ==
    /\ k.st \in {"unused", "sent", "loop", "ok"} =>
        \A n \in ImgNode, i \in Img :
            <<n, i, c>> \in queue <=> i = k.img /\ n \in k.queued
    /\ k.st = "unused" => k.queued = {}

\* what the page names for an image is all that some request, now over, enqueued
Shown ==
    \A i \in Img : page.deployed[i] # {} =>
        \E c \in Two : /\ call[c].st = "done"
                       /\ \A n \in ImgNode :
                            n \in page.deployed[i] <=> <<n, i, c>> \in queue

\* away from the page no flag is set
ImgTyped ==
    /\ healthy \subseteq ImgNode /\ queue \subseteq ImgNode \X Img \X Two
    /\ page \in ImgScreen
    /\ page.mounted = FALSE => \A i \in Img : page.deploying[i] = FALSE
    /\ list \in {"idle", "sent"}
    /\ call \in [Two -> ImgCall]
    /\ faults \in 0..1

\* the flags of the buttons, and one deploy of an image at a time
Flags ==
    /\ \A i \in Img : page.deploying[i] = TRUE <=>
                        \E c \in Two : Deploying(call[c]) /\ call[c].img = i
    /\ \A c, d \in Two :
        Deploying(call[c]) /\ Deploying(call[d]) /\ call[c].img = call[d].img => c = d

Told == Shown /\ \A c \in Two : Named(c, call[c])

ImgInv == ImgTyped /\ Flags /\ Told

LEMMA ImgFresh ==
    ASSUME BoundsAssumption
    PROVE  /\ \A m \in BOOLEAN :
                /\ Images!Mounted(m) \in ImgScreen
                /\ \A i \in Img : /\ Images!Mounted(m).deploying[i] = FALSE
                                  /\ Images!Mounted(m).deployed[i] = {}
           /\ \A st \in {"unused", "done"} :
                /\ Images!Finished(st) \in ImgCall
                /\ ~Deploying(Images!Finished(st)) /\ Images!Finished(st).st = st
                /\ Images!Finished(st).queued = {}
<1>1. Img # {}
  BY DEF BoundsAssumption
<1> QED
  BY <1>1 DEF Images!Mounted, ImgScreen, Images!Finished, Images!Request, ImgCall, Deploying

\* what the end of the request for the catalogue changes
LEMMA ImgListed ==
    ASSUME page \in ImgScreen,
           \/ page' = [page EXCEPT !.images = Img, !.loading = FALSE]
           \/ page' = [page EXCEPT !.error = TRUE, !.loading = FALSE]
    PROVE  /\ page' \in ImgScreen /\ page'.mounted = page.mounted
           /\ page'.deploying = page.deploying /\ page'.deployed = page.deployed
<1> DEFINE k1 == [page EXCEPT !.images = Img]
           k2 == [page EXCEPT !.error = TRUE]
<1>1. page' = [k1 EXCEPT !.loading = FALSE] \/ page' = [k2 EXCEPT !.loading = FALSE]
  OBVIOUS
<1>2. /\ k1 \in ImgScreen /\ k1.mounted = page.mounted
      /\ k1.deploying = page.deploying /\ k1.deployed = page.deployed
  BY DEF ImgScreen
<1>3. /\ k2 \in ImgScreen /\ k2.mounted = page.mounted
      /\ k2.deploying = page.deploying /\ k2.deployed = page.deployed
  BY DEF ImgScreen
<1> HIDE DEF k1, k2
<1> QED
  BY <1>1, <1>2, <1>3 DEF ImgScreen

\* a flag is set or cleared
LEMMA ImgFlagged ==
    ASSUME page \in ImgScreen, NEW i \in Img, NEW b \in BOOLEAN,
           page' = [page EXCEPT !.deploying = [page.deploying EXCEPT ![i] = b]]
    PROVE  /\ page' \in ImgScreen /\ page'.mounted = page.mounted
           /\ page'.deploying[i] = b /\ page'.deployed = page.deployed
           /\ \A j \in Img \ {i} : page'.deploying[j] = page.deploying[j]
<1> DEFINE f == [page.deploying EXCEPT ![i] = b]
<1>1. /\ f \in [Img -> BOOLEAN] /\ f[i] = b
      /\ \A j \in Img \ {i} : f[j] = page.deploying[j]
  BY DEF ImgScreen
<1> HIDE DEF f
<1>2. page' = [page EXCEPT !.deploying = f]
  BY DEF f
<1> QED
  BY <1>1, <1>2 DEF ImgScreen

LEMMA ImgDeployed ==
    ASSUME page \in ImgScreen, NEW i \in Img, NEW ns \in SUBSET ImgNode,
           page' = [page EXCEPT !.deploying = [page.deploying EXCEPT ![i] = FALSE],
                                !.deployed[i] = ns]
    PROVE  /\ page' \in ImgScreen /\ page'.mounted = page.mounted
           /\ page'.deploying[i] = FALSE /\ page'.deployed[i] = ns
           /\ \A j \in Img \ {i} : /\ page'.deploying[j] = page.deploying[j]
                                   /\ page'.deployed[j] = page.deployed[j]
<1> DEFINE f == [page.deploying EXCEPT ![i] = FALSE]
           g == [page.deployed EXCEPT ![i] = ns]
           k == [page EXCEPT !.deploying = f]
<1>1. page' = [k EXCEPT !.deployed = g]
  BY DEF ImgScreen
<1>2. /\ f \in [Img -> BOOLEAN] /\ f[i] = FALSE
      /\ \A j \in Img \ {i} : f[j] = page.deploying[j]
  BY DEF ImgScreen
<1>3. /\ g \in [Img -> SUBSET ImgNode] /\ g[i] = ns
      /\ \A j \in Img \ {i} : g[j] = page.deployed[j]
  BY DEF ImgScreen
<1> HIDE DEF f, g
<1>4. k \in ImgScreen /\ k.mounted = page.mounted /\ k.deploying = f
  BY <1>2 DEF ImgScreen
<1> HIDE DEF k
<1> QED
  BY <1>1, <1>2, <1>3, <1>4 DEF ImgScreen

LEMMA ImgStarts == ASSUME BoundsAssumption, Images!Init PROVE ImgInv
<1>1. call = [c \in Two |-> Images!Finished("unused")] /\ page = Images!Mounted(FALSE)
  BY DEF Images!Init
<1>2. /\ call \in [Two -> ImgCall]
      /\ \A c \in Two : /\ ~Deploying(call[c]) /\ call[c].st = "unused"
                        /\ call[c].queued = {}
  BY <1>1, ImgFresh
<1>3. page \in ImgScreen /\ \A i \in Img : page.deploying[i] = FALSE /\ page.deployed[i] = {}
  BY <1>1, ImgFresh
<1>4. 0 \in 0..1
  BY SMT
<1>5. ImgTyped
  BY <1>2, <1>3, <1>4 DEF Images!Init, ImgTyped
<1>6. Flags
  BY <1>2, <1>3 DEF Flags
<1>7. Told
  BY <1>2, <1>3 DEF Images!Init, Told, Shown, Named
<1> QED
  BY <1>5, <1>6, <1>7 DEF ImgInv

\* a request ends, or none was: the flag of its image is cleared
LEMMA ImgEnds ==
    ASSUME BoundsAssumption, ImgInv, NEW c \in Two,
           Images!DeployDone(c) \/ Images!DeployFailed(c)
    PROVE  ImgInv'
<1>1. /\ page \in ImgScreen /\ call \in [Two -> ImgCall] /\ call[c] \in ImgCall
      /\ ImgTyped /\ Flags /\ Told
  BY DEF ImgInv, ImgTyped
<1>2. /\ Deploying(call[c]) /\ call' = [call EXCEPT ![c] = Images!Finished("done")]
      /\ UNCHANGED <<healthy, queue, list, faults>>
  BY <1>1 DEF Images!DeployDone, Images!DeployFailed, Images!Mine, Deploying, ImgCall
<1>3. /\ call' \in [Two -> ImgCall] /\ ~Deploying(call'[c]) /\ call'[c].st = "done"
      /\ \A d \in Two \ {c} : call'[d] = call[d]
  BY <1>1, <1>2, ImgFresh
<1> DEFINE i == call[c].img
<1>4. i \in Img /\ call[c].queued \in SUBSET ImgNode
  BY <1>1 DEF ImgCall
<1>5. /\ page' \in ImgScreen /\ page'.mounted = page.mounted /\ page'.deploying[i] = FALSE
      /\ \A j \in Img \ {i} : /\ page'.deploying[j] = page.deploying[j]
                              /\ page'.deployed[j] = page.deployed[j]
      /\ \/ page'.deployed[i] = page.deployed[i]
         \/ \A n \in ImgNode : n \in page'.deployed[i] <=> <<n, i, c>> \in queue
  <2>1. CASE Images!DeployDone(c)
    <3>1. page' = [page EXCEPT !.deploying = [page.deploying EXCEPT ![i] = FALSE],
                               !.deployed[i] = call[c].queued]
      BY <2>1 DEF Images!DeployDone, Images!Deploying
    <3>2. \A n \in ImgNode : n \in call[c].queued <=> <<n, i, c>> \in queue
      BY <1>1, <1>4, <2>1 DEF Images!DeployDone, Told, Named
    <3> HIDE DEF i
    <3>3. /\ page' \in ImgScreen /\ page'.mounted = page.mounted
          /\ page'.deploying[i] = FALSE /\ page'.deployed[i] = call[c].queued
          /\ \A j \in Img \ {i} : /\ page'.deploying[j] = page.deploying[j]
                                  /\ page'.deployed[j] = page.deployed[j]
      BY <1>1, <1>4, <3>1, ImgDeployed
    <3> QED
      BY <3>2, <3>3
  <2>2. CASE Images!DeployFailed(c)
    <3>1. page' = [page EXCEPT !.deploying = [page.deploying EXCEPT ![i] = FALSE]]
      BY <2>2 DEF Images!DeployFailed, Images!Deploying
    <3> HIDE DEF i
    <3> QED
      BY <1>1, <1>4, <3>1, ImgFlagged
  <2> QED
    BY <1>1, <2>1, <2>2
<1>6. ImgTyped'
  BY <1>1, <1>2, <1>3, <1>5 DEF ImgTyped
<1>7. Flags'
  <2>1. \A d \in Two \ {c} : Deploying(call[d]) => call[d].img # i
    BY <1>1, <1>2 DEF Flags
  <2> HIDE DEF i
  <2>2. \A j \in Img \ {i} :
          page'.deploying[j] = TRUE <=> \E d \in Two : Deploying(call'[d]) /\ call'[d].img = j
    <3>1. SUFFICES ASSUME NEW j \in Img \ {i}
                   PROVE  page'.deploying[j] = TRUE <=>
                            \E d \in Two : Deploying(call'[d]) /\ call'[d].img = j
      OBVIOUS
    <3>2. page.deploying[j] = TRUE <=>
            \E d \in Two : Deploying(call[d]) /\ call[d].img = j
      BY <1>1 DEF Flags
    <3>3. call[c].img # j
      BY DEF i
    <3> QED
      BY <1>3, <1>5, <3>2, <3>3
  <2>3. page'.deploying[i] = FALSE /\ \A d \in Two : Deploying(call'[d]) => call'[d].img # i
    BY <1>3, <1>5, <2>1
  <2>4. \A d, e \in Two :
          Deploying(call'[d]) /\ Deploying(call'[e]) /\ call'[d].img = call'[e].img => d = e
    BY <1>1, <1>3 DEF Flags
  <2> QED
    BY <1>4, <2>2, <2>3, <2>4 DEF Flags
<1>8. Told'
  <2> HIDE DEF i
  <2>1. \A d \in Two : Named(d, call[d])'
    BY <1>1, <1>2, <1>3 DEF Told, Named
  <2>2. ASSUME NEW j \in Img, page'.deployed[j] # {}
        PROVE  \E d \in Two : /\ call'[d].st = "done"
                              /\ \A n \in ImgNode :
                                   n \in page'.deployed[j] <=> <<n, j, d>> \in queue'
    <3>1. CASE page'.deployed[j] = page.deployed[j]
      <4>1. PICK d \in Two : /\ call[d].st = "done"
                             /\ \A n \in ImgNode :
                                  n \in page.deployed[j] <=> <<n, j, d>> \in queue
        BY <1>1, <2>2, <3>1 DEF Told, Shown
      <4>2. d # c
        BY <1>2, <4>1 DEF Deploying
      <4> QED
        BY <1>2, <1>3, <3>1, <4>1, <4>2
    <3>2. CASE page'.deployed[j] # page.deployed[j]
      <4>1. j = i
        BY <1>5, <3>2
      <4> QED
        BY <1>2, <1>3, <1>5, <3>2, <4>1
    <3> QED
      BY <3>1, <3>2
  <2> QED
    BY <2>1, <2>2 DEF Told, Shown
<1> QED
  BY <1>6, <1>7, <1>8 DEF ImgInv

LEMMA ImgSends ==
    ASSUME ImgInv, NEW i \in Img, Images!handleDeploy(i)
    PROVE  ImgInv'
<1> DEFINE k == Images!Request("sent", i, TRUE)
<1>1. /\ page \in ImgScreen /\ call \in [Two -> ImgCall]
      /\ ImgTyped /\ Flags /\ Told
  BY DEF ImgInv, ImgTyped
<1>2. PICK c \in Two : call[c].st = "unused" /\ call' = [call EXCEPT ![c] = k]
  BY DEF Images!handleDeploy
<1>3. /\ page.mounted = TRUE /\ page.deploying[i] = FALSE
      /\ page' = [page EXCEPT !.deploying = [page.deploying EXCEPT ![i] = TRUE]]
      /\ UNCHANGED <<healthy, queue, list, faults>>
  BY <1>1 DEF Images!handleDeploy, Images!CanDeploy, Images!View, ImgScreen
<1>4. /\ page' \in ImgScreen /\ page'.mounted = page.mounted
      /\ page'.deploying[i] = TRUE /\ page'.deployed = page.deployed
      /\ \A j \in Img \ {i} : page'.deploying[j] = page.deploying[j]
  BY <1>1, <1>3, ImgFlagged
<1>5. k \in ImgCall /\ Deploying(k) /\ k.img = i /\ k.st = "sent" /\ k.queued = {}
  BY DEF Images!Request, ImgCall, Deploying
<1> HIDE DEF k
<1>6. /\ call' \in [Two -> ImgCall] /\ call'[c] = k
      /\ \A d \in Two \ {c} : call'[d] = call[d]
  BY <1>1, <1>2, <1>5
<1>7. ImgTyped'
  BY <1>1, <1>3, <1>4, <1>6 DEF ImgTyped
<1>8. Flags'
  <2>1. \A d \in Two : Deploying(call[d]) => call[d].img # i
    BY <1>1, <1>3 DEF Flags
  <2>2. ~Deploying(call[c])
    BY <1>2 DEF Deploying
  <2> QED
    BY <1>1, <1>4, <1>5, <1>6, <2>1, <2>2 DEF Flags
<1>9. Named(c, k)' /\ \A d \in Two \ {c} : Named(d, call[d])'
  BY <1>1, <1>2, <1>3, <1>5, <1>6 DEF Told, Named
<1>10. Shown'
  BY <1>1, <1>2, <1>3, <1>4, <1>6 DEF Told, Shown
<1>11. Told'
  BY <1>6, <1>9, <1>10 DEF Told, Named
<1> QED
  BY <1>7, <1>8, <1>11 DEF ImgInv

\* a step of the handler of request c, which the page does not see
LEMMA ImgHandles ==
    ASSUME ImgInv, NEW c \in Two, call[c].st # "done",
           NEW k \in ImgCall, call' = [call EXCEPT ![c] = k],
           UNCHANGED <<healthy, page, list>>, faults' \in 0..1,
           Deploying(k) <=> Deploying(call[c]), Deploying(k) => k.img = call[c].img,
           queue' \subseteq ImgNode \X Img \X Two,
           \A n \in ImgNode, i \in Img, d \in Two \ {c} :
                <<n, i, d>> \in queue' <=> <<n, i, d>> \in queue,
           Named(c, k)'
    PROVE  ImgInv'
<1>1. /\ call \in [Two -> ImgCall] /\ ImgTyped /\ Flags /\ Told
  BY DEF ImgInv, ImgTyped
<1>2. /\ call' \in [Two -> ImgCall] /\ call'[c] = k
      /\ \A d \in Two \ {c} : call'[d] = call[d]
  BY <1>1
<1>3. ImgTyped'
  BY <1>1, <1>2 DEF ImgTyped
<1>4. Flags'
  BY <1>1, <1>2 DEF Flags
<1>5. \A d \in Two \ {c} : Named(d, call[d])'
  BY <1>1, <1>2 DEF Told, Named
<1>6. Shown'
  <2>1. ASSUME NEW i \in Img, page.deployed[i] # {}
        PROVE  \E d \in Two : /\ call'[d].st = "done"
                              /\ \A n \in ImgNode :
                                   n \in page.deployed[i] <=> <<n, i, d>> \in queue'
    <3>1. PICK d \in Two : /\ call[d].st = "done"
                           /\ \A n \in ImgNode :
                                n \in page.deployed[i] <=> <<n, i, d>> \in queue
      BY <1>1, <2>1 DEF Told, Shown
    <3>2. d \in Two \ {c}
      BY <3>1
    <3> QED
      BY <1>2, <3>1, <3>2
  <2> QED
    BY <2>1 DEF Shown
<1>7. Told'
  BY <1>2, <1>5, <1>6 DEF Told, Named
<1> QED
  BY <1>3, <1>4, <1>7 DEF ImgInv

\* an answer, which is no answer for a request of an earlier visit
LEMMA ImgAnswers ==
    ASSUME BoundsAssumption, ImgInv, NEW c \in Two, call[c].st \in {"sent", "loop"},
           NEW st \in {"ok", "err"}, NEW ns \in SUBSET ImgNode, Images!Answer(c, st, ns),
           UNCHANGED <<healthy, queue, page, list>>, faults' \in 0..1,
           st = "ok" => ns = call[c].queued
    PROVE  ImgInv'
<1>1. /\ call \in [Two -> ImgCall] /\ call[c] \in ImgCall /\ ImgTyped /\ Told
  BY DEF ImgInv, ImgTyped
<1>2. PICK k \in ImgCall : /\ call' = [call EXCEPT ![c] = k]
                           /\ Deploying(k) <=> Deploying(call[c])
                           /\ Deploying(k) => k.img = call[c].img
                           /\ k.st \in {"ok", "err", "done"}
                           /\ k.st = "ok" => k.queued = call[c].queued /\ k.img = call[c].img
  <2>1. CASE call[c].mine = TRUE
    <3> DEFINE k1 == [call[c] EXCEPT !.st = st]
               k == [k1 EXCEPT !.queued = ns]
    <3>1. call' = [call EXCEPT ![c] = k]
      BY <1>1, <2>1 DEF Images!Answer
    <3>2. k1 \in ImgCall /\ k1.st = st /\ k1.img = call[c].img /\ k1.mine = TRUE
      BY <1>1, <2>1 DEF ImgCall
    <3> HIDE DEF k1
    <3>3. k \in ImgCall /\ k.st = st /\ k.img = call[c].img /\ k.mine = TRUE /\ k.queued = ns
      BY <3>2 DEF ImgCall
    <3> HIDE DEF k
    <3> QED
      BY <2>1, <3>1, <3>3 DEF Deploying
  <2>2. CASE call[c].mine = FALSE
    <3>1. call' = [call EXCEPT ![c] = Images!Finished("done")]
      BY <1>1, <2>2 DEF Images!Answer
    <3> QED
      BY <2>2, <3>1, ImgFresh DEF Deploying
  <2> QED
    BY <1>1, <2>1, <2>2 DEF ImgCall
<1>3. Named(c, k)'
  BY <1>1, <1>2 DEF Told, Named
<1> QED
  BY <1>1, <1>2, <1>3, ImgHandles DEF ImgTyped

LEMMA ImgReads == ASSUME ImgInv, NEW c \in Two, Images!DeployRead(c) PROVE ImgInv'
<1>1. /\ call \in [Two -> ImgCall] /\ call[c] \in ImgCall /\ ImgTyped /\ Told
  BY DEF ImgInv, ImgTyped
<1> DEFINE k1 == [call[c] EXCEPT !.st = "loop"]
           k == [k1 EXCEPT !.nodes = healthy]
<1>2. /\ call[c].st = "sent" /\ call' = [call EXCEPT ![c] = k]
      /\ UNCHANGED <<healthy, queue, page, list, faults>>
  BY <1>1 DEF Images!DeployRead
<1>3. /\ k1 \in ImgCall /\ k1.st = "loop" /\ k1.img = call[c].img
      /\ k1.mine = call[c].mine /\ k1.queued = call[c].queued
  BY <1>1 DEF ImgCall
<1> HIDE DEF k1
<1>4. /\ k \in ImgCall /\ k.st = "loop" /\ k.img = call[c].img
      /\ k.mine = call[c].mine /\ k.queued = call[c].queued
  BY <1>1, <1>3 DEF ImgCall, ImgTyped
<1> HIDE DEF k
<1>5. PICK r \in ImgCall : r = k
  BY <1>4
<1>6. Deploying(r) <=> Deploying(call[c])
  BY <1>2, <1>4, <1>5 DEF Deploying
<1>7. Named(c, r)'
  BY <1>1, <1>2, <1>4, <1>5 DEF Told, Named
<1> QED
  BY <1>1, <1>2, <1>4, <1>5, <1>6, <1>7, ImgHandles DEF ImgTyped

\* a round of the loop: one more node in both
LEMMA ImgEnqueues == ASSUME ImgInv, NEW c \in Two, Images!DeployEnqueue(c) PROVE ImgInv'
<1>1. /\ call \in [Two -> ImgCall] /\ call[c] \in ImgCall /\ ImgTyped /\ Told
      /\ call[c].img \in Img /\ call[c].nodes \in SUBSET ImgNode
      /\ call[c].queued \in SUBSET ImgNode
  BY DEF ImgInv, ImgTyped, ImgCall
<1>2. PICK n \in ImgNode : /\ queue' = queue \cup {<<n, call[c].img, c>>}
                           /\ call' = [call EXCEPT ![c].queued = @ \cup {n}]
  BY <1>1 DEF Images!DeployEnqueue
<1> DEFINE k == [call[c] EXCEPT !.queued = call[c].queued \cup {n}]
<1>3. /\ call[c].st = "loop" /\ call' = [call EXCEPT ![c] = k]
      /\ UNCHANGED <<healthy, page, list, faults>>
  BY <1>1, <1>2 DEF Images!DeployEnqueue
<1>4. /\ k \in ImgCall /\ k.st = "loop" /\ k.img = call[c].img
      /\ k.mine = call[c].mine /\ k.queued = call[c].queued \cup {n}
  BY <1>1, <1>3 DEF ImgCall
<1> HIDE DEF k
<1>5. PICK r \in ImgCall : r = k
  BY <1>4
<1>6. Deploying(r) <=> Deploying(call[c])
  BY <1>3, <1>4, <1>5 DEF Deploying
<1>7. \A m \in ImgNode, i \in Img :
        <<m, i, c>> \in queue' <=> i = call[c].img /\ m \in call[c].queued \cup {n}
  BY <1>1, <1>2, <1>3 DEF Told, Named
<1>8. Named(c, r)'
  BY <1>4, <1>5, <1>7 DEF Named
<1>9. /\ queue' \subseteq ImgNode \X Img \X Two
      /\ \A m \in ImgNode, i \in Img, d \in Two \ {c} :
            <<m, i, d>> \in queue' <=> <<m, i, d>> \in queue
  BY <1>1, <1>2 DEF ImgTyped
<1>10. faults' \in 0..1
  BY <1>1, <1>3 DEF ImgTyped
<1> QED
  BY <1>3, <1>4, <1>5, <1>6, <1>8, <1>9, <1>10, ImgHandles

LEMMA ImgLeaves ==
    ASSUME BoundsAssumption, ImgInv, Images!Leave
    PROVE  ImgInv'
<1>1. ImgTyped /\ page' = Images!Mounted(FALSE) /\ UNCHANGED <<healthy, queue, faults>>
  BY DEF ImgInv, Images!Leave
<1>2. ASSUME NEW c \in Two
      PROVE  call'[c] \in ImgCall /\ ~Deploying(call'[c]) /\ Named(c, call[c])'
  <2>1. call[c] \in ImgCall
    BY <1>1 DEF ImgTyped
  <2>0. Named(c, call[c]) /\ queue' = queue
    BY <1>1 DEF ImgInv, Told
  <2>2. CASE call[c].st \in {"sent", "loop"}
    <3>1. call'[c] = [call[c] EXCEPT !.mine = FALSE]
      BY <2>2 DEF Images!Leave, Images!Pending
    <3>2. /\ call'[c] \in ImgCall /\ call'[c].mine = FALSE /\ call'[c].st = call[c].st
          /\ call'[c].img = call[c].img /\ call'[c].queued = call[c].queued
      BY <2>1, <3>1 DEF ImgCall
    <3> QED
      BY <2>0, <2>2, <3>2 DEF Deploying, Named
  <2>3. CASE call[c].st \in {"ok", "err"}
    <3>1. call'[c] = Images!Finished("done")
      BY <2>3 DEF Images!Leave, Images!Pending, Images!Answered
    <3>2. call'[c] \in ImgCall /\ ~Deploying(call'[c]) /\ call'[c].st = "done"
      BY <3>1, ImgFresh
    <3> QED
      BY <3>2 DEF Named
  <2>4. CASE call[c].st \notin {"sent", "loop", "ok", "err"}
    <3>1. call'[c] = call[c]
      BY <2>4 DEF Images!Leave, Images!Pending, Images!Answered
    <3> QED
      BY <2>0, <2>1, <2>4, <3>1 DEF Deploying, Named
  <2> QED
    BY <2>2, <2>3, <2>4
<1>3. call' = [c \in Two |-> call'[c]]
  BY DEF Images!Leave
<1>4. call' \in [Two -> ImgCall]
  BY <1>2, <1>3
<1>5. /\ page' \in ImgScreen
      /\ \A i \in Img : page'.deploying[i] = FALSE /\ page'.deployed[i] = {}
  BY <1>1, ImgFresh
<1>6. ImgTyped'
  BY <1>1, <1>4, <1>5 DEF ImgTyped, Images!Leave
<1> QED
  BY <1>2, <1>5, <1>6 DEF ImgInv, Flags, Told, Shown

LEMMA ImgStep ==
    ASSUME BoundsAssumption, ImgInv, [Images!Next]_(Images!vars)
    PROVE  ImgInv'
<1>0. /\ ImgTyped /\ Flags /\ Told /\ (Images!Fault => faults' \in 0..1)
      /\ page \in ImgScreen /\ call \in [Two -> ImgCall]
  BY SMT DEF ImgInv, ImgTyped, Images!Fault
<1>1. CASE UNCHANGED Images!vars
  BY <1>0, <1>1 DEF Images!vars, ImgInv, ImgTyped, Flags, Told, Shown, Named
<1>2. CASE Images!ListDone \/ Images!ListFailed
  <2>1. /\ page' \in ImgScreen /\ page'.mounted = page.mounted
        /\ page'.deploying = page.deploying /\ page'.deployed = page.deployed
    BY <1>0, <1>2, ImgListed DEF Images!ListDone, Images!ListFailed
  <2>2. UNCHANGED <<healthy, queue, call>> /\ list' = "idle" /\ faults' \in 0..1
    BY <1>0, <1>2 DEF Images!ListDone, Images!ListFailed, ImgTyped
  <2>3. ImgTyped'
    BY <1>0, <2>1, <2>2 DEF ImgTyped
  <2>4. Flags' /\ Told'
    BY <1>0, <2>1, <2>2 DEF Flags, Told, Shown, Named
  <2> QED
    BY <2>3, <2>4 DEF ImgInv
<1>3. CASE Images!Enter
  <2>1. /\ page.mounted = FALSE /\ page' = Images!Mounted(TRUE) /\ list' = "sent"
        /\ UNCHANGED <<healthy, queue, call, faults>>
    BY <1>0, <1>3 DEF Images!Enter, ImgScreen
  <2>2. /\ page' \in ImgScreen /\ page'.mounted = TRUE
        /\ \A i \in Img : page'.deploying[i] = FALSE /\ page'.deployed[i] = {}
    BY <2>1, ImgFresh DEF Images!Mounted
  <2>3. \A c \in Two : ~Deploying(call[c])
    BY <1>0, <2>1 DEF Flags, ImgTyped, ImgCall
  <2>4. ImgTyped'
    BY <1>0, <2>1, <2>2 DEF ImgTyped
  <2>5. Flags'
    BY <2>1, <2>2, <2>3 DEF Flags
  <2>6. Told'
    BY <1>0, <2>1, <2>2 DEF Told, Shown, Named
  <2> QED
    BY <2>4, <2>5, <2>6 DEF ImgInv
<1>4. ASSUME NEW n \in ImgNode, Images!HealthChanges(n) PROVE ImgInv'
  <2>1. healthy' \subseteq ImgNode /\ UNCHANGED <<queue, page, list, call, faults>>
    BY <1>0, <1>4 DEF Images!HealthChanges, ImgTyped
  <2> QED
    BY <1>0, <2>1 DEF ImgInv, ImgTyped, Flags, Told, Shown, Named
<1>5. ASSUME NEW c \in Two, Images!DeployReturns(c) PROVE ImgInv'
  <2>1. /\ call[c].st = "loop" /\ call[c].queued \in SUBSET ImgNode
        /\ UNCHANGED <<healthy, queue, page, list>>
    BY <1>0, <1>5 DEF Images!DeployReturns, ImgCall
  <2>2. CASE Images!Answer(c, "ok", Images!Told(c)) /\ UNCHANGED faults
    BY <1>0, <2>1, <2>2, ImgAnswers DEF Images!Told, ImgTyped
  <2>3. CASE Images!Answer(c, "err", {}) /\ Images!Fault
    BY <1>0, <2>1, <2>3, ImgAnswers
  <2> QED
    BY <1>5, <2>2, <2>3 DEF Images!DeployReturns
<1>6. ASSUME NEW c \in Two, Images!DeployRefused(c) PROVE ImgInv'
  <2>1. /\ call[c].st = "sent" /\ Images!Answer(c, "err", {})
        /\ UNCHANGED <<healthy, queue, page, list>> /\ faults' \in 0..1
    BY <1>0, <1>6 DEF Images!DeployRefused, ImgTyped
  <2> QED
    BY <1>0, <2>1, ImgAnswers DEF ImgTyped
<1> QED
  BY <1>1, <1>2, <1>3, <1>4, <1>5, <1>6, ImgSends, ImgEnds, ImgLeaves, ImgReads, ImgEnqueues
     DEF Images!Next, Images!Handle, Images!Respond

LEMMA ImgHolds ==
    ASSUME ImgInv
    PROVE  Images!TypeOK /\ Images!DeployingIsCall /\ Images!QueuedOn
<1>1. Images!TypeOK
  BY DEF ImgInv, ImgTyped, Images!TypeOK, ImgScreen, ImgCall, Images!Pending, Images!Answered
<1>2. ASSUME NEW i \in Img
      PROVE  /\ page.deploying[i] \in BOOLEAN
             /\ page.deploying[i] = TRUE <=>
                 \E c \in Two : /\ Images!Mine(c) /\ call[c].img = i
                                  /\ call[c].st \in Images!Pending \cup Images!Answered
  <2>1. page.deploying[i] \in BOOLEAN /\ \A c \in Two : call[c].mine \in BOOLEAN
    BY DEF ImgInv, ImgTyped, ImgScreen, ImgCall
  <2> QED
    BY <2>1 DEF ImgInv, Flags, Deploying, Images!Mine, Images!Pending, Images!Answered
<1>3. Images!DeployingIsCall
  BY <1>2 DEF Images!DeployingIsCall
<1>4. ASSUME NEW i \in Img, page.deployed[i] # {}
      PROVE  \E c \in Two : page.deployed[i] = Images!Enqueued(i, c)
  <2>1. PICK c \in Two : \A n \in ImgNode :
                             n \in page.deployed[i] <=> <<n, i, c>> \in queue
    BY <1>4 DEF ImgInv, Told, Shown
  <2>2. page.deployed[i] \in SUBSET ImgNode
    BY DEF ImgInv, ImgTyped, ImgScreen
  <2> QED
    BY <2>1, <2>2 DEF Images!Enqueued
<1> QED
  BY <1>1, <1>3, <1>4 DEF Images!QueuedOn

----------------------------------------------------------------------------
(* DashboardPage, HealthGate and DemoInstances.                            *)

DashScreen == [mounted : BOOLEAN, shown : Dashboard!Answers, loading : BOOLEAN,
               error : BOOLEAN]
DashRound == [sent : BOOLEAN, got : Dashboard!Answers]

LEMMA DashFresh ==
    /\ Dashboard!Idle \in DashRound
    /\ Dashboard!Mounted(TRUE) \in DashScreen /\ Dashboard!Mounted(FALSE) \in DashScreen
BY DEF Dashboard!Idle, Dashboard!Nothing, Dashboard!Answers, DashRound, Dashboard!Mounted,
       DashScreen

LEMMA DashStarts == ASSUME BoundsAssumption, Dashboard!Init PROVE Dashboard!TypeOK
<1>1. 0 \in Dashboard!Version /\ 0 \in 0..1
  BY SMT DEF BoundsAssumption, Dashboard!DashboardAssumption, Dashboard!Version
<1> QED
  BY <1>1, DashFresh DEF Dashboard!Init, Dashboard!TypeOK, DashScreen, DashRound

\* a round that is put in the place of another
LEMMA DashRounds ==
    ASSUME round \in [Two -> DashRound], NEW l \in Two, NEW k \in DashRound,
           round' = [round EXCEPT ![l] = k]
    PROVE  round' \in [Two -> DashRound]
OBVIOUS

LEMMA DashLoads ==
    ASSUME round \in [Two -> DashRound], Dashboard!load
    PROVE  round' \in [Two -> DashRound]
<1>1. PICK l \in Two : round' = [round EXCEPT ![l].sent = TRUE]
  BY DEF Dashboard!load
<1>2. [round[l] EXCEPT !.sent = TRUE] \in DashRound
  BY DEF DashRound
<1> QED
  BY <1>1, <1>2

LEMMA DashStep ==
    ASSUME BoundsAssumption, Dashboard!TypeOK, [Dashboard!Next]_(Dashboard!vars)
    PROVE  Dashboard!TypeOK'
<1> DEFINE Typed == /\ table \in [Dashboard!Table -> Dashboard!Version]
                    /\ page \in DashScreen /\ round \in [Two -> DashRound]
                    /\ faults \in 0..1
<1>0. Typed /\ (Typed' => Dashboard!TypeOK')
  BY DEF Dashboard!TypeOK, DashScreen, DashRound
<1> SUFFICES Typed'
  BY <1>0
<1>1. CASE UNCHANGED Dashboard!vars
  BY <1>0, <1>1 DEF Dashboard!vars
<1>2. ASSUME NEW l \in Two, Dashboard!LoadDone(l) PROVE Typed'
  <2> DEFINE k == [page EXCEPT !.shown = round[l].got]
  <2>1. page' = [k EXCEPT !.loading = FALSE]
    BY <1>2 DEF Dashboard!LoadDone
  <2>2. k \in DashScreen
    BY <1>0 DEF DashScreen, DashRound
  <2> HIDE DEF k
  <2>3. page' \in DashScreen
    BY <2>1, <2>2 DEF DashScreen
  <2> QED
    BY <1>0, <1>2, <2>3, DashFresh DEF Dashboard!LoadDone
<1>3. ASSUME NEW l \in Two, Dashboard!LoadFailed(l) PROVE Typed'
  <2> DEFINE k == [page EXCEPT !.error = TRUE]
  <2>1. page' = [k EXCEPT !.loading = FALSE]
    BY <1>3 DEF Dashboard!LoadFailed
  <2>2. k \in DashScreen
    BY <1>0 DEF DashScreen
  <2> HIDE DEF k
  <2>3. page' \in DashScreen
    BY <2>1, <2>2 DEF DashScreen
  <2>4. faults' \in 0..1
    BY <1>0, <1>3, SMT DEF Dashboard!LoadFailed
  <2> QED
    BY <1>0, <1>3, <2>3, <2>4, DashFresh DEF Dashboard!LoadFailed
<1>4. ASSUME NEW l \in Two, NEW t \in Dashboard!Table, Dashboard!Read(l, t) PROVE Typed'
  <2> DEFINE g == [round[l].got EXCEPT ![t] = table[t]]
             k == [round[l] EXCEPT !.got = g]
  <2>1. round[l] \in DashRound /\ table[t] \in Dashboard!Version
    BY <1>0
  <2>2. g \in Dashboard!Answers
    BY <2>1 DEF DashRound, Dashboard!Answers
  <2>3. round' = [round EXCEPT ![l] = k]
    BY <1>0, <1>4 DEF Dashboard!Read
  <2> HIDE DEF g
  <2>4. k \in DashRound
    BY <2>1, <2>2 DEF DashRound
  <2> HIDE DEF k
  <2> QED
    BY <1>0, <1>4, <2>3, <2>4, DashRounds DEF Dashboard!Read
<1>5. ASSUME NEW t \in Dashboard!Table, Dashboard!Change(t) PROVE Typed'
  <2>1. table[t] \in 0..MaxChange /\ table[t] < MaxChange
    BY <1>0, <1>5 DEF Dashboard!Change, Dashboard!Version
  <2>2. table[t] + 1 \in Dashboard!Version
    BY <2>1, SMT DEF BoundsAssumption, Dashboard!DashboardAssumption, Dashboard!Version
  <2> QED
    BY <1>0, <1>5, <2>2 DEF Dashboard!Change
<1>6. CASE Dashboard!Tick \/ Dashboard!Enter
  BY <1>0, <1>6, DashLoads, DashFresh DEF Dashboard!Tick, Dashboard!Enter
<1>7. CASE Dashboard!Leave
  BY <1>0, <1>7, DashFresh DEF Dashboard!Leave
<1> HIDE DEF Typed
<1> QED
  BY <1>1, <1>2, <1>3, <1>4, <1>5, <1>6, <1>7 DEF Dashboard!Next

LEMMA StartStarts == ASSUME BoundsAssumption, Start!Init PROVE Start!TypeOK
<1>1. 0 \in 0..Messages - 1 /\ 0 \in 0..3
  BY SMT DEF BoundsAssumption, Start!MessagesAssumption
<1> QED
  BY <1>1 DEF Start!Init, Start!TypeOK

LEMMA StartStep ==
    ASSUME BoundsAssumption, Start!TypeOK, [Start!Next]_(Start!vars)
    PROVE  Start!TypeOK'
<1> USE DEF Start!TypeOK
<1>0. Messages \in Nat \ {0}
  BY DEF BoundsAssumption, Start!MessagesAssumption
<1>1. CASE Start!Mount
  BY <1>1 DEF Start!Mount, Start!Cleanup
<1>2. CASE Start!Message
  <2>1. gate.msgIndex \in Nat
    BY <1>0, SMT
  <2>2. Start!NextMessage(gate.msgIndex) \in 0..Messages - 1
    BY <1>0, <2>1, SMT DEF Start!NextMessage
  <2>3. gate' = [gate EXCEPT !.msgIndex = Start!NextMessage(gate.msgIndex)]
    BY <1>2 DEF Start!Message
  <2> QED
    BY <1>2, <2>2, <2>3 DEF Start!Message
<1>3. CASE Start!Dots
  <2> DEFINE n == IF gate.dots >= 3 THEN 0 ELSE gate.dots + 1
  <2>1. gate.dots \in 0..3
    OBVIOUS
  <2>2. n \in 0..3
    BY <2>1, SMT
  <2>3. gate' = [gate EXCEPT !.dots = n]
    BY <1>3 DEF Start!Dots
  <2> HIDE DEF n
  <2> QED
    BY <1>3, <2>2, <2>3 DEF Start!Dots
<1>4. ASSUME NEW p \in Start!Poll, Start!Open(p) PROVE Start!TypeOK'
  <2>1. gate' \in [ready : BOOLEAN, msgIndex : 0..Messages - 1, dots : 0..3]
    BY <1>4 DEF Start!Open
  <2> QED
    BY <1>4, <2>1 DEF Start!Open
<1>5. ASSUME NEW p \in Start!Poll, Start!Answer(p) \/ Start!Refused(p) \/ Start!Again(p)
      PROVE  Start!TypeOK'
  BY <1>5 DEF Start!Answer, Start!Refused, Start!AfterRefusal, Start!Again
<1>6. CASE Start!Flip
  BY <1>6 DEF Start!Flip
<1>7. CASE UNCHANGED Start!vars
  BY <1>7 DEF Start!vars
<1> QED
  BY <1>1, <1>2, <1>3, <1>4, <1>5, <1>6, <1>7 DEF Start!Next

DemoRow == {Demo!NoRow} \cup [status : Demo!Status, ip : {"none", "some"}]

LEMMA DemoFresh ==
    /\ Demo!initialInstances \in [Demo!Id -> DemoRow]
    /\ Demo!AllRows \in [filter : Demo!Filters, search : Demo!Terms]
    /\ Demo!Closed \in [open : BOOLEAN, named : BOOLEAN]
    /\ Demo!newVm \in DemoRow
    /\ \A s \in Demo!Status, a \in {"none", "some"} : Demo!Row(s, a) \in DemoRow
BY DEF Demo!initialInstances, DemoRow, Demo!Row, Demo!Status, Demo!AllRows, Demo!Filters,
       Demo!Terms, Demo!Closed, Demo!newVm

LEMMA DemoStarts == ASSUME Demo!Init PROVE Demo!TypeOK
BY DemoFresh DEF Demo!Init, Demo!TypeOK, DemoRow

LEMMA DemoStep ==
    ASSUME Demo!TypeOK, [Demo!Next]_(Demo!vars)
    PROVE  Demo!TypeOK'
<1> DEFINE Typed == /\ vms \in [Demo!Id -> DemoRow]
                    /\ booting \subseteq made /\ made \subseteq New
                    /\ tools \in [filter : Demo!Filters, search : Demo!Terms]
                    /\ modal \in [open : BOOLEAN, named : BOOLEAN]
                    /\ mounted \in BOOLEAN
<1>0. Typed /\ (Typed' => Demo!TypeOK')
  BY DEF Demo!TypeOK, DemoRow
<1> SUFFICES Typed'
  BY <1>0
<1>a. \A s \in {"running", "stopped"}, a \in {"none", "some"} : Demo!Row(s, a) \in DemoRow
  BY DemoFresh DEF Demo!Status
<1>1. CASE UNCHANGED Demo!vars
  BY <1>0, <1>1 DEF Demo!vars
<1>2. ASSUME NEW i \in Demo!Id, Demo!toggleStatus(i) PROVE Typed'
  <2>1. Demo!toggled(vms[i]) \in DemoRow
    BY <1>a DEF Demo!toggled
  <2> QED
    BY <1>0, <1>2, <2>1 DEF Demo!toggleStatus
<1>3. ASSUME NEW i \in Demo!Id, Demo!deleteVm(i) PROVE Typed'
  BY <1>0, <1>3 DEF Demo!deleteVm, DemoRow
<1>4. ASSUME NEW i \in New, Demo!Boot(i) PROVE Typed'
  <2>1. vms' \in [Demo!Id -> DemoRow]
    BY <1>0, <1>a, <1>4 DEF Demo!Boot, Demo!Booted
  <2> QED
    BY <1>0, <1>4, <2>1 DEF Demo!Boot
<1>5. ASSUME NEW term \in Demo!Terms, Demo!Search(term) PROVE Typed'
  BY <1>0, <1>5 DEF Demo!Search
<1>6. ASSUME NEW status \in Demo!Filters, Demo!Filter(status) PROVE Typed'
  BY <1>0, <1>6 DEF Demo!Filter
<1>7. ASSUME NEW named \in BOOLEAN, Demo!Edit(named) PROVE Typed'
  BY <1>0, <1>7 DEF Demo!Edit
<1>8. CASE Demo!ToggleModal
  BY <1>0, <1>8 DEF Demo!ToggleModal
<1>9. CASE Demo!createVm
  <2>1. PICK i \in New \ made :
          /\ vms' = [vms EXCEPT ![i] = Demo!newVm]
          /\ made' = made \cup {i} /\ booting' = booting \cup {i}
    BY <1>9 DEF Demo!createVm, Demo!Timer
  <2>2. vms' \in [Demo!Id -> DemoRow]
    BY <1>0, <2>1, DemoFresh
  <2>3. modal' \in [open : BOOLEAN, named : BOOLEAN] /\ UNCHANGED <<tools, mounted>>
    BY <1>9, DemoFresh DEF Demo!createVm
  <2> QED
    BY <1>0, <2>1, <2>2, <2>3
<1>10. CASE Demo!Enter
  BY <1>0, <1>10 DEF Demo!Enter
<1>11. CASE Demo!Leave
  BY <1>0, <1>11, DemoFresh DEF Demo!Leave
<1> HIDE DEF Typed
<1> QED
  BY <1>1, <1>2, <1>3, <1>4, <1>5, <1>6, <1>7, <1>8, <1>9, <1>10, <1>11 DEF Demo!Next

\* a button is there only for a row, a timer keeps a row that is gone gone, a
\* create takes a name of its own, and the mock data have none of those names
LEMMA DemoGone ==
    ASSUME BoundsAssumption, Demo!TypeOK, [Demo!Next]_(Demo!vars)
    PROVE  Demo!DeletedStaysDeletedStep
<1> SUFFICES ASSUME NEW i \in made, vms[i] = Demo!NoRow PROVE vms'[i] = Demo!NoRow
  BY DEF Demo!DeletedStaysDeletedStep
<1>0. /\ i \in New /\ i \in Demo!Id /\ i \notin Running \cup Stopped
      /\ DOMAIN vms = Demo!Id /\ vms = [j \in Demo!Id |-> vms[j]]
  BY DEF Demo!TypeOK, Demo!Id, BoundsAssumption, Demo!DemoAssumption
<1>1. CASE UNCHANGED vms
  BY <1>1
<1>2. ASSUME NEW j \in Demo!Id, Demo!toggleStatus(j) \/ Demo!deleteVm(j)
      PROVE  vms'[i] = Demo!NoRow
  <2>1. j # i
    BY <1>2 DEF Demo!toggleStatus, Demo!deleteVm, Demo!filtered
  <2> QED
    BY <1>0, <1>2, <2>1 DEF Demo!toggleStatus, Demo!deleteVm
<1>3. ASSUME NEW j \in New, Demo!Boot(j) PROVE vms'[i] = Demo!NoRow
  BY <1>0, <1>3 DEF Demo!Boot, Demo!Booted
<1>4. CASE Demo!createVm
  <2>1. PICK j \in New \ made : vms' = [vms EXCEPT ![j] = Demo!newVm]
    BY <1>4 DEF Demo!createVm
  <2> QED
    BY <1>0, <2>1
<1>5. CASE Demo!Leave
  BY <1>0, <1>5 DEF Demo!Leave, Demo!initialInstances
<1> QED
  BY <1>1, <1>2, <1>3, <1>4, <1>5
     DEF Demo!Next, Demo!vars, Demo!Search, Demo!Filter, Demo!Edit, Demo!ToggleModal, Demo!Enter

----------------------------------------------------------------------------
(* The parts side by side.                                                 *)

Inv ==
    /\ open = "nodes" => Nodes!TypeOK
    /\ open = "network" => NetInv
    /\ open = "images" => ImgInv
    /\ open = "dashboard" => Dashboard!TypeOK
    /\ open = "start" => Start!TypeOK
    /\ open = "demo" => Demo!TypeOK

\* every step is one of the part that is open
LEMMA PartSteps ==
    ASSUME [Next]_vars
    PROVE  /\ open' = open
           /\ open = "nodes" => [Nodes!Next]_(Nodes!vars)
           /\ open = "network" => [Network!Next]_(Network!vars)
           /\ open = "images" => [Images!Next]_(Images!vars)
           /\ open = "dashboard" => [Dashboard!Next]_(Dashboard!vars)
           /\ open = "start" => [Start!Next]_(Start!vars)
           /\ open = "demo" => [Demo!Next]_(Demo!vars)
<1>1. CASE Next
  BY <1>1 DEF Next
<1>2. CASE UNCHANGED vars
  BY <1>2 DEF vars, nodes, network, images, dashboard, start, demo, Nodes!vars, Network!vars,
              Images!vars, Dashboard!vars, Start!vars, Demo!vars
<1> QED
  BY <1>1, <1>2

LEMMA InvInit == Init => Inv
BY BoundsAssumption, NodesStarts, NetStarts, ImgStarts, DashStarts, StartStarts, DemoStarts
   DEF Init, Inv

LEMMA InvNext == Inv /\ [Next]_vars => Inv'
<1> SUFFICES ASSUME Inv, [Next]_vars PROVE Inv'
  OBVIOUS
<1>1. (open = "nodes" => Nodes!TypeOK)'
  BY PartSteps, BoundsAssumption, NodesStep DEF Inv
<1>2. (open = "network" => NetInv)'
  BY PartSteps, BoundsAssumption, NetStep DEF Inv
<1>3. (open = "images" => ImgInv)'
  BY PartSteps, BoundsAssumption, ImgStep DEF Inv
<1>4. (open = "dashboard" => Dashboard!TypeOK)'
  BY PartSteps, BoundsAssumption, DashStep DEF Inv
<1>5. (open = "start" => Start!TypeOK)'
  BY PartSteps, BoundsAssumption, StartStep DEF Inv
<1>6. (open = "demo" => Demo!TypeOK)'
  BY PartSteps, DemoStep DEF Inv
<1> QED
  BY <1>1, <1>2, <1>3, <1>4, <1>5, <1>6 DEF Inv

(***************************************************************************)
(* Every page keeps its values in their types: no VPC an instance refers   *)
(* to is deleted from under it, the message the gate shows is always one   *)
(* of its list (the modulo of HealthGate.tsx), and no timer of the demo    *)
(* runs for an instance this visit has not created.                        *)
(***************************************************************************)
THEOREM TypeCorrect == Spec => []TypeOK
<1>1. Inv => TypeOK
  BY NetHolds, ImgHolds DEF Inv, TypeOK
<1> QED
  BY <1>1, InvInit, InvNext, PTL DEF Spec

(***************************************************************************)
(* The button that creates a VPC is disabled exactly while a create of     *)
(* this visit is under way (Network.tsx, handleCreate and its finally),    *)
(* for any number of VPCs and requests, whatever lists come meanwhile and  *)
(* with creates of earlier visits still on their way.                      *)
(***************************************************************************)
THEOREM CreatingIsACreate == Spec => []CreatingIsCreate
<1>1. Inv => CreatingIsCreate
  BY NetHolds DEF Inv, CreatingIsCreate
<1> QED
  BY <1>1, InvInit, InvNext, PTL DEF Spec

(***************************************************************************)
(* The flag of an image is set exactly while a deploy of it is under way   *)
(* (Images.tsx, the functional updates of handleDeploy), for any number of *)
(* images and of deploys whose answers come in any order.                  *)
(***************************************************************************)
THEOREM DeployingIsACall == Spec => []DeployingIsCall
<1>1. Inv => DeployingIsCall
  BY ImgHolds DEF Inv, DeployingIsCall
<1> QED
  BY <1>1, InvInit, InvNext, PTL DEF Spec

(***************************************************************************)
(* Queued on: the nodes the page names for an image are those that one of  *)
(* its deploys, and it alone, enqueued a download of it for (image.go,     *)
(* Deploy: one query, then a loop), for any nodes, images and requests,    *)
(* and however health changes between the query, the rounds of the loop,   *)
(* the answer and the page.                                                *)
(***************************************************************************)
THEOREM NamedWasQueued == Spec => []QueuedOn
<1>1. Inv => QueuedOn
  BY ImgHolds DEF Inv, QueuedOn
<1> QED
  BY <1>1, InvInit, InvNext, PTL DEF Spec

(***************************************************************************)
(* A demo instance deleted while it boots does not come back, neither when *)
(* its timer fires (pages/Instances.tsx, prev.map) nor by another step,    *)
(* for any mock data and any number of created instances.                  *)
(***************************************************************************)
THEOREM DeletedForGood == Spec => DeletedStaysDeleted
<1>1. Inv /\ [Next]_vars => [open = "demo" => Demo!DeletedStaysDeletedStep]_vars
  BY PartSteps, BoundsAssumption, DemoGone DEF Inv
<1> QED
  BY <1>1, InvInit, InvNext, PTL DEF Spec, DeletedStaysDeleted

=============================================================================
