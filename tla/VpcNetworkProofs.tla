-------------------------- MODULE VpcNetworkProofs --------------------------
(***************************************************************************)
(* Proofs about VpcNetwork, for any number of calls, of VPCs and of faults:*)
(* what a CreateVPC that reports success leaves on the node, in any overlap*)
(* of calls; how many rules there can be; and what a DeleteVPC leaves when *)
(* calls follow one another.                                               *)
(*                                                                         *)
(* The argument for creates: ip link add succeeds for one call at a time,  *)
(* and the call it succeeded for is the only one that can take the bridge  *)
(* down again, until it has ended.  A call whose ip link add failed ends   *)
(* at once.                                                                *)
(*                                                                         *)
(* The argument for deletes: as long as no iptables -D of a VPC has failed,*)
(* a rule is only ever there with a bridge, and with a bridge no other call*)
(* gets as far as adding a second rule, so the one rule a delete removes   *)
(* is the last.                                                            *)
(***************************************************************************)
EXTENDS VpcNetwork, FiniteSetTheorems, TLAPS

\* the commands each call can stand at
CreateAt == {"add", "up", "addr", "forward", "netns", "check", "append",
             "netnsdel", "undo", "del"}
EnsureAt == {"show", "add", "up", "addr", "forward", "check", "append"}
DeleteAt == {"ruledel", "netnsdel", "down", "del"}

Stands(k) ==
    \/ k.pc \in Final \cup {"unused"}
    \/ k.op = "create" /\ k.pc \in CreateAt
    \/ k.op = "ensure" /\ k.pc \in EnsureAt
    \/ k.op = "delete" /\ k.pc \in DeleteAt

Links == {{}} \cup {l \in SUBSET Whole : "link" \in l}

TInv ==
    /\ link \in [Vpc -> Links]
    /\ netns \subseteq Vpc
    /\ rules \in [Vpc -> Nat]
    /\ task \in [Task -> [op : Op, vpc : Vpc, pc : Pc]]
    /\ \A t \in Task : Stands(task[t])

Ended == {t \in Task : task[t].pc \in Final}

\* the call has added the bridge and not ended: nobody else has
Holding == {"up", "addr", "forward", "netns", "check", "append",
            "netnsdel", "undo", "del"}
Holds(t) == task[t].pc \in Holding

\* what a call of v that has added the bridge can rely on when it stands at pc, of
\* the bridge l and the namespaces ns
SoundAt(op, pc, v, l, ns) ==
    /\ l # {}
    /\ pc = "addr" => "up" \in l
    /\ pc \in {"forward", "netns", "check", "append"} => l = Whole
    /\ op = "create" /\ pc \in {"check", "append"} => v \in ns

Sound(t) ==
    SoundAt(task[t].op, task[t].pc, task[t].vpc, link[task[t].vpc], netns)

Alone(t) == \A u \in Task : Holds(u) /\ task[u].vpc = task[t].vpc => u = t

Undeleted(v) ==
    \A t \in Task : task[t].pc # "unused" /\ task[t].op = "delete" => task[t].vpc # v

HoldInv ==
    \A t \in Task :
        Holds(t) /\ Undeleted(task[t].vpc) => Sound(t) /\ Alone(t)

Inv == TInv /\ HoldInv

----------------------------------------------------------------------------
(* The sequences, command by command.                                      *)

LEMMA CreateRuns ==
    /\ NextPc("create", "add") = "up" /\ NextPc("create", "up") = "addr"
    /\ NextPc("create", "addr") = "forward" /\ NextPc("create", "forward") = "netns"
    /\ NextPc("create", "netns") = "check" /\ NextPc("create", "check") = "ok"
    /\ NextPc("create", "append") = "ok" /\ NextPc("create", "netnsdel") = "undo"
    /\ NextPc("create", "undo") = "del" /\ NextPc("create", "del") = "failed"
BY SMT DEF NextPc, CreatePc, BridgePc, MasqueradePc

LEMMA EnsureRuns ==
    /\ NextPc("ensure", "show") = "ok" /\ NextPc("ensure", "add") = "up"
    /\ NextPc("ensure", "up") = "addr" /\ NextPc("ensure", "addr") = "forward"
    /\ NextPc("ensure", "forward") = "check" /\ NextPc("ensure", "check") = "ok"
    /\ NextPc("ensure", "append") = "ok"
BY SMT DEF NextPc, EnsurePc, BridgePc, MasqueradePc

LEMMA DeleteRuns ==
    /\ NextPc("delete", "ruledel") = "netnsdel" /\ NextPc("delete", "netnsdel") = "down"
    /\ NextPc("delete", "down") = "del" /\ NextPc("delete", "del") = "ok"
BY SMT DEF NextPc, DeletePc

LEMMA CreateFails ==
    /\ ErrorPc("create", "add") = "failed" /\ ErrorPc("create", "up") = "failed"
    /\ ErrorPc("create", "addr") = "failed" /\ ErrorPc("create", "forward") = "undo"
    /\ ErrorPc("create", "netns") = "undo" /\ ErrorPc("create", "check") = "append"
    /\ ErrorPc("create", "append") = "netnsdel" /\ ErrorPc("create", "netnsdel") = "undo"
    /\ ErrorPc("create", "undo") = "del" /\ ErrorPc("create", "del") = "failed"
BY SMT DEF ErrorPc, CreateErrorPc

LEMMA EnsureFails ==
    /\ ErrorPc("ensure", "show") = "add" /\ ErrorPc("ensure", "add") = "failed"
    /\ ErrorPc("ensure", "up") = "failed" /\ ErrorPc("ensure", "addr") = "failed"
    /\ ErrorPc("ensure", "forward") = "check" /\ ErrorPc("ensure", "check") = "append"
    /\ ErrorPc("ensure", "append") = "ok"
BY SMT DEF ErrorPc, EnsureErrorPc

LEMMA DeleteFails ==
    /\ ErrorPc("delete", "ruledel") = "netnsdel" /\ ErrorPc("delete", "netnsdel") = "down"
    /\ ErrorPc("delete", "down") = "del" /\ ErrorPc("delete", "del") = "failed"
BY SMT DEF ErrorPc, DeletePc

\* the next command is one of the same call
LEMMA NextStands ==
    ASSUME NEW op \in Op, NEW v \in Vpc, NEW pc, pc \notin Final \cup {"unused"},
           Stands([op |-> op, vpc |-> v, pc |-> pc])
    PROVE  /\ NextPc(op, pc) \in Pc \ {"unused"} /\ ErrorPc(op, pc) \in Pc \ {"unused"}
           /\ Stands([op |-> op, vpc |-> v, pc |-> NextPc(op, pc)])
           /\ Stands([op |-> op, vpc |-> v, pc |-> ErrorPc(op, pc)])
<1>1. CASE op = "create" /\ pc \in CreateAt
  BY <1>1, CreateRuns, CreateFails, SMT DEF CreateAt, Stands, Pc, Final
<1>2. CASE op = "ensure" /\ pc \in EnsureAt
  BY <1>2, EnsureRuns, EnsureFails, SMT DEF EnsureAt, Stands, Pc, Final
<1>3. CASE op = "delete" /\ pc \in DeleteAt
  BY <1>3, DeleteRuns, DeleteFails, SMT DEF DeleteAt, Stands, Pc, Final
<1> QED
  BY <1>1, <1>2, <1>3 DEF Stands

LEMMA CallStands ==
    ASSUME NEW op, NEW v, NEW pc, pc \notin Final \cup {"unused"}, op # "delete",
           Stands([op |-> op, vpc |-> v, pc |-> pc])
    PROVE  (op = "create" /\ pc \in CreateAt) \/ (op = "ensure" /\ pc \in EnsureAt)
<1> DEFINE k == [op |-> op, vpc |-> v, pc |-> pc]
<1>1. k.op = op /\ k.pc = pc /\ Stands(k)
  OBVIOUS
<1> HIDE DEF k
<1> QED
  BY <1>1 DEF Stands

LEMMA BridgeTyped ==
    ASSUME NEW pc, NEW l \in Links, pc \in {"up", "addr"} => l # {}
    PROVE  Bridge(pc, l) \in Links
<1>1. CASE pc = "add"
  BY <1>1 DEF Bridge, Links, Whole
<1>2. CASE pc = "up"
  BY <1>2 DEF Bridge, Links, Whole
<1>3. CASE pc = "addr"
  BY <1>3 DEF Bridge, Links, Whole
<1>4. CASE pc \in {"down", "undo"}
  <2>1. Bridge(pc, l) = l \ {"up"}
    BY <1>4, SMT DEF Bridge
  <2> QED
    BY <2>1 DEF Links, Whole
<1>5. CASE pc = "del"
  BY <1>5 DEF Bridge, Links
<1>6. CASE pc \notin {"add", "up", "addr", "down", "undo", "del"}
  BY <1>6 DEF Bridge
<1> QED
  BY <1>1, <1>2, <1>3, <1>4, <1>5, <1>6

----------------------------------------------------------------------------
(* Types.                                                                  *)

\* what a command that went well leaves, on its VPC and on the others
LEMMA RunStep ==
    ASSUME Inv, NEW t \in Task, Run(t), NEW v, v = task[t].vpc,
           NEW pc, pc = task[t].pc, NEW op, op = task[t].op
    PROVE  /\ v \in Vpc /\ op \in Op /\ pc \notin Final \cup {"unused"}
           /\ Stands([op |-> op, vpc |-> v, pc |-> pc])
           /\ Possible(pc, v)
           /\ task'[t] = [op |-> op, vpc |-> v, pc |-> NextPc(op, pc)]
           /\ \A u \in Task \ {t} : task'[u] = task[u]
           /\ link'[v] = Bridge(pc, link[v]) /\ rules'[v] = Rules(pc, rules[v])
           /\ \A w \in Vpc \ {v} : /\ link'[w] = link[w] /\ rules'[w] = rules[w]
                                   /\ w \in netns' <=> w \in netns
           /\ v \in netns' <=> pc = "netns" \/ (v \in netns /\ pc # "netnsdel")
<1>1. task[t] \in [op : Op, vpc : Vpc, pc : Pc] /\ Stands(task[t])
  BY DEF Inv, TInv
<1>2. task[t] = [op |-> op, vpc |-> v, pc |-> pc]
  BY <1>1
<1>3. Effect(pc, v) /\ Possible(pc, v) /\ pc \notin Final \cup {"unused"}
  BY DEF Run, Active
<1>4. task' = [task EXCEPT ![t].pc = NextPc(op, pc)]
  BY DEF Run
<1>5. /\ task'[t] = [op |-> op, vpc |-> v, pc |-> NextPc(op, pc)]
      /\ \A u \in Task \ {t} : task'[u] = task[u]
  BY <1>2, <1>4, SMT DEF Inv, TInv
<1>6. /\ link'[v] = Bridge(pc, link[v]) /\ rules'[v] = Rules(pc, rules[v])
      /\ \A w \in Vpc \ {v} : link'[w] = link[w] /\ rules'[w] = rules[w]
  BY <1>1, <1>3 DEF Effect, Inv, TInv
<1>7. /\ v \in netns' <=> pc = "netns" \/ (v \in netns /\ pc # "netnsdel")
      /\ \A w \in Vpc \ {v} : w \in netns' <=> w \in netns
  BY <1>1, <1>3 DEF Effect
<1> QED
  BY <1>1, <1>2, <1>3, <1>5, <1>6, <1>7

LEMMA RunTypes ==
    ASSUME Inv, NEW t \in Task, Run(t)
    PROVE  TInv'
<1> DEFINE v == task[t].vpc
           pc == task[t].pc
           op == task[t].op
<1>0. /\ v \in Vpc /\ op \in Op /\ pc \notin Final \cup {"unused"}
      /\ Stands([op |-> op, vpc |-> v, pc |-> pc]) /\ Possible(pc, v)
      /\ task'[t] = [op |-> op, vpc |-> v, pc |-> NextPc(op, pc)]
      /\ \A u \in Task \ {t} : task'[u] = task[u]
  BY RunStep
<1>1. Effect(pc, v) /\ task' = [task EXCEPT ![t].pc = NextPc(op, pc)]
  BY DEF Run
<1>t. /\ link \in [Vpc -> Links] /\ rules \in [Vpc -> Nat] /\ netns \subseteq Vpc
      /\ task \in [Task -> [op : Op, vpc : Vpc, pc : Pc]]
      /\ \A u \in Task : Stands(task[u])
  BY DEF Inv, TInv
<1> HIDE DEF v, pc, op
<1>2. link' \in [Vpc -> Links]
  <2>1. Bridge(pc, link[v]) \in Links
    BY <1>0, <1>t, BridgeTyped DEF Possible
  <2> QED
    BY <1>1, <1>t, <2>1 DEF Effect
<1>3. rules' \in [Vpc -> Nat]
  <2>1. pc = "ruledel" => rules[v] > 0
    BY <1>0 DEF Possible
  <2>2. rules[v] \in Nat
    BY <1>0, <1>t
  <2>3. Rules(pc, rules[v]) \in Nat
    BY <2>1, <2>2, SMT DEF Rules
  <2> QED
    BY <1>1, <1>t, <2>3 DEF Effect
<1>4. netns' \subseteq Vpc
  BY <1>0, <1>1, <1>t DEF Effect
<1>5. /\ NextPc(op, pc) \in Pc
      /\ Stands([op |-> op, vpc |-> v, pc |-> NextPc(op, pc)])
  BY <1>0, NextStands
<1>6. task' \in [Task -> [op : Op, vpc : Vpc, pc : Pc]]
  BY <1>1, <1>t, <1>5
<1>7. \A u \in Task : Stands(task'[u])
  BY <1>0, <1>t, <1>5
<1> QED
  BY <1>2, <1>3, <1>4, <1>6, <1>7 DEF TInv, Stands

LEMMA FailStep ==
    ASSUME Inv, NEW t \in Task, RunFails(t), NEW v, v = task[t].vpc,
           NEW pc, pc = task[t].pc, NEW op, op = task[t].op
    PROVE  /\ v \in Vpc /\ op \in Op /\ pc \notin Final \cup {"unused"}
           /\ Stands([op |-> op, vpc |-> v, pc |-> pc])
           /\ task'[t] = [op |-> op, vpc |-> v, pc |-> ErrorPc(op, pc)]
           /\ \A u \in Task \ {t} : task'[u] = task[u]
           /\ UNCHANGED node
<1>1. task[t] \in [op : Op, vpc : Vpc, pc : Pc] /\ Stands(task[t])
  BY DEF Inv, TInv
<1>2. task[t] = [op |-> op, vpc |-> v, pc |-> pc]
  BY <1>1
<1>3. pc \notin Final \cup {"unused"} /\ UNCHANGED node
  BY DEF RunFails, Active
<1>4. task' = [task EXCEPT ![t].pc = ErrorPc(op, pc)]
  BY DEF RunFails
<1>5. /\ task'[t] = [op |-> op, vpc |-> v, pc |-> ErrorPc(op, pc)]
      /\ \A u \in Task \ {t} : task'[u] = task[u]
  BY <1>2, <1>4, SMT DEF Inv, TInv
<1> QED
  BY <1>1, <1>2, <1>3, <1>5

LEMMA FailTypes ==
    ASSUME Inv, NEW t \in Task, RunFails(t)
    PROVE  TInv'
<1> DEFINE v == task[t].vpc
           pc == task[t].pc
           op == task[t].op
<1>0. /\ v \in Vpc /\ op \in Op /\ pc \notin Final \cup {"unused"}
      /\ Stands([op |-> op, vpc |-> v, pc |-> pc])
      /\ task'[t] = [op |-> op, vpc |-> v, pc |-> ErrorPc(op, pc)]
      /\ \A u \in Task \ {t} : task'[u] = task[u]
      /\ UNCHANGED node
  BY FailStep
<1>1. task' = [task EXCEPT ![t].pc = ErrorPc(op, pc)]
  BY DEF RunFails
<1>t. /\ link \in [Vpc -> Links] /\ rules \in [Vpc -> Nat] /\ netns \subseteq Vpc
      /\ task \in [Task -> [op : Op, vpc : Vpc, pc : Pc]]
      /\ \A u \in Task : Stands(task[u])
  BY DEF Inv, TInv
<1> HIDE DEF v, pc, op
<1>5. /\ ErrorPc(op, pc) \in Pc
      /\ Stands([op |-> op, vpc |-> v, pc |-> ErrorPc(op, pc)])
  BY <1>0, NextStands
<1>6. task' \in [Task -> [op : Op, vpc : Vpc, pc : Pc]]
  BY <1>1, <1>t, <1>5
<1>7. \A u \in Task : Stands(task'[u])
  BY <1>0, <1>t, <1>5
<1> QED
  BY <1>0, <1>t, <1>6, <1>7 DEF TInv, Stands, node

LEMMA HandleStep ==
    ASSUME Inv, NEW t \in Task, Handle(t)
    PROVE  /\ TInv' /\ UNCHANGED node /\ task[t].pc = "unused"
           /\ task'[t].pc \in {"add", "ruledel", "show"}
           /\ \A u \in Task \ {t} : task'[u] = task[u]
<1>1. PICK op \in Op, v \in Vpc :
        task' = [task EXCEPT ![t] = [op |-> op, vpc |-> v, pc |-> FirstPc[op]]]
  BY DEF Handle
<1>2. task[t].pc = "unused" /\ UNCHANGED node
  BY DEF Handle
<1>3. FirstPc[op] \in {"add", "ruledel", "show"}
  BY SMT DEF FirstPc, Op
<1>4. Stands([op |-> op, vpc |-> v, pc |-> FirstPc[op]])
  BY SMT DEF FirstPc, Op, Stands, CreateAt, EnsureAt, DeleteAt
<1>t. /\ link \in [Vpc -> Links] /\ rules \in [Vpc -> Nat] /\ netns \subseteq Vpc
      /\ task \in [Task -> [op : Op, vpc : Vpc, pc : Pc]]
      /\ \A u \in Task : Stands(task[u])
  BY DEF Inv, TInv
<1>5. /\ task'[t] = [op |-> op, vpc |-> v, pc |-> FirstPc[op]]
      /\ \A u \in Task \ {t} : task'[u] = task[u]
  BY <1>1, <1>t
<1>6. task' \in [Task -> [op : Op, vpc : Vpc, pc : Pc]]
  BY <1>1, <1>3, <1>t DEF Pc
<1>7. \A u \in Task : Stands(task'[u])
  BY <1>4, <1>5, <1>t
<1>8. TInv'
  BY <1>2, <1>t, <1>6, <1>7 DEF TInv, Stands, node
<1> QED
  BY <1>2, <1>3, <1>5, <1>8

\* the end of the agent, with its node or alone: no call is under way any more
LEMMA StopStep ==
    ASSUME Inv, AgentCrash \/ Reboot
    PROVE  /\ TInv' /\ \A t \in Task : ~Holds(t)' /\ ~Active(t)' /\ ~Ends(t)
           /\ Ended \subseteq Ended'
<1>t. /\ task \in [Task -> [op : Op, vpc : Vpc, pc : Pc]]
      /\ \A u \in Task : Stands(task[u])
  BY DEF Inv, TInv
<1>1. task' = [t \in Task |-> Interrupted(t)]
  BY DEF Reboot, AgentCrash
<1>2. ASSUME NEW t \in Task
      PROVE  /\ task'[t] \in [op : Op, vpc : Vpc, pc : Pc]
             /\ task'[t].pc \in Final \cup {"unused"}
             /\ Active(t) => task'[t].pc = "failed"
             /\ ~Active(t) => task'[t] = task[t]
  BY <1>1, <1>t DEF Interrupted, Active, Final, Pc
<1>3. task' \in [Task -> [op : Op, vpc : Vpc, pc : Pc]]
  BY <1>1, <1>2
<1>4. \A t \in Task : Stands(task'[t]) /\ task'[t].pc \notin Holding
  BY <1>2 DEF Stands, Holding, Final
<1>5. link' \in [Vpc -> Links] /\ rules' \in [Vpc -> Nat] /\ netns' \subseteq Vpc
  <2>1. CASE Reboot
    BY <2>1 DEF Reboot, Links
  <2>2. CASE AgentCrash
    BY <2>2 DEF AgentCrash, node, Inv, TInv
  <2> QED
    BY <2>1, <2>2
<1>6. \A t \in Task : ~Active(t)' /\ ~Ends(t)
  BY <1>2 DEF Active, Ends
<1>7. Ended \subseteq Ended'
  BY <1>2 DEF Ended, Active
<1> QED
  BY <1>3, <1>4, <1>5, <1>6, <1>7 DEF TInv, Stands, Holds

----------------------------------------------------------------------------
(* The holder of a bridge.                                                 *)

\* a step that does not touch the VPC of u, nor u, nor makes another holder
LEMMA Untouched ==
    ASSUME Inv, NEW u \in Task, NEW v \in Vpc, task[u].vpc = v, Holds(u), Undeleted(v),
           task'[u] = task[u], link'[v] = link[v], v \in netns' <=> v \in netns,
           \A x \in Task : Holds(x)' /\ task'[x].vpc = v => Holds(x) /\ task[x].vpc = v
    PROVE  Sound(u)' /\ Alone(u)'
<1>1. Sound(u) /\ Alone(u)
  BY DEF Inv, HoldInv
<1>2. Sound(u)'
  BY <1>1 DEF Sound, SoundAt
<1>3. Alone(u)'
  BY <1>1 DEF Alone
<1> QED
  BY <1>2, <1>3

LEMMA HandleHold ==
    ASSUME Inv, NEW t \in Task, Handle(t)
    PROVE  HoldInv'
<1>1. /\ UNCHANGED node /\ task[t].pc = "unused"
      /\ task'[t].pc \in {"add", "ruledel", "show"}
      /\ \A u \in Task \ {t} : task'[u] = task[u]
  BY HandleStep
<1>2. SUFFICES ASSUME NEW u \in Task, Holds(u)', Undeleted(task[u].vpc)', u # t
               PROVE  Sound(u)' /\ Alone(u)'
  BY <1>1 DEF HoldInv, Holds, Holding, Undeleted
<1>3. Undeleted(task[u].vpc)
  BY <1>1, <1>2 DEF Undeleted
<1>4. Holds(u) /\ task[u].vpc \in Vpc /\ link' = link /\ netns' = netns
  BY <1>1, <1>2 DEF Holds, Inv, TInv, node
<1>5. \A x \in Task : Holds(x)' => Holds(x) /\ task'[x].vpc = task[x].vpc
  BY <1>1 DEF Holds, Holding
<1> QED
  BY <1>1, <1>2, <1>3, <1>4, <1>5, Untouched

\* the step of a call that goes on to pc, on its own VPC
LEMMA MoverSound ==
    ASSUME Inv, NEW t \in Task, NEW v \in Vpc, task[t].vpc = v, task[t].op # "delete",
           Undeleted(v), task'[t].vpc = v,
           \A u \in Task \ {t} : task'[u] = task[u],
           \/ Holds(t)
           \/ task[t].pc = "add" /\ link[v] = {}
    PROVE  Alone(t)'
<1>1. SUFFICES ASSUME NEW u \in Task, Holds(u)', task'[u].vpc = v, u # t
               PROVE  FALSE
  BY DEF Alone
<1>0. task[u] = task'[u]
  BY <1>1
<1>2. Holds(u) /\ task[u].vpc = v
  BY <1>1 DEF Holds
<1>3. Sound(u) /\ Alone(u)
  BY <1>2 DEF Inv, HoldInv
<1>4. CASE Holds(t)
  BY <1>1, <1>2, <1>3, <1>4 DEF Alone
<1>5. CASE task[t].pc = "add" /\ link[v] = {}
  BY <1>2, <1>3, <1>5 DEF Sound, SoundAt
<1> QED
  BY <1>4, <1>5

\* a command that went well, and one that failed, leave what the next relies on
LEMMA RunSound ==
    ASSUME NEW op, NEW pc, NEW v, NEW l \in Links, NEW ns, NEW ns2,
           v \in ns2 <=> pc = "netns" \/ (v \in ns /\ pc # "netnsdel"),
           (op = "create" /\ pc \in CreateAt) \/ (op = "ensure" /\ pc \in EnsureAt),
           pc = "add" \/ SoundAt(op, pc, v, l, ns),
           NextPc(op, pc) \in Holding
    PROVE  SoundAt(op, NextPc(op, pc), v, Bridge(pc, l), ns2)
<1>1. CASE pc = "add"
  <2>1. NextPc(op, pc) = "up" /\ Bridge(pc, l) = {"link"}
    BY <1>1, CreateRuns, EnsureRuns DEF Bridge
  <2> QED
    BY <2>1 DEF SoundAt
<1>2. CASE pc = "up"
  <2>1. NextPc(op, pc) = "addr" /\ Bridge(pc, l) = l \cup {"up"}
    BY <1>2, CreateRuns, EnsureRuns DEF Bridge
  <2> QED
    BY <2>1 DEF SoundAt
<1>3. CASE pc = "addr"
  <2>1. NextPc(op, pc) = "forward" /\ Bridge(pc, l) = l \cup {"addr"}
    BY <1>3, CreateRuns, EnsureRuns DEF Bridge
  <2>2. l # {} /\ "up" \in l
    BY <1>3 DEF SoundAt
  <2>3. l \cup {"addr"} = Whole
    BY <2>2 DEF Links, Whole
  <2> QED
    BY <2>1, <2>3 DEF SoundAt, Whole
<1>4. CASE pc = "forward"
  <2>1. NextPc(op, pc) = (IF op = "create" THEN "netns" ELSE "check") /\ Bridge(pc, l) = l
    BY <1>4, CreateRuns, EnsureRuns DEF Bridge
  <2> QED
    BY <1>4, <2>1 DEF SoundAt
<1>5. CASE pc = "netns"
  <2>1. op = "create" /\ NextPc(op, pc) = "check" /\ Bridge(pc, l) = l /\ v \in ns2
    BY <1>5, CreateRuns DEF Bridge, EnsureAt
  <2> QED
    BY <1>5, <2>1 DEF SoundAt
<1>6. CASE pc \in {"check", "append"}
  <2>1. NextPc(op, pc) = "ok"
    BY <1>6, CreateRuns, EnsureRuns
  <2> QED
    BY <2>1 DEF Holding
<1>7. CASE pc = "netnsdel"
  <2>1. NextPc(op, pc) = "undo" /\ Bridge(pc, l) = l
    BY <1>7, CreateRuns DEF Bridge, EnsureAt
  <2> QED
    BY <1>7, <2>1 DEF SoundAt
<1>8. CASE pc = "undo"
  <2>1. NextPc(op, pc) = "del" /\ Bridge(pc, l) = l \ {"up"}
    BY <1>8, CreateRuns DEF Bridge, EnsureAt
  <2>2. l # {}
    BY <1>8 DEF SoundAt
  <2>3. l \ {"up"} # {}
    BY <2>2 DEF Links
  <2> QED
    BY <2>1, <2>3 DEF SoundAt
<1>9. CASE pc = "del"
  <2>1. NextPc(op, pc) = "failed"
    BY <1>9, CreateRuns DEF EnsureAt
  <2> QED
    BY <2>1 DEF Holding
<1>10. CASE pc = "show"
  <2>1. NextPc(op, pc) = "ok"
    BY <1>10, EnsureRuns DEF CreateAt
  <2> QED
    BY <2>1 DEF Holding
<1> QED
  BY <1>1, <1>2, <1>3, <1>4, <1>5, <1>6, <1>7, <1>8, <1>9, <1>10 DEF CreateAt, EnsureAt

LEMMA FailSound ==
    ASSUME NEW op, NEW pc, NEW v, NEW l \in Links, NEW ns,
           (op = "create" /\ pc \in CreateAt) \/ (op = "ensure" /\ pc \in EnsureAt),
           SoundAt(op, pc, v, l, ns), pc \in Holding,
           ErrorPc(op, pc) \in Holding
    PROVE  SoundAt(op, ErrorPc(op, pc), v, l, ns)
<1>1. CASE op = "create" /\ pc \in CreateAt
  <2>1. ErrorPc(op, pc) = "append" => pc = "check"
    BY <1>1, CreateFails DEF CreateAt
  <2>2. ErrorPc(op, pc) \in {"failed", "undo", "append", "netnsdel", "del"}
    BY <1>1, CreateFails DEF CreateAt
  <2> QED
    BY <2>1, <2>2 DEF SoundAt, Holding
<1>2. CASE op = "ensure" /\ pc \in EnsureAt
  <2>1. /\ ErrorPc(op, pc) = "append" => pc = "check"
        /\ ErrorPc(op, pc) = "check" => pc = "forward"
    BY <1>2, EnsureFails DEF EnsureAt
  <2>2. ErrorPc(op, pc) \in {"failed", "append", "check", "ok", "add"}
    BY <1>2, EnsureFails DEF EnsureAt
  <2> QED
    BY <1>2, <2>1, <2>2 DEF SoundAt, Holding
<1> QED
  BY <1>1, <1>2

LEMMA RunHold ==
    ASSUME Inv, NEW t \in Task, Run(t)
    PROVE  HoldInv'
<1> DEFINE v == task[t].vpc
           pc == task[t].pc
           op == task[t].op
<1>0. /\ v \in Vpc /\ op \in Op /\ pc \notin Final \cup {"unused"}
      /\ Stands([op |-> op, vpc |-> v, pc |-> pc])
      /\ Possible(pc, v)
      /\ task'[t] = [op |-> op, vpc |-> v, pc |-> NextPc(op, pc)]
      /\ \A u \in Task \ {t} : task'[u] = task[u]
      /\ link'[v] = Bridge(pc, link[v])
      /\ \A w \in Vpc \ {v} : /\ link'[w] = link[w]
                              /\ w \in netns' <=> w \in netns
      /\ v \in netns' <=> pc = "netns" \/ (v \in netns /\ pc # "netnsdel")
  BY RunStep
<1>n. NextPc(op, pc) # "unused"
  BY <1>0, NextStands
<1>1. SUFFICES ASSUME NEW u \in Task, Holds(u)', Undeleted(task[u].vpc)'
               PROVE  Sound(u)' /\ Alone(u)'
  BY DEF HoldInv
<1>2. task'[u].vpc = task[u].vpc /\ task[u].vpc \in Vpc /\ Undeleted(task[u].vpc)
  <2>1. task'[u].vpc = task[u].vpc /\ task[u].vpc \in Vpc
    BY <1>0 DEF Inv, TInv
  <2>2. Undeleted(task[u].vpc)
    BY <1>0, <1>1, <1>n, <2>1 DEF Undeleted
  <2> QED
    BY <2>1, <2>2
<1>3. CASE task[u].vpc # v
  <2>1. u # t /\ task'[u] = task[u] /\ Holds(u)
    BY <1>0, <1>1, <1>3 DEF Holds
  <2>2. \A x \in Task : Holds(x)' /\ task'[x].vpc = task[u].vpc
                          => Holds(x) /\ task[x].vpc = task[u].vpc
    BY <1>0, <1>3 DEF Holds
  <2> QED
    BY <1>0, <1>2, <1>3, <2>1, <2>2, Untouched
<1>4. CASE task[u].vpc = v
  <2>1. op # "delete"
    <3>1. task'[t].pc # "unused" /\ task'[t].vpc = task'[u].vpc
      BY <1>0, <1>n, <1>2, <1>4
    <3> QED
      BY <1>0, <1>1, <1>2, <3>1 DEF Undeleted
  <2>2. Undeleted(v)
    BY <1>2, <1>4
  <2>3. CASE u = t
    <3>1. pc # "show"
      <4>1. pc = "show" => op = "ensure"
        BY <1>0, <2>1 DEF Stands, CreateAt, DeleteAt
      <4>2. pc = "show" => NextPc(op, pc) = "ok"
        BY <4>1, EnsureRuns
      <4> QED
        BY <1>0, <1>1, <2>3, <4>2 DEF Holds, Holding
    <3>2. Holds(t) \/ pc = "add"
      <4>1. pc \in CreateAt \/ pc \in EnsureAt
        BY <1>0, <2>1 DEF Stands
      <4> QED
        BY <3>1, <4>1 DEF CreateAt, EnsureAt, Holds, Holding
    <3>3. Alone(t)'
      BY <1>0, <2>1, <2>2, <3>2, MoverSound DEF Possible
    <3>4. Holds(t) => Sound(t)
      BY <2>2 DEF Inv, HoldInv
    <3>5. Sound(t)'
      <4>1. link[v] \in Links
        BY <1>0 DEF Inv, TInv
      <4>2. (op = "create" /\ pc \in CreateAt) \/ (op = "ensure" /\ pc \in EnsureAt)
        BY <1>0, <2>1, CallStands
      <4>3. NextPc(op, pc) \in Holding
        BY <1>0, <1>1, <2>3 DEF Holds
      <4>4. pc = "add" \/ SoundAt(op, pc, v, link[v], netns)
        BY <3>2, <3>4 DEF Sound
      <4>5. SoundAt(op, NextPc(op, pc), v, Bridge(pc, link[v]), netns')
        BY <1>0, <4>1, <4>2, <4>3, <4>4, RunSound
      <4> QED
        BY <1>0, <4>5 DEF Sound
    <3> QED
      BY <2>3, <3>3, <3>5
  <2>4. CASE u # t
    <3>1. Holds(u) /\ task'[u] = task[u]
      BY <1>0, <1>1, <2>4 DEF Holds
    <3>2. Sound(u) /\ Alone(u)
      BY <2>2, <3>1, <1>4 DEF Inv, HoldInv
    <3>3. ~Holds(t) /\ link[v] # {}
      BY <1>4, <2>4, <3>2 DEF Alone, Sound, SoundAt
    <3>4. pc = "show"
      <4>1. pc \in CreateAt \/ pc \in EnsureAt
        BY <1>0, <2>1 DEF Stands
      <4>2. pc # "add"
        BY <1>0, <3>3 DEF Possible
      <4> QED
        BY <3>3, <4>1, <4>2 DEF CreateAt, EnsureAt, Holds, Holding
    <3>5. link'[v] = link[v] /\ (v \in netns' <=> v \in netns)
      BY <1>0, <3>4 DEF Bridge
    <3>6. NextPc(op, pc) = "ok"
      <4>1. op = "ensure"
        BY <1>0, <3>4 DEF Stands, CreateAt, DeleteAt, Final
      <4> QED
        BY <3>4, <4>1, EnsureRuns
    <3>7. \A x \in Task : Holds(x)' => x # t /\ Holds(x)
      BY <1>0, <3>6 DEF Holds, Holding
    <3>8. \A x \in Task : Holds(x)' /\ task'[x].vpc = v => Holds(x) /\ task[x].vpc = v
      BY <1>0, <3>7
    <3> QED
      BY <1>4, <2>2, <1>0, <3>1, <3>5, <3>8, Untouched
  <2> QED
    BY <2>3, <2>4
<1> QED
  BY <1>3, <1>4

LEMMA FailHold ==
    ASSUME Inv, NEW t \in Task, RunFails(t)
    PROVE  HoldInv'
<1> DEFINE v == task[t].vpc
           pc == task[t].pc
           op == task[t].op
<1>0. /\ v \in Vpc /\ op \in Op /\ pc \notin Final \cup {"unused"}
      /\ Stands([op |-> op, vpc |-> v, pc |-> pc])
      /\ task'[t] = [op |-> op, vpc |-> v, pc |-> ErrorPc(op, pc)]
      /\ \A u \in Task \ {t} : task'[u] = task[u]
      /\ link' = link /\ netns' = netns
  BY FailStep DEF node
<1>n. ErrorPc(op, pc) # "unused"
  BY <1>0, NextStands
<1>1. SUFFICES ASSUME NEW u \in Task, Holds(u)', Undeleted(task[u].vpc)'
               PROVE  Sound(u)' /\ Alone(u)'
  BY DEF HoldInv
<1>2. task'[u].vpc = task[u].vpc /\ task[u].vpc \in Vpc /\ Undeleted(task[u].vpc)
  <2>1. task'[u].vpc = task[u].vpc /\ task[u].vpc \in Vpc
    BY <1>0 DEF Inv, TInv
  <2>2. Undeleted(task[u].vpc)
    BY <1>0, <1>1, <1>n, <2>1 DEF Undeleted
  <2> QED
    BY <2>1, <2>2
<1>3. op # "delete" => (ErrorPc(op, pc) \in Holding => pc \in Holding)
  <2>1. CASE op = "create" /\ pc \in CreateAt
    BY <2>1, CreateFails DEF CreateAt, Holding
  <2>2. CASE op = "ensure" /\ pc \in EnsureAt
    BY <2>2, EnsureFails DEF EnsureAt, Holding
  <2> QED
    BY <1>0, <2>1, <2>2 DEF Stands
<1>4. \A x \in Task : Holds(x)' /\ task'[x].vpc = task[u].vpc
                        => Holds(x) /\ task[x].vpc = task[u].vpc
  <2>1. SUFFICES ASSUME Holds(t)', v = task[u].vpc
                 PROVE  Holds(t)
    BY <1>0 DEF Holds
  <2>2. op # "delete"
    <3>1. task'[t].pc # "unused" /\ task'[t].vpc = task'[u].vpc
      BY <1>0, <1>n, <1>2, <2>1
    <3> QED
      BY <1>0, <1>1, <1>2, <3>1 DEF Undeleted
  <2> QED
    BY <1>0, <1>3, <2>1, <2>2 DEF Holds
<1>5. Holds(u)
  BY <1>1, <1>2, <1>4
<1>6. CASE u # t
  BY <1>0, <1>2, <1>4, <1>5, <1>6, Untouched
<1>7. CASE u = t
  <2>1. op # "delete"
    <3>1. task'[t].pc # "unused" /\ task'[t].vpc = task'[u].vpc
      BY <1>0, <1>n, <1>7
    <3> QED
      BY <1>0, <1>1, <1>2, <3>1 DEF Undeleted
  <2>2. Undeleted(v) /\ Holds(t)
    BY <1>2, <1>5, <1>7
  <2>3. Alone(t)'
    BY <1>0, <2>1, <2>2, MoverSound
  <2>4. Sound(t)
    BY <2>2 DEF Inv, HoldInv
  <2>5. Sound(t)'
    <3>1. link[v] \in Links
      BY <1>0 DEF Inv, TInv
    <3>2. (op = "create" /\ pc \in CreateAt) \/ (op = "ensure" /\ pc \in EnsureAt)
      BY <1>0, <2>1, CallStands
    <3>3. ErrorPc(op, pc) \in Holding /\ pc \in Holding
      BY <1>0, <1>1, <1>7, <2>2 DEF Holds
    <3>4. SoundAt(op, ErrorPc(op, pc), v, link[v], netns)
      BY <3>1, <3>2, <3>3, <2>4, FailSound DEF Sound
    <3> QED
      BY <1>0, <3>4 DEF Sound
  <2> QED
    BY <1>7, <2>3, <2>5
<1> QED
  BY <1>6, <1>7


----------------------------------------------------------------------------
(* The invariant, and what a step that ends a create finds.                *)

LEMMA InvInit == ASSUME VpcAssumption, Init PROVE Inv
<1>1. Unused \in [op : Op, vpc : Vpc, pc : Pc]
  BY DEF VpcAssumption, Unused, Op, Pc
<1> QED
  BY <1>1 DEF Init, Inv, TInv, HoldInv, Holds, Holding, Stands, Links, Unused

LEMMA InvNext == ASSUME Inv, [Next]_vars PROVE Inv'
<1>1. CASE AgentCrash \/ Reboot
  <2>1. TInv' /\ \A t \in Task : ~Holds(t)'
    BY <1>1, StopStep
  <2> QED
    BY <2>1 DEF Inv, HoldInv
<1>2. ASSUME NEW t \in Task, Handle(t) PROVE Inv'
  BY <1>2, HandleStep, HandleHold DEF Inv
<1>3. ASSUME NEW t \in Task, Run(t) PROVE Inv'
  BY <1>3, RunTypes, RunHold DEF Inv
<1>4. ASSUME NEW t \in Task, RunFails(t) PROVE Inv'
  BY <1>4, FailTypes, FailHold DEF Inv
<1>5. CASE UNCHANGED vars
  BY <1>5 DEF vars, node, Inv, TInv, HoldInv, Stands, Holds, Alone, Undeleted, Sound
<1> QED
  BY <1>1, <1>2, <1>3, <1>4, <1>5 DEF Next

LEMMA ReadyStep == ASSUME Inv, [Next]_vars PROVE CreatedIsReadyStep
<1>1. SUFFICES ASSUME NEW t \in Task, Ends(t), task[t].op = "create",
                      Calls("delete", task[t].vpc) = {}
               PROVE  (Ready(task[t].vpc) /\ task[t].vpc \in netns)'
  BY DEF CreatedIsReadyStep
<1> DEFINE v == task[t].vpc
           pc == task[t].pc
<1>2. Run(t)
  <2>1. task[t].pc \notin Final \cup {"unused"} /\ task'[t].pc = "ok"
    BY <1>1 DEF Ends, Active
  <2>2. ~AgentCrash /\ ~Reboot
    BY <1>1, StopStep
  <2>3. ASSUME NEW u \in Task, Handle(u) PROVE FALSE
    BY <2>1, <2>3, HandleStep DEF Final
  <2>4. ASSUME NEW u \in Task, RunFails(u) PROVE FALSE
    <3>1. u = t
      BY <2>1, <2>4, FailStep DEF Final
    <3>2. /\ Stands([op |-> "create", vpc |-> v, pc |-> pc])
          /\ task'[t].pc = ErrorPc("create", pc)
      <4>1. /\ Stands([op |-> task[t].op, vpc |-> task[t].vpc, pc |-> task[t].pc])
            /\ task'[t] = [op |-> task[t].op, vpc |-> task[t].vpc,
                           pc |-> ErrorPc(task[t].op, task[t].pc)]
        BY <2>4, <3>1, FailStep
      <4> QED
        BY <1>1, <4>1
    <3>3. pc \in CreateAt
      BY <2>1, <3>2, CallStands
    <3> QED
      BY <2>1, <3>2, <3>3, CreateFails DEF CreateAt
  <2>5. ASSUME NEW u \in Task, Run(u) PROVE u = t
    BY <2>1, <2>5, RunStep DEF Final
  <2>6. task' # task
    BY <2>1 DEF Final
  <2> QED
    BY <2>2, <2>3, <2>4, <2>5, <2>6 DEF Next, vars
<1>3. /\ v \in Vpc /\ pc \notin Final \cup {"unused"}
      /\ Stands([op |-> "create", vpc |-> v, pc |-> pc])
      /\ Possible(pc, v)
      /\ task'[t].pc = NextPc("create", pc)
      /\ link'[v] = Bridge(pc, link[v]) /\ rules'[v] = Rules(pc, rules[v])
      /\ v \in netns' <=> pc = "netns" \/ (v \in netns /\ pc # "netnsdel")
  <2>1. /\ v \in Vpc /\ pc \notin Final \cup {"unused"}
        /\ Stands([op |-> task[t].op, vpc |-> v, pc |-> pc])
        /\ Possible(pc, v)
        /\ task'[t] = [op |-> task[t].op, vpc |-> v, pc |-> NextPc(task[t].op, pc)]
        /\ link'[v] = Bridge(pc, link[v]) /\ rules'[v] = Rules(pc, rules[v])
        /\ v \in netns' <=> pc = "netns" \/ (v \in netns /\ pc # "netnsdel")
    BY <1>2, RunStep
  <2> QED
    BY <1>1, <2>1
<1>4. pc \in {"check", "append"}
  <2>1. pc \in CreateAt
    BY <1>3, CallStands
  <2> QED
    BY <1>1, <1>3, <2>1, CreateRuns DEF CreateAt, Ends
<1>5. link[v] = Whole /\ v \in netns
  <2>1. Holds(t) /\ Undeleted(v)
    BY <1>1, <1>4 DEF Holds, Holding, Undeleted, Calls
  <2>2. Sound(t)
    BY <2>1 DEF Inv, HoldInv
  <2> QED
    BY <1>1, <1>4, <2>2 DEF Sound, SoundAt
<1>6. link'[v] = Whole /\ v \in netns'
  BY <1>3, <1>4, <1>5 DEF Bridge
<1>7. rules'[v] > 0
  <2>1. rules[v] \in Nat /\ (pc = "check" => rules[v] > 0)
    BY <1>3 DEF Possible, Inv, TInv
  <2> HIDE DEF pc, v
  <2> QED
    BY <1>3, <1>4, <2>1, SMT DEF Rules
<1>8. v' = v
  <2>1. task' = [task EXCEPT ![t].pc = NextPc(task[t].op, task[t].pc)]
    BY <1>2 DEF Run
  <2> QED
    BY <2>1 DEF Inv, TInv
<1> QED
  BY <1>6, <1>7, <1>8 DEF Ready

(***************************************************************************)
(* A CreateVPC that reports success leaves the VPC whole: the bridge up    *)
(* with its address, the namespace, a MASQUERADE rule (manager.go:34-45).  *)
(* For any number of nodes' calls that overlap in any way, creates of VMs  *)
(* among them, and whichever commands fail, unless the VPC was deleted.    *)
(***************************************************************************)
THEOREM CreatedStaysReady ==
    ASSUME VpcAssumption PROVE Spec => CreatedIsReady
<1>1. Init => Inv
  BY InvInit
<1>2. Inv /\ [Next]_vars => Inv'
  BY InvNext
<1>3. Inv /\ [Next]_vars => [CreatedIsReadyStep]_vars
  BY ReadyStep
<1> QED
  BY <1>1, <1>2, <1>3, PTL DEF Spec, CreatedIsReady


----------------------------------------------------------------------------
(* How many rules there are: at most one for each call that has ended,     *)
(* because -A is the last command of a call.                               *)

RuleBudget == \A v \in Vpc : rules[v] <= Cardinality(Ended)

BInv ==
    /\ Inv /\ RuleBudget /\ faults \in 0..MaxFault
    /\ missed \in [Task -> SUBSET Removal]

LEMMA EndedCounts ==
    ASSUME IsFiniteSet(Task)
    PROVE  /\ IsFiniteSet(Ended) /\ Cardinality(Ended) \in Nat
           /\ Cardinality(Ended) <= Cardinality(Task) /\ Cardinality(Task) \in Nat
<1>1. Ended \subseteq Task
  BY DEF Ended
<1> QED
  BY <1>1, FS_Subset, FS_CardinalityType

\* the last of a call's commands may have added a rule; the others have not
LEMMA AppendEnds ==
    ASSUME NEW op \in Op, NEW v \in Vpc, Stands([op |-> op, vpc |-> v, pc |-> "append"])
    PROVE  NextPc(op, "append") = "ok"
<1>1. op \in {"create", "ensure"}
  <2> DEFINE k == [op |-> op, vpc |-> v, pc |-> "append"]
  <2>1. k.op = op /\ k.pc = "append" /\ Stands(k)
    OBVIOUS
  <2> HIDE DEF k
  <2> QED
    BY <2>1 DEF Stands, Final, DeleteAt
<1> QED
  BY <1>1, CreateRuns, EnsureRuns

LEMMA BudgetRun ==
    ASSUME IsFiniteSet(Task), Inv, RuleBudget, NEW t \in Task, Run(t)
    PROVE  RuleBudget'
<1> DEFINE v == task[t].vpc
           pc == task[t].pc
           op == task[t].op
<1>0. /\ v \in Vpc /\ op \in Op /\ pc \notin Final \cup {"unused"}
      /\ Stands([op |-> op, vpc |-> v, pc |-> pc]) /\ Possible(pc, v)
      /\ task'[t] = [op |-> op, vpc |-> v, pc |-> NextPc(op, pc)]
      /\ \A u \in Task \ {t} : task'[u] = task[u]
      /\ rules'[v] = Rules(pc, rules[v])
      /\ \A w \in Vpc \ {v} : rules'[w] = rules[w]
  BY RunStep
<1>1. t \notin Ended
  BY <1>0 DEF Ended
<1> HIDE DEF v, op, pc
<1>2. Ended' = Ended \/ Ended' = Ended \cup {t}
  BY <1>0, <1>1 DEF Ended
<1>3. pc = "append" => Ended' = Ended \cup {t}
  BY <1>0, <1>1, <1>2, AppendEnds DEF Ended, Final
<1>4. /\ IsFiniteSet(Ended) /\ Cardinality(Ended) \in Nat
      /\ Cardinality(Ended \cup {t}) = Cardinality(Ended) + 1
  BY <1>1, EndedCounts, FS_AddElement
<1>5. /\ rules[v] \in Nat /\ rules[v] <= Cardinality(Ended)
      /\ \A w \in Vpc : rules[w] \in Nat /\ rules[w] <= Cardinality(Ended)
  BY <1>0 DEF RuleBudget, Inv, TInv
<1> DEFINE c == Cardinality(Ended)
           c2 == Cardinality(Ended')
<1>6. c \in Nat /\ c2 \in {c, c + 1} /\ (pc = "append" => c2 = c + 1)
  BY <1>2, <1>3, <1>4
<1>7. rules'[v] <= c2
  <2>1. rules[v] \in Nat /\ rules[v] <= c /\ rules'[v] = Rules(pc, rules[v])
    BY <1>0, <1>5
  <2> HIDE DEF c, c2
  <2> QED
    BY <1>6, <2>1, SMT DEF Rules
<1>8. ASSUME NEW w \in Vpc \ {v} PROVE rules'[w] <= c2
  <2>1. rules[w] \in Nat /\ rules[w] <= c /\ rules'[w] = rules[w]
    BY <1>0, <1>5
  <2> HIDE DEF c, c2
  <2> QED
    BY <1>6, <2>1
<1> QED
  BY <1>7, <1>8 DEF RuleBudget, Ended

LEMMA BudgetNext ==
    ASSUME IsFiniteSet(Task), MaxFault \in Nat, BInv, [Next]_vars
    PROVE  BInv'
<1>1. Inv'
  BY InvNext DEF BInv
<1>2. faults' \in 0..MaxFault
  <2>1. faults' = faults \/ (faults < MaxFault /\ faults' = faults + 1)
    <3>1. ASSUME NEW t \in Task, Handle(t) \/ Run(t) \/ RunFails(t)
          PROVE  faults' = faults \/ (faults < MaxFault /\ faults' = faults + 1)
      BY <3>1 DEF Handle, Run, RunFails
    <3> QED
      BY <3>1 DEF Next, AgentCrash, Reboot, vars
  <2>2. faults \in 0..MaxFault
    BY DEF BInv
  <2> QED
    BY <2>1, <2>2
<1>3. RuleBudget'
  <2>1. ASSUME Reboot PROVE RuleBudget'
    <3>1. \A v \in Vpc : rules'[v] = 0
      BY <2>1 DEF Reboot
    <3>2. Ended' \subseteq Task
      BY DEF Ended
    <3>3. Cardinality(Ended') \in Nat
      BY <3>2, FS_Subset, FS_CardinalityType
    <3> QED
      BY <3>1, <3>3 DEF RuleBudget
  <2>2. ASSUME NEW t \in Task, Run(t) PROVE RuleBudget'
    BY <2>2, BudgetRun DEF BInv
  <2>3. ASSUME UNCHANGED node, Ended \subseteq Ended' PROVE RuleBudget'
    <3>1. Ended' \subseteq Task
      BY DEF Ended
    <3>2. /\ Cardinality(Ended) <= Cardinality(Ended')
          /\ Cardinality(Ended) \in Nat /\ Cardinality(Ended') \in Nat
      BY <2>3, <3>1, FS_Subset, FS_CardinalityType
    <3>3. \A v \in Vpc : rules'[v] = rules[v] /\ rules[v] \in Nat
                         /\ rules[v] <= Cardinality(Ended)
      BY <2>3 DEF BInv, RuleBudget, Inv, TInv, node
    <3> QED
      BY <3>2, <3>3 DEF RuleBudget
  <2>4. ASSUME NEW t \in Task, Handle(t) PROVE RuleBudget'
    <3>1. /\ UNCHANGED node /\ task[t].pc = "unused"
          /\ \A u \in Task \ {t} : task'[u] = task[u]
      BY <2>4, HandleStep DEF BInv
    <3>2. Ended \subseteq Ended'
      BY <3>1 DEF Ended, Final
    <3> QED
      BY <2>3, <3>1, <3>2
  <2>5. ASSUME NEW t \in Task, RunFails(t) PROVE RuleBudget'
    <3>1. /\ UNCHANGED node /\ task[t].pc \notin Final
          /\ \A u \in Task \ {t} : task'[u] = task[u]
      BY <2>5, FailStep DEF BInv
    <3>2. Ended \subseteq Ended'
      BY <3>1 DEF Ended
    <3> QED
      BY <2>3, <3>1, <3>2
  <2>6. ASSUME UNCHANGED vars PROVE RuleBudget'
    BY <2>6 DEF vars, BInv, RuleBudget, Ended
  <2>7. ASSUME AgentCrash PROVE RuleBudget'
    <3>1. Ended \subseteq Ended' /\ UNCHANGED node
      BY <2>7, StopStep DEF BInv, AgentCrash
    <3> QED
      BY <2>3, <3>1
  <2> QED
    BY <2>1, <2>2, <2>4, <2>5, <2>6, <2>7 DEF Next
<1>4. missed' \in [Task -> SUBSET Removal]
  <2>1. missed \in [Task -> SUBSET Removal]
    BY DEF BInv
  <2>2. ASSUME NEW t \in Task, RunFails(t) PROVE missed' \in [Task -> SUBSET Removal]
    BY <2>1, <2>2 DEF RunFails
  <2>3. ASSUME NEW t \in Task, Handle(t) \/ Run(t) PROVE missed' = missed
    BY <2>3 DEF Handle, Run
  <2> QED
    BY <2>1, <2>2, <2>3 DEF Next, AgentCrash, Reboot, vars
<1> QED
  BY <1>1, <1>2, <1>3, <1>4 DEF BInv

LEMMA BudgetInit ==
    ASSUME VpcAssumption, IsFiniteSet(Task), Init PROVE BInv
<1>1. Cardinality(Ended) \in Nat
  BY EndedCounts
<1> QED
  BY <1>1, InvInit DEF VpcAssumption, Init, BInv, RuleBudget

LEMMA BudgetTypes ==
    ASSUME IsFiniteSet(Task), BInv PROVE TypeOK
<1>1. \A v \in Vpc : rules[v] \in 0..Cardinality(Task)
  BY EndedCounts DEF BInv, RuleBudget, Inv, TInv
<1>2. rules \in [Vpc -> 0..Cardinality(Task)]
  BY <1>1 DEF BInv, Inv, TInv
<1> QED
  BY <1>2 DEF TypeOK, BInv, Inv, TInv, Links

----------------------------------------------------------------------------
(* Calls that follow one another.                                          *)

OneActive == \A t, u \in Task : Active(t) /\ Active(u) => t = u

\* unless a delete has missed one, there is one rule at most, and only where there is
\* a bridge: with a bridge neither a create nor an ensure gets as far as the rules
Calm(v) == RuleMissed(v) \/ (rules[v] \in {0, 1} /\ (rules[v] = 1 => link[v] # {}))

\* what the call under way has found or done by the time it stands at pc: a call
\* that has added the bridge has found no rule, a delete has removed the rule and
\* then the namespace before it turns to the bridge.  Rules may have been missed (m)
\* by some delete, the namespace (d) by this one.
HalfwayAt(op, pc, l, r, ns, m, d) ==
    /\ pc \notin {"show", "add", "ruledel"} => m \/ r = 0
    /\ op # "delete" /\ pc \in Holding => l # {}
    /\ op = "delete" /\ pc \in {"down", "del"} => d \/ ~ns

Halfway(t) ==
    HalfwayAt(task[t].op, task[t].pc, link[task[t].vpc], rules[task[t].vpc],
              task[t].vpc \in netns, RuleMissed(task[t].vpc), "netnsdel" \in missed[t])

\* a call of another kind, or one that has not begun, has missed nothing
MissedTyped ==
    /\ missed \in [Task -> SUBSET Removal]
    /\ \A t \in Task : task[t].pc = "unused" => missed[t] = {}

SerialInv ==
    /\ MissedTyped
    /\ OneActive
    /\ \A v \in Vpc : Calm(v)
    /\ \A t \in Task : Active(t) => Halfway(t)

LEMMA NoneUnderWay ==
    ASSUME IsFiniteSet(Task), AtOnce = 1, NEW t \in Task, Handle(t)
    PROVE  \A u \in Task : ~Active(u)
<1> DEFINE A == {u \in Task : Active(u)}
<1>1. IsFiniteSet(A)
  BY FS_Subset
<1>2. Cardinality(A) \in Nat /\ Cardinality(A) < 1
  BY <1>1, FS_CardinalityType DEF Handle
<1>3. Cardinality(A) = 0
  BY <1>2
<1>4. A = {}
  BY <1>1, <1>3, FS_EmptySet
<1> QED
  BY <1>4

\* what a command that went well leaves of a VPC, of whose bridge l was there, of its
\* rules r, and of whose namespace ns said whether there was one
LEMMA RunHalfway ==
    ASSUME NEW op, NEW pc, NEW l \in Links, NEW r \in Nat, NEW ns \in BOOLEAN,
           NEW m \in BOOLEAN, NEW d \in BOOLEAN,
           \/ op = "create" /\ pc \in CreateAt
           \/ op = "ensure" /\ pc \in EnsureAt
           \/ op = "delete" /\ pc \in DeleteAt,
           m \/ (r \in {0, 1} /\ (r = 1 => l # {})), HalfwayAt(op, pc, l, r, ns, m, d),
           pc = "add" => l = {},
           pc \in {"show", "up", "addr", "down", "undo", "del"} => l # {},
           pc \in {"check", "ruledel"} => r > 0,
           NEW l2, l2 = Bridge(pc, l), NEW r2, r2 = Rules(pc, r),
           NEW ns2 \in BOOLEAN, ns2 <=> pc = "netns" \/ (ns /\ pc # "netnsdel")
    PROVE  /\ m \/ (r2 \in {0, 1} /\ (r2 = 1 => l2 # {}))
           /\ NextPc(op, pc) \notin Final => HalfwayAt(op, NextPc(op, pc), l2, r2, ns2, m, d)
           /\ op = "delete" /\ NextPc(op, pc) = "ok" => l2 = {} /\ (m \/ r2 = 0) /\ (d \/ ~ns2)
<1>l. l # {} => "link" \in l
  BY DEF Links
<1>r. /\ pc = "append" => r2 = r + 1
      /\ pc = "ruledel" => r2 = r - 1
      /\ pc \notin {"append", "ruledel"} => r2 = r
  BY SMT DEF Rules
<1>1. CASE pc = "add"
  <2>1. op # "delete" /\ NextPc(op, pc) = "up"
    BY <1>1, CreateRuns, EnsureRuns DEF DeleteAt
  <2>2. l2 = {"link"} /\ (m \/ r2 = 0)
    BY <1>1, <1>r, SMT DEF Bridge
  <2> QED
    BY <2>1, <2>2 DEF HalfwayAt
<1>2. CASE pc \in {"up", "addr"}
  <2>1. op # "delete" /\ NextPc(op, pc) \in {"addr", "forward"}
    BY <1>2, CreateRuns, EnsureRuns DEF DeleteAt
  <2>2. l2 # {} /\ (m \/ r2 = 0)
    BY <1>2, <1>r DEF Bridge, HalfwayAt
  <2> QED
    BY <2>1, <2>2 DEF HalfwayAt
<1>3. CASE pc \in {"forward", "netns"}
  <2>1. op # "delete" /\ NextPc(op, pc) \in {"netns", "check"}
    BY <1>3, CreateRuns, EnsureRuns DEF DeleteAt, EnsureAt
  <2>2. l2 # {} /\ (m \/ r2 = 0)
    BY <1>3, <1>r, <2>1 DEF Bridge, HalfwayAt, Holding
  <2> QED
    BY <2>1, <2>2 DEF HalfwayAt
<1>4. CASE pc \in {"check", "append"}
  <2>1. op # "delete" /\ NextPc(op, pc) = "ok"
    BY <1>4, CreateRuns, EnsureRuns DEF DeleteAt
  <2>2. l2 # {} /\ (m \/ r2 \in {0, 1})
    BY <1>4, <1>r, <2>1, SMT DEF Bridge, HalfwayAt, Holding
  <2> QED
    BY <2>1, <2>2 DEF Final
<1>5. CASE op = "create" /\ pc \in {"netnsdel", "undo"}
  <2>1. NextPc(op, pc) \in {"undo", "del"}
    BY <1>5, CreateRuns
  <2>2. l2 # {} /\ (m \/ r2 = 0)
    BY <1>5, <1>r, <1>l DEF Bridge, HalfwayAt, Holding
  <2> QED
    BY <1>5, <2>1, <2>2 DEF HalfwayAt
<1>6. CASE op = "create" /\ pc = "del"
  <2>1. NextPc(op, pc) = "failed"
    BY <1>6, CreateRuns
  <2>2. m \/ r2 = 0
    BY <1>6, <1>r DEF HalfwayAt
  <2> QED
    BY <1>6, <2>1, <2>2 DEF Final
<1>7. CASE pc = "show"
  <2>1. op # "delete" /\ NextPc(op, pc) = "ok"
    BY <1>7, EnsureRuns DEF DeleteAt, CreateAt
  <2>2. l2 = l /\ r2 = r
    BY <1>7, <1>r DEF Bridge
  <2> QED
    BY <2>1, <2>2 DEF Final
<1>8. CASE pc = "ruledel"
  <2>1. op = "delete" /\ NextPc(op, pc) = "netnsdel"
    BY <1>8, DeleteRuns DEF CreateAt, EnsureAt
  <2>2. m \/ r2 = 0
    BY <1>8, <1>r, SMT
  <2> QED
    BY <2>1, <2>2 DEF HalfwayAt
<1>9. CASE op = "delete" /\ pc \in {"netnsdel", "down"}
  <2>1. NextPc(op, pc) \in {"down", "del"}
    BY <1>9, DeleteRuns
  <2>2. (m \/ r2 = 0) /\ (pc = "down" => d \/ ~ns2) /\ (pc = "netnsdel" => ~ns2)
    BY <1>9, <1>r DEF HalfwayAt
  <2> QED
    BY <1>9, <2>1, <2>2 DEF HalfwayAt, Final
<1>10. CASE op = "delete" /\ pc = "del"
  <2>1. NextPc(op, pc) = "ok"
    BY <1>10, DeleteRuns
  <2>2. (m \/ r2 = 0) /\ (d \/ ~ns2) /\ l2 = {}
    BY <1>10, <1>r DEF HalfwayAt, Bridge
  <2> QED
    BY <2>1, <2>2 DEF Final
<1> QED
  BY <1>1, <1>2, <1>3, <1>4, <1>5, <1>6, <1>7, <1>8, <1>9, <1>10
     DEF CreateAt, EnsureAt, DeleteAt

\* a command that failed; a removal of a delete fails when there is nothing to
\* remove, or is missed
LEMMA FailHalfway ==
    ASSUME NEW op, NEW pc, NEW l, NEW r, NEW ns \in BOOLEAN,
           NEW m \in BOOLEAN, NEW d \in BOOLEAN, NEW m2 \in BOOLEAN, NEW d2 \in BOOLEAN,
           \/ op = "create" /\ pc \in CreateAt
           \/ op = "ensure" /\ pc \in EnsureAt
           \/ op = "delete" /\ pc \in DeleteAt,
           HalfwayAt(op, pc, l, r, ns, m, d), m => m2, d => d2,
           op = "delete" /\ pc = "ruledel" => m2 \/ r = 0,
           op = "delete" /\ pc = "netnsdel" => d2 \/ ~ns
    PROVE  /\ ErrorPc(op, pc) \notin Final
                 => HalfwayAt(op, ErrorPc(op, pc), l, r, ns, m2, d2)
           /\ ~(op = "delete" /\ ErrorPc(op, pc) = "ok")
<1>1. CASE op = "create" /\ pc \in CreateAt
  <2>1. \/ pc \in {"add", "up", "addr", "del"} /\ ErrorPc(op, pc) = "failed"
        \/ /\ pc \in {"forward", "netns", "check", "append", "netnsdel", "undo"}
           /\ ErrorPc(op, pc) \in {"undo", "append", "netnsdel", "del"}
    BY <1>1, CreateFails DEF CreateAt
  <2> QED
    BY <1>1, <2>1 DEF HalfwayAt, Final, Holding
<1>2. CASE op = "ensure" /\ pc \in EnsureAt
  <2>1. \/ pc = "show" /\ ErrorPc(op, pc) = "add"
        \/ pc \in {"add", "up", "addr", "append"} /\ ErrorPc(op, pc) \in Final
        \/ pc \in {"forward", "check"} /\ ErrorPc(op, pc) \in {"check", "append"}
    BY <1>2, EnsureFails DEF EnsureAt, Final
  <2> QED
    BY <1>2, <2>1 DEF HalfwayAt, Final, Holding
<1>3. CASE op = "delete" /\ pc \in DeleteAt
  <2>1. \/ pc = "ruledel" /\ ErrorPc(op, pc) = "netnsdel"
        \/ pc = "netnsdel" /\ ErrorPc(op, pc) = "down"
        \/ pc = "down" /\ ErrorPc(op, pc) = "del"
        \/ pc = "del" /\ ErrorPc(op, pc) = "failed"
    BY <1>3, DeleteFails DEF DeleteAt
  <2> QED
    BY <1>3, <2>1 DEF HalfwayAt, Final
<1> QED
  BY <1>1, <1>2, <1>3

LEMMA SerialInit == ASSUME Init PROVE SerialInv
<1>1. \A t \in Task : ~Active(t)
  BY DEF Init, Active, Unused
<1> QED
  BY <1>1 DEF Init, SerialInv, OneActive, Calm, MissedTyped

LEMMA SerialHandle ==
    ASSUME IsFiniteSet(Task), AtOnce = 1, Inv, SerialInv, NEW t \in Task, Handle(t)
    PROVE  SerialInv'
<1>1. /\ UNCHANGED node /\ task'[t].pc \in {"add", "ruledel", "show"}
      /\ \A u \in Task \ {t} : task'[u] = task[u]
      /\ task[t].pc = "unused" /\ missed' = missed
  BY HandleStep DEF Handle
<1>2. \A u \in Task \ {t} : ~Active(u)'
  BY <1>1, NoneUnderWay DEF Active
<1>3. OneActive'
  BY <1>2 DEF OneActive
<1>4. Halfway(t)'
  BY <1>1 DEF Halfway, HalfwayAt, Holding
<1>5. MissedTyped'
  BY <1>1 DEF SerialInv, MissedTyped
<1>6. ASSUME NEW v \in Vpc PROVE RuleMissed(v) => RuleMissed(v)'
  BY <1>1 DEF RuleMissed, SerialInv, MissedTyped
<1>7. \A v \in Vpc : Calm(v)'
  BY <1>1, <1>6 DEF SerialInv, Calm, node
<1> QED
  BY <1>2, <1>3, <1>4, <1>5, <1>7 DEF SerialInv

LEMMA SerialStop ==
    ASSUME Inv, SerialInv, AgentCrash \/ Reboot
    PROVE  SerialInv'
<1>1. \A t \in Task : ~Active(t)'
  BY StopStep
<1>2. ASSUME NEW t \in Task
      PROVE  task'[t].op = task[t].op /\ task'[t].vpc = task[t].vpc
             /\ (task'[t].pc = "unused" => task[t].pc = "unused")
  BY DEF AgentCrash, Reboot, Interrupted, Inv, TInv
<1>3. MissedTyped'
  BY <1>2 DEF AgentCrash, Reboot, SerialInv, MissedTyped
<1>4. ASSUME NEW v \in Vpc PROVE Calm(v)'
  <2>1. CASE Reboot
    <3>1. rules'[v] = 0
      BY <2>1 DEF Reboot
    <3> QED
      BY <3>1 DEF Calm
  <2>2. CASE AgentCrash
    <3>1. RuleMissed(v) => RuleMissed(v)'
      BY <1>2, <2>2 DEF RuleMissed, AgentCrash
    <3>2. rules'[v] = rules[v] /\ link'[v] = link[v]
      BY <2>2 DEF AgentCrash, node
    <3>3. Calm(v)
      BY DEF SerialInv
    <3> QED
      BY <3>1, <3>2, <3>3 DEF Calm
  <2> QED
    BY <2>1, <2>2
<1> QED
  BY <1>1, <1>3, <1>4 DEF SerialInv, OneActive

\* no call but t is under way, so what holds of t after its step is all there is to show
LEMMA SerialAfter ==
    ASSUME SerialInv, NEW t \in Task, Active(t), \A u \in Task \ {t} : task'[u] = task[u],
           MissedTyped', \A v \in Vpc : Calm(v)', Active(t)' => Halfway(t)'
    PROVE  SerialInv'
<1>1. \A u \in Task \ {t} : ~Active(u)'
  BY DEF SerialInv, OneActive, Active
<1>2. OneActive'
  BY <1>1 DEF OneActive
<1> QED
  BY <1>1, <1>2 DEF SerialInv

\* a step of t that keeps what it is a call for forgets nothing that was missed
LEMMA MissedKept ==
    ASSUME Inv, SerialInv, NEW t \in Task,
           task'[t].op = task[t].op, task'[t].vpc = task[t].vpc, task'[t].pc # "unused",
           \A u \in Task \ {t} : task'[u] = task[u] /\ missed'[u] = missed[u],
           missed' \in [Task -> SUBSET Removal], missed[t] \subseteq missed'[t]
    PROVE  MissedTyped' /\ \A v \in Vpc : RuleMissed(v) => RuleMissed(v)'
<1>1. MissedTyped'
  BY DEF SerialInv, MissedTyped
<1>2. ASSUME NEW v \in Vpc, RuleMissed(v) PROVE RuleMissed(v)'
  <2>1. PICK u \in Task : /\ task[u].op = "delete" /\ task[u].vpc = v
                          /\ "ruledel" \in missed[u]
    BY <1>2 DEF RuleMissed
  <2>2. task'[u].op = "delete" /\ task'[u].vpc = v /\ "ruledel" \in missed'[u]
    BY <2>1
  <2> QED
    BY <2>2 DEF RuleMissed
<1> QED
  BY <1>1, <1>2

LEMMA SerialRun ==
    ASSUME Inv, SerialInv, NEW t \in Task, Run(t)
    PROVE  /\ SerialInv'
           /\ task[t].op = "delete" /\ task'[t].pc = "ok" =>
                (/\ link[task[t].vpc] = {}
                 /\ task[t].vpc \in netns => "netnsdel" \in missed[t]
                 /\ rules[task[t].vpc] > 0 => RuleMissed(task[t].vpc))'
<1>v. PICK v \in Vpc : v = task[t].vpc
  BY DEF Inv, TInv
<1> DEFINE pc == task[t].pc
           op == task[t].op
           d == "netnsdel" \in missed[t]
<1>0. /\ v \in Vpc /\ op \in Op /\ pc \notin Final \cup {"unused"}
      /\ Stands([op |-> op, vpc |-> v, pc |-> pc]) /\ Possible(pc, v)
      /\ task'[t] = [op |-> op, vpc |-> v, pc |-> NextPc(op, pc)]
      /\ \A u \in Task \ {t} : task'[u] = task[u]
      /\ link'[v] = Bridge(pc, link[v]) /\ rules'[v] = Rules(pc, rules[v])
      /\ \A w \in Vpc \ {v} : /\ link'[w] = link[w] /\ rules'[w] = rules[w]
                              /\ w \in netns' <=> w \in netns
      /\ v \in netns' <=> pc = "netns" \/ (v \in netns /\ pc # "netnsdel")
  BY <1>v, RunStep
<1>1. /\ Active(t) /\ link[v] \in Links /\ rules[v] \in Nat /\ missed' = missed
      /\ RuleMissed(v) \/ (rules[v] \in {0, 1} /\ (rules[v] = 1 => link[v] # {}))
  BY <1>0 DEF Run, Inv, TInv, SerialInv, Calm
<1>2. HalfwayAt(op, pc, link[v], rules[v], v \in netns, RuleMissed(v), d)
  BY <1>v, <1>1 DEF SerialInv, Halfway
<1>3. \/ op = "create" /\ pc \in CreateAt
      \/ op = "ensure" /\ pc \in EnsureAt
      \/ op = "delete" /\ pc \in DeleteAt
  BY <1>0 DEF Stands
<1>4. /\ pc = "add" => link[v] = {}
      /\ pc \in {"show", "up", "addr", "down", "undo", "del"} => link[v] # {}
      /\ pc \in {"check", "ruledel"} => rules[v] > 0
  BY <1>0 DEF Possible
<1>5. /\ RuleMissed(v) \/ (rules'[v] \in {0, 1} /\ (rules'[v] = 1 => link'[v] # {}))
      /\ NextPc(op, pc) \notin Final
            => HalfwayAt(op, NextPc(op, pc), link'[v], rules'[v], v \in netns', RuleMissed(v), d)
      /\ op = "delete" /\ NextPc(op, pc) = "ok"
            => link'[v] = {} /\ (RuleMissed(v) \/ rules'[v] = 0) /\ (d \/ v \notin netns')
  <2> DEFINE l == link[v]
             l2 == link'[v]
             r == rules[v]
             r2 == rules'[v]
             ns == v \in netns
             ns2 == v \in netns'
             m == RuleMissed(v)
  <2>0. m \in BOOLEAN
    BY DEF RuleMissed
  <2>1. /\ l \in Links /\ r \in Nat /\ ns \in BOOLEAN /\ ns2 \in BOOLEAN /\ d \in BOOLEAN
        /\ m \/ (r \in {0, 1} /\ (r = 1 => l # {}))
        /\ HalfwayAt(op, pc, l, r, ns, m, d)
        /\ l2 = Bridge(pc, l) /\ r2 = Rules(pc, r)
        /\ ns2 <=> pc = "netns" \/ (ns /\ pc # "netnsdel")
    BY <1>0, <1>1, <1>2
  <2>2. /\ pc = "add" => l = {}
        /\ pc \in {"show", "up", "addr", "down", "undo", "del"} => l # {}
        /\ pc \in {"check", "ruledel"} => r > 0
    BY <1>4
  <2> HIDE DEF l, l2, r, r2, ns, ns2, pc, op, m, d
  <2>3. /\ m \/ (r2 \in {0, 1} /\ (r2 = 1 => l2 # {}))
        /\ NextPc(op, pc) \notin Final => HalfwayAt(op, NextPc(op, pc), l2, r2, ns2, m, d)
        /\ op = "delete" /\ NextPc(op, pc) = "ok" => l2 = {} /\ (m \/ r2 = 0) /\ (d \/ ~ns2)
    BY <1>3, <2>0, <2>1, <2>2, RunHalfway
  <2> QED
    BY <2>3 DEF l2, r2, ns2, m
<1>6. NextPc(op, pc) # "unused"
  BY <1>0, NextStands
<1>7. MissedTyped' /\ \A w \in Vpc : RuleMissed(w) => RuleMissed(w)'
  <2>1. /\ task'[t].op = task[t].op /\ task'[t].vpc = task[t].vpc /\ task'[t].pc # "unused"
        /\ \A u \in Task \ {t} : task'[u] = task[u] /\ missed'[u] = missed[u]
    BY <1>v, <1>0, <1>1, <1>6
  <2>2. missed' \in [Task -> SUBSET Removal] /\ missed[t] \subseteq missed'[t]
    BY <1>1 DEF SerialInv, MissedTyped
  <2> HIDE DEF pc, op, d
  <2> QED
    BY <2>1, <2>2, MissedKept
<1> HIDE DEF pc, op, d
<1>8. \A w \in Vpc : Calm(w)'
  BY <1>0, <1>5, <1>7 DEF SerialInv, Calm
<1>9. Active(t)' => Halfway(t)'
  <2> SUFFICES ASSUME Active(t)' PROVE Halfway(t)'
    OBVIOUS
  <2>1. HalfwayAt(op, NextPc(op, pc), link'[v], rules'[v], v \in netns', RuleMissed(v), d)
    BY <1>0, <1>5 DEF Active
  <2>2. HalfwayAt(op, NextPc(op, pc), link'[v], rules'[v], v \in netns', RuleMissed(v)',
                  "netnsdel" \in missed'[t])
    BY <1>0, <1>1, <1>7, <2>1 DEF HalfwayAt, d
  <2> QED
    BY <1>0, <2>2 DEF Halfway
<1>10. SerialInv'
  BY <1>0, <1>1, <1>7, <1>8, <1>9, SerialAfter
<1>11. op = "delete" /\ NextPc(op, pc) = "ok" =>
          /\ link'[v] = {} /\ (v \in netns' => "netnsdel" \in missed'[t])
          /\ (rules'[v] > 0 => RuleMissed(v)')
  BY <1>0, <1>1, <1>5, <1>7 DEF d
<1> QED
  BY <1>v, <1>0, <1>10, <1>11 DEF op

LEMMA SerialFails ==
    ASSUME Inv, SerialInv, NEW t \in Task, RunFails(t)
    PROVE  SerialInv' /\ ~(task[t].op = "delete" /\ task'[t].pc = "ok")
<1>v. PICK v \in Vpc : v = task[t].vpc
  BY DEF Inv, TInv
<1> DEFINE pc == task[t].pc
           op == task[t].op
           d == "netnsdel" \in missed[t]
<1>0. /\ v \in Vpc /\ op \in Op /\ pc \notin Final \cup {"unused"}
      /\ Stands([op |-> op, vpc |-> v, pc |-> pc])
      /\ task'[t] = [op |-> op, vpc |-> v, pc |-> ErrorPc(op, pc)]
      /\ \A u \in Task \ {t} : task'[u] = task[u]
      /\ UNCHANGED node
  BY <1>v, FailStep
<1>1. Active(t) /\ rules[v] \in Nat /\ missed \in [Task -> SUBSET Removal]
  BY <1>0 DEF RunFails, SerialInv, MissedTyped, Inv, TInv
<1>2. HalfwayAt(op, pc, link[v], rules[v], v \in netns, RuleMissed(v), d)
  BY <1>v, <1>1 DEF SerialInv, Halfway
<1>3. \/ op = "create" /\ pc \in CreateAt
      \/ op = "ensure" /\ pc \in EnsureAt
      \/ op = "delete" /\ pc \in DeleteAt
  BY <1>0 DEF Stands
<1>4. /\ missed' \in [Task -> SUBSET Removal] /\ missed[t] \subseteq missed'[t]
      /\ \A u \in Task \ {t} : missed'[u] = missed[u]
      /\ op = "delete" /\ pc \in Removal /\ Possible(pc, v) => pc \in missed'[t]
  BY <1>v, <1>1 DEF RunFails
<1>5. ErrorPc(op, pc) # "unused"
  BY <1>0, NextStands
<1>6. MissedTyped' /\ \A w \in Vpc : RuleMissed(w) => RuleMissed(w)'
  <2>1. /\ task'[t].op = task[t].op /\ task'[t].vpc = task[t].vpc /\ task'[t].pc # "unused"
        /\ \A u \in Task \ {t} : task'[u] = task[u] /\ missed'[u] = missed[u]
    BY <1>v, <1>0, <1>4, <1>5
  <2> HIDE DEF pc, op, d
  <2> QED
    BY <1>4, <2>1, MissedKept
<1>7. /\ op = "delete" /\ pc = "ruledel" => RuleMissed(v)' \/ rules[v] = 0
      /\ op = "delete" /\ pc = "netnsdel" => "netnsdel" \in missed'[t] \/ v \notin netns
  <2>1. pc = "ruledel" /\ ~Possible(pc, v) => ~(rules[v] > 0)
    BY DEF Possible
  <2>2. pc = "netnsdel" /\ ~Possible(pc, v) => v \notin netns
    BY DEF Possible
  <2>3. op = "delete" /\ pc = "ruledel" /\ Possible(pc, v) => RuleMissed(v)'
    BY <1>v, <1>0, <1>4 DEF RuleMissed, Removal
  <2>4. op = "delete" /\ pc = "netnsdel" /\ Possible(pc, v) => "netnsdel" \in missed'[t]
    BY <1>4 DEF Removal
  <2> QED
    BY <1>1, <2>1, <2>2, <2>3, <2>4
<1>8. /\ ErrorPc(op, pc) \notin Final
            => HalfwayAt(op, ErrorPc(op, pc), link[v], rules[v], v \in netns, RuleMissed(v)',
                         "netnsdel" \in missed'[t])
      /\ ~(op = "delete" /\ ErrorPc(op, pc) = "ok")
  <2> DEFINE ns == v \in netns
             m == RuleMissed(v)
             m2 == RuleMissed(v)'
             d2 == "netnsdel" \in missed'[t]
  <2>0. m \in BOOLEAN /\ m2 \in BOOLEAN
    BY DEF RuleMissed
  <2>1. /\ ns \in BOOLEAN /\ d \in BOOLEAN /\ d2 \in BOOLEAN
        /\ HalfwayAt(op, pc, link[v], rules[v], ns, m, d)
        /\ (m => m2) /\ (d => d2)
        /\ op = "delete" /\ pc = "ruledel" => m2 \/ rules[v] = 0
        /\ op = "delete" /\ pc = "netnsdel" => d2 \/ ~ns
    BY <1>0, <1>2, <1>4, <1>6, <1>7
  <2> HIDE DEF ns, pc, op, m, m2, d, d2
  <2>2. /\ ErrorPc(op, pc) \notin Final
              => HalfwayAt(op, ErrorPc(op, pc), link[v], rules[v], ns, m2, d2)
        /\ ~(op = "delete" /\ ErrorPc(op, pc) = "ok")
    BY <1>3, <2>0, <2>1, FailHalfway
  <2> QED
    BY <2>2 DEF ns, m2, d2
<1> HIDE DEF pc, op, d
<1>9. \A w \in Vpc : Calm(w)'
  BY <1>0, <1>6 DEF SerialInv, Calm, node
<1>10. Active(t)' => Halfway(t)'
  BY <1>0, <1>8 DEF Active, Halfway, node
<1>11. SerialInv'
  BY <1>0, <1>1, <1>6, <1>9, <1>10, SerialAfter
<1> QED
  BY <1>0, <1>8, <1>11 DEF op

\* calls that follow one another
SerialCalls == IsFiniteSet(Task) /\ AtOnce = 1

LEMMA SerialNext ==
    ASSUME SerialCalls, Inv, SerialInv, [Next]_vars
    PROVE  SerialInv' /\ [OnlyMissedLeftStep]_vars
<1>1. CASE AgentCrash \/ Reboot
  <2>1. ASSUME NEW t \in Task, Ends(t) PROVE FALSE
    BY <1>1, <2>1, StopStep
  <2> QED
    BY <1>1, <2>1, SerialStop DEF OnlyMissedLeftStep
<1>2. ASSUME NEW t \in Task, Handle(t) PROVE SerialInv' /\ OnlyMissedLeftStep
  <2>1. ASSUME NEW u \in Task, Ends(u) PROVE FALSE
    BY <1>2, <2>1, HandleStep DEF Ends, Active, Final
  <2> QED
    BY <1>2, <2>1, SerialHandle DEF OnlyMissedLeftStep, SerialCalls
<1>3. ASSUME NEW t \in Task, Run(t) PROVE SerialInv' /\ OnlyMissedLeftStep
  <2>1. \A u \in Task \ {t} : task'[u] = task[u]
    BY <1>3, RunStep
  <2>2. \A u \in Task : Ends(u) => u = t
    BY <2>1 DEF Ends, Active, Final
  <2>3. /\ SerialInv'
        /\ task[t].op = "delete" /\ task'[t].pc = "ok" =>
             (/\ link[task[t].vpc] = {}
              /\ task[t].vpc \in netns => "netnsdel" \in missed[t]
              /\ rules[task[t].vpc] > 0 => RuleMissed(task[t].vpc))'
    BY <1>3, SerialRun
  <2> QED
    BY <2>2, <2>3 DEF OnlyMissedLeftStep, Ends
<1>4. ASSUME NEW t \in Task, RunFails(t) PROVE SerialInv' /\ OnlyMissedLeftStep
  <2>1. \A u \in Task \ {t} : task'[u] = task[u]
    BY <1>4, FailStep
  <2>2. \A u \in Task : Ends(u) => u = t
    BY <2>1 DEF Ends, Active, Final
  <2> QED
    BY <1>4, <2>2, SerialFails DEF OnlyMissedLeftStep, Ends
<1>5. CASE UNCHANGED vars
  BY <1>5 DEF vars, node, SerialInv, OneActive, Active, Calm, Halfway, MissedTyped, RuleMissed
<1> QED
  BY <1>1, <1>2, <1>3, <1>4, <1>5 DEF Next

(***************************************************************************)
(* A DeleteVPC that reports success leaves no bridge, the namespace only   *)
(* where its own ip netns del failed, and a rule only where an iptables -D *)
(* of this or an earlier delete failed: both errors are dropped            *)
(* (natgw.go:26-30, manager.go:46-55).  However its creates and ensures    *)
(* failed before and whenever the agent died or the node was rebooted, for *)
(* any number of calls that follow one another, of any VPCs.               *)
(***************************************************************************)
THEOREM DeletedLeavesOnlyMissed ==
    VpcAssumption /\ SerialCalls => (Spec => [][OnlyMissedLeftStep]_vars)
<1> SUFFICES ASSUME VpcAssumption, SerialCalls PROVE Spec => [][OnlyMissedLeftStep]_vars
  OBVIOUS
<1>1. Init => Inv /\ SerialInv
  BY InvInit, SerialInit
<1>2. Inv /\ SerialInv /\ [Next]_vars => (Inv /\ SerialInv)'
  BY InvNext, SerialNext
<1>3. Inv /\ SerialInv /\ [Next]_vars => [OnlyMissedLeftStep]_vars
  BY SerialNext
<1> QED
  BY <1>1, <1>2, <1>3, PTL DEF Spec

=============================================================================
