----------------------------- MODULE VpcNetwork -----------------------------
(***************************************************************************)
(* The VPCs of one node: network.Manager, called from one goroutine per    *)
(* command of the controller.  A call is a sequence of commands run one    *)
(* after the other (ip, sysctl, iptables); those of different calls        *)
(* interleave, any of them may fail, a crash of the agent cuts them short  *)
(* and a reboot of the node undoes them all at once.                       *)
(*                                                                         *)
(* A call is a task that stands at its next command.  NextPc and ErrorPc   *)
(* are the sequences as the code has them; Effect is what a command does   *)
(* to the node and when it can.                                            *)
(***************************************************************************)
EXTENDS Naturals, FiniteSets

CONSTANTS
    Vpc,
    Task,       \* bound: calls, numbered
    AtOnce,     \* calls that may overlap
    MaxFault    \* bound: commands that fail for reasons of their own, crashes, reboots

VpcAssumption ==
    Vpc # {} /\ AtOnce \in Nat \ {0} /\ MaxFault \in Nat

\* "create" is CreateVPC, "delete" DeleteVPC, "ensure" EnsureBridge
Op == {"create", "delete", "ensure"}
Final == {"ok", "failed"}
Pc == {"unused", "show", "add", "up", "addr", "forward", "netns", "check", "append",
       "netnsdel", "undo", "ruledel", "down", "del"} \cup Final

VARIABLES
    link,      \* link[v]: of the bridge, {"link"} once added, "up", "addr"
    netns,     \* VPCs whose namespace exists
    rules,     \* rules[v]: MASQUERADE rules for v's CIDR
    task,      \* task[t]: [op, vpc, pc]
    missed,    \* missed[t]: history, removals of delete t that failed and were ignored
    faults

node == <<link, netns, rules>>
vars == <<link, netns, rules, task, missed, faults>>

Whole == {"link", "up", "addr"}
Removal == {"ruledel", "netnsdel"}   \* the commands of deleteNATGW

TypeOK ==
    /\ link \in [Vpc -> {{}} \cup {l \in SUBSET Whole : "link" \in l}]
    /\ netns \subseteq Vpc
    /\ rules \in [Vpc -> 0..Cardinality(Task)]
    /\ task \in [Task -> [op : Op, vpc : Vpc, pc : Pc]]
    /\ missed \in [Task -> SUBSET Removal]
    /\ faults \in 0..MaxFault

Unused == [op |-> "create", vpc |-> CHOOSE v \in Vpc : TRUE, pc |-> "unused"]

Init ==
    /\ link = [v \in Vpc |-> {}]
    /\ netns = {}
    /\ rules = [v \in Vpc |-> 0]
    /\ task = [t \in Task |-> Unused]
    /\ missed = [t \in Task |-> {}]
    /\ faults = 0

----------------------------------------------------------------------------
(* The sequences.                                                          *)

FirstPc == [create |-> "add", delete |-> "ruledel", ensure |-> "show"]

\* createBridge: three commands, no undo
BridgePc == [add |-> "up", up |-> "addr", addr |-> "forward"]

\* addMasquerade: -C finds the rule, or -A adds it
MasqueradePc == [check |-> "ok", append |-> "ok"]

\* createNATGW: sysctl, then the namespace, then addMasquerade
CreatePc == [forward |-> "netns", netns |-> "check", netnsdel |-> "undo",
             undo |-> "del", del |-> "failed"]

\* EnsureBridge: a link that is shown is all it looks for
EnsurePc == [show |-> "ok", forward |-> "check"]

\* deleteNATGW and deleteBridge: only the error of ip link del counts
DeletePc == [ruledel |-> "netnsdel", netnsdel |-> "down", down |-> "del", del |-> "ok"]

NextPc(op, pc) ==
    IF op = "delete" THEN DeletePc[pc]
    ELSE IF pc \in DOMAIN BridgePc THEN BridgePc[pc]
    ELSE IF pc \in DOMAIN MasqueradePc THEN MasqueradePc[pc]
    ELSE IF op = "create" THEN CreatePc[pc] ELSE EnsurePc[pc]

\* Mutant of CreateErrorPc: an error of createBridge takes it down as well.
CreateErrorUndoes ==
    [add |-> "undo", up |-> "undo", addr |-> "undo",
     forward |-> "undo", netns |-> "undo", netnsdel |-> "undo",
     check |-> "append", append |-> "netnsdel", undo |-> "del", del |-> "failed"]

\* CreateVPC: an error of createNATGW takes the bridge down again, one of
\* createBridge does not; an error of -A removes the namespace first
CreateErrorPc ==
    [add |-> "failed", up |-> "failed", addr |-> "failed",
     forward |-> "undo", netns |-> "undo", netnsdel |-> "undo",
     check |-> "append", append |-> "netnsdel", undo |-> "del", del |-> "failed"]

\* the errors of sysctl and addMasquerade are dropped
EnsureErrorPc ==
    [show |-> "add", add |-> "failed", up |-> "failed", addr |-> "failed",
     forward |-> "check", check |-> "append", append |-> "ok"]

ErrorPc(op, pc) ==
    IF op = "create" THEN CreateErrorPc[pc]
    ELSE IF op = "ensure" THEN EnsureErrorPc[pc]
    ELSE IF pc = "del" THEN "failed" ELSE DeletePc[pc]

----------------------------------------------------------------------------
(* The commands.                                                           *)

\* whether the command can be carried out on the node as it is
Possible(pc, v) ==
    /\ pc = "add" => link[v] = {}
    /\ pc \in {"show", "up", "addr", "down", "undo", "del"} => link[v] # {}
    /\ pc = "addr" => "addr" \notin link[v]
    /\ pc = "netns" => v \notin netns
    /\ pc = "netnsdel" => v \in netns
    /\ pc \in {"check", "ruledel"} => rules[v] > 0

\* what is left of the bridge
Bridge(pc, l) ==
    IF pc = "add" THEN {"link"}
    ELSE IF pc \in {"up", "addr"} THEN l \cup {pc}
    ELSE IF pc \in {"down", "undo"} THEN l \ {"up"}
    ELSE IF pc = "del" THEN {} ELSE l

\* Mutant of Rules: -D does not match the rule -A has added.
RulesKept(pc, r) == IF pc = "append" THEN r + 1 ELSE r

\* -A adds one rule, -D removes one
Rules(pc, r) ==
    IF pc = "append" THEN r + 1 ELSE IF pc = "ruledel" THEN r - 1 ELSE r

Effect(pc, v) ==
    /\ link' = [link EXCEPT ![v] = Bridge(pc, @)]
    /\ rules' = [rules EXCEPT ![v] = Rules(pc, @)]
    /\ netns' = IF pc = "netns" THEN netns \cup {v}
                ELSE IF pc = "netnsdel" THEN netns \ {v} ELSE netns

Active(t) == task[t].pc \notin Final \cup {"unused"}

\* Executor.Handle: a goroutine of its own; create_vm and start_vm ensure
Handle(t) ==
    /\ task[t].pc = "unused"
    /\ \A u \in Task : task[u].pc = "unused" => t <= u
    /\ Cardinality({u \in Task : Active(u)}) < AtOnce
    /\ \E op \in Op, v \in Vpc :
        task' = [task EXCEPT ![t] = [op |-> op, vpc |-> v, pc |-> FirstPc[op]]]
    /\ UNCHANGED <<node, missed, faults>>

Run(t) ==
    /\ Active(t) /\ Possible(task[t].pc, task[t].vpc)
    /\ Effect(task[t].pc, task[t].vpc)
    /\ task' = [task EXCEPT ![t].pc = NextPc(task[t].op, @)]
    /\ UNCHANGED <<missed, faults>>

\* A command that cannot be carried out, or that fails for a reason of its own.
RunFails(t) ==
    /\ Active(t)
    /\ IF Possible(task[t].pc, task[t].vpc)
       THEN /\ faults < MaxFault /\ faults' = faults + 1
            /\ missed' = [missed EXCEPT ![t] =
                  IF task[t].op = "delete" THEN @ \cup ({task[t].pc} \cap Removal) ELSE @]
       ELSE UNCHANGED <<missed, faults>>
    /\ task' = [task EXCEPT ![t].pc = ErrorPc(task[t].op, @)]
    /\ UNCHANGED node

Interrupted(t) == IF Active(t) THEN [task[t] EXCEPT !.pc = "failed"] ELSE task[t]

\* the agent dies, and its goroutines where they stand
AgentCrash ==
    /\ faults < MaxFault /\ faults' = faults + 1
    /\ task' = [t \in Task |-> Interrupted(t)]
    /\ UNCHANGED <<node, missed>>

\* nothing the commands set up survives either
Reboot ==
    /\ faults < MaxFault /\ faults' = faults + 1
    /\ link' = [v \in Vpc |-> {}] /\ netns' = {}
    /\ rules' = [v \in Vpc |-> 0]
    /\ missed' = [t \in Task |-> {}]
    /\ task' = [t \in Task |-> Interrupted(t)]

Next == AgentCrash \/ Reboot \/ \E t \in Task : Handle(t) \/ Run(t) \/ RunFails(t)

Spec == Init /\ [][Next]_vars

----------------------------------------------------------------------------
(* Properties.                                                             *)

\* calls so far for the VPC
Calls(op, v) ==
    {t \in Task : /\ task[t].pc # "unused" /\ task[t].op = op
                  /\ task[t].vpc = v}
Ends(t) == Active(t) /\ task'[t].pc = "ok"
Ready(v) == link[v] = Whole /\ rules[v] > 0

(***************************************************************************)
(* A CreateVPC that reports success leaves the bridge up, with its         *)
(* address, the namespace and a rule, whatever other creates and creates   *)
(* of VMs do to the same VPC meanwhile, and whichever of their commands    *)
(* fail: a create whose ip link add fails never takes the bridge of the    *)
(* others down again.                                                      *)
(***************************************************************************)
CreatedIsReadyStep ==
    \A t \in Task :
       Ends(t) /\ task[t].op = "create" /\ Calls("delete", task[t].vpc) = {} =>
          (Ready(task[t].vpc) /\ task[t].vpc \in netns)'

CreatedIsReady == [][CreatedIsReadyStep]_vars

\* a delete of v whose iptables -D failed has left a rule, since the last reboot
RuleMissed(v) ==
    \E t \in Task : /\ task[t].op = "delete" /\ task[t].vpc = v
                   /\ "ruledel" \in missed[t]

(***************************************************************************)
(* What a DeleteVPC that reports success leaves, when calls follow one     *)
(* another: never a bridge, not even one half made by a create that        *)
(* failed; the namespace only where its own ip netns del failed; a rule    *)
(* only where an iptables -D failed, its own or an earlier delete's, since *)
(* deleteNATGW drops both errors (natgw.go:26-30).  In particular nothing, *)
(* where no removal failed: no rule EnsureBridge added, however often.     *)
(***************************************************************************)
OnlyMissedLeftStep ==
    \A t \in Task :
       Ends(t) /\ task[t].op = "delete" =>
          (/\ link[task[t].vpc] = {}
           /\ task[t].vpc \in netns => "netnsdel" \in missed[t]
           /\ rules[task[t].vpc] > 0 => RuleMissed(task[t].vpc))'

=============================================================================
