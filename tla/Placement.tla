----------------------------- MODULE Placement -----------------------------
(***************************************************************************)
(* What the controller knows of the memory of its nodes, and the node the  *)
(* scheduler picks from it.  The agent measures through libvirt, or        *)
(* reports fixed figures when it has no connection; Upsert keeps the total *)
(* of the first registration, heartbeats replace the free memory.          *)
(***************************************************************************)
EXTENDS Naturals, Sequences, SequencesExt, FiniteSets

CONSTANTS
    Node,
    MaxRam,         \* memory is counted in units, up to MaxRam
    FallbackRam,    \* 8 GB fallback
    FallbackFree    \* the free memory an agent without libvirt reports

PlacementAssumption ==
    /\ "none" \notin Node       \* what PickNode returns for no node
    /\ MaxRam \in Nat /\ FallbackRam \in 0..MaxRam /\ FallbackFree \in 0..MaxRam

VARIABLES
    ram,        \* ram[n]: the memory of the machine
    libvirt,    \* agents that have a connection to libvirt
    row,        \* row[n]: [here, ram, free, status, age] of table nodes
    guess       \* nodes whose free memory in the row is the fixed figure

vars == <<ram, libvirt, row, guess>>

NoRow == [here |-> FALSE, ram |-> 0, free |-> 0, status |-> "unreachable", age |-> 0]

\* last_seen in steps of the heartbeat's 10 s; 4 stands for longer
TypeOK ==
    /\ ram \in [Node -> 1..MaxRam]
    /\ libvirt \subseteq Node /\ guess \subseteq Node
    /\ row \in [Node -> [here : BOOLEAN, ram : 0..MaxRam, free : 0..MaxRam,
                         status : {"healthy", "unreachable"}, age : 0..4]]

Init ==
    /\ ram \in [Node -> 1..MaxRam]
    /\ libvirt = Node /\ guess = {}
    /\ row = [n \in Node |-> NoRow]

----------------------------------------------------------------------------
(* The agent's figures and the rows.                                       *)

\* buildNodeInfo: what libvirt says, or 8 GB when it cannot be asked
buildNodeInfo(n) == {FallbackRam} \cup (IF n \in libvirt THEN {ram[n]} ELSE {})

\* Mutant of Upsert: the row takes over the figures of every registration,
\* the free memory too, which no registration knows.
UpsertAll(n, total) ==
    row' = [row EXCEPT ![n] = [here |-> TRUE, ram |-> total, free |-> FallbackRam,
                               status |-> "healthy", age |-> 0]]

\* NodeStore.Upsert: a row that exists keeps its figures
Upsert(n, total) ==
    row' = [row EXCEPT ![n] =
               [here |-> TRUE, status |-> "healthy", age |-> 0,
                ram |-> IF row[n].here THEN row[n].ram ELSE total,
                free |-> IF row[n].here THEN row[n].free ELSE 0]]

Register(n) ==
    /\ \E total \in buildNodeInfo(n) : Upsert(n, total)
    /\ UNCHANGED <<ram, libvirt, guess>>

\* collectStats: a fixed figure without libvirt, nothing when it fails
collectStats(n) ==
    IF n \notin libvirt THEN {FallbackFree} ELSE 0..ram[n]

\* UpdateHeartbeat
Heartbeat(n) ==
    /\ row[n].here
    /\ \E free \in collectStats(n) :
        row' = [row EXCEPT ![n] = [@ EXCEPT !.free = free, !.status = "healthy",
                                            !.age = 0]]
    /\ guess' = IF n \in libvirt THEN guess \ {n} ELSE guess \cup {n}
    /\ UNCHANGED <<ram, libvirt>>

\* Mutant of MarkUnreachable: a status nobody else knows.
MarkOffline(n) == row' = [row EXCEPT ![n].status = "offline"]

MarkUnreachable(n) == row' = [row EXCEPT ![n].status = "unreachable"]

\* the agent is started again, with or without libvirt, and its stream ends
Restart(n) ==
    /\ MarkUnreachable(n)
    /\ libvirt' \in {libvirt \cup {n}, libvirt \ {n}}
    /\ UNCHANGED <<ram, guess>>

\* 10 s without a heartbeat
Silence(n) ==
    /\ row[n].here /\ row[n].age < 4
    /\ row' = [row EXCEPT ![n].age = @ + 1]
    /\ UNCHANGED <<ram, libvirt, guess>>

\* the machine gets more memory
Upgrade(n) ==
    /\ ram[n] < MaxRam
    /\ ram' = [ram EXCEPT ![n] = @ + 1]
    /\ UNCHANGED <<libvirt, row, guess>>

Next ==
    \E n \in Node :
        Register(n) \/ Heartbeat(n) \/ Restart(n) \/ Silence(n) \/ Upgrade(n)

Spec == Init /\ [][Next]_vars

----------------------------------------------------------------------------
(* The scheduler.                                                          *)

\* status = 'healthy' AND last_seen > NOW() - INTERVAL '30 seconds'
GetHealthy == {n \in Node : row[n].here /\ row[n].status = "healthy" /\ row[n].age < 3}

\* ORDER BY ram_free DESC, in which rows without a heartbeat come first:
\* any order will do for what follows
Orders == SetToSeqs(GetHealthy)

\* Mutant of Better: a node that has just what is needed is left out.
BetterStrict(best, n, min) ==
    row[n].free > min /\ (best = "none" \/ row[n].free > row[best].free)

\* the loop's two conditions
Better(best, n, min) ==
    row[n].free >= min /\ (best = "none" \/ row[n].free > row[best].free)

PickNode(order, min) ==
    FoldLeft(LAMBDA best, n : IF Better(best, n, min) THEN n ELSE best, "none", order)

----------------------------------------------------------------------------
(* Properties.                                                             *)

(***************************************************************************)
(* "PickNode retorna o node mais adequado": in whatever order the rows     *)
(* come, it finds a node exactly when one heard of lately has what is      *)
(* needed, and none of those has more to offer.                            *)
(***************************************************************************)
PickIsBest ==
    \A min \in 0..MaxRam : \A order \in Orders :
        LET n == PickNode(order, min)
            fit == {m \in GetHealthy : row[m].free >= min}
        IN IF fit = {} THEN n = "none"
           ELSE n \in fit /\ \A m \in fit : row[m].free <= row[n].free

(***************************************************************************)
(* What the pages draw as used memory is between nothing and all of it     *)
(* from the first moment of a row, without a heartbeat yet, to the last,   *)
(* as long as the total is the machine's and the free memory is measured:  *)
(* a fallback total, or one the machine has outgrown, stays in the row.    *)
(***************************************************************************)
UsedInRange ==
    \A n \in Node :
        row[n].ram = ram[n] /\ n \notin guess => row[n].free <= row[n].ram
=============================================================================
