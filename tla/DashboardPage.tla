--------------------------- MODULE DashboardPage ---------------------------
(***************************************************************************)
(* The dashboard of the web interface, RealDashboard.  Every 15 s it asks  *)
(* for the instances and for the nodes and shows both when both have come: *)
(* two tables read at two moments, and answers of an earlier round that    *)
(* may come after those of a later one.                                    *)
(*                                                                         *)
(* A table is the number of times it has changed; the cards, lists and     *)
(* sums drawn from the two tables are left out.                            *)
(***************************************************************************)
EXTENDS Naturals, FiniteSets

CONSTANTS
    Load,       \* bound: rounds under way at once
    MaxChange,  \* bound: changes of each table
    MaxFault    \* bound: failed rounds

DashboardAssumption == MaxChange \in Nat /\ MaxFault \in Nat

Table == {"instances", "nodes"}
Version == 0..MaxChange
NotRead == MaxChange + 1

VARIABLES
    table,      \* table[t]: the version of a table of the database
    page,       \* [mounted, shown, loading, error]
    round,      \* round[l]: a Promise.all of this visit: [sent, got]
    faults

vars == <<table, page, round, faults>>

Nothing == [t \in Table |-> NotRead]
Idle == [sent |-> FALSE, got |-> Nothing]
Mounted(m) == [mounted |-> m, shown |-> Nothing, loading |-> TRUE, error |-> FALSE]

Answers == [Table -> Version \cup {NotRead}]

TypeOK ==
    /\ table \in [Table -> Version]
    /\ page \in [mounted : BOOLEAN, shown : Answers, loading : BOOLEAN, error : BOOLEAN]
    /\ round \in [Load -> [sent : BOOLEAN, got : Answers]]
    /\ faults \in 0..MaxFault

Init ==
    /\ table = [t \in Table |-> 0]
    /\ page = Mounted(FALSE)
    /\ round = [l \in Load |-> Idle]
    /\ faults = 0

----------------------------------------------------------------------------

\* load: the two requests leave together; Carregando is for the first round
load ==
    \E l \in Load :
        /\ ~round[l].sent
        /\ \A k \in Load : ~round[k].sent => l <= k
        /\ round' = [round EXCEPT ![l].sent = TRUE]

\* the queries of InstanceHandler.List and NodeHandler.List, in either order
Read(l, t) ==
    /\ round[l].sent /\ round[l].got[t] = NotRead
    /\ round' = [round EXCEPT ![l].got[t] = table[t]]
    /\ UNCHANGED <<table, page, faults>>

\* Promise.all is fulfilled
Complete(l) == \A t \in Table : round[l].got[t] # NotRead

\* .then and .finally
LoadDone(l) ==
    /\ Complete(l)
    /\ page' = [page EXCEPT !.shown = round[l].got, !.loading = FALSE]
    /\ round' = [round EXCEPT ![l] = Idle]
    /\ UNCHANGED <<table, faults>>

\* one of the two fails: .catch and .finally; nothing takes the error back
LoadFailed(l) ==
    /\ round[l].sent
    /\ faults < MaxFault /\ faults' = faults + 1
    /\ page' = [page EXCEPT !.error = TRUE, !.loading = FALSE]
    /\ round' = [round EXCEPT ![l] = Idle]
    /\ UNCHANGED table

\* Mutant of Interval: the timer stops with the first round that is shown.
IntervalOnce == page.mounted /\ page.loading

\* setInterval(load, 15000)
Interval == page.mounted

Tick ==
    /\ Interval /\ load
    /\ UNCHANGED <<table, page, faults>>

Enter ==
    /\ ~page.mounted /\ page' = Mounted(TRUE)
    /\ load
    /\ UNCHANGED <<table, faults>>

Leave ==
    /\ page.mounted /\ page' = Mounted(FALSE)
    /\ round' = [l \in Load |-> Idle]
    /\ UNCHANGED <<table, faults>>

\* whatever writes the tables
Change(t) ==
    /\ table[t] < MaxChange
    /\ table' = [table EXCEPT ![t] = @ + 1]
    /\ UNCHANGED <<page, round, faults>>

Next ==
    \/ \E l \in Load : LoadDone(l) \/ LoadFailed(l) \/ \E t \in Table : Read(l, t)
    \/ \E t \in Table : Change(t)
    \/ Tick \/ Enter \/ Leave

Spec == Init /\ [][Next]_vars

----------------------------------------------------------------------------

\* the early returns before the JSX
View ==
    IF ~page.mounted THEN "away"
    ELSE IF page.loading THEN "spinner"
    ELSE IF page.error THEN "error"
    ELSE "page"

=============================================================================
