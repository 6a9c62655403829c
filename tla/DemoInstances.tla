--------------------------- MODULE DemoInstances ---------------------------
(***************************************************************************)
(* The instances page of the live demo, Instances of pages/Instances.tsx:  *)
(* a list kept in the component alone, buttons that change it, and one 2 s *)
(* timer per created instance that "boots" it whatever was done meanwhile. *)
(*                                                                         *)
(* An address is "none" or "some"; the order of the rows, sizes and images *)
(* are left out.  A search term is the set of instances it matches.        *)
(***************************************************************************)
EXTENDS Naturals

CONSTANTS
    Running, Stopped,   \* the instances of data/mock.ts by status
    New                 \* bound: instances one can create in a visit

DemoAssumption ==
    Running \cap Stopped = {} /\ New \cap (Running \cup Stopped) = {}

Id == Running \cup Stopped \cup New
Status == {"pending", "running", "stopped"}
Filters == {"all", "running", "stopped"}
Terms == {Id} \cup {{i} : i \in Id}

VARIABLES
    vms,        \* vms[i]: [status, ip] of a row, or NoRow
    booting,    \* created instances whose timer has not fired
    made,       \* created instances of this visit
    tools,      \* [filter, search] of the toolbar
    modal,      \* [open, named]: the dialog, and whether form.name is not blank
    mounted

vars == <<vms, booting, made, tools, modal, mounted>>

NoRow == [status |-> "none", ip |-> "none"]
Row(status, ip) == [status |-> status, ip |-> ip]

TypeOK ==
    /\ vms \in [Id -> {NoRow} \cup [status : Status, ip : {"none", "some"}]]
    /\ booting \subseteq made /\ made \subseteq New
    /\ tools \in [filter : Filters, search : Terms]
    /\ modal \in [open : BOOLEAN, named : BOOLEAN]
    /\ mounted \in BOOLEAN

\* the mock data
initialInstances ==
    [i \in Id |-> IF i \in Running THEN Row("running", "some")
                  ELSE IF i \in Stopped THEN Row("stopped", "none")
                  ELSE NoRow]

AllRows == [filter |-> "all", search |-> Id]
Closed == [open |-> FALSE, named |-> FALSE]

\* useState of the first visit
Init ==
    /\ vms = initialInstances /\ booting = {} /\ made = {}
    /\ tools = AllRows /\ modal = Closed /\ mounted = FALSE

----------------------------------------------------------------------------
(* The table.                                                              *)

\* the rows on the screen
filtered ==
    {i \in tools.search :
        vms[i] # NoRow /\ (tools.filter = "all" \/ vms[i].status = tools.filter)}

\* toggleStatus: whatever does not run is started
toggled(row) ==
    IF row.status = "running" THEN Row("stopped", "none") ELSE Row("running", "some")

toggleStatus(i) ==
    /\ mounted /\ ~modal.open /\ i \in filtered
    /\ vms' = [vms EXCEPT ![i] = toggled(@)]
    /\ UNCHANGED <<booting, made, tools, modal, mounted>>

\* the row goes, its timer does not
deleteVm(i) ==
    /\ mounted /\ ~modal.open /\ i \in filtered
    /\ vms' = [vms EXCEPT ![i] = NoRow]
    /\ UNCHANGED <<booting, made, tools, modal, mounted>>

\* the search field and the select
Search(term) ==
    /\ mounted /\ ~modal.open
    /\ tools' = [tools EXCEPT !.search = term]
    /\ UNCHANGED <<vms, booting, made, modal, mounted>>

Filter(status) ==
    /\ mounted /\ ~modal.open
    /\ tools' = [tools EXCEPT !.filter = status]
    /\ UNCHANGED <<vms, booting, made, modal, mounted>>

----------------------------------------------------------------------------
(* The dialog.                                                             *)

\* Nova Instância, the cross, Cancelar and the backdrop: the form is kept
ToggleModal ==
    /\ mounted /\ modal' = [modal EXCEPT !.open = ~@]
    /\ UNCHANGED <<vms, booting, made, tools, mounted>>

Edit(named) ==
    /\ mounted /\ modal.open
    /\ modal' = [modal EXCEPT !.named = named]
    /\ UNCHANGED <<vms, booting, made, tools, mounted>>

newVm == Row("pending", "none")

\* setTimeout(..., 2000)
Timer(i) == booting \cup {i}

\* Criar Instância, enabled for a name that is not blank
createVm ==
    /\ mounted /\ modal.open /\ modal.named
    /\ \E i \in New \ made :
        /\ vms' = [vms EXCEPT ![i] = newVm]
        /\ made' = made \cup {i} /\ booting' = Timer(i)
    /\ modal' = Closed
    /\ UNCHANGED <<tools, mounted>>

\* Mutant of Booted: the row of the timer's closure is put back.
BootedAgain(i) == [vms EXCEPT ![i] = Row("running", "some")]

\* prev.map: a row that is gone stays gone
Booted(i) == [j \in Id |-> IF j = i /\ vms[j] # NoRow THEN Row("running", "some") ELSE vms[j]]

\* the timer of createVm
Boot(i) ==
    /\ i \in booting /\ booting' = booting \ {i}
    /\ vms' = Booted(i)
    /\ UNCHANGED <<made, tools, modal, mounted>>

----------------------------------------------------------------------------

\* the route /live-demo/instances
Enter == ~mounted /\ mounted' = TRUE /\ UNCHANGED <<vms, booting, made, tools, modal>>

\* another route: the state is lost, and timers still running change nothing
Leave ==
    /\ mounted /\ mounted' = FALSE
    /\ vms' = initialInstances /\ booting' = {} /\ made' = {}
    /\ tools' = AllRows /\ modal' = Closed

Next ==
    \/ \E i \in Id : toggleStatus(i) \/ deleteVm(i)
    \/ \E i \in New : Boot(i)
    \/ \E term \in Terms : Search(term)
    \/ \E status \in Filters : Filter(status)
    \/ \E named \in BOOLEAN : Edit(named)
    \/ ToggleModal \/ createVm \/ Enter \/ Leave

Spec == Init /\ [][Next]_vars

----------------------------------------------------------------------------
(* Properties.                                                             *)

(***************************************************************************)
(* An instance deleted while it boots does not come back when its timer    *)
(* fires, nor by any other step of the visit.                              *)
(***************************************************************************)
DeletedStaysDeletedStep ==
    \A i \in made : vms[i] = NoRow => vms'[i] = NoRow
=============================================================================
