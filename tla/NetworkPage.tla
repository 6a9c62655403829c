---------------------------- MODULE NetworkPage ----------------------------
(***************************************************************************)
(* The VPC list of the web interface, RealNetwork, with the controller     *)
(* that answers it, and the choice between grid and list that it shares    *)
(* with the demo's Network page through localStorage.                      *)
(*                                                                         *)
(* This page has no timer: what it shows changes only with the list        *)
(* requests its own buttons and handlers send.  While one is under way the *)
(* whole page, its dialog included, makes room for Carregando.             *)
(***************************************************************************)
EXTENDS Naturals, FiniteSets

CONSTANTS
    Vpc,        \* VPCs: rows of the table, and drafts of new ones
    NoVpc,      \* no draft
    Load,       \* bound: list requests under way at once
    Call,       \* bound: create and delete requests of the page
    MaxFault    \* bound: failed list requests, lost answers

NetworkAssumption == NoVpc \notin Vpc /\ MaxFault \in Nat

Mode == {"grid", "list"}
Idle == [st |-> "idle", rows |-> {}]
Finished(st) == [st |-> st, op |-> "create", vpc |-> NoVpc, mine |-> FALSE]

VARIABLES
    rows,      \* table vpcs
    hosts,     \* VPCs an instance refers to
    route,     \* "real", "demo", or "away": any page without a view mode
    page,      \* [vpcs, loading, error, showModal, creating, form]
    view,      \* the mode of the page shown
    stored,    \* rigstack:view:network in localStorage, or "none"
    list,      \* list[l]: a list request of this visit
    call,      \* call[c]: a create or delete request
    faults

server == <<rows, hosts>>
screen == <<route, view, stored>>
vars == <<rows, hosts, route, page, view, stored, list, call, faults>>

Fresh == [vpcs |-> {}, loading |-> TRUE, error |-> FALSE, showModal |-> FALSE,
          creating |-> FALSE, form |-> NoVpc]

TypeOK ==
    /\ rows \subseteq Vpc /\ hosts \subseteq rows
    /\ route \in {"real", "demo", "away"}
    /\ page \in [vpcs : SUBSET Vpc, loading : BOOLEAN, error : BOOLEAN,
                 showModal : BOOLEAN, creating : BOOLEAN, form : Vpc \cup {NoVpc}]
    /\ view \in Mode /\ stored \in Mode \cup {"none"}
    /\ list \in [Load -> [st : {"idle", "sent", "read"}, rows : SUBSET Vpc]]
    /\ call \in [Call -> [st : {"unused", "sent", "ok", "err", "done"},
                          op : {"create", "delete"}, vpc : Vpc \cup {NoVpc},
                          mine : BOOLEAN]]
    /\ faults \in 0..MaxFault

Init ==
    /\ rows \in SUBSET Vpc /\ hosts = {}
    /\ route = "away" /\ page = Fresh
    /\ view = "grid" /\ stored = "none"
    /\ list = [l \in Load |-> Idle]
    /\ call = [c \in Call |-> Finished("unused")]
    /\ faults = 0

Fault == faults < MaxFault /\ faults' = faults + 1

----------------------------------------------------------------------------
(* The list.                                                               *)

\* the early returns before the JSX; Carregando hides everything
View ==
    IF route # "real" THEN "away"
    ELSE IF page.loading THEN "spinner"
    ELSE IF page.error THEN "error"
    ELSE "page"

FreeLoad == CHOOSE l \in Load : list[l].st = "idle"

load ==
    /\ \E l \in Load : list[l].st = "idle"
    /\ list' = [list EXCEPT ![FreeLoad].st = "sent"]

\* the controller's query: VPCHandler.List
ListRead(l) ==
    /\ list[l].st = "sent"
    /\ list' = [list EXCEPT ![l] = [st |-> "read", rows |-> rows]]
    /\ UNCHANGED <<server, screen, page, call, faults>>

\* .then and .finally
ListDone(l) ==
    /\ list[l].st = "read"
    /\ page' = [page EXCEPT !.vpcs = list[l].rows, !.loading = FALSE]
    /\ list' = [list EXCEPT ![l] = Idle]
    /\ UNCHANGED <<server, screen, call, faults>>

\* .catch and .finally: nothing takes the error back
ListFailed(l) ==
    /\ list[l].st # "idle"
    /\ Fault
    /\ page' = [page EXCEPT !.error = TRUE, !.loading = FALSE]
    /\ list' = [list EXCEPT ![l] = Idle]
    /\ UNCHANGED <<server, screen, call>>

Refresh ==
    /\ View = "page"
    /\ load
    /\ page' = [page EXCEPT !.loading = TRUE]
    /\ UNCHANGED <<server, screen, call, faults>>

----------------------------------------------------------------------------
(* The buttons and the dialog.                                             *)

Send(op, v) ==
    \E c \in Call :
        /\ call[c].st = "unused"
        /\ \A d \in Call : call[d].st = "unused" => c <= d
        /\ call' = [call EXCEPT ![c] = [st |-> "sent", op |-> op, vpc |-> v,
                                        mine |-> TRUE]]

Mine(c, op) == call[c].mine /\ call[c].op = op
MyCreates == {c \in Call : Mine(c, "create") /\ call[c].st \in {"sent", "ok", "err"}}
Close(c) == call' = [call EXCEPT ![c] = Finished("done")]

ToggleModal ==
    /\ View = "page"
    /\ page' = [page EXCEPT !.showModal = ~@]
    /\ UNCHANGED <<server, screen, list, call, faults>>

\* the fields, filled in for a VPC that does not exist yet
Edit(v) ==
    /\ View = "page" /\ page.showModal
    /\ v \notin rows /\ \A c \in Call : call[c].op = "create" => call[c].vpc # v
    /\ page' = [page EXCEPT !.form = v]
    /\ UNCHANGED <<server, screen, list, call, faults>>

\* disabled={!form.name.trim() || !form.cidr.trim() || creating}
CanSubmit ==
    View = "page" /\ page.showModal /\ page.form # NoVpc /\ ~page.creating

\* handleCreate up to its await
handleCreate ==
    /\ CanSubmit
    /\ Send("create", page.form)
    /\ page' = [page EXCEPT !.creating = TRUE]
    /\ UNCHANGED <<server, screen, list, faults>>

\* Mutant of AfterCreate: the flag is cleared where the request has failed,
\* not in finally.
AfterCreateFlag ==
    [page EXCEPT !.showModal = FALSE, !.form = NoVpc, !.loading = TRUE]

\* Mutant of AfterCreate: the new row is not asked for.
NoReload == list' = list

\* the request for the list that an accepted create sends
Reload == load

\* what an accepted create leaves of the page
AfterCreate ==
    [page EXCEPT !.showModal = FALSE, !.form = NoVpc, !.creating = FALSE,
                 !.loading = TRUE]

CreateDone(c) ==
    /\ call[c].st = "ok" /\ Mine(c, "create")
    /\ Close(c)
    /\ page' = AfterCreate
    /\ Reload
    /\ UNCHANGED <<server, screen, faults>>

CreateFailed(c) ==
    /\ call[c].st = "err" /\ Mine(c, "create")
    /\ Close(c)
    /\ page' = [page EXCEPT !.creating = FALSE]
    /\ UNCHANGED <<server, screen, list, faults>>

\* handleDelete, confirmed, up to its await
handleDelete(v) ==
    /\ View = "page" /\ ~page.showModal /\ v \in page.vpcs
    /\ Send("delete", v)
    /\ UNCHANGED <<server, screen, page, list, faults>>

\* whatever the answer: the error is swallowed
DeleteDone(c) ==
    /\ call[c].st \in {"ok", "err"} /\ Mine(c, "delete")
    /\ Close(c)
    /\ load
    /\ page' = [page EXCEPT !.loading = TRUE]
    /\ UNCHANGED <<server, screen, faults>>

----------------------------------------------------------------------------
(* Visits, and the mode both Network pages remember.                       *)

\* useViewMode's initial value, here and on the demo page
Remembered == IF stored = "none" THEN "grid" ELSE stored

Enter ==
    /\ route = "away" /\ route' = "real"
    /\ page' = Fresh /\ view' = Remembered
    /\ load
    /\ UNCHANGED <<server, stored, call, faults>>

EnterDemo ==
    /\ route = "away" /\ route' = "demo"
    /\ view' = Remembered
    /\ UNCHANGED <<server, stored, page, list, call, faults>>

Leave ==
    /\ route # "away" /\ route' = "away"
    /\ page' = Fresh
    /\ list' = [l \in Load |-> Idle]
    /\ call' = [c \in Call |-> IF call[c].st = "sent"
                                THEN [call[c] EXCEPT !.mine = FALSE]
                                ELSE IF call[c].st \in {"ok", "err"}
                                THEN Finished("done") ELSE call[c]]
    /\ UNCHANGED <<server, view, stored, faults>>

\* the two buttons of ViewToggle
ViewToggle == route = "demo" \/ View = "page"

\* change of useViewMode
change(mode) ==
    /\ ViewToggle
    /\ view' = mode /\ stored' = mode
    /\ UNCHANGED <<server, route, page, list, call, faults>>

----------------------------------------------------------------------------
(* The controller.                                                         *)

\* VPCService.Create: the row, whether or not a node takes the command
Create(v) == v # NoVpc /\ rows' = rows \cup {v}

\* VPCService.Delete: not found, or refused by instances.vpc_id
Delete(v) == v \in rows \ hosts /\ rows' = rows \ {v}

\* the effect of a request that is accepted
Apply(c) == IF call[c].op = "create" THEN Create(call[c].vpc) ELSE Delete(call[c].vpc)

\* VPCHandler.Create and Delete; a handler may also answer with an error, and
\* its answer may be lost, so that fetch rejects although the handler has run
Handle(c) ==
    /\ call[c].st = "sent"
    /\ LET Answer(st) == call' = [call EXCEPT ![c] =
                IF @.mine THEN [@ EXCEPT !.st = st] ELSE Finished("done")]
       IN \/ Apply(c) /\ Answer("ok") /\ UNCHANGED faults
          \/ Apply(c) /\ Answer("err") /\ Fault
          \/ Answer("err") /\ UNCHANGED <<rows, faults>>
    /\ UNCHANGED <<hosts, screen, page, list>>

\* instances come and go
Host(v) ==
    /\ v \in rows
    /\ hosts' = IF v \in hosts THEN hosts \ {v} ELSE hosts \cup {v}
    /\ UNCHANGED <<rows, screen, page, list, call, faults>>

----------------------------------------------------------------------------

Respond(c) == CreateDone(c) \/ CreateFailed(c) \/ DeleteDone(c)

Next ==
    \/ \E l \in Load : ListRead(l) \/ ListDone(l) \/ ListFailed(l)
    \/ \E c \in Call : Handle(c) \/ Respond(c)
    \/ \E v \in Vpc : Edit(v) \/ handleDelete(v) \/ Host(v)
    \/ \E mode \in Mode : change(mode)
    \/ Refresh \/ ToggleModal \/ handleCreate
    \/ Enter \/ EnterDemo \/ Leave

Spec == Init /\ [][Next]_vars

----------------------------------------------------------------------------
(* Properties.                                                             *)

(***************************************************************************)
(* The button is disabled exactly while a create of this visit is under    *)
(* way, also when lists that finish meanwhile take the dialog away and     *)
(* bring it back, and when the page was left with a create on its way.     *)
(***************************************************************************)
CreatingIsCreate ==
    page.creating <=> \E c \in MyCreates : TRUE

=============================================================================
