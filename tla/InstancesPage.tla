--------------------------- MODULE InstancesPage ---------------------------
(***************************************************************************)
(* The instance list of the web interface, RealInstances, with the HTTP    *)
(* requests it sends and the controller that answers them.                 *)
(*                                                                         *)
(* An answer is taken from the table at one moment and shown at a later    *)
(* one, in any order; the 15 s timer, the buttons and the handlers all     *)
(* start list requests without waiting for the ones under way.  Leaving    *)
(* the page drops its state and its timer but aborts no request.  Search   *)
(* and filter only hide rows; a user can always make a row visible.        *)
(***************************************************************************)
EXTENDS Naturals, FiniteSets

CONSTANTS
    Inst,       \* instances: rows of the table, and drafts of new ones
    NoInst,     \* no draft, no dialog
    Load,       \* bound: list requests under way at once
    Call,       \* bound: the requests of the page other than list
    MaxFault    \* bound: failed list requests, lost answers, changes by others

PageAssumption == NoInst \notin Inst /\ MaxFault \in Nat

TRANSITION_STATES == {"starting", "stopping", "terminating", "pending"}
Settled == {"running", "stopped", "error"}
Status == TRANSITION_STATES \cup Settled
Table == [Inst -> Status \cup {"none"}]
Empty == [i \in Inst |-> "none"]

Idle == [st |-> "idle", rows |-> Empty]
Closed(st) == [st |-> st, op |-> "start", inst |-> CHOOSE i \in Inst : TRUE,
               mine |-> FALSE]

VARIABLES
    rows,       \* the table: status of each instance, or "none"
    mounted,    \* the page is shown
    shown,      \* instances
    loading, error,
    showModal, creating, form,
    deleteTarget,
    timeouts,   \* calls of setTimeout(load, 1500) still to fire
    list,       \* list[l]: a Promise.all of this visit
    call,       \* call[c]: a start, stop, delete or create request
    faults

server == <<rows, faults>>
dialogs == <<showModal, creating, form, deleteTarget>>
page == <<mounted, shown, loading, error, showModal, creating, form,
          deleteTarget, timeouts>>
vars == <<rows, mounted, shown, loading, error, showModal, creating, form,
          deleteTarget, timeouts, list, call, faults>>

TypeOK ==
    /\ rows \in Table
    /\ shown \in Table
    /\ mounted \in BOOLEAN /\ loading \in BOOLEAN /\ error \in BOOLEAN
    /\ showModal \in BOOLEAN /\ creating \in BOOLEAN
    /\ form \in Inst \cup {NoInst}
    /\ deleteTarget \in Inst \cup {NoInst}
    /\ timeouts \in Nat
    /\ list \in [Load -> [st : {"idle", "sent", "read"}, rows : Table]]
    /\ call \in [Call -> [st : {"unused", "sent", "ok", "err", "done"},
                          op : {"start", "stop", "delete", "create"},
                          inst : Inst, mine : BOOLEAN]]
    /\ faults \in 0..MaxFault

Init ==
    /\ rows \in [Inst -> {"none", "stopped", "running"}]
    /\ mounted = FALSE
    /\ shown = Empty /\ loading = TRUE /\ error = FALSE
    /\ showModal = FALSE /\ creating = FALSE /\ form = NoInst
    /\ deleteTarget = NoInst
    /\ timeouts = 0
    /\ list = [l \in Load |-> Idle]
    /\ call = [c \in Call |-> Closed("unused")]
    /\ faults = 0

----------------------------------------------------------------------------
(* What is on the screen.                                                  *)

View ==
    IF ~mounted THEN "away"
    ELSE IF loading /\ shown = Empty THEN "spinner"
    ELSE IF error THEN "error"
    ELSE "page"

inTransition(i) == shown[i] \in TRANSITION_STATES

----------------------------------------------------------------------------
(* List requests.                                                          *)

\* load: two list requests, answered together
load ==
    /\ \E l \in Load : list[l].st = "idle"
    /\ LET free == CHOOSE l \in Load : list[l].st = "idle"
       IN list' = [list EXCEPT ![free].st = "sent"]
    /\ loading' = TRUE

\* the handler's query runs
ListRead(l) ==
    /\ list[l].st = "sent"
    /\ list' = [list EXCEPT ![l] = [st |-> "read", rows |-> rows]]
    /\ UNCHANGED <<server, page, call>>

\* Mutant of Finally: the flag stays while another request is under way.
FinallyAll == loading' = (\E l \in Load : list'[l].st # "idle")

\* setLoading(false), whatever else is under way
Finally == loading' = FALSE

\* .then and .finally
ListDone(l) ==
    /\ list[l].st = "read"
    /\ shown' = list[l].rows
    /\ list' = [list EXCEPT ![l] = Idle]
    /\ Finally
    /\ UNCHANGED <<server, mounted, error, dialogs, timeouts, call>>

\* .catch and .finally: the error is never taken back
ListFailed(l) ==
    /\ list[l].st # "idle"
    /\ faults < MaxFault /\ faults' = faults + 1
    /\ error' = TRUE
    /\ list' = [list EXCEPT ![l] = Idle]
    /\ Finally
    /\ UNCHANGED <<rows, mounted, shown, dialogs, timeouts, call>>

\* the interval of the effect fires
Effect == mounted /\ load

Tick ==
    /\ Effect
    /\ UNCHANGED <<server, mounted, shown, error, dialogs, timeouts, call>>

\* the timer a finished delete has set
ReloadTimeout ==
    /\ timeouts > 0
    /\ timeouts' = timeouts - 1
    /\ load
    /\ UNCHANGED <<server, mounted, shown, error, dialogs, call>>

Refresh ==
    /\ View = "page"
    /\ load
    /\ UNCHANGED <<server, mounted, shown, error, dialogs, timeouts, call>>

----------------------------------------------------------------------------
(* The buttons and dialogs.                                                *)

\* a request leaves the browser
Send(op, i) ==
    \E c \in Call :
        /\ call[c].st = "unused"
        /\ \A d \in Call : call[d].st = "unused" => c <= d
        /\ call' = [call EXCEPT ![c] = [st |-> "sent", op |-> op, inst |-> i,
                                        mine |-> TRUE]]

\* the request of this visit that c answers
Mine(c, op) == call[c].mine /\ call[c].op = op
Answered(c) == call[c].st \in {"ok", "err"}
MyCreates == {c \in Call : Mine(c, "create") /\ (call[c].st = "sent" \/ Answered(c))}
Close(c) == call' = [call EXCEPT ![c] = Closed("done")]

\* handleStart and handleStop up to their await: nothing on the page changes
RowAction(i) ==
    /\ View = "page" /\ shown[i] # "none" /\ ~inTransition(i)
    /\ Send(IF shown[i] = "running" THEN "stop" ELSE "start", i)
    /\ UNCHANGED <<server, page, list>>

\* the rest of handleStart and handleStop, whatever the answer
RowActionDone(c) ==
    /\ Answered(c) /\ (Mine(c, "start") \/ Mine(c, "stop"))
    /\ Close(c)
    /\ load
    /\ UNCHANGED <<server, mounted, shown, error, dialogs, timeouts>>

AskDelete(i) ==
    /\ View = "page" /\ shown[i] # "none" /\ ~inTransition(i)
    /\ deleteTarget' = i
    /\ UNCHANGED <<server, mounted, shown, loading, error, showModal, creating,
                   form, timeouts, list, call>>

CancelDelete ==
    /\ View = "page" /\ deleteTarget # NoInst
    /\ deleteTarget' = NoInst
    /\ UNCHANGED <<server, mounted, shown, loading, error, showModal, creating,
                   form, timeouts, list, call>>

\* the dialog keeps the row it was opened for, whatever the list shows now
confirmDelete ==
    /\ View = "page" /\ deleteTarget # NoInst
    /\ Send("delete", deleteTarget)
    /\ deleteTarget' = NoInst
    /\ shown' = [shown EXCEPT ![deleteTarget] =
                    IF @ = "none" THEN @ ELSE "terminating"]
    /\ UNCHANGED <<server, mounted, loading, error, showModal, creating, form,
                   timeouts, list>>

DeleteDone(c) ==
    /\ Answered(c) /\ Mine(c, "delete")
    /\ Close(c)
    /\ timeouts' = timeouts + 1
    /\ UNCHANGED <<server, mounted, shown, loading, error, dialogs, list>>

\* Nova Instancia; the backdrop, the X and Cancelar
ToggleModal ==
    /\ View = "page"
    /\ showModal' = ~showModal
    /\ UNCHANGED <<server, mounted, shown, loading, error, creating, form,
                   deleteTarget, timeouts, list, call>>

\* the fields, filled in for an instance that does not exist yet
Edit(i) ==
    /\ View = "page" /\ showModal
    /\ rows[i] = "none"
    /\ \A c \in Call : call[c].op = "create" => call[c].inst # i
    /\ form' = i
    /\ UNCHANGED <<server, mounted, shown, loading, error, showModal, creating,
                   deleteTarget, timeouts, list, call>>

\* Mutant of CanSubmit: the button stays enabled while a create is under way.
CanSubmitTwice == View = "page" /\ showModal /\ form # NoInst

\* disabled={!form.name.trim() || !form.vpc_id || creating}
CanSubmit == View = "page" /\ showModal /\ form # NoInst /\ ~creating

\* handleCreate up to its await
handleCreate ==
    /\ CanSubmit
    /\ Send("create", form)
    /\ creating' = TRUE
    /\ UNCHANGED <<server, mounted, shown, loading, error, showModal, form,
                   deleteTarget, timeouts, list>>

\* the try branch and finally
CreateDone(c) ==
    /\ call[c].st = "ok" /\ Mine(c, "create")
    /\ Close(c)
    /\ showModal' = FALSE /\ form' = NoInst /\ creating' = FALSE
    /\ load
    /\ UNCHANGED <<server, mounted, shown, error, deleteTarget, timeouts>>

\* the catch branch and finally; the draft stays
CreateFailed(c) ==
    /\ call[c].st = "err" /\ Mine(c, "create")
    /\ Close(c)
    /\ creating' = FALSE
    /\ UNCHANGED <<server, mounted, shown, loading, error, showModal, form,
                   deleteTarget, timeouts, list>>

----------------------------------------------------------------------------
(* Visits.                                                                 *)

Enter ==
    /\ ~mounted /\ mounted' = TRUE
    /\ load
    /\ UNCHANGED <<server, shown, error, dialogs, timeouts, call>>

\* the state is dropped; requests go on, and their answers change nothing
Leave ==
    /\ mounted /\ mounted' = FALSE
    /\ shown' = Empty /\ loading' = TRUE /\ error' = FALSE
    /\ showModal' = FALSE /\ creating' = FALSE /\ form' = NoInst
    /\ deleteTarget' = NoInst /\ timeouts' = 0
    /\ list' = [l \in Load |-> Idle]
    /\ call' = [c \in Call |-> IF call[c].st = "sent"
                                THEN [call[c] EXCEPT !.mine = FALSE]
                                ELSE IF Answered(c) THEN Closed("done")
                                ELSE call[c]]
    /\ UNCHANGED server

----------------------------------------------------------------------------
(* The controller.                                                         *)

\* InstanceHandler.Start, Stop, Delete and Create, without the database errors
Accepts(op, i) ==
    CASE op = "create" -> rows[i] = "none"
      [] op = "delete" -> rows[i] \notin {"none", "running"}
      [] OTHER -> rows[i] # "none"

\* Mutant of After: the row is marked as deleted.
AfterDeleted(op) ==
    CASE op = "create" -> "pending"
      [] op = "delete" -> "deleted"
      [] op = "start" -> "starting"
      [] op = "stop" -> "stopping"

After(op) ==
    CASE op = "create" -> "pending"
      [] op = "delete" -> "terminating"
      [] op = "start" -> "starting"
      [] op = "stop" -> "stopping"

\* nobody waits for the answer to a request of an earlier visit
Answer(c, st) == IF call[c].mine THEN [call[c] EXCEPT !.st = st] ELSE Closed("done")

\* a handler runs; any of them may also answer with an error
Handle(c) ==
    /\ call[c].st = "sent"
    /\ \/ /\ Accepts(call[c].op, call[c].inst)
          /\ rows' = [rows EXCEPT ![call[c].inst] = After(call[c].op)]
          /\ call' = [call EXCEPT ![c] = Answer(c, "ok")]
       \/ /\ call' = [call EXCEPT ![c] = Answer(c, "err")]
          /\ UNCHANGED rows
    /\ UNCHANGED <<page, list, faults>>

\* the answer is lost: fetch rejects although the handler may have run
AnswerLost(c) ==
    /\ call[c].st = "ok"
    /\ faults < MaxFault /\ faults' = faults + 1
    /\ call' = [call EXCEPT ![c].st = "err"]
    /\ UNCHANGED <<rows, page, list>>

\* the agent finishes what the row says is under way
Settle(i) ==
    /\ \/ rows[i] \in {"pending", "starting"} /\ \E s \in {"running", "error"} :
            rows' = [rows EXCEPT ![i] = s]
       \/ rows[i] = "stopping" /\ rows' = [rows EXCEPT ![i] = "stopped"]
       \/ rows[i] = "terminating" /\ rows' = [rows EXCEPT ![i] = "none"]
    /\ UNCHANGED <<faults, page, list, call>>

\* another client, a late report or a reconciliation changes a row
Disturb(i) ==
    /\ faults < MaxFault /\ faults' = faults + 1
    /\ rows[i] # "none"
    /\ \E s \in Status : rows' = [rows EXCEPT ![i] = s]
    /\ UNCHANGED <<page, list, call>>

----------------------------------------------------------------------------

Respond(c) ==
    RowActionDone(c) \/ DeleteDone(c) \/ CreateDone(c) \/ CreateFailed(c)

Next ==
    \/ \E l \in Load : ListRead(l) \/ ListDone(l) \/ ListFailed(l)
    \/ \E c \in Call : Handle(c) \/ AnswerLost(c) \/ Respond(c)
    \/ \E i \in Inst : RowAction(i) \/ AskDelete(i) \/ Edit(i)
                       \/ Settle(i) \/ Disturb(i)
    \/ CancelDelete \/ confirmDelete \/ ToggleModal \/ handleCreate
    \/ Tick \/ ReloadTimeout \/ Refresh \/ Enter \/ Leave

Spec == Init /\ [][Next]_vars

----------------------------------------------------------------------------
(* Properties.                                                             *)

(***************************************************************************)
(* The flag that disables the button is set exactly while a create of this *)
(* visit is under way, and there is never a second one: not when the       *)
(* dialog is closed and opened again meanwhile, and not when the page is   *)
(* left and visited again with the first create still on its way.          *)
(***************************************************************************)
OneCreate ==
    /\ creating <=> MyCreates # {}
    /\ \A c, d \in MyCreates : c = d

=============================================================================
