------------------------- MODULE InstanceDetailPage -------------------------
(***************************************************************************)
(* The page of one instance, RealInstanceDetail: its row, re-read every    *)
(* 15 s, its metrics, re-read every 6 s while their tab is open, and the   *)
(* WebSocket of its console.  Going from one instance to another keeps the *)
(* component and its state; only the effects run again, so answers asked   *)
(* for with the old id arrive at a page that shows the new one.            *)
(*                                                                         *)
(* A commit and the effects it triggers are one step.  Credentials and     *)
(* what the panes print are left out.  Metrics are asked of the agent, by  *)
(* the name of the domain: a row says neither that the agent can be        *)
(* reached nor that there is such a domain, least of all a row that is     *)
(* pending, in error or terminating.                                       *)
(***************************************************************************)
EXTENDS Naturals, FiniteSets

CONSTANTS
    Inst,       \* instances with a page
    NoInst,     \* no instance, no page
    Load,       \* bound: list requests under way at once
    Fetch,      \* bound: metrics requests under way at once
    MaxClick,   \* bound: start and stop requests
    MaxFault    \* bound: failed list requests

DetailAssumption ==
    NoInst \notin Inst /\ MaxClick \in Nat /\ MaxFault \in Nat

Status == {"none", "pending", "starting", "running", "stopping", "stopped",
           "error", "terminating"}
Tab == {"overview", "console", "metrics"}
NoRow == [of |-> NoInst, status |-> "none"]

VARIABLES
    rows,       \* status of each instance in the table
    id,         \* the instance of the route, or NoInst: another page
    instance,   \* the row the page holds, or NoRow for null
    loading, tab,
    metrics,    \* the instance whose metrics are shown, or NoInst
    metricsLoading, metricsError,
    sockets,    \* sockets[i]: WebSockets to i's console not closed yet
    list,       \* list[l]: a list request and the id its callback looks for
    fetch,      \* fetch[f]: a metrics request of the running effect
    power,      \* the start or stop request under way; its id is NoInst
                \*   when the page that sent it is gone
    clicks, faults

view == <<id, instance, loading, tab>>
pane == <<metrics, metricsLoading, metricsError, sockets>>
vars == <<rows, id, instance, loading, tab, metrics, metricsLoading,
          metricsError, sockets, list, fetch, power, clicks, faults>>

NoPower == [st |-> "idle", of |-> NoInst, op |-> "start", id |-> NoInst]
IdleLoad == [st |-> "idle", id |-> NoInst, found |-> NoRow]
Row == [of : Inst \cup {NoInst}, status : Status]

TypeOK ==
    /\ rows \in [Inst -> Status]
    /\ id \in Inst \cup {NoInst}
    /\ instance \in Row
    /\ tab \in Tab
    /\ loading \in BOOLEAN /\ metricsLoading \in BOOLEAN /\ metricsError \in BOOLEAN
    /\ metrics \in Inst \cup {NoInst}
    /\ sockets \in [Inst -> Nat]
    /\ list \in [Load -> [st : {"idle", "sent", "read"}, id : Inst \cup {NoInst},
                          found : Row]]
    /\ fetch \in [Fetch -> Inst \cup {NoInst}]
    /\ power \in [st : {"idle", "sent", "ok", "err"}, of : Inst \cup {NoInst},
                  op : {"start", "stop"}, id : Inst \cup {NoInst}]
    /\ clicks \in 0..MaxClick /\ faults \in 0..MaxFault

\* the useState calls
Fresh(i) ==
    /\ id = i /\ instance = NoRow /\ loading = TRUE /\ tab = "overview"
    /\ metrics = NoInst /\ metricsLoading = FALSE /\ metricsError = FALSE

Init ==
    /\ rows \in [Inst -> Status]
    /\ Fresh(NoInst)
    /\ sockets = [i \in Inst |-> 0]
    /\ list = [l \in Load |-> IdleLoad]
    /\ fetch = [f \in Fetch |-> NoInst]
    /\ power = NoPower
    /\ clicks = 0 /\ faults = 0

\* the early returns before the JSX
Screen ==
    IF id = NoInst THEN "away"
    ELSE IF loading THEN "spinner"
    ELSE IF instance.of = NoInst THEN "notfound"
    ELSE "page"

----------------------------------------------------------------------------
(* The row of the instance.                                                *)

FreeLoad == CHOOSE l \in Load : list[l].st = "idle"

\* load as the render for instance i has made it
load(i) ==
    /\ \E l \in Load : list[l].st = "idle"
    /\ list' = [list EXCEPT ![FreeLoad] = [IdleLoad EXCEPT !.st = "sent", !.id = i]]

\* the handler's query; list.find(i => i.id === id) ?? null
ListRead(l) ==
    /\ list[l].st = "sent"
    /\ LET i == list[l].id
           found == IF rows[i] = "none" THEN NoRow
                    ELSE [of |-> i, status |-> rows[i]]
       IN list' = [list EXCEPT ![l].st = "read", ![l].found = found]
    /\ UNCHANGED <<rows, view, pane, fetch, power, clicks, faults>>

ListDone(l) ==
    /\ list[l].st = "read"
    /\ instance' = list[l].found
    /\ loading' = FALSE
    /\ list' = [list EXCEPT ![l] = IdleLoad]
    /\ UNCHANGED <<rows, id, tab, pane, fetch, power, clicks, faults>>

\* there is no catch: the page stays as it is
ListFailed(l) ==
    /\ list[l].st # "idle"
    /\ faults < MaxFault /\ faults' = faults + 1
    /\ list' = [list EXCEPT ![l] = IdleLoad]
    /\ UNCHANGED <<rows, view, pane, fetch, power, clicks>>

\* Mutant of Interval: the interval is cleared by the first answer.
IntervalOnce == id # NoInst /\ loading /\ load(id)

\* the interval of the effect on [id]
Interval == id # NoInst /\ load(id)

Tick ==
    /\ Interval
    /\ UNCHANGED <<rows, view, pane, fetch, power, clicks, faults>>

Refresh ==
    /\ Screen = "page" /\ load(id)
    /\ UNCHANGED <<rows, view, pane, fetch, power, clicks, faults>>

\* Parar and Iniciar, offered in every state; the id is the row's
ClickPower ==
    /\ Screen = "page" /\ power.st = "idle" /\ clicks < MaxClick
    /\ clicks' = clicks + 1
    /\ power' = [st |-> "sent", of |-> instance.of, id |-> id,
                 op |-> IF instance.status = "running" THEN "stop" ELSE "start"]
    /\ UNCHANGED <<rows, view, pane, list, fetch, faults>>

\* InstanceHandler.Start and Stop
HandlePower ==
    /\ power.st = "sent"
    /\ \/ /\ rows[power.of] # "none"
          /\ rows' = [rows EXCEPT ![power.of] =
                         IF power.op = "start" THEN "starting" ELSE "stopping"]
          /\ power' = [power EXCEPT !.st = "ok"]
       \/ power' = [power EXCEPT !.st = "err"] /\ UNCHANGED rows
    /\ UNCHANGED <<view, pane, list, fetch, clicks, faults>>

\* .then(load), with the load of the render that was clicked
PowerDone ==
    /\ power.st = "ok" /\ power' = NoPower
    /\ IF power.id = NoInst THEN UNCHANGED list ELSE load(power.id)
    /\ UNCHANGED <<rows, view, pane, fetch, clicks, faults>>

\* a rejected promise nobody handles
PowerFailed ==
    /\ power.st = "err" /\ power' = NoPower
    /\ UNCHANGED <<rows, view, pane, list, fetch, clicks, faults>>

----------------------------------------------------------------------------
(* Metrics.                                                                *)

\* fetch: a request whose answer counts until the effect is cleaned up
fetchMetrics(fs, i) ==
    /\ \E f \in Fetch : fs[f] = NoInst
    /\ fetch' = [fs EXCEPT ![CHOOSE f \in Fetch : fs[f] = NoInst] = i]
    /\ metricsLoading' = TRUE

\* setInterval(fetch, 6000) of the effect on [tab, id]
MetricsInterval == id # NoInst /\ tab = "metrics"

FetchTick ==
    /\ MetricsInterval
    /\ fetchMetrics(fetch, id)
    /\ UNCHANGED <<rows, view, metrics, metricsError, sockets, list, power,
                   clicks, faults>>

\* ConsoleHandler.Metrics finds the row, and its agent the domain; the figures
\* of one that does not run are zeros
FetchDone(f) ==
    /\ fetch[f] # NoInst /\ rows[fetch[f]] # "none"
    /\ metrics' = fetch[f] /\ metricsError' = FALSE /\ metricsLoading' = FALSE
    /\ fetch' = [fetch EXCEPT ![f] = NoInst]
    /\ UNCHANGED <<rows, view, sockets, list, power, clicks, faults>>

\* 404 without a row, 502 without the agent, 500 without a domain, or no answer:
\* any request may end so, and all of them may
FetchFailed(f) ==
    /\ fetch[f] # NoInst
    /\ metricsError' = TRUE /\ metricsLoading' = FALSE
    /\ fetch' = [fetch EXCEPT ![f] = NoInst]
    /\ UNCHANGED <<rows, view, metrics, sockets, list, power, clicks, faults>>

\* what the metrics tab shows: figures already there stay under an error
MetricsPane ==
    [error |-> metricsError,
     collecting |-> metricsLoading /\ metrics = NoInst,
     figures |-> metrics]

\* Mutant of Cancelled: the cleanup clears the interval and nothing else.
NotCancelled == fetch

\* cancelled = true: the answers still to come change nothing
Cancelled == [f \in Fetch |-> NoInst]

\* the effect on [tab, id], for the new tab and id
MetricsEffect(t, i) ==
    IF t = "metrics" THEN fetchMetrics(Cancelled, i)
    ELSE fetch' = Cancelled /\ UNCHANGED metricsLoading

----------------------------------------------------------------------------
(* Console.                                                                *)

\* Mutant of CloseSocket: the cleanup forgets the socket.
KeepSocket == sockets

\* the cleanup: ws.close()
CloseSocket ==
    IF id = NoInst \/ tab # "console" THEN sockets
    ELSE [sockets EXCEPT ![id] = IF @ = 0 THEN 0 ELSE @ - 1]

\* the effect on [tab, id]; without a pane (termRef is null) it returns
ConsoleEffect(t, i, screen) ==
    sockets' = IF t = "console" /\ screen = "page"
               THEN [CloseSocket EXCEPT ![i] = @ + 1] ELSE CloseSocket

\* the console tab: whose console the heading says it is, the warning that the
\* instance does not run, and the instances keystrokes go to
ConsolePane ==
    [heading |-> instance.of, warning |-> instance.status # "running",
     keys |-> {i \in Inst : sockets[i] > 0}]

\* the controller or the agent ends the session
SocketClosed(i) ==
    /\ sockets[i] > 0
    /\ sockets' = [sockets EXCEPT ![i] = @ - 1]
    /\ UNCHANGED <<rows, view, metrics, metricsLoading, metricsError, list,
                   fetch, power, clicks, faults>>

----------------------------------------------------------------------------
(* Routes and tabs.                                                        *)

setTab(t) ==
    /\ Screen = "page" /\ tab # t
    /\ tab' = t
    /\ MetricsEffect(t, id) /\ ConsoleEffect(t, id, "page")
    /\ UNCHANGED <<rows, id, instance, loading, metrics, metricsError, list,
                   power, clicks, faults>>

\* from one instance to another, as history navigation can do: no remount
Navigate(i) ==
    /\ id \notin {NoInst, i}
    /\ id' = i
    /\ load(i)
    /\ MetricsEffect(tab, i) /\ ConsoleEffect(tab, i, Screen)
    /\ UNCHANGED <<rows, instance, loading, tab, metrics, metricsError, power,
                   clicks, faults>>

Mount(i) ==
    /\ id' = i /\ instance' = NoRow /\ loading' = TRUE /\ tab' = "overview"
    /\ metrics' = NoInst /\ metricsLoading' = FALSE /\ metricsError' = FALSE

Enter(i) ==
    /\ id = NoInst
    /\ Mount(i) /\ load(i)
    /\ UNCHANGED <<rows, sockets, fetch, power, clicks, faults>>

\* the link back to the list: every effect is cleaned up
Leave ==
    /\ id # NoInst
    /\ Mount(NoInst)
    /\ sockets' = CloseSocket /\ fetch' = Cancelled
    /\ list' = [l \in Load |-> IdleLoad]
    /\ power' = [power EXCEPT !.id = NoInst]
    /\ UNCHANGED <<rows, clicks, faults>>

----------------------------------------------------------------------------

\* the agent's reports, and the delete of another page, refused while the row
\* says running
Report(i) ==
    /\ \/ rows[i] \in {"pending", "starting", "stopping"}
          /\ \E s \in {"running", "stopped", "error"} : rows' = [rows EXCEPT ![i] = s]
       \/ rows[i] = "running" /\ rows' = [rows EXCEPT ![i] = "stopped"]
       \/ /\ rows[i] \notin {"none", "running", "terminating"}
          /\ rows' = [rows EXCEPT ![i] = "terminating"]
       \/ rows[i] = "terminating" /\ rows' = [rows EXCEPT ![i] = "none"]
    /\ UNCHANGED <<view, pane, list, fetch, power, clicks, faults>>

Next ==
    \/ \E l \in Load : ListRead(l) \/ ListDone(l) \/ ListFailed(l)
    \/ \E f \in Fetch : FetchDone(f) \/ FetchFailed(f)
    \/ \E i \in Inst : Enter(i) \/ Navigate(i) \/ SocketClosed(i) \/ Report(i)
    \/ \E t \in Tab : setTab(t)
    \/ Tick \/ Refresh \/ FetchTick \/ Leave
    \/ ClickPower \/ HandlePower \/ PowerDone \/ PowerFailed

Spec == Init /\ [][Next]_vars

----------------------------------------------------------------------------
(* Properties.                                                             *)

(***************************************************************************)
(* Keystrokes reach the instance of the address bar or nobody: whatever    *)
(* the order of tabs, instances, late rows and sessions ended by the other *)
(* side, the page holds at most one open socket, only while the console    *)
(* tab is selected, and it belongs to the instance of the route.           *)
(***************************************************************************)
SocketOfRoute ==
    \A i \in Inst :
        sockets[i] <= (IF i = id /\ tab = "console" THEN 1 ELSE 0)

(***************************************************************************)
(* A metrics answer that comes after its instance or its tab was left is   *)
(* dropped: new metrics are always those of the instance of the route.     *)
(***************************************************************************)
MetricsOfRouteStep ==
    metrics' # metrics /\ metrics' # NoInst =>
     metrics' = id' /\ tab' = "metrics"

MetricsOfRoute == [][MetricsOfRouteStep]_vars
=============================================================================
