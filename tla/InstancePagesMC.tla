--------------------------- MODULE InstancePagesMC ---------------------------
(***************************************************************************)
(* Small instances for TLC of what an operator does with instances: the    *)
(* list, the page of one instance, and the console session that page       *)
(* opens.  Like the browser, a behaviour is on one of them at a time:      *)
(* `open' says which, and the variables of the others rest.  Pages that    *)
(* keep the same kind of state (the rows of the controller, the list       *)
(* requests under way) share its variable.                                 *)
(*                                                                         *)
(* The list and the page of one instance are explored twice, with many     *)
(* requests and one load for what may never happen, and with many loads    *)
(* and few requests for what must happen in the end.  Bounds says how much *)
(* of what the modules allow each of the two makes use of.                 *)
(***************************************************************************)
EXTENDS Naturals

CONSTANTS Inst, NoInst, Listed, Load, Call, Fetch, One, MaxClick, MaxFault, Room

VARIABLES
    open,                                           \* what is explored
    rows, loading, list, faults,                    \* both pages
    mounted, shown, error, showModal, creating,     \* InstancesPage
    form, deleteTarget, timeouts, call,
    id, instance, tab, metrics, metricsLoading,     \* InstanceDetailPage
    metricsError, sockets, fetch, power, clicks,
    link, queue, main, copier, errc                 \* ConsoleProxy

listVars == <<rows, loading, list, faults, mounted, shown, error, showModal,
              creating, form, deleteTarget, timeouts, call>>
pageVars == <<rows, loading, list, faults, id, instance, tab, metrics,
              metricsLoading, metricsError, sockets, fetch, power, clicks>>
consoleVars == <<link, queue, main, copier, errc>>
vars == <<open, listVars, pageVars, consoleVars>>

List == INSTANCE InstancesPage WITH Inst <- Listed
Page == INSTANCE InstanceDetailPage
Console == INSTANCE ConsoleProxy

ASSUME BoundsAssumption ==
    /\ List!PageAssumption /\ Listed # {}
    /\ Page!DetailAssumption /\ Console!RoomAssumption

\* the requests of the list and of the page of one instance that each part makes
OneLoad == \A l \in Load \ One : list[l].st = "idle"
OneCall == \A c \in Call \ One : call[c].st = "unused"
ListedOnly == id \in Listed \cup {NoInst} /\ \A i \in Inst \ Listed : rows[i] = "none"
Made == {"pending", "running", "error", "terminating", "none"}
OneMoves ==
    \A i \in Inst : rows[i] \in IF i \in Listed THEN Made ELSE {"none", "running"}

Bounds ==
    /\ open = "list_calls" => OneLoad /\ faults = 0
    /\ open = "list_loads" => OneCall
    /\ open = "page_clicks" => OneLoad /\ ListedOnly
    /\ open = "page_loads" => clicks = 0 /\ faults = 0 /\ OneMoves

Off == "off"
ListOff ==
    /\ mounted = Off /\ shown = Off /\ error = Off /\ showModal = Off
    /\ creating = Off /\ form = Off /\ deleteTarget = Off
    /\ timeouts = Off /\ call = Off
PageOff ==
    /\ id = Off /\ instance = Off /\ tab = Off /\ metrics = Off
    /\ metricsLoading = Off /\ metricsError = Off /\ sockets = Off
    /\ fetch = Off /\ power = Off /\ clicks = Off
ConsoleOff ==
    link = Off /\ queue = Off /\ main = Off /\ copier = Off /\ errc = Off

Init ==
    /\ \/ /\ open \in {"list_calls", "list_loads"} /\ List!Init
          /\ PageOff /\ ConsoleOff
       \/ /\ open \in {"page_clicks", "page_loads"} /\ Page!Init
          /\ ListOff /\ ConsoleOff
       \/ /\ open = "console" /\ Console!Init /\ ListOff /\ PageOff
          /\ rows = Off /\ loading = Off /\ list = Off /\ faults = Off
    /\ Bounds

ListNext ==
    /\ open \in {"list_calls", "list_loads"} /\ List!Next
    /\ UNCHANGED <<open, id, instance, tab, metrics, metricsLoading, metricsError,
                   sockets, fetch, power, clicks, consoleVars>>

PageNext ==
    /\ open \in {"page_clicks", "page_loads"} /\ Page!Next
    /\ UNCHANGED <<open, mounted, shown, error, showModal, creating, form,
                   deleteTarget, timeouts, call, consoleVars>>

ConsoleNext ==
    /\ open = "console" /\ Console!Next
    /\ UNCHANGED <<open, listVars, pageVars>>

Next == (ListNext \/ PageNext \/ ConsoleNext) /\ Bounds'

----------------------------------------------------------------------------
(* Fairness: what the browser, the network and the goroutines do sooner or *)
(* later.  Nothing is assumed of the operator.                             *)

\* the list: timers fire, queries run, and every request is answered or fails
Listing(A) == open = "list_loads" /\ A
ListFairness ==
    /\ WF_listVars(Listing(List!Tick)) /\ WF_listVars(Listing(List!ReloadTimeout))
    /\ \A l \in Load : /\ WF_listVars(Listing(List!ListRead(l)))
                      /\ WF_listVars(Listing(List!ListDone(l)))
    /\ \A c \in Call : /\ WF_listVars(Listing(List!Handle(c)))
                      /\ WF_listVars(Listing(List!Respond(c)))

\* the page of one instance: its intervals fire, its requests are answered or fail
Viewing(A) == open = "page_loads" /\ A
PageFairness ==
    /\ WF_pageVars(Viewing(Page!Tick)) /\ WF_pageVars(Viewing(Page!FetchTick))
    /\ \A l \in Load : /\ WF_pageVars(Viewing(Page!ListRead(l)))
                      /\ WF_pageVars(Viewing(Page!ListDone(l)))
    /\ \A f \in Fetch : WF_pageVars(Viewing(Page!FetchDone(f) \/ Page!FetchFailed(f)))

\* the console: goroutines run, and the guest takes its input; the page need
\* not take anything
Session(A) == open = "console" /\ A
ConsoleFairness ==
    /\ WF_consoleVars(Session(Console!Dial \/ Console!DialFails))
    /\ WF_consoleVars(Session(Console!Upgrade \/ Console!UpgradeFails))
    /\ \A c \in Console!Copier :
        /\ WF_consoleVars(Session(Console!Read(c)))
        /\ WF_consoleVars(Session(Console!Write(c)))
        /\ WF_consoleVars(Session(Console!Fail(c)))
        /\ WF_consoleVars(Session(Console!Report(c)))
    /\ \A h \in Console!Handler : /\ WF_consoleVars(Session(Console!Wake(h)))
                                  /\ WF_consoleVars(Session(Console!Close(h)))
    /\ WF_consoleVars(Session(Console!Consume("pty", "up")))

Spec == Init /\ [][Next]_vars /\ ListFairness /\ PageFairness /\ ConsoleFairness

-----------------------------------------------------------------------------
(* Safety, each property stated and explained in the module of its part.   *)

TypeOK ==
    /\ open \in {"list_calls", "list_loads"} => List!TypeOK
    /\ open \in {"page_clicks", "page_loads"} => Page!TypeOK
    /\ open = "console" => Console!TypeOK

\* There is never a second create of one visit, and the flag follows it.
OneCreate == open \in {"list_calls", "list_loads"} => List!OneCreate

\* At most one open console socket, and it belongs to the instance of the route.
SocketOfRoute == open \in {"page_clicks", "page_loads"} => Page!SocketOfRoute

\* New metrics are always those of the instance of the route.
MetricsOfRoute ==
    [][(open \in {"page_clicks", "page_loads"}) => Page!MetricsOfRouteStep]_vars

-----------------------------------------------------------------------------
(* Liveness.                                                               *)

(***************************************************************************)
(* A list page that stays open ends up showing the table, although older   *)
(* answers overwrite newer ones and deletes are shown before they are      *)
(* accepted, refused ones included, unless one of its list requests has    *)
(* failed: then it ends up behind the box of that error, which no later    *)
(* answer takes away.  With loads under way at all times it comes out from *)
(* behind Carregando again and again, also when the table is empty.        *)
(***************************************************************************)
ListConverges ==
    <>[]Listing(mounted) =>
        /\ \/ <>[](open = "list_loads" => List!View # "error" /\ shown = rows)
           \/ <>[](open = "list_loads" => List!View \in {"error", "spinner"})
        /\ []<>(open = "list_loads" => List!View # "spinner")

(***************************************************************************)
(* A page that stays on an instance ends up showing its row, or not found, *)
(* although rows asked for with an earlier id are shown meanwhile.         *)
(*                                                                         *)
(* The metrics of an earlier instance are cleared by nothing but an answer *)
(* for the new one.  When the metrics tab stays open too, they do not stay *)
(* for good without an error over them; and if from some moment on no      *)
(* request fails, the page ends up with the figures of its own instance    *)
(* and no error.  An instance without a domain, or whose agent is away,    *)
(* answers every request with an error, so the figures of another one may  *)
(* stay under it.                                                          *)
(***************************************************************************)
NoneFails == \A f \in Fetch : ~Page!FetchFailed(f)

PageConverges ==
    \A i \in Inst :
        /\ <>[]Viewing(id = i) =>
           <>[](open = "page_loads" =>
                IF rows[i] = "none" THEN Page!Screen = "notfound"
                ELSE /\ Page!Screen = "page"
                     /\ instance = [of |-> i, status |-> rows[i]]
                     /\ Page!ConsolePane.heading = i
                     /\ Page!ConsolePane.keys \subseteq {i})
        /\ <>[]Viewing(id = i /\ tab = "metrics") =>
            /\ <>[](open = "page_loads" => metrics = i \/ metricsError)
            /\ <>[][open = "page_loads" => NoneFails]_vars =>
               <>[](open = "page_loads" => Page!MetricsPane =
                    [error |-> FALSE, collecting |-> FALSE, figures |-> i])

(***************************************************************************)
(* Once any of the three connections is lost, or the controller's handler  *)
(* returns, the whole session ends on both machines: no goroutine stays in *)
(* a read, a write or a send, and nothing stays open, also when it was the *)
(* browser's connection that could not be upgraded.  The page has to take  *)
(* its output, for no write has a deadline.                                *)
(***************************************************************************)
SessionEnds ==
    WF_consoleVars(Session(Console!Consume("browser", "down")))
        => (Session(\/ main["controller"] = "done"
                    \/ \E l \in Console!Link : link[l] = "closed")
            ~> Session(Console!Over))
=============================================================================
