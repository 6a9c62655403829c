----------------------------- MODULE NodesPage -----------------------------
(***************************************************************************)
(* The node list of the web interface, RealNodes, with the controller that *)
(* answers it and the agents that register there.                          *)
(*                                                                         *)
(* The dialog Add Node shows a command; the node is added by the agent the *)
(* command installs, behind the page's back, and comes into view with the  *)
(* 15 s timer.  A row removed while its agent is connected comes back only *)
(* when that agent registers again, and then with another id: a page that  *)
(* still shows the old row can only delete the old id.  Figures of a node  *)
(* are left out, and so is the sentence that says a command was copied.    *)
(***************************************************************************)
EXTENDS Naturals

CONSTANTS
    Node,       \* addresses of agents: one row each
    NoNode,     \* no delete under way
    Load,       \* bound: list requests under way at once
    MaxDelete,  \* bound: deletes confirmed on the page
    MaxFault    \* bound: failed requests and broken streams

NodesAssumption ==
    NoNode \notin Node /\ MaxDelete \in Nat /\ MaxFault \in Nat

Status == {"none", "healthy", "unreachable"}
Table == [Node -> Status]
Empty == [n \in Node |-> "none"]
NoIds == [n \in Node |-> 0]
Idle == [st |-> "idle", rows |-> Empty, ids |-> NoIds]

VARIABLES
    rows,      \* table nodes: the status of each address, or "none"
    ids,       \* the id of the row an address has, or had last; 0 before
    agent,     \* "absent", "connected", or "lost": its stream is broken
    hosts,     \* nodes an instance refers to
    page,      \* [mounted, nodes, ids, loading, error, showModal]
    list,      \* list[l]: a list request of this visit
    removal,   \* the delete under way: [st, node, id, mine]
    deletes, faults

server == <<rows, ids, agent, hosts>>
bounds == <<deletes, faults>>
vars == <<rows, ids, agent, hosts, page, list, removal, deletes, faults>>

NoRemoval == [st |-> "idle", node |-> NoNode, id |-> 0, mine |-> FALSE]
Mounted(m) == [mounted |-> m, nodes |-> Empty, ids |-> NoIds, loading |-> TRUE,
               error |-> FALSE, showModal |-> FALSE]

TypeOK ==
    /\ rows \in Table /\ ids \in [Node -> Nat]
    /\ agent \in [Node -> {"absent", "connected", "lost"}]
    /\ hosts \subseteq Node
    /\ page \in [mounted : BOOLEAN, nodes : Table, ids : [Node -> Nat], loading : BOOLEAN,
                 error : BOOLEAN, showModal : BOOLEAN]
    /\ list \in [Load -> [st : {"idle", "sent", "read"}, rows : Table, ids : [Node -> Nat]]]
    /\ removal \in [st : {"idle", "sent", "done"}, node : Node \cup {NoNode}, id : Nat,
                    mine : BOOLEAN]
    /\ deletes \in 0..MaxDelete /\ faults \in 0..MaxFault

Init ==
    /\ rows = Empty /\ ids = NoIds
    /\ agent = [n \in Node |-> "absent"]
    /\ hosts = {}
    /\ page = Mounted(FALSE)
    /\ list = [l \in Load |-> Idle]
    /\ removal = NoRemoval
    /\ deletes = 0 /\ faults = 0

Fault == faults < MaxFault /\ faults' = faults + 1

----------------------------------------------------------------------------
(* The list.                                                               *)

\* the early returns before the JSX
View ==
    IF ~page.mounted THEN "away"
    ELSE IF page.loading /\ page.nodes = Empty THEN "spinner"
    ELSE IF page.error THEN "error"
    ELSE "page"

FreeLoad == CHOOSE l \in Load : list[l].st = "idle"

load ==
    /\ \E l \in Load : list[l].st = "idle"
    /\ list' = [list EXCEPT ![FreeLoad].st = "sent"]

\* the controller's query: NodeHandler.List
ListRead(l) ==
    /\ list[l].st = "sent"
    /\ list' = [list EXCEPT ![l] = [st |-> "read", rows |-> rows, ids |-> ids]]
    /\ UNCHANGED <<server, page, removal, bounds>>

\* Mutant of ListDone: an empty answer is taken for none, so the last node
\* removed stays on the page.
ListDoneNonempty(l) ==
    /\ list[l].st = "read"
    /\ page' = [page EXCEPT !.nodes = IF list[l].rows = Empty THEN @
                                      ELSE list[l].rows,
                            !.ids = list[l].ids, !.loading = FALSE]
    /\ list' = [list EXCEPT ![l] = Idle]
    /\ UNCHANGED <<server, removal, bounds>>

\* .then and .finally
ListDone(l) ==
    /\ list[l].st = "read"
    /\ page' = [page EXCEPT !.nodes = list[l].rows, !.ids = list[l].ids,
                            !.loading = FALSE]
    /\ list' = [list EXCEPT ![l] = Idle]
    /\ UNCHANGED <<server, removal, bounds>>

\* .catch and .finally: nothing takes the error back
ListFailed(l) ==
    /\ list[l].st # "idle"
    /\ Fault
    /\ page' = [page EXCEPT !.error = TRUE, !.loading = FALSE]
    /\ list' = [list EXCEPT ![l] = Idle]
    /\ UNCHANGED <<server, removal, deletes>>

\* setInterval(load, 15000)
Interval == page.mounted

Tick ==
    /\ Interval
    /\ load
    /\ page' = [page EXCEPT !.loading = TRUE]
    /\ UNCHANGED <<server, removal, bounds>>

Enter ==
    /\ ~page.mounted
    /\ load
    /\ page' = Mounted(TRUE)
    /\ UNCHANGED <<server, removal, bounds>>

\* the timer is cleared, the state dropped; requests are not aborted
Leave ==
    /\ page.mounted
    /\ page' = Mounted(FALSE)
    /\ list' = [l \in Load |-> Idle]
    /\ removal' = [removal EXCEPT !.mine = FALSE]
    /\ UNCHANGED <<server, bounds>>

----------------------------------------------------------------------------
(* The header, the buttons of a node and the dialog.                       *)

\* n healthy, m unreachable; refresh
Refresh ==
    /\ View = "page"
    /\ load
    /\ page' = [page EXCEPT !.loading = TRUE]
    /\ UNCHANGED <<server, removal, bounds>>

\* Add Node, Add first node
OpenModal ==
    /\ View = "page" /\ ~page.showModal
    /\ page' = [page EXCEPT !.showModal = TRUE]
    /\ UNCHANGED <<server, list, removal, bounds>>

\* the dialog: the backdrop, the X and Close end it, and its two fields only
\* name the node in the command
CloseModal ==
    /\ View = "page" /\ page.showModal
    /\ page' = [page EXCEPT !.showModal = FALSE]
    /\ UNCHANGED <<server, list, removal, bounds>>

\* handleDelete up to its await; one at a time, by the bound
handleDelete(n) ==
    /\ View = "page" /\ ~page.showModal
    /\ page.nodes[n] # "none"
    /\ removal.st = "idle"
    /\ deletes < MaxDelete /\ deletes' = deletes + 1
    /\ removal' = [st |-> "sent", node |-> n, id |-> page.ids[n], mine |-> TRUE]
    /\ UNCHANGED <<server, page, list, faults>>

\* instances.node_id REFERENCES nodes(id)
Deletable(n) == n \notin hosts

\* Mutant of RemovalHandled: the row is kept with a status of its own.
RemovalMarks ==
    /\ removal.st = "sent"
    /\ rows' = [rows EXCEPT ![removal.node] = "deleted"]
    /\ removal' = [removal EXCEPT !.st = "done"]
    /\ UNCHANGED <<ids, agent, hosts, page, list, bounds>>

\* DELETE ... WHERE id; what is answered is not told apart, and the request may
\* also fail, or be lost, whatever refers to the row
RemovalHandled ==
    /\ removal.st = "sent"
    /\ LET n == removal.node
       IN \/ /\ rows' = IF Deletable(n) /\ removal.id = ids[n]
                         THEN [rows EXCEPT ![n] = "none"] ELSE rows
             /\ UNCHANGED faults
          \/ Fault /\ UNCHANGED rows
    /\ removal' = [removal EXCEPT !.st = "done"]
    /\ UNCHANGED <<ids, agent, hosts, page, list, deletes>>

\* .catch(() => null), then load(): the error is swallowed
RemovalDone ==
    /\ removal.st = "done"
    /\ removal' = NoRemoval
    /\ IF removal.mine
       THEN load /\ page' = [page EXCEPT !.loading = TRUE]
       ELSE UNCHANGED <<page, list>>
    /\ UNCHANGED <<server, bounds>>

----------------------------------------------------------------------------
(* What the agents and the other pages do.                                 *)

\* the installed agent, or one whose stream broke, registers: Upsert
Register(n) ==
    /\ agent[n] = "lost" \/ (agent[n] = "absent" /\ page.showModal)
    /\ agent' = [agent EXCEPT ![n] = "connected"]
    /\ rows' = [rows EXCEPT ![n] = "healthy"]
    /\ ids' = IF rows[n] = "none" THEN [ids EXCEPT ![n] = @ + 1] ELSE ids
    /\ UNCHANGED <<hosts, page, list, removal, bounds>>

\* UpdateHeartbeat; a row that was removed stays removed
Heartbeat(n) ==
    /\ agent[n] = "connected" /\ rows[n] = "unreachable"
    /\ rows' = [rows EXCEPT ![n] = "healthy"]
    /\ UNCHANGED <<ids, agent, hosts, page, list, removal, bounds>>

\* the stream breaks: MarkUnreachable
StreamLost(n) ==
    /\ agent[n] = "connected"
    /\ Fault
    /\ agent' = [agent EXCEPT ![n] = "lost"]
    /\ rows' = [rows EXCEPT ![n] = IF @ = "none" THEN @ ELSE "unreachable"]
    /\ UNCHANGED <<ids, hosts, page, list, removal, deletes>>

\* an instance is placed on a healthy node, or its row is deleted
Place(n) ==
    /\ rows[n] = "healthy" /\ n \notin hosts
    /\ hosts' = hosts \cup {n}
    /\ UNCHANGED <<rows, ids, agent, page, list, removal, bounds>>

Vacate(n) ==
    /\ n \in hosts
    /\ hosts' = hosts \ {n}
    /\ UNCHANGED <<rows, ids, agent, page, list, removal, bounds>>

----------------------------------------------------------------------------

Next ==
    \/ \E l \in Load : ListRead(l) \/ ListDone(l) \/ ListFailed(l)
    \/ \E n \in Node : handleDelete(n) \/ Register(n) \/ Heartbeat(n)
                       \/ StreamLost(n) \/ Place(n) \/ Vacate(n)
    \/ Tick \/ Refresh \/ OpenModal \/ CloseModal
    \/ RemovalHandled \/ RemovalDone \/ Enter \/ Leave

Spec == Init /\ [][Next]_vars

=============================================================================
