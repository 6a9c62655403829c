---------------------------- MODULE ConsoleProxy ----------------------------
(***************************************************************************)
(* One serial console session: browser -- controller -- agent -- PTY.  The *)
(* controller's Console and the agent's handleConsole each run a goroutine *)
(* per direction and wait for the first of the two to fail, then close     *)
(* what they hold; that must end every goroutine left in a read or write,  *)
(* on both machines.                                                       *)
(*                                                                         *)
(* A link has a queue per direction, "up" towards the VM, of which only    *)
(* the length counts.  What a link still holds when it closes is dropped.  *)
(***************************************************************************)
EXTENDS Naturals

CONSTANTS
    Room    \* bound: messages a link holds in one direction before a write blocks

RoomAssumption == Room \in Nat \ {0}

Link == {"browser", "agent", "pty"}
Handler == {"controller", "agent"}
Way == {"up", "down"}
Copier == Handler \X Way

\* what a handler holds, in the order of its deferred Closes
Inner(h) == IF h = "controller" THEN "browser" ELSE "agent"
Outer(h) == IF h = "controller" THEN "agent" ELSE "pty"

\* the goroutine (h, w) reads the queue w of one link and writes that of the other
From(c) == IF c[2] = "up" THEN Inner(c[1]) ELSE Outer(c[1])
To(c) == IF c[2] = "up" THEN Outer(c[1]) ELSE Inner(c[1])

VARIABLES
    link,       \* link[l]: "none", "open" or "closed"
    queue,      \* queue[l][w]: messages under way on a link
    main,       \* main[h]: "idle", "dial", "upgrade", "wait", "close1", "close2", "done"
    copier,     \* copier[c]: "off", "read", "write", "report" or "done"
    errc        \* errc[h]: errors in the handler's channel

vars == <<link, queue, main, copier, errc>>

TypeOK ==
    /\ link \in [Link -> {"none", "open", "closed"}]
    /\ queue \in [Link -> [Way -> 0..Room]]
    /\ main \in [Handler -> {"idle", "dial", "upgrade", "wait", "close1", "close2", "done"}]
    /\ copier \in [Copier -> {"off", "read", "write", "report", "done"}]
    /\ errc \in [Handler -> 0..2]

Init ==
    /\ link = [l \in Link |-> "none"]
    /\ queue = [l \in Link |-> [w \in Way |-> 0]]
    /\ main = [h \in Handler |-> "idle"]
    /\ copier = [c \in Copier |-> "off"]
    /\ errc = [h \in Handler |-> 0]

Empty == [w \in Way |-> 0]

Started(h) == [c \in Copier |-> IF c[1] = h THEN "read" ELSE copier[c]]

----------------------------------------------------------------------------
(* How a session comes about.                                              *)

\* GET .../console, and NodeAddressForInstance finds the node
Request ==
    /\ main["controller"] = "idle"
    /\ main' = [main EXCEPT !["controller"] = "dial"]
    /\ UNCHANGED <<link, queue, copier, errc>>

\* Dial and the agent's handler up to its goroutines: GetConsolePTY, OpenFile, Upgrade
Dial ==
    /\ main["controller"] = "dial"
    /\ main' = [main EXCEPT !["controller"] = "upgrade", !["agent"] = "wait"]
    /\ link' = [link EXCEPT !["agent"] = "open", !["pty"] = "open"]
    /\ copier' = Started("agent")
    /\ UNCHANGED <<queue, errc>>

\* no domain, no PTY, no upgrade on the agent, or no agent: 502
DialFails ==
    /\ main["controller"] = "dial"
    /\ main' = [main EXCEPT !["controller"] = "done", !["agent"] = "done"]
    /\ UNCHANGED <<link, queue, copier, errc>>

\* Upgrade of the browser's connection
Upgrade ==
    /\ main["controller"] = "upgrade"
    /\ main' = [main EXCEPT !["controller"] = "wait"]
    /\ link' = [link EXCEPT !["browser"] = "open"]
    /\ copier' = Started("controller")
    /\ UNCHANGED <<queue, errc>>

\* the return runs the one defer there is
UpgradeFails ==
    /\ main["controller"] = "upgrade"
    /\ main' = [main EXCEPT !["controller"] = "close2"]
    /\ UNCHANGED <<link, queue, copier, errc>>

----------------------------------------------------------------------------
(* The goroutines.                                                         *)

\* a goroutine of its own for each direction: ReadMessage, pty.Read
Read(c) ==
    /\ copier[c] = "read"
    /\ queue[From(c)][c[2]] > 0
    /\ queue' = [queue EXCEPT ![From(c)][c[2]] = @ - 1]
    /\ copier' = [copier EXCEPT ![c] = "write"]
    /\ UNCHANGED <<link, main, errc>>

\* the kernel's buffers
HasRoom(l, w) == queue[l][w] < Room

\* WriteMessage, pty.Write: blocks while the other side takes nothing
Write(c) ==
    /\ copier[c] = "write"
    /\ link[To(c)] = "open" /\ HasRoom(To(c), c[2])
    /\ queue' = [queue EXCEPT ![To(c)][c[2]] = @ + 1]
    /\ copier' = [copier EXCEPT ![c] = "read"]
    /\ UNCHANGED <<link, main, errc>>

\* a read or write of a link that either side has closed
Fail(c) ==
    /\ \/ copier[c] = "read" /\ link[From(c)] = "closed"
       \/ copier[c] = "write" /\ link[To(c)] = "closed"
    /\ copier' = [copier EXCEPT ![c] = "report"]
    /\ UNCHANGED <<link, queue, main, errc>>

\* make(chan error, 2)
ErrcFree(h) == errc[h] < 2

\* errc <- err; return
Report(c) ==
    /\ copier[c] = "report" /\ ErrcFree(c[1])
    /\ errc' = [errc EXCEPT ![c[1]] = @ + 1]
    /\ copier' = [copier EXCEPT ![c] = "done"]
    /\ UNCHANGED <<link, queue, main>>

----------------------------------------------------------------------------
(* The handlers.                                                           *)

\* Mutant of Enough: the handler waits for both goroutines.
EnoughBoth(h) == errc[h] = 2

Enough(h) == errc[h] > 0

\* <-errc
Wake(h) ==
    /\ main[h] = "wait" /\ Enough(h)
    /\ errc' = [errc EXCEPT ![h] = @ - 1]
    /\ main' = [main EXCEPT ![h] = "close1"]
    /\ UNCHANGED <<link, queue, copier>>

\* the deferred Closes, last one first
Close(h) ==
    \/ /\ main[h] = "close1"
       /\ main' = [main EXCEPT ![h] = "close2"]
       /\ link' = [link EXCEPT ![Inner(h)] = "closed"]
       /\ queue' = [queue EXCEPT ![Inner(h)] = Empty]
       /\ UNCHANGED <<copier, errc>>
    \/ /\ main[h] = "close2"
       /\ main' = [main EXCEPT ![h] = "done"]
       /\ link' = [link EXCEPT ![Outer(h)] = "closed"]
       /\ queue' = [queue EXCEPT ![Outer(h)] = Empty]
       /\ UNCHANGED <<copier, errc>>

----------------------------------------------------------------------------
(* The two ends and the network.                                           *)

\* ws.send of the page, the guest's output
Produce(l, w) ==
    /\ <<l, w>> \in {<<"browser", "up">>, <<"pty", "down">>}
    /\ link[l] = "open" /\ queue[l][w] < Room
    /\ queue' = [queue EXCEPT ![l][w] = @ + 1]
    /\ UNCHANGED <<link, main, copier, errc>>

\* ws.onmessage of the page, the guest's input
Consume(l, w) ==
    /\ <<l, w>> \in {<<"browser", "down">>, <<"pty", "up">>}
    /\ queue[l][w] > 0
    /\ queue' = [queue EXCEPT ![l][w] = @ - 1]
    /\ UNCHANGED <<link, main, copier, errc>>

\* the page is left, the VM stops, a connection breaks
Break(l) ==
    /\ link[l] = "open"
    /\ link' = [link EXCEPT ![l] = "closed"]
    /\ queue' = [queue EXCEPT ![l] = Empty]
    /\ UNCHANGED <<main, copier, errc>>

Over ==
    /\ \A h \in Handler : main[h] = "done"
    /\ \A c \in Copier : copier[c] \in {"off", "done"}
    /\ \A l \in Link : link[l] # "open"

\* the next session
Again ==
    /\ Over
    /\ link' = [l \in Link |-> "none"]
    /\ queue' = [l \in Link |-> Empty]
    /\ main' = [h \in Handler |-> "idle"]
    /\ copier' = [c \in Copier |-> "off"]
    /\ errc' = [h \in Handler |-> 0]

Next ==
    \/ Request \/ Dial \/ DialFails \/ Upgrade \/ UpgradeFails \/ Again
    \/ \E c \in Copier : Read(c) \/ Write(c) \/ Fail(c) \/ Report(c)
    \/ \E h \in Handler : Wake(h) \/ Close(h)
    \/ \E l \in Link : Break(l) \/ \E w \in Way : Produce(l, w) \/ Consume(l, w)

Spec == Init /\ [][Next]_vars

=============================================================================
