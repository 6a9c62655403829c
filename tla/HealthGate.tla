----------------------------- MODULE HealthGate -----------------------------
(***************************************************************************)
(* The gate in front of the whole web interface: nothing is drawn until    *)
(* the controller has answered GET /api/v1/health once.  A loop asks every *)
(* 2 s and two timers move the waiting text.  Under StrictMode a           *)
(* development build runs each effect, its cleanup, and the effect again,  *)
(* on one component state: two loops then run, the first one cancelled.    *)
(***************************************************************************)
EXTENDS Naturals

CONSTANTS Messages      \* the number of MESSAGES

MessagesAssumption == Messages \in Nat \ {0}

Poll == {1, 2}

VARIABLES
    up,         \* the controller answers requests
    gate,       \* [ready, msgIndex, dots] of the component
    poll,       \* poll[p]: where a loop is: "off", "fetch", "answered", "refused", "pause", "done"
    cancelled   \* cancelled[p]: the flag a loop's closure reads

vars == <<up, gate, poll, cancelled>>

TypeOK ==
    /\ up \in BOOLEAN
    /\ gate \in [ready : BOOLEAN, msgIndex : 0..Messages - 1, dots : 0..3]
    /\ poll \in [Poll -> {"off", "fetch", "answered", "refused", "pause", "done"}]
    /\ cancelled \in [Poll -> BOOLEAN]

Init ==
    /\ up \in BOOLEAN
    /\ gate = [ready |-> FALSE, msgIndex |-> 0, dots |-> 0]
    /\ poll = [p \in Poll |-> "off"]
    /\ cancelled = [p \in Poll |-> FALSE]

----------------------------------------------------------------------------
(* The loop.                                                               *)

\* the effect's cleanup between its two runs
Cleanup == [p \in Poll |-> p = 1]

\* the effect runs, twice in a development build
Mount ==
    /\ \A p \in Poll : poll[p] = "off"
    /\ \/ poll' = [poll EXCEPT ![1] = "fetch"] /\ UNCHANGED cancelled
       \/ poll' = [p \in Poll |-> "fetch"] /\ cancelled' = Cleanup
    /\ UNCHANGED <<up, gate>>

\* the answer of the moment the request arrives, or a network error
Answer(p) ==
    /\ poll[p] = "fetch"
    /\ poll' = [poll EXCEPT ![p] = IF up THEN "answered" ELSE "refused"]
    /\ UNCHANGED <<up, gate, cancelled>>

\* res.ok: the loop returns, and opens the gate unless it was cancelled
Open(p) ==
    /\ poll[p] = "answered"
    /\ poll' = [poll EXCEPT ![p] = "done"]
    /\ gate' = [gate EXCEPT !.ready = @ \/ ~cancelled[p]]
    /\ UNCHANGED <<up, cancelled>>

\* Mutant of AfterRefusal: return in the place of the pause.
RefusalEnds(p) == "done"

\* a proxy's error status, or the catch: both go on to the pause
AfterRefusal(p) == "pause"

Refused(p) ==
    /\ poll[p] = "refused"
    /\ poll' = [poll EXCEPT ![p] = AfterRefusal(p)]
    /\ UNCHANGED <<up, gate, cancelled>>

\* 2 s later, while (!cancelled)
Again(p) ==
    /\ poll[p] = "pause"
    /\ poll' = [poll EXCEPT ![p] = IF cancelled[p] THEN "done" ELSE "fetch"]
    /\ UNCHANGED <<up, gate, cancelled>>

----------------------------------------------------------------------------
(* The waiting screen and the controller.                                  *)

NextMessage(i) == (i + 1) % Messages

\* the timers of the two effects on [ready], which clear them once it is set
Message ==
    /\ poll[1] # "off" /\ ~gate.ready
    /\ gate' = [gate EXCEPT !.msgIndex = NextMessage(@)]
    /\ UNCHANGED <<up, poll, cancelled>>

Dots ==
    /\ poll[1] # "off" /\ ~gate.ready
    /\ gate' = [gate EXCEPT !.dots = IF @ >= 3 THEN 0 ELSE @ + 1]
    /\ UNCHANGED <<up, poll, cancelled>>

\* the children, or the waiting screen with its message and dots
View == IF gate.ready THEN "page" ELSE "waiting"

\* the controller comes and goes
Flip == up' = ~up /\ UNCHANGED <<gate, poll, cancelled>>

Next ==
    \/ Mount \/ Message \/ Dots \/ Flip
    \/ \E p \in Poll : Answer(p) \/ Open(p) \/ Refused(p) \/ Again(p)

Spec == Init /\ [][Next]_vars

=============================================================================
