----------------------------- MODULE ImagesPage -----------------------------
(***************************************************************************)
(* The image catalogue of the web interface, RealImages, with the          *)
(* controller that answers it and queues download_image commands.          *)
(*                                                                         *)
(* Each image has a button and a flag of its own; several deploys may be   *)
(* under way, and their answers come in any order.  The controller reads   *)
(* the healthy nodes once and then enqueues a command for one after the    *)
(* other, while heartbeats come and stop and other deploys do the same.    *)
(* The answer says which nodes were told to download, not that any of them *)
(* has.                                                                    *)
(***************************************************************************)
EXTENDS Naturals, FiniteSets

CONSTANTS
    Img,        \* the catalogue
    Node,       \* nodes that may be healthy
    Call,       \* bound: deploy requests
    MaxFault    \* bound: failed list requests and lost answers

ImagesAssumption == MaxFault \in Nat

VARIABLES
    healthy,    \* nodes HealthyNodes returns
    queue,      \* <<node, img, c>>: a download_image enqueued by call c
    page,       \* [mounted, images, loading, error, deploying, deployed]
    list,       \* the request for the catalogue: "idle" or "sent"
    call,       \* call[c]: a deploy request, with the nodes its handler has
                \*   read and those it has queued the command for
    faults

vars == <<healthy, queue, page, list, call, faults>>

Mounted(m) ==
    [mounted |-> m, images |-> {}, loading |-> TRUE, error |-> FALSE,
     deploying |-> [i \in Img |-> FALSE], deployed |-> [i \in Img |-> {}]]

Request(st, i, m) == [st |-> st, img |-> i, nodes |-> {}, queued |-> {}, mine |-> m]
Finished(st) == Request(st, CHOOSE i \in Img : TRUE, FALSE)
Pending == {"sent", "loop"}
Answered == {"ok", "err"}

TypeOK ==
    /\ healthy \subseteq Node
    /\ queue \subseteq Node \X Img \X Call
    /\ page \in [mounted : BOOLEAN, images : {{}, Img}, loading : BOOLEAN,
                 error : BOOLEAN, deploying : [Img -> BOOLEAN],
                 deployed : [Img -> SUBSET Node]]
    /\ list \in {"idle", "sent"}
    /\ call \in [Call -> [st : {"unused", "done"} \cup Pending \cup Answered, img : Img,
                          nodes : SUBSET Node, queued : SUBSET Node, mine : BOOLEAN]]
    /\ faults \in 0..MaxFault

Init ==
    /\ healthy \in SUBSET Node
    /\ queue = {}
    /\ page = Mounted(FALSE)
    /\ list = "idle"
    /\ call = [c \in Call |-> Finished("unused")]
    /\ faults = 0

Fault == faults < MaxFault /\ faults' = faults + 1

----------------------------------------------------------------------------
(* The page.                                                               *)

View ==
    IF ~page.mounted THEN "away"
    ELSE IF page.loading THEN "spinner"
    ELSE IF page.error THEN "error"
    ELSE "page"

\* the effect on []
Enter ==
    /\ ~page.mounted
    /\ page' = Mounted(TRUE) /\ list' = "sent"
    /\ UNCHANGED <<healthy, queue, call, faults>>

Leave ==
    /\ page.mounted
    /\ page' = Mounted(FALSE) /\ list' = "idle"
    /\ call' = [c \in Call |-> IF call[c].st \in Pending
                                THEN [call[c] EXCEPT !.mine = FALSE]
                                ELSE IF call[c].st \in Answered
                                THEN Finished("done") ELSE call[c]]
    /\ UNCHANGED <<healthy, queue, faults>>

ListDone ==
    /\ list = "sent" /\ list' = "idle"
    /\ page' = [page EXCEPT !.images = Img, !.loading = FALSE]
    /\ UNCHANGED <<healthy, queue, call, faults>>

ListFailed ==
    /\ list = "sent" /\ list' = "idle"
    /\ Fault
    /\ page' = [page EXCEPT !.error = TRUE, !.loading = FALSE]
    /\ UNCHANGED <<healthy, queue, call>>

\* disabled={isDeploying}
CanDeploy(i) == View = "page" /\ i \in page.images /\ ~page.deploying[i]

\* handleDeploy up to its await
handleDeploy(i) ==
    /\ CanDeploy(i)
    /\ page' = [page EXCEPT !.deploying[i] = TRUE]
    /\ \E c \in Call :
        /\ call[c].st = "unused"
        /\ \A d \in Call : call[d].st = "unused" => c <= d
        /\ call' = [call EXCEPT ![c] = Request("sent", i, TRUE)]
    /\ UNCHANGED <<healthy, queue, list, faults>>

Mine(c) == call[c].mine

\* Mutant of Deploying: every flag is cleared, not the image's own.
ClearAll(c) == [i \in Img |-> FALSE]

\* finally: the functional update keeps the flags of other images
Deploying(c) == [page.deploying EXCEPT ![call[c].img] = FALSE]

DeployDone(c) ==
    /\ call[c].st = "ok" /\ Mine(c)
    /\ page' = [page EXCEPT !.deploying = Deploying(c),
                            !.deployed[call[c].img] = call[c].queued]
    /\ call' = [call EXCEPT ![c] = Finished("done")]
    /\ UNCHANGED <<healthy, queue, list, faults>>

DeployFailed(c) ==
    /\ call[c].st = "err" /\ Mine(c)
    /\ page' = [page EXCEPT !.deploying = Deploying(c)]
    /\ call' = [call EXCEPT ![c] = Finished("done")]
    /\ UNCHANGED <<healthy, queue, list, faults>>

----------------------------------------------------------------------------
(* The controller: ImageHandler.Deploy, ImageService.Deploy.               *)

\* nobody waits for the answer to a request of an earlier visit
Answer(c, st, names) ==
    call' = [call EXCEPT ![c] =
                IF @.mine THEN [@ EXCEPT !.st = st, !.queued = names]
                ELSE Finished("done")]

\* HealthyNodes
DeployRead(c) ==
    /\ call[c].st = "sent" /\ healthy # {}
    /\ call' = [call EXCEPT ![c].st = "loop", ![c].nodes = healthy]
    /\ UNCHANGED <<healthy, queue, page, list, faults>>

\* no healthy nodes available, or the query fails
DeployRefused(c) ==
    /\ call[c].st = "sent"
    /\ IF healthy = {} THEN UNCHANGED faults ELSE Fault
    /\ Answer(c, "err", {})
    /\ UNCHANGED <<healthy, queue, page, list>>

\* one round of the loop, for whatever node comes next
DeployEnqueue(c) ==
    /\ call[c].st = "loop"
    /\ \E n \in call[c].nodes \ call[c].queued :
        /\ queue' = queue \cup {<<n, call[c].img, c>>}
        /\ call' = [call EXCEPT ![c].queued = @ \cup {n}]
    /\ UNCHANGED <<healthy, page, list, faults>>

\* Mutant of Told: the healthy nodes are read again for the answer.
ToldHealthy(c) == healthy

\* return queued
Told(c) == call[c].queued

\* the loop is over; the answer arrives or is lost
DeployReturns(c) ==
    /\ call[c].st = "loop" /\ call[c].queued = call[c].nodes
    /\ \/ Answer(c, "ok", Told(c)) /\ UNCHANGED faults
       \/ Answer(c, "err", {}) /\ Fault
    /\ UNCHANGED <<healthy, queue, page, list>>

\* heartbeats come and stop
HealthChanges(n) ==
    /\ healthy' = IF n \in healthy THEN healthy \ {n} ELSE healthy \cup {n}
    /\ UNCHANGED <<queue, page, list, call, faults>>

----------------------------------------------------------------------------

Handle(c) ==
    DeployRead(c) \/ DeployRefused(c) \/ DeployEnqueue(c) \/ DeployReturns(c)
Respond(c) == DeployDone(c) \/ DeployFailed(c)

Next ==
    \/ \E c \in Call : Handle(c) \/ Respond(c)
    \/ \E i \in Img : handleDeploy(i)
    \/ \E n \in Node : HealthChanges(n)
    \/ ListDone \/ ListFailed \/ Enter \/ Leave

Spec == Init /\ [][Next]_vars

----------------------------------------------------------------------------
(* Properties.                                                             *)

(***************************************************************************)
(* The flag of an image is set exactly while a deploy of that image that   *)
(* this visit has asked for is under way, whatever other deploys do and    *)
(* whatever requests earlier visits have left behind.                      *)
(***************************************************************************)
DeployingIsCall ==
    \A i \in Img :
        page.deploying[i] <=>
            \E c \in Call : /\ Mine(c) /\ call[c].img = i
                           /\ call[c].st \in Pending \cup Answered

(***************************************************************************)
(* Queued on: the nodes the page names for an image are exactly those that *)
(* one and the same deploy has enqueued a download of that image for:      *)
(* every node that was lost after the query was read is named, none that   *)
(* came after it, and none that only another deploy told, however health   *)
(* changes and other deploys go through their loops meanwhile.             *)
(***************************************************************************)
Enqueued(i, c) == {n \in Node : <<n, i, c>> \in queue}

QueuedOn ==
    \A i \in Img :
        page.deployed[i] # {} => \E c \in Call : page.deployed[i] = Enqueued(i, c)
=============================================================================
