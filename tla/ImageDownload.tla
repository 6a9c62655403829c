--------------------------- MODULE ImageDownload ---------------------------
(***************************************************************************)
(* The download_image commands one agent has been sent for one image.      *)
(* Each runs in a goroutine of its own and starts wget on the same         *)
(* temporary name; mv then gives that file its final name, from which      *)
(* Provision makes the disks of new instances.                             *)
(*                                                                         *)
(* wget -O truncates the file it opens and writes on at its own offset: a  *)
(* file is the set of the parts written since it was truncated last.  A    *)
(* name that is moved or removed leaves the open file to its writers.      *)
(***************************************************************************)
EXTENDS Naturals, FiniteSets

CONSTANTS
    Download,   \* the commands, numbered
    Part,       \* the image is made of parts 1 to Part
    AtOnce      \* downloads that may overlap

DownloadAssumption ==
    /\ Download \subseteq Nat \ {0} /\ Download # {}
    /\ Part \in Nat \ {0} /\ AtOnce \in Nat \ {0}

NoFile == 0
File == Download        \* the file a download's wget has created
Name == File \cup {NoFile}

VARIABLES
    parts,      \* parts[f]: the parts file f holds
    tmp,        \* the file named <image>.qcow2.tmp
    target,     \* the file named <image>.qcow2
    pc,         \* pc[d]: "queued", "write", "mv", "rm", "done", "failed", "stuck", "killed"
    at,         \* at[d]: parts d's wget has written
    file        \* file[d]: the file d's wget has open

vars == <<parts, tmp, target, pc, at, file>>

Pc == {"queued", "write", "mv", "rm", "done", "failed", "stuck", "killed"}
Ended == {"done", "failed", "stuck", "killed"}
Whole == 1..Part

TypeOK ==
    /\ parts \in [File -> SUBSET Whole]
    /\ tmp \in Name /\ target \in Name
    /\ pc \in [Download -> Pc]
    /\ at \in [Download -> 0..Part]
    /\ file \in [Download -> Name]

Init ==
    /\ parts = [f \in File |-> {}]
    /\ tmp = NoFile /\ target = NoFile
    /\ pc = [d \in Download |-> "queued"]
    /\ at = [d \in Download |-> 0]
    /\ file = [d \in Download |-> NoFile]

Running == {d \in Download : pc[d] \notin Ended \cup {"queued"}}

\* wget opens the file of that name, or creates it
Open(d) ==
    /\ pc[d] = "queued" /\ Cardinality(Running) < AtOnce
    /\ LET f == IF tmp = NoFile THEN d ELSE tmp
       IN /\ tmp' = f
          /\ file' = [file EXCEPT ![d] = f]
          /\ parts' = [parts EXCEPT ![f] = {}]
    /\ pc' = [pc EXCEPT ![d] = "write"]
    /\ UNCHANGED <<target, at>>

\* Mutant of Complete: the exit status of wget is not looked at.
CompleteAlways(d) == TRUE

\* wget exits with 0 when the answer's length has been written
Complete(d) == at[d] = Part

Write(d) ==
    /\ pc[d] = "write" /\ at[d] < Part
    /\ at' = [at EXCEPT ![d] = @ + 1]
    /\ parts' = [parts EXCEPT ![file[d]] = @ \cup {at[d] + 1}]
    /\ UNCHANGED <<tmp, target, pc, file>>

Fetched(d) ==
    /\ pc[d] = "write" /\ Complete(d)
    /\ pc' = [pc EXCEPT ![d] = "mv"]
    /\ UNCHANGED <<parts, tmp, target, at, file>>

\* the server, the disk or the agent's context ends it
WgetFails(d) ==
    /\ pc[d] = "write" /\ at[d] < Part
    /\ pc' = [pc EXCEPT ![d] = "rm"]
    /\ UNCHANGED <<parts, tmp, target, at, file>>

\* Mutant of RemoveTmp: a failed download leaves its file, named, behind.
KeepTmp(d) ==
    /\ pc[d] = "rm"
    /\ pc' = [pc EXCEPT ![d] = "failed"]
    /\ UNCHANGED <<parts, tmp, target, at, file>>

\* rm -f, whoever's file has the name by now
RemoveTmp(d) ==
    /\ pc[d] = "rm"
    /\ tmp' = NoFile
    /\ pc' = [pc EXCEPT ![d] = "failed"]
    /\ UNCHANGED <<parts, target, at, file>>

\* mv, which fails when nothing has the name any more
Move(d) ==
    /\ pc[d] = "mv"
    /\ IF tmp = NoFile
       THEN pc' = [pc EXCEPT ![d] = "failed"] /\ UNCHANGED <<tmp, target>>
       ELSE /\ target' = tmp /\ tmp' = NoFile
            /\ pc' = [pc EXCEPT ![d] = "done"]
    /\ UNCHANGED <<parts, at, file>>

\* mv or rm fails on a file that is there: the download ends all the same, and
\* the file keeps its temporary name
LeaveTmp(d) ==
    /\ pc[d] \in {"mv", "rm"} /\ tmp # NoFile
    /\ pc' = [pc EXCEPT ![d] = "stuck"]
    /\ UNCHANGED <<parts, tmp, target, at, file>>

\* the agent dies, and systemd ends what it has started with it
AgentCrash ==
    /\ Running # {}
    /\ pc' = [d \in Download |-> IF d \in Running THEN "killed" ELSE pc[d]]
    /\ UNCHANGED <<parts, tmp, target, at, file>>

Next ==
    \/ AgentCrash
    \/ \E d \in Download :
        \/ Open(d) \/ Write(d) \/ Fetched(d) \/ WgetFails(d)
        \/ RemoveTmp(d) \/ Move(d) \/ LeaveTmp(d)

Spec == Init /\ [][Next]_vars

----------------------------------------------------------------------------
(* Properties.                                                             *)

(***************************************************************************)
(* downloadImage writes to a temporary name, so that what has the final    *)
(* name is a whole image at every moment.  So it is as long as downloads   *)
(* of one image follow one another, among them failed ones, and ones that  *)
(* die with the agent or cannot move or remove their temporary file, which *)
(* the next one takes over.                                                *)
(***************************************************************************)
TargetWhole == target # NoFile => parts[target] = Whole

(***************************************************************************)
(* Downloads that overlap may give the final name to a file another wget   *)
(* has just truncated.  When all have ended, none has died and no mv or rm *)
(* failed on a file that was there, no temporary file is left, however they*)
(* overlapped and failed; and when wget failed in none of them, the image  *)
(* is there and whole all the same: the last writer of a file writes all   *)
(* its parts after it was truncated last.                                  *)
(***************************************************************************)
WgetFailed(d) == pc[d] \in {"rm", "failed"} /\ at[d] < Part

WholeAtRest ==
    (\A d \in Download : pc[d] \in {"done", "failed"}) =>
        /\ tmp = NoFile
        /\ (\A d \in Download : ~WgetFailed(d)) =>
              target # NoFile /\ parts[target] = Whole
=============================================================================
