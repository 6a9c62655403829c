------------------------ MODULE ImageDownloadProofs ------------------------
(***************************************************************************)
(* Proofs about ImageDownload, for any number of download commands and     *)
(* parts: types; what is left when downloads that overlap in any way have  *)
(* all ended; and, when downloads follow one another, that the final name  *)
(* is never given to anything but a whole image.                           *)
(***************************************************************************)
EXTENDS ImageDownload, FiniteSetTheorems, TLAPS

\* a wget that runs has a file, and one that has not been started has not
\* written
OpenFile ==
    /\ \A d \in Download : pc[d] = "write" => file[d] \in File
    /\ \A d \in Download : pc[d] = "queued" => at[d] = 0 /\ file[d] = NoFile

TInv == TypeOK /\ OpenFile

LEMMA TypeInit == ASSUME DownloadAssumption PROVE Init => TInv
BY SMT DEF DownloadAssumption, Init, TInv, OpenFile, TypeOK, Name, File, NoFile, Pc, Whole

LEMMA TypeStep ==
    ASSUME DownloadAssumption PROVE TInv /\ [Next]_vars => TInv'
<1> SUFFICES ASSUME TInv, [Next]_vars PROVE TInv'
    OBVIOUS
<1> USE DEF TInv, TypeOK, OpenFile, Name, File, NoFile, Pc, Whole, DownloadAssumption
<1>1. ASSUME NEW d \in Download, Open(d) PROVE TInv'
    BY <1>1, SMT DEF Open
<1>2. ASSUME NEW d \in Download, Write(d) PROVE TInv'
  <2>0. file[d] \in Download /\ at[d] \in 0..Part /\ at[d] < Part
      BY <1>2, SMT DEF Write
  <2>1. parts[file[d]] \in SUBSET (1..Part)
      BY <2>0
  <2>2. at[d] + 1 \in 0..Part /\ at[d] + 1 \in 1..Part
      BY <2>0, SMT
  <2>3. parts[file[d]] \cup {at[d] + 1} \in SUBSET (1..Part)
      BY <2>1, <2>2
  <2>4. parts' \in [File -> SUBSET Whole] /\ at' \in [Download -> 0..Part]
      BY <1>2, <2>0, <2>2, <2>3 DEF Write
  <2>5. pc[d] = "write" /\ \A c \in Download : c # d => at'[c] = at[c]
      BY <1>2, SMT DEF Write
  <2> QED BY <1>2, <2>4, <2>5, SMT DEF Write
<1>3. ASSUME NEW d \in Download, Fetched(d) PROVE TInv'
    BY <1>3, SMT DEF Fetched
<1>4. ASSUME NEW d \in Download, WgetFails(d) PROVE TInv'
    BY <1>4, SMT DEF WgetFails
<1>5. ASSUME NEW d \in Download, RemoveTmp(d) PROVE TInv'
    BY <1>5, SMT DEF RemoveTmp
<1>6. ASSUME NEW d \in Download, Move(d) PROVE TInv'
    BY <1>6, SMT DEF Move
<1>7. CASE AgentCrash
    BY <1>7, SMT DEF AgentCrash, Running, Ended
<1>8. ASSUME NEW d \in Download, LeaveTmp(d) PROVE TInv'
    BY <1>8, SMT DEF LeaveTmp
<1>9. CASE UNCHANGED vars
    BY <1>9 DEF vars
<1> QED BY <1>1, <1>2, <1>3, <1>4, <1>5, <1>6, <1>7, <1>8, <1>9 DEF Next

(***************************************************************************)
(* Type correctness, for any number of downloads, in any overlap: no wget  *)
(* writes a part the image does not have, nor to a file it has not opened. *)
(***************************************************************************)
THEOREM TypeCorrect == ASSUME DownloadAssumption PROVE Spec => []TypeOK
<1>1. Init => TInv
    BY TypeInit
<1>2. TInv /\ [Next]_vars => TInv'
    BY TypeStep
<1>3. TInv => TypeOK
    BY DEF TInv
<1> QED BY <1>1, <1>2, <1>3, PTL DEF Spec

----------------------------------------------------------------------------
(* Downloads that overlap.                                                 *)

\* somebody is left who will remove or move what has the temporary name, or could not
TmpOwned ==
    tmp # NoFile =>
        \E d \in Download : file[d] = tmp /\ pc[d] \in {"write", "mv", "rm", "stuck", "killed"}

\* the wget that truncated a file last has all it has written still in it
LastWriter ==
    \A f \in File :
        (\E d \in Download : file[d] = f) =>
            \E d \in Download : file[d] = f /\ 1..at[d] \subseteq parts[f]

\* wget has written the whole image before mv, and not when it has failed
Exit ==
    /\ \A d \in Download : pc[d] \in {"mv", "done"} => at[d] = Part
    /\ \A d \in Download : pc[d] = "rm" => at[d] < Part

\* both names are names of files a wget has opened
Named ==
    \A f \in {tmp, target} \ {NoFile} : \E d \in Download : file[d] = f

\* why there may be no image
Missing ==
    target = NoFile =>
        \/ tmp # NoFile
        \/ \A d \in Download : pc[d] = "queued"
        \/ \E d \in Download : WgetFailed(d) \/ pc[d] \in {"stuck", "killed"}

RInv == TInv /\ TmpOwned /\ LastWriter /\ Exit /\ Named /\ Missing

LEMMA RestInit == ASSUME DownloadAssumption PROVE Init => RInv
<1> SUFFICES ASSUME Init PROVE RInv
    OBVIOUS
<1>1. TInv
    BY TypeInit
<1>2. TmpOwned /\ LastWriter /\ Named /\ Missing
    BY SMT DEF Init, TmpOwned, LastWriter, Named, Missing, File, NoFile, DownloadAssumption
<1>3. Exit
    BY SMT DEF Init, Exit, DownloadAssumption
<1> QED BY <1>1, <1>2, <1>3 DEF RInv

LEMMA RestOpen ==
    ASSUME DownloadAssumption, RInv, NEW e \in Download, Open(e) PROVE RInv'
<1> DEFINE f == IF tmp = NoFile THEN e ELSE tmp
<1>1. TInv'
    BY TypeStep DEF RInv, Next
<1>2. /\ f \in File /\ f # NoFile /\ tmp' = f /\ target' = target /\ at' = at
      /\ file' = [file EXCEPT ![e] = f] /\ parts' = [parts EXCEPT ![f] = {}]
      /\ pc[e] = "queued" /\ pc' = [pc EXCEPT ![e] = "write"]
      /\ at[e] = 0 /\ file[e] = NoFile
    BY SMT DEF Open, RInv, TInv, TypeOK, OpenFile, Name, File, NoFile, DownloadAssumption
<1> HIDE DEF f
<1> USE DEF RInv, TInv, TypeOK
<1>3. TmpOwned'
    BY <1>2, SMT DEF TmpOwned
<1>4. LastWriter'
  <2> SUFFICES ASSUME NEW g \in File, NEW c \in Download, file'[c] = g
               PROVE \E d \in Download : file'[d] = g /\ 1..at'[d] \subseteq parts'[g]
      BY DEF LastWriter
  <2>1. CASE g = f
    <3>1. 1..at'[e] = {} /\ file'[e] = f
        BY <1>2, SMT
    <3> QED BY <2>1, <3>1
  <2>2. CASE g # f
    <3>1. c # e /\ file[c] = g
        BY <1>2, <2>2, SMT
    <3>2. PICK d \in Download : file[d] = g /\ 1..at[d] \subseteq parts[g]
        BY <3>1 DEF LastWriter
    <3>3. d # e
        BY <1>2, <3>2, SMT DEF File, NoFile, DownloadAssumption
    <3>4. file'[d] = g /\ at'[d] = at[d] /\ parts'[g] = parts[g]
        BY <1>2, <2>2, <3>2, <3>3, SMT
    <3> QED BY <3>2, <3>4
  <2> QED BY <2>1, <2>2
<1>5. Exit'
    BY <1>2, SMT DEF Exit
<1>6. Named'
  <2>1. file'[e] = tmp'
      BY <1>2, SMT
  <2>2. ASSUME target # NoFile PROVE \E d \in Download : file'[d] = target
    <3>1. PICK d \in Download : file[d] = target
        BY <2>2 DEF Named
    <3>2. d # e
        BY <1>2, <2>2, <3>1
    <3> QED BY <1>2, <3>1, <3>2, SMT
  <2> QED BY <1>2, <2>1, <2>2 DEF Named
<1>7. Missing'
    BY <1>2 DEF Missing
<1> QED BY <1>1, <1>3, <1>4, <1>5, <1>6, <1>7 DEF RInv

LEMMA RestWrite ==
    ASSUME DownloadAssumption, RInv, NEW e \in Download, Write(e) PROVE RInv'
<1>1. TInv'
    BY TypeStep DEF RInv, Next
<1>2. /\ pc[e] = "write" /\ at' = [at EXCEPT ![e] = @ + 1] /\ at[e] \in 0..Part
      /\ parts' = [parts EXCEPT ![file[e]] = @ \cup {at[e] + 1}] /\ file[e] \in File
      /\ tmp' = tmp /\ target' = target /\ pc' = pc /\ file' = file
    BY SMT DEF Write, RInv, TInv, TypeOK, OpenFile
<1> USE DEF RInv, TInv, TypeOK
<1>3. TmpOwned'
    BY <1>2 DEF TmpOwned
<1>4. LastWriter'
  <2> SUFFICES ASSUME NEW g \in File, NEW c \in Download, file[c] = g
               PROVE \E d \in Download : file[d] = g /\ 1..at'[d] \subseteq parts'[g]
      BY <1>2 DEF LastWriter
  <2>1. PICK d \in Download : file[d] = g /\ 1..at[d] \subseteq parts[g]
      BY DEF LastWriter
  <2>2. parts[g] \subseteq parts'[g]
      BY <1>2, SMT
  <2>3. CASE d # e
      BY <1>2, <2>1, <2>2, <2>3, SMT
  <2>4. CASE d = e
    <3>1. at'[d] = at[d] + 1 /\ parts'[g] = parts[g] \cup {at[d] + 1}
        BY <1>2, <2>1, <2>4, SMT
    <3>2. 1..(at[d] + 1) \subseteq (1..at[d]) \cup {at[d] + 1}
        BY <1>2, <2>4, SMT
    <3> QED BY <2>1, <3>1, <3>2
  <2> QED BY <2>3, <2>4
<1>5. Exit'
    BY <1>2, SMT DEF Exit
<1>6. Named'
    BY <1>2 DEF Named
<1>7. Missing'
  <2> SUFFICES ASSUME target = NoFile, tmp = NoFile
               PROVE \E d \in Download : WgetFailed(d)' \/ pc[d] \in {"stuck", "killed"}
      BY <1>2 DEF Missing
  <2>1. ~ \A d \in Download : pc[d] = "queued"
      BY <1>2
  <2>2. PICK d \in Download : WgetFailed(d) \/ pc[d] \in {"stuck", "killed"}
      BY <2>1 DEF Missing
  <2>3. d # e \/ pc[d] \in {"stuck", "killed"}
      BY <1>2, <2>2 DEF WgetFailed
  <2>4. WgetFailed(d)' \/ pc[d] \in {"stuck", "killed"}
      BY <1>2, <2>2, <2>3, SMT DEF WgetFailed
  <2> QED BY <2>4
<1> QED BY <1>1, <1>3, <1>4, <1>5, <1>6, <1>7 DEF RInv

LEMMA RestFetched ==
    ASSUME DownloadAssumption, RInv, NEW e \in Download, Fetched(e) PROVE RInv'
<1>1. TInv'
    BY TypeStep DEF RInv, Next
<1>2. /\ pc[e] = "write" /\ at[e] = Part /\ pc' = [pc EXCEPT ![e] = "mv"]
      /\ tmp' = tmp /\ target' = target /\ parts' = parts /\ at' = at /\ file' = file
    BY DEF Fetched, Complete
<1> USE DEF RInv, TInv, TypeOK
<1>3. TmpOwned'
    BY <1>2, SMT DEF TmpOwned
<1>4. LastWriter' /\ Named'
    BY <1>2 DEF LastWriter, Named
<1>5. Exit'
    BY <1>2, SMT DEF Exit
<1>6. Missing'
  <2> SUFFICES ASSUME target = NoFile, tmp = NoFile
               PROVE \E d \in Download : WgetFailed(d)' \/ pc'[d] \in {"stuck", "killed"}
      BY <1>2 DEF Missing
  <2>1. PICK d \in Download : WgetFailed(d) \/ pc[d] \in {"stuck", "killed"}
      BY <1>2 DEF Missing
  <2> QED BY <1>2, <2>1, SMT DEF WgetFailed
<1> QED BY <1>1, <1>3, <1>4, <1>5, <1>6 DEF RInv

LEMMA RestFails ==
    ASSUME DownloadAssumption, RInv, NEW e \in Download, WgetFails(e) PROVE RInv'
<1>1. TInv'
    BY TypeStep DEF RInv, Next
<1>2. /\ pc[e] = "write" /\ at[e] < Part /\ pc' = [pc EXCEPT ![e] = "rm"]
      /\ tmp' = tmp /\ target' = target /\ parts' = parts /\ at' = at /\ file' = file
    BY DEF WgetFails
<1> USE DEF RInv, TInv, TypeOK
<1>3. TmpOwned'
    BY <1>2, SMT DEF TmpOwned
<1>4. LastWriter' /\ Named'
    BY <1>2 DEF LastWriter, Named
<1>5. Exit'
    BY <1>2, SMT DEF Exit
<1>6. Missing'
    BY <1>2, SMT DEF Missing, WgetFailed
<1> QED BY <1>1, <1>3, <1>4, <1>5, <1>6 DEF RInv

LEMMA RestRemove ==
    ASSUME DownloadAssumption, RInv, NEW e \in Download, RemoveTmp(e) PROVE RInv'
<1>1. TInv'
    BY TypeStep DEF RInv, Next
<1>2. /\ pc[e] = "rm" /\ pc' = [pc EXCEPT ![e] = "failed"]
      /\ tmp' = NoFile /\ target' = target /\ parts' = parts /\ at' = at /\ file' = file
    BY DEF RemoveTmp
<1> USE DEF RInv, TInv, TypeOK
<1>3. TmpOwned'
    BY <1>2 DEF TmpOwned
<1>4. LastWriter' /\ Named'
    BY <1>2 DEF LastWriter, Named
<1>5. Exit'
    BY <1>2, SMT DEF Exit
<1>6. WgetFailed(e)'
    BY <1>2, SMT DEF Exit, WgetFailed
<1>7. Missing'
    BY <1>6 DEF Missing
<1> QED BY <1>1, <1>3, <1>4, <1>5, <1>7 DEF RInv

LEMMA RestMove ==
    ASSUME DownloadAssumption, RInv, NEW e \in Download, Move(e) PROVE RInv'
<1>1. TInv'
    BY TypeStep DEF RInv, Next
<1>2. /\ pc[e] = "mv" /\ pc' \in {[pc EXCEPT ![e] = "failed"], [pc EXCEPT ![e] = "done"]}
      /\ tmp' = NoFile /\ target' = (IF tmp = NoFile THEN target ELSE tmp)
      /\ parts' = parts /\ at' = at /\ file' = file
    BY DEF Move
<1> USE DEF RInv, TInv, TypeOK
<1>3. TmpOwned'
    BY <1>2 DEF TmpOwned
<1>4. LastWriter' /\ Named'
    BY <1>2 DEF LastWriter, Named
<1>5. Exit'
    BY <1>2, SMT DEF Exit
<1>6. Missing'
  <2> SUFFICES ASSUME target' = NoFile
               PROVE \E d \in Download : WgetFailed(d)' \/ pc'[d] \in {"stuck", "killed"}
      BY DEF Missing
  <2>1. target = NoFile /\ tmp = NoFile
      BY <1>2
  <2>2. PICK d \in Download : WgetFailed(d) \/ pc[d] \in {"stuck", "killed"}
      BY <1>2, <2>1 DEF Missing
  <2> QED BY <1>2, <2>2, SMT DEF WgetFailed
<1> QED BY <1>1, <1>3, <1>4, <1>5, <1>6 DEF RInv

LEMMA RestLeave ==
    ASSUME DownloadAssumption, RInv, NEW e \in Download, LeaveTmp(e) PROVE RInv'
<1>1. TInv'
    BY TypeStep DEF RInv, Next
<1>2. /\ pc[e] \in {"mv", "rm"} /\ pc' = [pc EXCEPT ![e] = "stuck"]
      /\ tmp' = tmp /\ target' = target /\ parts' = parts /\ at' = at /\ file' = file
    BY DEF LeaveTmp
<1> USE DEF RInv, TInv, TypeOK
<1>3. TmpOwned'
    BY <1>2, SMT DEF TmpOwned
<1>4. LastWriter' /\ Named'
    BY <1>2 DEF LastWriter, Named
<1>5. Exit'
    BY <1>2, SMT DEF Exit
<1>6. pc'[e] \in {"stuck", "killed"}
    BY <1>2
<1>7. Missing'
    BY <1>6 DEF Missing
<1> QED BY <1>1, <1>3, <1>4, <1>5, <1>7 DEF RInv

LEMMA RestCrash == ASSUME DownloadAssumption, RInv, AgentCrash PROVE RInv'
<1>1. TInv'
    BY TypeStep DEF RInv, Next
<1>2. /\ tmp' = tmp /\ target' = target /\ parts' = parts /\ at' = at /\ file' = file
      /\ \A d \in Download :
            pc'[d] = IF pc[d] \in Ended \cup {"queued"} THEN pc[d] ELSE "killed"
    BY DEF AgentCrash, Running
<1>3. PICK e \in Download : pc'[e] = "killed"
    BY <1>2 DEF AgentCrash, Running
<1> USE DEF RInv, TInv, TypeOK
<1>4. TmpOwned'
    BY <1>2, SMT DEF TmpOwned, Ended
<1>5. LastWriter' /\ Named'
    BY <1>2 DEF LastWriter, Named
<1>6. Exit'
    BY <1>2, SMT DEF Exit, Ended
<1>7. Missing'
    BY <1>3 DEF Missing
<1> QED BY <1>1, <1>4, <1>5, <1>6, <1>7 DEF RInv

LEMMA RestStep == ASSUME DownloadAssumption PROVE RInv /\ [Next]_vars => RInv'
<1> SUFFICES ASSUME RInv, [Next]_vars PROVE RInv'
    OBVIOUS
<1>1. CASE UNCHANGED vars
    BY <1>1 DEF vars, RInv, TInv, TypeOK, OpenFile, TmpOwned, LastWriter, Exit, Named,
                Missing, WgetFailed
<1> QED BY <1>1, RestOpen, RestWrite, RestFetched, RestFails, RestRemove, RestMove,
           RestLeave, RestCrash DEF Next

LEMMA RestHolds == ASSUME DownloadAssumption, RInv PROVE WholeAtRest
<1> SUFFICES ASSUME \A d \in Download : pc[d] \in {"done", "failed"}
             PROVE /\ tmp = NoFile
                   /\ (\A d \in Download : ~WgetFailed(d)) =>
                         target # NoFile /\ parts[target] = Whole
    BY DEF WholeAtRest
<1> USE DEF RInv
<1>1. tmp = NoFile
    BY DEF TmpOwned
<1>2. ASSUME \A d \in Download : ~WgetFailed(d)
      PROVE target # NoFile /\ parts[target] = Whole
  <2>1. PICK c \in Download : TRUE
      BY DEF DownloadAssumption
  <2>2. target # NoFile
      BY <1>1, <1>2, <2>1 DEF Missing
  <2>3. PICK d \in Download : file[d] = target
      BY <2>2 DEF Named
  <2>4. target \in File
      BY <2>2, SMT DEF TInv, TypeOK, Name, NoFile
  <2>5. PICK e \in Download : file[e] = target /\ 1..at[e] \subseteq parts[target]
      BY <2>3, <2>4 DEF LastWriter
  <2>6. at[e] = Part
      BY <1>2, SMT DEF WgetFailed, Exit, TInv, TypeOK, DownloadAssumption
  <2>7. parts[target] \subseteq Whole
      BY <2>4 DEF TInv, TypeOK
  <2> QED BY <2>2, <2>5, <2>6, <2>7 DEF Whole
<1> QED BY <1>1, <1>2

(***************************************************************************)
(* However many downloads of one image overlap, truncating, removing and   *)
(* moving each other's files: when all have ended, none died with the      *)
(* agent and none failed to move or remove the file, no temporary file is  *)
(* left, and if no wget failed the image is there and whole.               *)
(***************************************************************************)
THEOREM RestIsWhole == ASSUME DownloadAssumption PROVE Spec => []WholeAtRest
<1>1. Init => RInv
    BY RestInit
<1>2. RInv /\ [Next]_vars => RInv'
    BY RestStep
<1>3. RInv => WholeAtRest
    BY RestHolds
<1> QED BY <1>1, <1>2, <1>3, PTL DEF Spec

----------------------------------------------------------------------------
(* Downloads that follow one another.                                      *)

\* the one download under way has the file of the temporary name to itself,
\* truncated when it began; what has the final name is another file
Alone ==
    \A d \in Running :
        /\ \A e \in Running : e = d
        /\ tmp = file[d] /\ file[d] \in File /\ parts[file[d]] = 1..at[d]

\* files are named by the download that created them
Created ==
    \A f \in {tmp, target} \ {NoFile} : pc[f] # "queued"

Separate == tmp # NoFile => tmp # target

SInv == TInv /\ Alone /\ Created /\ Separate /\ Exit /\ TargetWhole

LEMMA AloneInit == ASSUME DownloadAssumption PROVE Init => SInv
<1> SUFFICES ASSUME Init PROVE SInv
    OBVIOUS
<1>1. TInv
    BY TypeInit
<1>2. Alone /\ Created /\ Separate /\ TargetWhole
    BY SMT DEF Init, Alone, Running, Ended, Created, Separate, TargetWhole
<1>3. Exit
    BY SMT DEF Init, Exit
<1> QED BY <1>1, <1>2, <1>3 DEF SInv

LEMMA OneRuns ==
    ASSUME IsFiniteSet(Download), AtOnce = 1, Cardinality(Running) < AtOnce
    PROVE Running = {}
<1>1. IsFiniteSet(Running)
    BY FS_Subset DEF Running
<1>2. Cardinality(Running) \in Nat
    BY <1>1, FS_CardinalityType
<1>3. Cardinality(Running) = 0
    BY <1>2, SMT
<1> QED BY <1>1, <1>3, FS_EmptySet

LEMMA AloneOpen ==
    ASSUME DownloadAssumption, IsFiniteSet(Download), AtOnce = 1,
           SInv, NEW e \in Download, Open(e)
    PROVE SInv'
<1> DEFINE f == IF tmp = NoFile THEN e ELSE tmp
<1> USE DEF SInv
<1>1. TInv'
    BY TypeStep DEF Next
<1>2. /\ f \in File /\ f # NoFile /\ tmp' = f /\ target' = target /\ at' = at
      /\ file' = [file EXCEPT ![e] = f] /\ parts' = [parts EXCEPT ![f] = {}]
      /\ pc[e] = "queued" /\ pc' = [pc EXCEPT ![e] = "write"] /\ at[e] = 0
    BY SMT DEF Open, TInv, TypeOK, OpenFile, Name, File, NoFile, DownloadAssumption
<1>3. f # target /\ (f = e \/ f = tmp)
    BY <1>2 DEF Created, Separate
<1> HIDE DEF f
<1>4. Running = {}
    BY OneRuns DEF Open
<1>5. Running' = {e}
    BY <1>2, <1>4, SMT DEF Running, Ended, TInv, TypeOK
<1>6. file'[e] = f /\ parts'[f] = {} /\ 1..at'[e] = {}
    BY <1>2, SMT DEF TInv, TypeOK
<1>7. Alone'
    BY <1>2, <1>5, <1>6 DEF Alone
<1>8. Created'
  <2>1. \A g \in File : pc[g] # "queued" => pc'[g] # "queued"
      BY <1>2, SMT DEF TInv, TypeOK, File
  <2>2. pc'[f] # "queued"
      BY <1>2, <1>3, <2>1, SMT DEF Created, TInv, TypeOK, File
  <2>3. target \in File \cup {NoFile}
      BY DEF TInv, TypeOK, Name
  <2> QED BY <1>2, <2>1, <2>2, <2>3 DEF Created
<1>9. Separate' /\ TargetWhole'
    BY <1>2, <1>3, SMT DEF Separate, TargetWhole, TInv, TypeOK, Name, File
<1>10. Exit'
    BY <1>2, SMT DEF Exit, TInv, TypeOK
<1> QED BY <1>1, <1>7, <1>8, <1>9, <1>10

LEMMA AloneStep ==
    ASSUME DownloadAssumption, IsFiniteSet(Download), AtOnce = 1
    PROVE SInv /\ [Next]_vars => SInv'
<1> SUFFICES ASSUME SInv, [Next]_vars PROVE SInv'
    OBVIOUS
<1> USE DEF SInv
<1>1. TInv'
    BY TypeStep
<1>2. ASSUME NEW d \in Download, Write(d) PROVE SInv'
  <2>1. /\ pc[d] = "write" /\ at' = [at EXCEPT ![d] = @ + 1] /\ at[d] \in 0..Part
        /\ parts' = [parts EXCEPT ![file[d]] = @ \cup {at[d] + 1}]
        /\ file[d] \in File /\ at[d] < Part
        /\ tmp' = tmp /\ target' = target /\ pc' = pc /\ file' = file
      BY <1>2, SMT DEF Write, TInv, TypeOK, OpenFile
  <2>2. d \in Running /\ Running' = Running
      BY <2>1, SMT DEF Running, Ended
  <2>3. tmp = file[d] /\ parts[file[d]] = 1..at[d] /\ \A e \in Running : e = d
      BY <2>2 DEF Alone
  <2>4. at'[d] = at[d] + 1 /\ parts'[file[d]] = parts[file[d]] \cup {at[d] + 1}
      BY <2>1, SMT DEF TInv, TypeOK
  <2>5. 1..(at[d] + 1) = (1..at[d]) \cup {at[d] + 1}
      BY <2>1, SMT
  <2>6. Alone'
      BY <2>1, <2>2, <2>3, <2>4, <2>5 DEF Alone
  <2>7. Created' /\ Separate'
      BY <2>1 DEF Created, Separate
  <2>8. tmp # NoFile
      BY <2>1, <2>3, SMT DEF File, NoFile, DownloadAssumption
  <2>9. TargetWhole'
      BY <2>1, <2>3, <2>8, SMT DEF TargetWhole, Separate, TInv, TypeOK, Name
  <2>10. Exit'
      BY <2>1, SMT DEF Exit, TInv, TypeOK
  <2> QED BY <1>1, <2>6, <2>7, <2>9, <2>10
<1>3. ASSUME NEW d \in Download, Fetched(d) \/ WgetFails(d) PROVE SInv'
  <2>1. /\ pc[d] = "write" /\ at[d] \in 0..Part
        /\ \/ pc' = [pc EXCEPT ![d] = "mv"] /\ at[d] = Part
           \/ pc' = [pc EXCEPT ![d] = "rm"] /\ at[d] < Part
        /\ tmp' = tmp /\ target' = target /\ parts' = parts
        /\ at' = at /\ file' = file
      BY <1>3 DEF Fetched, WgetFails, Complete, TInv, TypeOK
  <2>2. Running' = Running
      BY <2>1, SMT DEF Running, Ended, TInv, TypeOK
  <2>3. Alone' /\ Separate' /\ TargetWhole'
      BY <2>1, <2>2 DEF Alone, Separate, TargetWhole
  <2>4. Created'
      BY <2>1, SMT DEF Created, TInv, TypeOK, Name, File
  <2>5. Exit'
      BY <2>1, SMT DEF Exit, TInv, TypeOK
  <2> QED BY <1>1, <2>3, <2>4, <2>5
<1>4. ASSUME NEW d \in Download, RemoveTmp(d) \/ Move(d) PROVE SInv'
  <2>1. d \in Running /\ pc[d] \in {"rm", "mv"}
      BY <1>4, SMT DEF RemoveTmp, Move, Running, Ended
  <2>2. /\ tmp = file[d] /\ tmp # NoFile /\ parts[tmp] = 1..at[d]
        /\ \A e \in Running : e = d
      BY <2>1, SMT DEF Alone, File, NoFile, DownloadAssumption
  <2>3. /\ tmp' = NoFile /\ parts' = parts /\ at' = at /\ file' = file
        /\ \/ /\ pc' = [pc EXCEPT ![d] = "failed"] /\ target' = target
           \/ /\ pc' = [pc EXCEPT ![d] = "done"] /\ target' = tmp /\ pc[d] = "mv"
      BY <1>4, <2>2 DEF RemoveTmp, Move
  <2>4. Running' = {}
      BY <2>2, <2>3, SMT DEF Running, Ended, TInv, TypeOK
  <2>5. Alone' /\ Separate'
      BY <2>3, <2>4 DEF Alone, Separate
  <2>6. Created'
      BY <2>3, SMT DEF Created, TInv, TypeOK, Name, File
  <2>7. TargetWhole'
      BY <2>2, <2>3 DEF TargetWhole, Exit, Whole
  <2>8. Exit'
      BY <2>3, SMT DEF Exit, TInv, TypeOK
  <2> QED BY <1>1, <2>5, <2>6, <2>7, <2>8
<1>5. CASE AgentCrash
  <2>1. /\ tmp' = tmp /\ target' = target /\ parts' = parts /\ at' = at /\ file' = file
        /\ \A d \in Download :
              pc'[d] = IF pc[d] \in Ended \cup {"queued"} THEN pc[d] ELSE "killed"
      BY <1>5 DEF AgentCrash, Running
  <2>2. Running' = {}
      BY <2>1, SMT DEF Running, Ended
  <2>3. Alone' /\ Separate' /\ TargetWhole'
      BY <2>1, <2>2 DEF Alone, Separate, TargetWhole
  <2>4. Created'
      BY <2>1, SMT DEF Created, TInv, TypeOK, Name, File, NoFile
  <2>5. Exit'
      BY <2>1, SMT DEF Exit, Ended
  <2> QED BY <1>1, <2>3, <2>4, <2>5
<1>6. ASSUME NEW d \in Download, LeaveTmp(d) PROVE SInv'
  <2>1. /\ d \in Running /\ pc' = [pc EXCEPT ![d] = "stuck"]
        /\ tmp' = tmp /\ target' = target /\ parts' = parts /\ at' = at /\ file' = file
      BY <1>6, SMT DEF LeaveTmp, Running, Ended
  <2>2. Running' = {}
      BY <2>1, SMT DEF Running, Ended, Alone, TInv, TypeOK
  <2>3. Alone' /\ Separate' /\ TargetWhole'
      BY <2>1, <2>2 DEF Alone, Separate, TargetWhole
  <2>4. Created'
      BY <2>1, SMT DEF Created, TInv, TypeOK, Name, File
  <2>5. Exit'
      BY <2>1, SMT DEF Exit, TInv, TypeOK
  <2> QED BY <1>1, <2>3, <2>4, <2>5
<1>7. CASE UNCHANGED vars
    BY <1>1, <1>7 DEF vars, Alone, Running, Created, Separate, Exit, TargetWhole
<1> QED BY <1>2, <1>3, <1>4, <1>5, <1>6, <1>7, AloneOpen DEF Next

(***************************************************************************)
(* While downloads of the image follow one another, the final name never   *)
(* stands for anything but the whole image, for any number of them, parts, *)
(* failures of wget, mv and rm and deaths of the agent half way.           *)
(***************************************************************************)
THEOREM TargetStaysWhole ==
    ASSUME DownloadAssumption, IsFiniteSet(Download), AtOnce = 1
    PROVE Spec => []TargetWhole
<1>1. Init => SInv
    BY AloneInit
<1>2. SInv /\ [Next]_vars => SInv'
    BY AloneStep
<1>3. SInv => TargetWhole
    BY DEF SInv
<1> QED BY <1>1, <1>2, <1>3, PTL DEF Spec
=============================================================================
