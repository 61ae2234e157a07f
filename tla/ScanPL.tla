------------------------------- MODULE ScanPL --------------------------------
(***************************************************************************)
(* entry/desktopfile_provider.go, scanMultiplePL: a walker goroutine sends *)
(* paths to the digesters, which send results to the calling goroutine.    *)
(* The channels paths and c are unbuffered, so a send and its receive are  *)
(* one step; errs holds one error.  The channel done is closed by the      *)
(* deferred close of scanMultiplePL, that is, when ret is set.             *)
(***************************************************************************)
EXTENDS DesktopFiles

CONSTANTS
  Digesters,  \* the numDigesters goroutines that read files
  NoJob       \* a digester without a result

ASSUME DigestersAssumption == Digesters # {} /\ IsFiniteSet(Digesters)

ASSUME NoJobAssumption == NoJob \notin File

VARIABLES
  dirs,     \* the directories
  walker,   \* next step of the walker: "open", "send", "close" or "gone"
  at,       \* at.dir, at.file: where the walker is in dirs
  errs,     \* content of the channel errs: "empty", "nil" or "error"
  digester, \* digester[d]: "receive", "send" or "gone"
  job,      \* job[d]: the file whose result d sends
  closed,   \* whether c is closed
  main,     \* next step of the caller: "range", "errC" or "returned"
  resMap,   \* the results received so far
  ret       \* what scanMultiplePL returned

vars == <<dirs, walker, at, errs, digester, job, closed, main, resMap, ret>>

walkerVars == <<walker, at, errs>>
digesterVars == <<digester, job>>
mainVars == <<main, resMap, ret>>

Init ==
  /\ dirs \in Inputs
  /\ walker = "open" /\ at = [dir |-> 1, file |-> 1] /\ errs = "empty"
  /\ digester = [d \in Digesters |-> "receive"]
  /\ job = [d \in Digesters |-> NoJob]
  /\ closed = FALSE
  /\ main = "range" /\ resMap = NoFiles /\ ret = NoRet

(***************************************************************************)
(* walkDesktopFiles                                                        *)
(***************************************************************************)
Here == dirs[at.dir]

NextDirectory == at' = [dir |-> at.dir + 1, file |-> 1]

SkipDirectory ==
  /\ walker = "open" /\ at.dir <= Len(dirs)
  /\ Here.kind = "absent"
  /\ NextDirectory
  /\ UNCHANGED <<dirs, walker, errs, digesterVars, closed, mainVars>>

OpenDirectory ==
  /\ walker = "open" /\ at.dir <= Len(dirs)
  /\ Here.kind = "dir"
  /\ walker' = "send"
  /\ UNCHANGED <<dirs, at, errs, digesterVars, closed, mainVars>>

\* Variant: the error is dropped.
WalkFailsSilently ==
  /\ walker = "open" /\ at.dir <= Len(dirs)
  /\ Here.kind = "bad"
  /\ errs' = "nil"
  /\ walker' = "close"
  /\ UNCHANGED <<dirs, at, digesterVars, closed, mainVars>>

WalkFails ==
  /\ walker = "open" /\ at.dir <= Len(dirs)
  /\ Here.kind = "bad"
  /\ errs' = "error"
  /\ walker' = "close"
  /\ UNCHANGED <<dirs, at, digesterVars, closed, mainVars>>

LeaveDirectory ==
  /\ walker = "send" /\ at.file > Len(Here.files)
  /\ walker' = "open"
  /\ NextDirectory
  /\ UNCHANGED <<dirs, errs, digesterVars, closed, mainVars>>

WalkEnds ==
  /\ walker = "open" /\ at.dir > Len(dirs)
  /\ errs' = "nil"
  /\ walker' = "close"
  /\ UNCHANGED <<dirs, at, digesterVars, closed, mainVars>>

\* The deferred close(paths).
ClosePaths ==
  /\ walker = "close"
  /\ walker' = "gone"
  /\ UNCHANGED <<dirs, at, errs, digesterVars, closed, mainVars>>

(***************************************************************************)
(* digester                                                                *)
(***************************************************************************)

\* Variant: the digester stops at the first file that is not kept.
ReceivePathAndStop(d) ==
  /\ walker = "send" /\ at.file <= Len(Here.files)
  /\ digester[d] = "receive"
  /\ at' = [at EXCEPT !.file = @ + 1]
  /\ LET f == Here.files[at.file] IN
       IF f.read = "error" \/ Kept(f)
       THEN /\ job' = [job EXCEPT ![d] = f]
            /\ digester' = [digester EXCEPT ![d] = "send"]
       ELSE /\ digester' = [digester EXCEPT ![d] = "gone"]
            /\ UNCHANGED job
  /\ UNCHANGED <<dirs, walker, errs, closed, mainVars>>

\* Variant: an error of Read() is skipped like a file that is not shown.
ReceivePathSkippingErrors(d) ==
  /\ walker = "send" /\ at.file <= Len(Here.files)
  /\ digester[d] = "receive"
  /\ at' = [at EXCEPT !.file = @ + 1]
  /\ LET f == Here.files[at.file] IN
       IF Kept(f)
       THEN /\ job' = [job EXCEPT ![d] = f]
            /\ digester' = [digester EXCEPT ![d] = "send"]
       ELSE UNCHANGED digesterVars
  /\ UNCHANGED <<dirs, walker, errs, closed, mainVars>>

\* The walker hands the next path to a digester, which reads the file: it has
\* a result to send, or goes on with the next path.
ReceivePath(d) ==
  /\ walker = "send" /\ at.file <= Len(Here.files)
  /\ digester[d] = "receive"
  /\ at' = [at EXCEPT !.file = @ + 1]
  /\ LET f == Here.files[at.file] IN
       IF f.read = "error" \/ Kept(f)
       THEN /\ job' = [job EXCEPT ![d] = f]
            /\ digester' = [digester EXCEPT ![d] = "send"]
       ELSE UNCHANGED digesterVars
  /\ UNCHANGED <<dirs, walker, errs, closed, mainVars>>

\* paths is closed: the range loop ends, and wg.Done().
NoMorePaths(d) ==
  /\ digester[d] = "receive" /\ walker = "gone"
  /\ digester' = [digester EXCEPT ![d] = "gone"]
  /\ UNCHANGED <<dirs, walkerVars, job, closed, mainVars>>

\* Variant: done is not closed when the caller returns an error.
AbandonAfterSuccess(d) ==
  /\ digester[d] = "send" /\ main = "returned" /\ ret.ok
  /\ digester' = [digester EXCEPT ![d] = "gone"]
  /\ job' = [job EXCEPT ![d] = NoJob]
  /\ UNCHANGED <<dirs, walkerVars, closed, mainVars>>

\* The select: done is closed.
Abandon(d) ==
  /\ digester[d] = "send" /\ main = "returned"
  /\ digester' = [digester EXCEPT ![d] = "gone"]
  /\ job' = [job EXCEPT ![d] = NoJob]
  /\ UNCHANGED <<dirs, walkerVars, closed, mainVars>>

\* The select: the caller receives the result.  An error makes it return.
SendResult(d) ==
  /\ digester[d] = "send" /\ main = "range"
  /\ digester' = [digester EXCEPT ![d] = "receive"]
  /\ job' = [job EXCEPT ![d] = NoJob]
  /\ IF job[d].read = "error"
     THEN /\ ret' = Failure
          /\ main' = "returned"
          /\ UNCHANGED resMap
     ELSE /\ resMap' = Copy(resMap, [n \in {job[d].name} |-> job[d].id])
          /\ UNCHANGED <<main, ret>>
  /\ UNCHANGED <<dirs, walkerVars, closed>>

(***************************************************************************)
(* scanMultiplePL                                                          *)
(***************************************************************************)

\* Variant: no wg.Wait() before close(c).
CloseResultsEarly ==
  /\ ~ closed
  /\ \E d \in Digesters : digester[d] = "gone"
  /\ closed' = TRUE
  /\ UNCHANGED <<dirs, walkerVars, digesterVars, mainVars>>

\* wg.Wait(), close(c)
CloseResults ==
  /\ ~ closed
  /\ \A d \in Digesters : digester[d] = "gone"
  /\ closed' = TRUE
  /\ UNCHANGED <<dirs, walkerVars, digesterVars, mainVars>>

\* c is closed: the range loop ends.
NoMoreResults ==
  /\ main = "range" /\ closed
  /\ main' = "errC"
  /\ UNCHANGED <<dirs, walkerVars, digesterVars, closed, resMap, ret>>

ReceiveErr ==
  /\ main = "errC" /\ errs # "empty"
  /\ errs' = "empty"
  /\ ret' = IF errs = "error" THEN Failure ELSE Success(resMap)
  /\ main' = "returned"
  /\ UNCHANGED <<dirs, walker, at, digesterVars, closed, resMap>>

-----------------------------------------------------------------------------

Walk ==
  \/ SkipDirectory \/ OpenDirectory \/ WalkFails \/ LeaveDirectory \/ WalkEnds
  \/ ClosePaths

Digest(d) == ReceivePath(d) \/ NoMorePaths(d) \/ Abandon(d) \/ SendResult(d)

Collect == CloseResults \/ NoMoreResults \/ ReceiveErr

Step == Walk \/ Collect \/ \E d \in Digesters : Digest(d)

\* Once the caller has its result, the goroutines left behind may be stuck.
Returned == main = "returned" /\ UNCHANGED vars

Next == Step \/ Returned

Spec == Init /\ [][Next]_vars

\* Some goroutine that can go on does.
FairSpec == Spec /\ WF_vars(Step)

-----------------------------------------------------------------------------

TypeOK ==
  /\ dirs \in Inputs
  /\ walker \in {"open", "send", "close", "gone"}
  /\ at \in [dir : Nat, file : Nat]
  /\ errs \in {"empty", "nil", "error"}
  /\ digester \in [Digesters -> {"receive", "send", "gone"}]
  /\ job \in [Digesters -> File \cup {NoJob}]
  /\ closed \in BOOLEAN
  /\ main \in {"range", "errC", "returned"}
  /\ resMap \in Maps
  /\ ret \in Results \cup {NoRet}

\* The walker has handed over file j of directory k.
Sent(k, j) == k < at.dir \/ (k = at.dir /\ j < at.file)

InHand(f) == \E d \in Digesters : digester[d] = "send" /\ job[d] = f

\* Nobody leaves before there is nothing left to do for him.
LeavesInTurn ==
  /\ closed => \A d \in Digesters : digester[d] = "gone"
  /\ main = "errC" => closed
  /\ main # "returned" =>
       \A d \in Digesters : digester[d] = "gone" => walker = "gone"
  /\ main = "returned" <=> ret # NoRet

\* The walker hands over the files of a directory it has opened.
WalkerAt ==
  /\ at.dir \in 1 .. Len(dirs) + 1 /\ at.file >= 1
  /\ walker = "send" => at.dir <= Len(dirs) /\ Here.kind = "dir"

\* The one message of errs is there once the walker is past its loop, and
\* says whether the walker has gone through all directories.
ErrsTold ==
  /\ errs # "empty" => walker \in {"close", "gone"}
  /\ main # "returned" /\ walker \in {"close", "gone"} => errs # "empty"
  /\ errs = "nil" => at.dir = Len(dirs) + 1
  /\ errs = "error" => \E k \in DOMAIN dirs : Fails(dirs[k])
  /\ \A k \in DOMAIN dirs : k < at.dir => dirs[k].kind # "bad"

\* A file that was handed over is on its way to the caller, or has arrived.
NothingLost ==
  main # "returned" =>
    \A k \in DOMAIN dirs : \A j \in DOMAIN dirs[k].files :
      Sent(k, j) =>
        LET f == dirs[k].files[j]
        IN /\ f.read = "error" => InHand(f)
           /\ Kept(f) => InHand(f) \/ f.name \in DOMAIN resMap

\* What is on its way to the caller, or has arrived, comes from a file.
NothingInvented ==
  /\ \A d \in Digesters :
       digester[d] = "send" =>
         \E k \in DOMAIN dirs : \E j \in DOMAIN dirs[k].files :
           /\ job[d] = dirs[k].files[j]
           /\ job[d].read = "error" \/ Kept(job[d])
  /\ \A n \in DOMAIN resMap : OfferedAs(dirs, n, resMap[n])

IInv ==
  /\ TypeOK
  /\ LeavesInTurn
  /\ WalkerAt
  /\ ErrsTold
  /\ NothingLost
  /\ NothingInvented

(***************************************************************************)
(* The pipeline returns what ScanMulti promises: every file offered, by    *)
(* whichever digester and in whichever order, and an error if there was    *)
(* one anywhere.                                                           *)
(***************************************************************************)
Promise == INSTANCE DesktopScan

ScanSpec == Promise!Spec

(***************************************************************************)
(* A scan that succeeds leaves no goroutine behind, although the walker    *)
(* never looks at done (desktopfile_provider.go:408).                      *)
(***************************************************************************)
SuccessLeavesNobody ==
  ret # NoRet /\ ret.ok =>
    walker = "gone" /\ closed /\ \A d \in Digesters : digester[d] = "gone"

(***************************************************************************)
(* The pipeline returns what the sequential scan does, when no two files   *)
(* offered under one name differ (TestConsistency).                        *)
(***************************************************************************)
AgreesWithST == ret # NoRet /\ NoClash(dirs) => ret = ScanST(dirs)

(***************************************************************************)
(* The sequential scan and the pipeline return the same map: "res2 !=      *)
(* res3" is what TestConsistency fails with                                *)
(* (desktopfile_provider_test.go:74).                                      *)
(***************************************************************************)
SameAsST == ret # NoRet => ret = ScanST(dirs)

(***************************************************************************)
(* The scan returns, and its digesters and the goroutine that waits for    *)
(* them end, even when the caller leaves at the first error: nobody waits  *)
(* for a goroutine that waits for him, and the read of errC after the last *)
(* result finds its message.                                               *)
(***************************************************************************)
ScanEnds ==
  <>(ret # NoRet /\ closed /\ \A d \in Digesters : digester[d] = "gone")
=============================================================================
