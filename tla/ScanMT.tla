------------------------------- MODULE ScanMT --------------------------------
(***************************************************************************)
(* entry/desktopfile_provider.go, scanMultipleMT: one goroutine for each   *)
(* directory.  The partial results meet in resChan, which holds one map:   *)
(* who finds it full takes the map out, merges it into his own and tries   *)
(* again.  The channels errChan and done have room for a message of every  *)
(* goroutine.                                                              *)
(***************************************************************************)
EXTENDS DesktopFiles

CONSTANT NoMap  \* resChan is empty

ASSUME NoMapAssumption == NoMap \notin Maps

VARIABLES
  dirs,       \* the directories
  worker,     \* worker[k]: next step of the goroutine of directory k
  value,      \* value[k]: the map it holds
  resChan,    \* the map in resChan
  done,       \* number of messages in done
  errChan,    \* number of errors in errChan
  waiting,    \* number of goroutines the caller waits for
  cancelled,  \* whether the channel cancelled is closed
  ret         \* what scanMultipleMT returned

vars == <<dirs, worker, value, resChan, done, errChan, waiting, cancelled, ret>>

callerVars == <<waiting, cancelled, ret>>

Promise == INSTANCE DesktopScan

\* The caller returns at once if there are no directories.
Init ==
  /\ dirs \in Inputs
  /\ worker = [k \in DOMAIN dirs |-> "scan"]
  /\ value = [k \in DOMAIN dirs |-> NoFiles]
  /\ resChan = NoMap
  /\ done = 0
  /\ errChan = 0
  /\ waiting = Len(dirs)
  /\ cancelled = FALSE
  /\ ret = NoRet

(***************************************************************************)
(* The goroutine of directory k                                            *)
(***************************************************************************)

\* Variant: a directory that cannot be read is taken to be empty.
ScanIgnoringErrors(k) ==
  /\ worker[k] = "scan"
  /\ value' = [value EXCEPT ![k] = Scan(dirs[k])]
  /\ worker' = [worker EXCEPT ![k] = "merge"]
  /\ UNCHANGED <<dirs, resChan, done, errChan, callerVars>>

ScanOk(k) ==
  /\ worker[k] = "scan"
  /\ ~ Fails(dirs[k])
  /\ value' = [value EXCEPT ![k] = Scan(dirs[k])]
  /\ worker' = [worker EXCEPT ![k] = "merge"]
  /\ UNCHANGED <<dirs, resChan, done, errChan, callerVars>>

ScanErr(k) ==
  /\ worker[k] = "scan"
  /\ Fails(dirs[k])
  /\ errChan' = errChan + 1
  /\ worker' = [worker EXCEPT ![k] = "gone"]
  /\ UNCHANGED <<dirs, value, resChan, done, callerVars>>

\* sendAndMerge: the three cases of the select.
Send(k) ==
  /\ worker[k] = "merge"
  /\ resChan = NoMap
  /\ resChan' = value[k]
  /\ value' = [value EXCEPT ![k] = NoFiles]
  /\ worker' = [worker EXCEPT ![k] = "done"]
  /\ UNCHANGED <<dirs, done, errChan, callerVars>>

\* Variant: what was taken out is not merged.
TakeAndDrop(k) ==
  /\ worker[k] = "merge"
  /\ resChan # NoMap
  /\ resChan' = NoMap
  /\ UNCHANGED <<dirs, worker, value, done, errChan, callerVars>>

Merge(k) ==
  /\ worker[k] = "merge"
  /\ resChan # NoMap
  /\ value' = [value EXCEPT ![k] = Copy(@, resChan)]
  /\ resChan' = NoMap
  /\ UNCHANGED <<dirs, worker, done, errChan, callerVars>>

Discard(k) ==
  /\ worker[k] = "merge"
  /\ cancelled
  /\ value' = [value EXCEPT ![k] = NoFiles]
  /\ worker' = [worker EXCEPT ![k] = "done"]
  /\ UNCHANGED <<dirs, resChan, done, errChan, callerVars>>

\* Variant: done has no room, and the caller must be there to receive.
SignalUnbuffered(k) ==
  /\ worker[k] = "done"
  /\ waiting > 0 /\ ret = NoRet /\ done = 0
  /\ done' = done + 1
  /\ worker' = [worker EXCEPT ![k] = "gone"]
  /\ UNCHANGED <<dirs, value, resChan, errChan, callerVars>>

\* done <- struct{}{}
Signal(k) ==
  /\ worker[k] = "done"
  /\ done' = done + 1
  /\ worker' = [worker EXCEPT ![k] = "gone"]
  /\ UNCHANGED <<dirs, value, resChan, errChan, callerVars>>

(***************************************************************************)
(* The caller                                                              *)
(***************************************************************************)
ReceiveDone ==
  /\ ret = NoRet /\ waiting > 0
  /\ done > 0
  /\ done' = done - 1
  /\ waiting' = waiting - 1
  /\ UNCHANGED <<dirs, worker, value, resChan, errChan, cancelled, ret>>

\* Variant: an error is counted like a result.
ReceiveErrAsDone ==
  /\ ret = NoRet /\ waiting > 0
  /\ errChan > 0
  /\ errChan' = errChan - 1
  /\ waiting' = waiting - 1
  /\ UNCHANGED <<dirs, worker, value, resChan, done, cancelled, ret>>

ReceiveErr ==
  /\ ret = NoRet /\ waiting > 0
  /\ errChan > 0
  /\ errChan' = errChan - 1
  /\ cancelled' = TRUE
  /\ ret' = Failure
  /\ UNCHANGED <<dirs, worker, value, resChan, done, waiting>>

\* return <-resChan, or the early return without directories.
Return ==
  /\ ret = NoRet /\ waiting = 0
  /\ IF dirs = << >>
     THEN ret' = Success(NoFiles) /\ UNCHANGED resChan
     ELSE /\ resChan # NoMap
          /\ ret' = Success(resChan)
          /\ resChan' = NoMap
  /\ UNCHANGED <<dirs, worker, value, done, errChan, waiting, cancelled>>

-----------------------------------------------------------------------------

Work(k) ==
  \/ ScanOk(k) \/ ScanErr(k) \/ Send(k) \/ Merge(k) \/ Discard(k) \/ Signal(k)

Call == ReceiveDone \/ ReceiveErr \/ Return

Step == Call \/ \E k \in DOMAIN dirs : Work(k)

\* The caller is done with the scan.
Returned == ret # NoRet /\ UNCHANGED vars

Next == Step \/ Returned

Spec == Init /\ [][Next]_vars

\* Some goroutine that can go on does.
FairSpec == Spec /\ WF_vars(Step)

-----------------------------------------------------------------------------

TypeOK ==
  /\ dirs \in Inputs
  /\ worker \in [DOMAIN dirs -> {"scan", "merge", "done", "gone"}]
  /\ value \in [DOMAIN dirs -> Maps]
  /\ resChan \in Maps \cup {NoMap}
  /\ done \in Nat
  /\ errChan \in Nat
  /\ waiting \in 0 .. Len(dirs)
  /\ cancelled \in BOOLEAN
  /\ ret \in Results \cup {NoRet}

Finished == {k \in DOMAIN dirs : worker[k] = "gone" /\ ~ Fails(dirs[k])}

Failed == {k \in DOMAIN dirs : worker[k] = "gone" /\ Fails(dirs[k])}

\* The channels hold the messages of the goroutines that are gone, but for
\* those the caller has received.
MessagesCounted ==
  /\ Cardinality(Finished) = done + (Len(dirs) - waiting)
  /\ Cardinality(Failed) = errChan + (IF cancelled THEN 1 ELSE 0)

\* A goroutine whose directory cannot be read goes without a result.
FailuresSendNothing ==
  \A k \in DOMAIN dirs : Fails(dirs[k]) => worker[k] \in {"scan", "gone"}

CallerState ==
  /\ cancelled => ret = Failure
  /\ ret # NoRet /\ ~ cancelled =>
       /\ waiting = 0
       /\ Promise!Promised(dirs, ret)

Carried(n) ==
  \/ resChan # NoMap /\ n \in DOMAIN resChan
  \/ \E k \in DOMAIN dirs : worker[k] = "merge" /\ n \in DOMAIN value[k]

\* Every name found so far is in resChan or in the hands of a goroutine that
\* is going to send it; as soon as one has sent, that holds of a map at all.
NothingLost ==
  ret = NoRet =>
    \A k \in DOMAIN dirs :
      worker[k] # "scan" /\ ~ Fails(dirs[k]) =>
        /\ \A n \in DOMAIN Scan(dirs[k]) : Carried(n)
        /\ resChan # NoMap \/ \E j \in DOMAIN dirs : worker[j] = "merge"

\* What a map holds comes from a file.
NothingInvented ==
  /\ \A k \in DOMAIN dirs : \A n \in DOMAIN value[k] :
       OfferedAs(dirs, n, value[k][n])
  /\ resChan # NoMap =>
       \A n \in DOMAIN resChan : OfferedAs(dirs, n, resChan[n])

IInv ==
  /\ TypeOK
  /\ MessagesCounted
  /\ FailuresSendNothing
  /\ CallerState
  /\ NothingLost
  /\ NothingInvented

(***************************************************************************)
(* When the caller has counted all goroutines, the merged map is there:    *)
(* no goroutine has it in hand anymore, and return <-resChan does not      *)
(* block (desktopfile_provider.go:529).                                    *)
(***************************************************************************)
ResultReady ==
  ret = NoRet /\ waiting = 0 /\ dirs # << >> =>
    /\ resChan # NoMap
    /\ \A k \in DOMAIN dirs : worker[k] = "gone"

(***************************************************************************)
(* The goroutines together return what ScanMulti promises, whatever order  *)
(* they send and merge in.                                                 *)
(***************************************************************************)
ScanSpec == Promise!Spec

(***************************************************************************)
(* They return what the sequential scan does, when no two files offered    *)
(* under one name differ (TestConsistency).                                *)
(***************************************************************************)
AgreesWithST == ret # NoRet /\ NoClash(dirs) => ret = ScanST(dirs)

(***************************************************************************)
(* The scan returns and no goroutine outlives it for ever: the buffers of  *)
(* done and errChan, and the channel cancelled, are there for that.        *)
(***************************************************************************)
EveryoneEnds ==
  <>(ret # NoRet /\ \A k \in DOMAIN dirs : worker[k] = "gone")
=============================================================================
