---------------------------- MODULE ScanMTProofs -----------------------------
(***************************************************************************)
(* Proofs about ScanMT, for any lists of directories: the inductive        *)
(* invariant IInv, that the result is in resChan when the caller asks for  *)
(* it, and the refinement of DesktopScan.                                  *)
(***************************************************************************)
EXTENDS ScanMT, DesktopFilesProofs

\* Who is gone is counted once, with the directories that can be read or with
\* the others.
LEMMA CountFacts ==
  ASSUME TypeOK
  PROVE  /\ IsFiniteSet(Finished) /\ Cardinality(Finished) \in Nat
         /\ IsFiniteSet(Failed) /\ Cardinality(Failed) \in Nat
<1>1. dirs \in Inputs /\ Finished \subseteq DOMAIN dirs /\ Failed \subseteq DOMAIN dirs
  BY DEF TypeOK, Finished, Failed
<1>2. QED
  BY <1>1, DirsFacts, FS_Subset, FS_CardinalityType

LEMMA GoneCounts ==
  ASSUME TypeOK, NEW k \in DOMAIN dirs, worker[k] # "gone",
         dirs' = dirs, worker' = [worker EXCEPT ![k] = "gone"]
  PROVE  /\ Fails(dirs[k]) =>
              /\ Cardinality(Failed') = Cardinality(Failed) + 1
              /\ Finished' = Finished
         /\ ~ Fails(dirs[k]) =>
              /\ Cardinality(Finished') = Cardinality(Finished) + 1
              /\ Failed' = Failed
<1>1. k \notin Failed /\ k \notin Finished
  BY DEF Failed, Finished
<1>2. CASE Fails(dirs[k])
  <2>1. Failed' = Failed \cup {k} /\ Finished' = Finished
    BY <1>2 DEF Failed, Finished, TypeOK
  <2>2. QED
    BY <1>1, <1>2, <2>1, CountFacts, FS_AddElement
<1>3. CASE ~ Fails(dirs[k])
  <2>1. Finished' = Finished \cup {k} /\ Failed' = Failed
    BY <1>3 DEF Failed, Finished, TypeOK
  <2>2. QED
    BY <1>1, <1>3, <2>1, CountFacts, FS_AddElement
<1>4. QED
  BY <1>2, <1>3

LEMMA StayCounts ==
  ASSUME TypeOK, NEW k \in DOMAIN dirs, worker[k] # "gone",
         NEW w \in {"scan", "merge", "done"},
         dirs' = dirs, worker' = [worker EXCEPT ![k] = w]
  PROVE  Finished' = Finished /\ Failed' = Failed
BY DEF TypeOK, Finished, Failed

\* In the initial states nobody is gone and nothing is found.
LEMMA InitIInv == Init => IInv
<1> SUFFICES ASSUME Init
             PROVE  IInv
  OBVIOUS
<1>1. dirs \in Inputs
  BY DEF Init
<1>2. TypeOK
  <2>1. waiting \in 0 .. Len(dirs)
    BY <1>1, DirsFacts DEF Init
  <2>2. value \in [DOMAIN dirs -> Maps]
    BY MapFacts DEF Init
  <2>3. /\ worker \in [DOMAIN dirs -> {"scan", "merge", "done", "gone"}]
        /\ resChan \in Maps \cup {NoMap} /\ done \in Nat /\ errChan \in Nat
        /\ cancelled \in BOOLEAN /\ ret \in Results \cup {NoRet}
    BY DEF Init
  <2>4. QED
    BY <1>1, <2>1, <2>2, <2>3 DEF TypeOK
<1>3. Finished = {} /\ Failed = {}
  BY DEF Init, Finished, Failed
<1>4. MessagesCounted
  BY <1>1, <1>3, DirsFacts, FS_EmptySet DEF Init, MessagesCounted
<1>5. FailuresSendNothing /\ CallerState /\ NothingLost
  BY NoRetAssumption DEF Init, FailuresSendNothing, CallerState, NothingLost
<1>6. NothingInvented
  BY MapFacts, NoMapAssumption DEF Init, NothingInvented
<1>7. QED
  BY <1>2, <1>4, <1>5, <1>6 DEF IInv

\* A directory that was read: its names are in the hands of its goroutine.
LEMMA ScanOkIInv ==
  ASSUME IInv, NEW k \in DOMAIN dirs, ScanOk(k)
  PROVE  IInv'
<1>1. /\ UNCHANGED <<dirs, resChan, done, errChan, waiting, cancelled, ret>>
      /\ worker[k] = "scan" /\ ~ Fails(dirs[k])
      /\ value' = [value EXCEPT ![k] = Scan(dirs[k])]
      /\ worker' = [worker EXCEPT ![k] = "merge"]
      /\ TypeOK
  BY DEF ScanOk, callerVars, IInv
<1>2. dirs[k] \in Directory
  BY <1>1, DirsFacts DEF TypeOK
<1>3. TypeOK'
  BY <1>1, <1>2, ScanFacts DEF TypeOK
<1>4. MessagesCounted'
  BY <1>1, StayCounts DEF IInv, MessagesCounted
<1>5. FailuresSendNothing' /\ CallerState'
  BY <1>1 DEF IInv, TypeOK, FailuresSendNothing, CallerState
<1>6. NothingLost'
  <2> SUFFICES ASSUME ret = NoRet, NEW j \in DOMAIN dirs,
                      worker'[j] # "scan", ~ Fails(dirs[j])
               PROVE  /\ \A n \in DOMAIN Scan(dirs[j]) : Carried(n)'
                      /\ (resChan # NoMap \/ \E i \in DOMAIN dirs : worker[i] = "merge")'
    BY <1>1 DEF NothingLost
  <2>1. worker'[k] = "merge" /\ value'[k] = Scan(dirs[k])
    BY <1>1 DEF TypeOK
  <2>2. CASE j = k
    BY <1>1, <2>1, <2>2 DEF Carried
  <2>3. CASE j # k
    <3>1. worker[j] # "scan"
      BY <1>1, <2>3 DEF TypeOK
    <3>2. ASSUME NEW n \in DOMAIN Scan(dirs[j])
          PROVE  Carried(n)'
      <4>1. Carried(n)
        BY <3>1 DEF IInv, NothingLost
      <4>2. QED
        BY <1>1, <4>1 DEF Carried, TypeOK
    <3>3. QED
      BY <1>1, <2>1, <3>2
  <2>4. QED
    BY <2>2, <2>3
<1>7. NothingInvented'
  <2>1. ASSUME NEW n \in DOMAIN Scan(dirs[k])
        PROVE  OfferedAs(dirs, n, Scan(dirs[k])[n])
    BY <1>2, ScanFacts DEF OfferedAs
  <2>2. QED
    BY <1>1, <2>1 DEF IInv, TypeOK, NothingInvented
<1>8. QED
  BY <1>3, <1>4, <1>5, <1>6, <1>7 DEF IInv

\* A directory that could not be read: its goroutine leaves an error behind.
LEMMA ScanErrIInv ==
  ASSUME IInv, NEW k \in DOMAIN dirs, ScanErr(k)
  PROVE  IInv'
<1>1. /\ UNCHANGED <<dirs, value, resChan, done, waiting, cancelled, ret>>
      /\ worker[k] = "scan" /\ Fails(dirs[k])
      /\ errChan' = errChan + 1
      /\ worker' = [worker EXCEPT ![k] = "gone"]
      /\ TypeOK
  BY DEF ScanErr, callerVars, IInv
<1>2. TypeOK'
  BY <1>1 DEF TypeOK
<1>3. MessagesCounted'
  <2>1. Cardinality(Failed') = Cardinality(Failed) + 1 /\ Finished' = Finished
    BY <1>1, GoneCounts
  <2>2. Cardinality(Failed) = errChan + (IF cancelled THEN 1 ELSE 0) /\ errChan \in Nat
    BY <1>1 DEF IInv, MessagesCounted, TypeOK
  <2>3. Cardinality(Failed') = errChan' + (IF cancelled THEN 1 ELSE 0)
    BY <1>1, <2>1, <2>2
  <2>4. QED
    BY <1>1, <2>1, <2>3 DEF IInv, MessagesCounted
<1>4. FailuresSendNothing' /\ CallerState'
  BY <1>1 DEF IInv, TypeOK, FailuresSendNothing, CallerState
<1>5. NothingLost'
  <2> SUFFICES ASSUME ret = NoRet, NEW j \in DOMAIN dirs,
                      worker'[j] # "scan", ~ Fails(dirs[j])
               PROVE  /\ \A n \in DOMAIN Scan(dirs[j]) : Carried(n)'
                      /\ (resChan # NoMap \/ \E i \in DOMAIN dirs : worker[i] = "merge")'
    BY <1>1 DEF NothingLost
  <2>1. j # k /\ worker[j] # "scan"
    BY <1>1 DEF TypeOK
  <2>2. /\ \A n \in DOMAIN Scan(dirs[j]) : Carried(n)
        /\ resChan # NoMap \/ \E i \in DOMAIN dirs : worker[i] = "merge"
    BY <2>1 DEF IInv, NothingLost
  <2>3. QED
    BY <1>1, <2>2 DEF Carried, TypeOK
<1>6. NothingInvented'
  BY <1>1 DEF IInv, NothingInvented
<1>7. QED
  BY <1>2, <1>3, <1>4, <1>5, <1>6 DEF IInv

\* The map moves from the goroutine to the channel.
LEMMA SendIInv ==
  ASSUME IInv, NEW k \in DOMAIN dirs, Send(k)
  PROVE  IInv'
<1>1. /\ UNCHANGED <<dirs, done, errChan, waiting, cancelled, ret>>
      /\ worker[k] = "merge" /\ resChan = NoMap /\ resChan' = value[k]
      /\ value' = [value EXCEPT ![k] = NoFiles]
      /\ worker' = [worker EXCEPT ![k] = "done"]
      /\ TypeOK
  BY DEF Send, callerVars, IInv
<1>2. value[k] \in Maps /\ resChan' # NoMap
  BY <1>1, NoMapAssumption DEF TypeOK
<1>3. TypeOK'
  BY <1>1, <1>2, MapFacts DEF TypeOK
<1>4. MessagesCounted'
  BY <1>1, StayCounts DEF IInv, MessagesCounted
<1>5. FailuresSendNothing' /\ CallerState'
  BY <1>1 DEF IInv, TypeOK, FailuresSendNothing, CallerState
<1>6. NothingLost'
  <2> SUFFICES ASSUME ret = NoRet, NEW j \in DOMAIN dirs,
                      worker'[j] # "scan", ~ Fails(dirs[j]),
                      NEW n \in DOMAIN Scan(dirs[j])
               PROVE  Carried(n)'
    BY <1>1, <1>2 DEF NothingLost
  <2>1. worker[j] # "scan"
    BY <1>1 DEF TypeOK
  <2>2. Carried(n)
    BY <2>1 DEF IInv, NothingLost
  <2>3. QED
    BY <1>1, <1>2, <2>2 DEF Carried, TypeOK
<1>7. NothingInvented'
  BY <1>1, MapFacts DEF IInv, TypeOK, NothingInvented
<1>8. QED
  BY <1>3, <1>4, <1>5, <1>6, <1>7 DEF IInv

\* The map moves from the channel to the goroutine, into the one it holds.
LEMMA MergeIInv ==
  ASSUME IInv, NEW k \in DOMAIN dirs, Merge(k)
  PROVE  IInv'
<1>1. /\ UNCHANGED <<dirs, worker, done, errChan, waiting, cancelled, ret>>
      /\ worker[k] = "merge" /\ resChan # NoMap /\ resChan' = NoMap
      /\ value' = [value EXCEPT ![k] = Copy(value[k], resChan)]
      /\ TypeOK
  BY DEF Merge, callerVars, IInv
<1>2. value[k] \in Maps /\ resChan \in Maps
  BY <1>1 DEF TypeOK
<1>3. /\ value'[k] = Copy(value[k], resChan)
      /\ \A j \in DOMAIN dirs \ {k} : value'[j] = value[j]
  BY <1>1 DEF TypeOK
<1>4. TypeOK'
  BY <1>1, <1>2, CopyFacts DEF TypeOK
<1>5. MessagesCounted' /\ FailuresSendNothing' /\ CallerState'
  BY <1>1 DEF IInv, MessagesCounted, Finished, Failed, FailuresSendNothing, CallerState
<1>6. NothingLost'
  <2> SUFFICES ASSUME ret = NoRet, NEW j \in DOMAIN dirs,
                      worker[j] # "scan", ~ Fails(dirs[j]),
                      NEW n \in DOMAIN Scan(dirs[j])
               PROVE  Carried(n)'
    BY <1>1 DEF NothingLost
  <2>1. Carried(n)
    BY DEF IInv, NothingLost
  <2>2. DOMAIN value'[k] = DOMAIN value[k] \cup DOMAIN resChan
    <3>1. DOMAIN Copy(value[k], resChan) = DOMAIN value[k] \cup DOMAIN resChan
      BY <1>2, CopyFacts
    <3>2. QED
      BY <1>3, <3>1
  <2>3. QED
    BY <1>1, <1>3, <2>1, <2>2 DEF Carried
<1>7. NothingInvented'
  <2>1. ASSUME NEW n \in DOMAIN value'[k]
        PROVE  OfferedAs(dirs, n, value'[k][n])
    <3>1. /\ \A i \in DOMAIN value[k] : OfferedAs(dirs, i, value[k][i])
          /\ \A i \in DOMAIN resChan : OfferedAs(dirs, i, resChan[i])
      BY <1>1 DEF IInv, NothingInvented
    <3>2. \A i \in DOMAIN Copy(value[k], resChan) :
             \/ i \in DOMAIN value[k] /\ Copy(value[k], resChan)[i] = value[k][i]
             \/ i \in DOMAIN resChan /\ Copy(value[k], resChan)[i] = resChan[i]
      BY <1>2, CopyFacts
    <3>3. \/ n \in DOMAIN value[k] /\ value'[k][n] = value[k][n]
          \/ n \in DOMAIN resChan /\ value'[k][n] = resChan[n]
      BY <1>3, <3>2
    <3>4. QED
      BY <3>1, <3>3
  <2>2. QED
    BY <1>1, <1>3, <2>1 DEF IInv, NothingInvented
<1>8. QED
  BY <1>4, <1>5, <1>6, <1>7 DEF IInv

\* Once cancelled, nothing that is discarded is missed.
LEMMA DiscardIInv ==
  ASSUME IInv, NEW k \in DOMAIN dirs, Discard(k)
  PROVE  IInv'
<1>1. /\ UNCHANGED <<dirs, resChan, done, errChan, waiting, cancelled, ret>>
      /\ worker[k] = "merge" /\ cancelled
      /\ value' = [value EXCEPT ![k] = NoFiles]
      /\ worker' = [worker EXCEPT ![k] = "done"]
      /\ TypeOK
  BY DEF Discard, callerVars, IInv
<1>2. TypeOK'
  BY <1>1, MapFacts DEF TypeOK
<1>3. MessagesCounted'
  BY <1>1, StayCounts DEF IInv, MessagesCounted
<1>4. FailuresSendNothing' /\ CallerState'
  BY <1>1 DEF IInv, TypeOK, FailuresSendNothing, CallerState
<1>5. NothingLost'
  <2>1. ret = Failure /\ Failure # NoRet
    BY <1>1, ResultFacts DEF IInv, CallerState
  <2>2. QED
    BY <1>1, <2>1 DEF NothingLost
<1>6. NothingInvented'
  BY <1>1, MapFacts DEF IInv, TypeOK, NothingInvented
<1>7. QED
  BY <1>2, <1>3, <1>4, <1>5, <1>6 DEF IInv

\* A goroutine that has sent its map leaves its message in done.
LEMMA SignalIInv ==
  ASSUME IInv, NEW k \in DOMAIN dirs, Signal(k)
  PROVE  IInv'
<1>1. /\ UNCHANGED <<dirs, value, resChan, errChan, waiting, cancelled, ret>>
      /\ worker[k] = "done"
      /\ done' = done + 1
      /\ worker' = [worker EXCEPT ![k] = "gone"]
      /\ TypeOK
  BY DEF Signal, callerVars, IInv
<1>2. TypeOK'
  BY <1>1 DEF TypeOK
<1>3. MessagesCounted'
  <2>1. ~ Fails(dirs[k])
    BY <1>1 DEF IInv, FailuresSendNothing
  <2>2. Cardinality(Finished') = Cardinality(Finished) + 1 /\ Failed' = Failed
    BY <1>1, <2>1, GoneCounts
  <2>3. /\ Cardinality(Finished) = done + (Len(dirs) - waiting)
        /\ done \in Nat /\ waiting \in Nat /\ Len(dirs) \in Nat
    BY <1>1, DirsFacts DEF IInv, MessagesCounted, TypeOK
  <2>4. Cardinality(Finished') = done' + (Len(dirs) - waiting)
    BY <1>1, <2>2, <2>3
  <2>5. QED
    BY <1>1, <2>2, <2>4 DEF IInv, MessagesCounted
<1>4. FailuresSendNothing' /\ CallerState'
  BY <1>1 DEF IInv, TypeOK, FailuresSendNothing, CallerState
<1>5. NothingLost'
  <2> SUFFICES ASSUME ret = NoRet, NEW j \in DOMAIN dirs,
                      worker'[j] # "scan", ~ Fails(dirs[j])
               PROVE  /\ \A n \in DOMAIN Scan(dirs[j]) : Carried(n)'
                      /\ (resChan # NoMap \/ \E i \in DOMAIN dirs : worker[i] = "merge")'
    BY <1>1 DEF NothingLost
  <2>1. worker[j] # "scan"
    BY <1>1 DEF TypeOK
  <2>2. /\ \A n \in DOMAIN Scan(dirs[j]) : Carried(n)
        /\ resChan # NoMap \/ \E i \in DOMAIN dirs : worker[i] = "merge"
    BY <2>1 DEF IInv, NothingLost
  <2>3. QED
    BY <1>1, <2>2 DEF Carried, TypeOK
<1>6. NothingInvented'
  BY <1>1 DEF IInv, NothingInvented
<1>7. QED
  BY <1>2, <1>3, <1>4, <1>5, <1>6 DEF IInv

\* The caller counts a goroutine that is done.
LEMMA ReceiveDoneIInv ==
  ASSUME IInv, ReceiveDone
  PROVE  IInv'
<1>1. /\ UNCHANGED <<dirs, worker, value, resChan, errChan, cancelled, ret>>
      /\ ret = NoRet /\ waiting > 0 /\ done > 0
      /\ done' = done - 1 /\ waiting' = waiting - 1
      /\ TypeOK
  BY DEF ReceiveDone, IInv
<1>2. Len(dirs) \in Nat
  BY <1>1, DirsFacts DEF TypeOK
<1>3. TypeOK'
  BY <1>1, <1>2 DEF TypeOK
<1>4. Finished' = Finished /\ Failed' = Failed
  BY <1>1 DEF Finished, Failed
<1>5. MessagesCounted'
  <2>1. /\ Cardinality(Finished) = done + (Len(dirs) - waiting)
        /\ done \in Nat /\ waiting \in Nat
    BY <1>1, <1>2 DEF IInv, MessagesCounted, TypeOK
  <2>2. Cardinality(Finished') = done' + (Len(dirs) - waiting')
    BY <1>1, <1>2, <1>4, <2>1
  <2>3. QED
    BY <1>1, <1>4, <2>2 DEF IInv, MessagesCounted
<1>6. FailuresSendNothing' /\ CallerState'
  BY <1>1, ResultFacts DEF IInv, FailuresSendNothing, CallerState
<1>7. NothingLost' /\ NothingInvented'
  BY <1>1 DEF IInv, NothingLost, NothingInvented, Carried
<1>8. QED
  BY <1>3, <1>5, <1>6, <1>7 DEF IInv

\* The caller gives up for good: the one error it takes is accounted for.
LEMMA ReceiveErrIInv ==
  ASSUME IInv, ReceiveErr
  PROVE  IInv'
<1>1. /\ UNCHANGED <<dirs, worker, value, resChan, done, waiting>>
      /\ ret = NoRet /\ errChan > 0
      /\ errChan' = errChan - 1 /\ cancelled' = TRUE /\ ret' = Failure
      /\ TypeOK
  BY DEF ReceiveErr, IInv
<1>2. ~ cancelled
  BY <1>1, ResultFacts DEF IInv, CallerState
<1>3. TypeOK'
  BY <1>1, ResultFacts DEF TypeOK
<1>4. Finished' = Finished /\ Failed' = Failed
  BY <1>1 DEF Finished, Failed
<1>5. MessagesCounted'
  <2>1. Cardinality(Failed) = errChan /\ errChan \in Nat
    BY <1>1, <1>2 DEF IInv, MessagesCounted, TypeOK
  <2>2. Cardinality(Failed') = errChan' + (IF cancelled' THEN 1 ELSE 0)
    BY <1>1, <1>4, <2>1
  <2>3. QED
    BY <1>1, <1>4, <2>2 DEF IInv, MessagesCounted
<1>6. FailuresSendNothing' /\ CallerState'
  BY <1>1 DEF IInv, FailuresSendNothing, CallerState
<1>7. NothingLost'
  BY <1>1, ResultFacts DEF NothingLost
<1>8. NothingInvented'
  BY <1>1 DEF IInv, NothingInvented
<1>9. QED
  BY <1>3, <1>5, <1>6, <1>7, <1>8 DEF IInv

\* When the caller has counted everyone, everyone is gone and no directory
\* has failed.
LEMMA AllRead ==
  ASSUME IInv, ret = NoRet, waiting = 0
  PROVE  \A k \in DOMAIN dirs : worker[k] = "gone" /\ ~ Fails(dirs[k])
<1> DEFINE D == DOMAIN dirs
           F == Finished
<1>1. TypeOK /\ IsFiniteSet(D) /\ Cardinality(D) = Len(dirs) /\ Len(dirs) \in Nat
  BY DirsFacts DEF IInv, TypeOK
<1>2. F \subseteq D
  BY DEF Finished
<1>3. Cardinality(F) <= Cardinality(D) /\ (Cardinality(F) = Cardinality(D) => F = D)
  <2> HIDE DEF F, D
  <2>1. QED
    BY <1>1, <1>2, FS_Subset
<1>4. Cardinality(F) = done + Len(dirs) /\ done \in Nat
  BY <1>1 DEF IInv, MessagesCounted, TypeOK
<1>5. F = D
  <2> HIDE DEF F, D
  <2>1. QED
    BY <1>1, <1>3, <1>4
<1>6. QED
  BY <1>5 DEF Finished

\* Then the last map sent was not taken out again.
LEMMA Ready ==
  ASSUME IInv
  PROVE  ResultReady
<1> SUFFICES ASSUME ret = NoRet, waiting = 0, dirs # << >>
             PROVE  resChan # NoMap /\ \A k \in DOMAIN dirs : worker[k] = "gone"
  BY DEF ResultReady
<1>1. \A k \in DOMAIN dirs : worker[k] = "gone" /\ ~ Fails(dirs[k])
  BY AllRead
<1>2. DOMAIN dirs # {}
  <2>1. dirs \in Seq(Directory) /\ Len(dirs) \in Nat /\ DOMAIN dirs = 1 .. Len(dirs)
    BY DirsFacts, InputsAssumption DEF IInv, TypeOK
  <2>2. Len(dirs) # 0
    BY <2>1
  <2>3. 1 \in DOMAIN dirs
    BY <2>1, <2>2
  <2>4. QED
    BY <2>3
<1>3. PICK k \in DOMAIN dirs : TRUE
  BY <1>2
<1>4. resChan # NoMap \/ \E j \in DOMAIN dirs : worker[j] = "merge"
  BY <1>1, <1>3 DEF IInv, NothingLost
<1>5. QED
  BY <1>1, <1>4

\* An error in the channel comes from a directory that cannot be read.
LEMMA ErrorIsReal ==
  ASSUME IInv, ReceiveErr
  PROVE  \E k \in DOMAIN dirs : Fails(dirs[k])
<1>1. errChan > 0 /\ errChan \in Nat
  BY DEF ReceiveErr, IInv, TypeOK
<1>2. Cardinality(Failed) # 0
  BY <1>1 DEF IInv, MessagesCounted
<1>3. Failed # {}
  BY <1>2, FS_EmptySet
<1>4. QED
  BY <1>3 DEF Failed

\* What is promised, in terms of the operators of this module.
LEMMA PromiseFacts ==
  /\ Promise!Results = Results
  /\ \A ds, r : Promise!Promised(ds, r) <=> IsPromised(ds, r)
<1>1. Promise!Results = Results
  BY DEF Promise!Results, Results, Promise!Maps, Maps
<1>2. \A ds, k : Promise!Fails(ds[k]) <=> Fails(ds[k])
  BY DEF Promise!Fails, Fails
<1>3. Promise!Failure = Failure
  BY DEF Promise!Failure, Failure, Promise!NoFiles, NoFiles
<1>4. \A fs : Promise!KeptIn(fs) = KeptIn(fs)
  BY DEF Promise!KeptIn, KeptIn, Promise!Kept, Kept
<1>5. \A ds, n : Promise!Offered(ds, n) <=> Offered(ds, n)
  BY <1>4 DEF Promise!Offered, Offered
<1>6. \A ds, n, i : Promise!OfferedAs(ds, n, i) <=> OfferedAs(ds, n, i)
  BY <1>4 DEF Promise!OfferedAs, OfferedAs
<1>7. \A ds : {n \in Names : Promise!Offered(ds, n)} = {n \in Names : Offered(ds, n)}
  BY <1>5
<1>8. QED
  BY <1>1, <1>2, <1>3, <1>6, <1>7 DEF Promise!Promised, IsPromised

\* What the caller returns is what is promised: the map it finds in the
\* channel has all the names, as nobody holds another one.
LEMMA ReturnPromised ==
  ASSUME IInv, Return
  PROVE  Promise!Promised(dirs, ret') /\ ret' \in Results
<1>1. ret = NoRet /\ waiting = 0 /\ TypeOK
  BY DEF Return, IInv
<1>2. CASE dirs = << >>
  <2>1. ret' = Success(NoFiles) /\ DOMAIN dirs = {}
    BY <1>2 DEF Return
  <2>2. ret'.ok /\ ret'.files = NoFiles /\ ret' \in Results
    BY <2>1, MapFacts, ResultFacts DEF Success
  <2>3. {n \in Names : Offered(dirs, n)} = {}
    BY <2>1 DEF Offered
  <2>4. QED
    BY <2>1, <2>2, <2>3, MapFacts, PromiseFacts DEF IsPromised
<1>3. CASE dirs # << >>
  <2>1. ret' = Success(resChan) /\ resChan # NoMap
    BY <1>3 DEF Return
  <2>2. resChan \in Maps /\ DOMAIN resChan \subseteq Names
    BY <1>1, <2>1, MapFacts DEF TypeOK
  <2>3. ret'.ok /\ ret'.files = resChan /\ ret' \in Results
    BY <2>1, <2>2, ResultFacts DEF Success
  <2>4. \A k \in DOMAIN dirs : worker[k] = "gone"
    BY <1>1, <1>3, Ready DEF ResultReady
  <2>5. \A k \in DOMAIN dirs : ~ Fails(dirs[k])
    BY <1>1, <1>3, AllRead
  <2>6. \A n \in DOMAIN resChan : OfferedAs(dirs, n, resChan[n])
    BY <2>1 DEF IInv, NothingInvented
  <2>7. DOMAIN resChan \subseteq {n \in Names : Offered(dirs, n)}
    BY <2>2, <2>6 DEF OfferedAs, Offered
  <2>8. ASSUME NEW n \in Names, Offered(dirs, n)
        PROVE  n \in DOMAIN resChan
    <3>1. PICK k \in DOMAIN dirs : \E j \in KeptIn(dirs[k].files) : dirs[k].files[j].name = n
      BY <2>8 DEF Offered
    <3>2. dirs[k] \in Directory
      BY <1>1, DirsFacts DEF TypeOK
    <3>3. n \in DOMAIN Scan(dirs[k])
      <4>1. DOMAIN Scan(dirs[k]) = {dirs[k].files[j].name : j \in KeptIn(dirs[k].files)}
        BY <3>2, ScanFacts
      <4>2. QED
        BY <3>1, <4>1
    <3>4. Carried(n)
      BY <1>1, <2>4, <2>5, <3>3 DEF IInv, NothingLost
    <3>5. QED
      BY <2>4, <3>4 DEF Carried
  <2>9. DOMAIN ret'.files = {n \in Names : Offered(dirs, n)}
    BY <2>3, <2>7, <2>8
  <2>10. QED
    BY <2>3, <2>5, <2>6, <2>9, PromiseFacts DEF IsPromised
<1>4. QED
  BY <1>2, <1>3

LEMMA ReturnIInv ==
  ASSUME IInv, Return
  PROVE  IInv'
<1>1. /\ UNCHANGED <<dirs, worker, value, done, errChan, waiting, cancelled>>
      /\ ret = NoRet /\ waiting = 0 /\ TypeOK
      /\ resChan' \in {resChan, NoMap}
  BY DEF Return, IInv
<1>2. Promise!Promised(dirs, ret') /\ ret' \in Results
  BY ReturnPromised
<1>3. TypeOK'
  BY <1>1, <1>2 DEF TypeOK
<1>4. MessagesCounted' /\ FailuresSendNothing'
  BY <1>1 DEF IInv, MessagesCounted, Finished, Failed, FailuresSendNothing
<1>5. CallerState'
  <2>1. ~ cancelled
    BY <1>1, ResultFacts DEF IInv, CallerState
  <2>2. Promise!Promised(dirs', ret')
    BY <1>1, <1>2
  <2>3. QED
    BY <1>1, <2>1, <2>2 DEF CallerState
<1>6. NothingLost'
  BY <1>2, NoRetAssumption DEF NothingLost
<1>7. NothingInvented'
  BY <1>1 DEF IInv, NothingInvented
<1>8. QED
  BY <1>3, <1>4, <1>5, <1>6, <1>7 DEF IInv

-----------------------------------------------------------------------------

LEMMA NextIInv == IInv /\ [Next]_vars => IInv'
<1> SUFFICES ASSUME IInv, [Next]_vars
             PROVE  IInv'
  OBVIOUS
<1>1. ASSUME NEW k \in DOMAIN dirs, Work(k)
      PROVE  IInv'
  BY <1>1, ScanOkIInv, ScanErrIInv, SendIInv, MergeIInv, DiscardIInv, SignalIInv
     DEF Work
<1>2. CASE Call
  BY <1>2, ReceiveDoneIInv, ReceiveErrIInv, ReturnIInv DEF Call
<1>3. CASE UNCHANGED vars
  <2>1. UNCHANGED <<dirs, worker, value, resChan, done, errChan, waiting, cancelled, ret>>
    BY <1>3 DEF vars
  <2>2. TypeOK' /\ MessagesCounted' /\ FailuresSendNothing'
    BY <2>1 DEF IInv, TypeOK, MessagesCounted, Finished, Failed, FailuresSendNothing
  <2>3. CallerState' /\ NothingLost' /\ NothingInvented'
    BY <2>1 DEF IInv, CallerState, NothingLost, Carried, NothingInvented
  <2>4. QED
    BY <2>2, <2>3 DEF IInv
<1>4. QED
  BY <1>1, <1>2, <1>3 DEF Next, Step, Returned

(***************************************************************************)
(* The invariant of scanMultipleMT holds in every reachable state, for any *)
(* lists of directories, names and files.                                  *)
(***************************************************************************)
THEOREM Invariance == Spec => []IInv
<1>1. Init => IInv
  BY InitIInv
<1>2. IInv /\ [Next]_vars => IInv'
  BY NextIInv
<1>3. QED
  BY <1>1, <1>2, PTL DEF Spec

(***************************************************************************)
(* When the caller has counted all goroutines, the merged map is in        *)
(* resChan and nobody works on it any more: return <-resChan does not      *)
(* block.                                                                  *)
(***************************************************************************)
THEOREM ResultIsReady == Spec => []ResultReady
<1>1. IInv => ResultReady
  BY Ready
<1>2. QED
  BY <1>1, Invariance, PTL

(***************************************************************************)
(* scanMultipleMT returns what is promised of the scan, once: an error if  *)
(* some directory cannot be read, and otherwise every name that is offered.*)
(***************************************************************************)
THEOREM Implements == Spec => ScanSpec
<1>1. Init => Promise!Init
  BY DEF Init, Promise!Init
<1>2. IInv /\ [Next]_vars => [Promise!Return]_(Promise!vars)
  <2> SUFFICES ASSUME IInv, [Next]_vars
               PROVE  [Promise!Return]_(Promise!vars)
    OBVIOUS
  <2>1. CASE \E k \in DOMAIN dirs : Work(k)
    BY <2>1 DEF Work, ScanOk, ScanErr, Send, Merge, Discard, Signal, callerVars,
                Promise!vars
  <2>2. CASE ReceiveDone
    BY <2>2 DEF ReceiveDone, Promise!vars
  <2>3. CASE ReceiveErr
    <3>1. \E k \in DOMAIN dirs : Fails(dirs[k])
      BY <2>3, ErrorIsReal
    <3>2. ret = NoRet /\ ret' = Failure /\ UNCHANGED dirs
      BY <2>3 DEF ReceiveErr
    <3>3. QED
      BY <3>1, <3>2, ResultFacts, PromiseFacts DEF IsPromised, Promise!Return
  <2>4. CASE Return
    <3>1. Promise!Promised(dirs, ret') /\ ret' \in Results
      BY <2>4, ReturnPromised
    <3>2. ret = NoRet /\ UNCHANGED dirs
      BY <2>4 DEF Return
    <3>3. QED
      BY <3>1, <3>2, PromiseFacts DEF Promise!Return
  <2>5. CASE UNCHANGED vars
    BY <2>5 DEF vars, Promise!vars
  <2>6. QED
    BY <2>1, <2>2, <2>3, <2>4, <2>5 DEF Next, Step, Call, Returned
<1>3. QED
  BY <1>1, <1>2, Invariance, PTL DEF Spec, ScanSpec, Promise!Spec

(***************************************************************************)
(* scanMultipleMT returns what the sequential scan does, in whatever order *)
(* the goroutines merge their maps, when no two files offered under one    *)
(* name differ (TestConsistency).                                          *)
(***************************************************************************)
THEOREM AgreesWithSequential == Spec => []AgreesWithST
<1>1. IInv => AgreesWithST
  <2> SUFFICES ASSUME IInv, ret # NoRet, NoClash(dirs)
               PROVE  ret = ScanST(dirs)
    BY DEF AgreesWithST
  <2>1. dirs \in Inputs /\ ret \in Results
    BY DEF IInv, TypeOK
  <2>2. IsPromised(dirs, ret)
    <3>1. CASE cancelled
      <4>1. Cardinality(Failed) = errChan + 1 /\ errChan \in Nat
        BY <3>1 DEF IInv, MessagesCounted, TypeOK
      <4>2. Failed # {}
        BY <4>1, FS_EmptySet
      <4>3. \E k \in DOMAIN dirs : Fails(dirs[k])
        BY <4>2 DEF Failed
      <4>4. QED
        BY <3>1, <4>3 DEF IInv, CallerState, IsPromised
    <3>2. CASE ~ cancelled
      BY <3>2, PromiseFacts DEF IInv, CallerState
    <3>3. QED
      BY <3>1, <3>2
  <2>3. ScanST(dirs) \in Results /\ IsPromised(dirs, ScanST(dirs))
    BY <2>1, SequentialPromised
  <2>4. QED
    BY <2>1, <2>2, <2>3, PromiseUnique
<1>2. QED
  BY <1>1, Invariance, PTL
=============================================================================
