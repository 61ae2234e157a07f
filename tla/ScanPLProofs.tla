---------------------------- MODULE ScanPLProofs -----------------------------
(***************************************************************************)
(* Proofs about ScanPL, for any lists of directories and any number of     *)
(* digesters: the inductive invariant IInv, who is left behind when the    *)
(* scan returns, the refinement of DesktopScan, and that the pipeline      *)
(* returns what the sequential scan does.                                  *)
(***************************************************************************)
EXTENDS ScanPL, DesktopFilesProofs

\* The directories that are walked.
LEMMA WalkFacts ==
  ASSUME TypeOK
  PROVE  /\ Len(dirs) \in Nat /\ DOMAIN dirs = 1 .. Len(dirs)
         /\ \A k \in DOMAIN dirs :
              /\ dirs[k] \in Directory /\ Len(dirs[k].files) \in Nat
              /\ DOMAIN dirs[k].files = 1 .. Len(dirs[k].files)
              /\ \A j \in DOMAIN dirs[k].files : dirs[k].files[j] \in File
              /\ dirs[k].kind \in {"absent", "bad", "dir"}
              /\ dirs[k].kind = "absent" => dirs[k].files = << >>
<1>1. Len(dirs) \in Nat /\ DOMAIN dirs = 1 .. Len(dirs)
  BY DirsFacts DEF TypeOK
<1>2. ASSUME NEW k \in DOMAIN dirs
      PROVE  /\ dirs[k] \in Directory /\ dirs[k].files \in Seq(File)
             /\ Len(dirs[k].files) \in Nat
             /\ DOMAIN dirs[k].files = 1 .. Len(dirs[k].files)
             /\ dirs[k].kind \in {"absent", "bad", "dir"}
             /\ dirs[k].kind = "absent" => dirs[k].files = << >>
  <2>1. dirs[k] \in Directory
    BY DirsFacts DEF TypeOK
  <2>2. QED
    BY <2>1, FilesFacts DEF Directory
<1>3. QED
  BY <1>1, <1>2

LEMMA InitIInv == Init => IInv
<1> SUFFICES ASSUME Init
             PROVE  IInv
  OBVIOUS
<1>1. TypeOK
  BY MapFacts DEF Init, TypeOK
<1>2. LeavesInTurn
  BY DEF Init, LeavesInTurn
<1>3. WalkerAt /\ ErrsTold
  BY <1>1, WalkFacts DEF Init, WalkerAt, ErrsTold
<1>4. NothingLost
  BY <1>1, WalkFacts DEF Init, NothingLost, Sent
<1>5. NothingInvented
  BY MapFacts DEF Init, NothingInvented
<1>6. QED
  BY <1>1, <1>2, <1>3, <1>4, <1>5 DEF IInv

\* A step of the walker that hands over nothing keeps IInv if it keeps what is
\* said of the walker and of errs.
LEMMA WalkerChange ==
  ASSUME IInv, UNCHANGED <<dirs, digesterVars, closed, mainVars>>,
         walker' \in {"open", "send", "close", "gone"},
         at' \in [dir : Nat, file : Nat],
         errs' \in {"empty", "nil", "error"},
         walker = "gone" => walker' = "gone",
         WalkerAt', ErrsTold',
         \A k \in DOMAIN dirs : \A j \in DOMAIN dirs[k].files : Sent(k, j)' => Sent(k, j)
  PROVE  IInv'
<1>1. TypeOK'
  BY DEF IInv, TypeOK, digesterVars, mainVars
<1>2. LeavesInTurn'
  BY DEF IInv, LeavesInTurn, digesterVars, mainVars
<1>3. NothingLost'
  BY DEF IInv, NothingLost, InHand, digesterVars, mainVars
<1>4. NothingInvented'
  BY DEF IInv, NothingInvented, digesterVars, mainVars
<1>5. QED
  BY <1>1, <1>2, <1>3, <1>4 DEF IInv

LEMMA WalkIInv ==
  ASSUME IInv, Walk
  PROVE  IInv'
<1>1. /\ Len(dirs) \in Nat /\ DOMAIN dirs = 1 .. Len(dirs)
      /\ \A k \in DOMAIN dirs :
           /\ Len(dirs[k].files) \in Nat
           /\ DOMAIN dirs[k].files = 1 .. Len(dirs[k].files)
           /\ dirs[k].kind = "absent" => dirs[k].files = << >>
  BY WalkFacts DEF IInv
<1>2. /\ at \in [dir : Nat, file : Nat] /\ at.dir \in Nat /\ at.file \in Nat
      /\ walker \in {"open", "send", "close", "gone"}
      /\ errs \in {"empty", "nil", "error"}
      /\ WalkerAt /\ ErrsTold
  BY DEF IInv, TypeOK
<1>3. UNCHANGED <<dirs, digesterVars, closed, mainVars>>
  BY DEF Walk, SkipDirectory, OpenDirectory, WalkFails, LeaveDirectory, WalkEnds, ClosePaths
<1>4. CASE SkipDirectory
  <2>1. /\ at' = [dir |-> at.dir + 1, file |-> 1] /\ at.dir \in DOMAIN dirs
        /\ walker' = walker /\ errs' = errs /\ walker = "open"
        /\ dirs[at.dir].kind = "absent"
    BY <1>1, <1>2, <1>4 DEF SkipDirectory, NextDirectory, WalkerAt, Here
  <2>2. at' \in [dir : Nat, file : Nat] /\ WalkerAt'
    BY <1>1, <1>2, <1>3, <2>1 DEF WalkerAt
  <2>3. ErrsTold'
    BY <1>1, <1>2, <1>3, <2>1 DEF ErrsTold, mainVars
  <2>4. \A k \in DOMAIN dirs : \A j \in DOMAIN dirs[k].files : Sent(k, j)' => Sent(k, j)
    BY <1>1, <1>2, <2>1 DEF Sent
  <2>5. QED
    BY <1>2, <1>3, <2>1, <2>2, <2>3, <2>4, WalkerChange
<1>5. CASE OpenDirectory
  <2>1. /\ at' = at /\ errs' = errs /\ walker = "open" /\ walker' = "send"
        /\ at.dir <= Len(dirs) /\ Here.kind = "dir"
    BY <1>5 DEF OpenDirectory
  <2>2. WalkerAt' /\ ErrsTold'
    BY <1>2, <1>3, <2>1 DEF WalkerAt, ErrsTold, Here, mainVars
  <2>3. QED
    BY <1>2, <1>3, <2>1, <2>2, WalkerChange DEF Sent
<1>6. CASE WalkFails
  <2>1. /\ at' = at /\ errs' = "error" /\ walker = "open" /\ walker' = "close"
        /\ at.dir \in DOMAIN dirs /\ dirs[at.dir].kind = "bad"
    BY <1>1, <1>2, <1>6 DEF WalkFails, WalkerAt, Here
  <2>2. WalkerAt' /\ ErrsTold'
    BY <1>2, <1>3, <2>1 DEF WalkerAt, ErrsTold, Here, Fails, mainVars
  <2>3. QED
    BY <1>2, <1>3, <2>1, <2>2, WalkerChange DEF Sent
<1>7. CASE LeaveDirectory
  <2>1. /\ at' = [dir |-> at.dir + 1, file |-> 1] /\ at.dir \in DOMAIN dirs
        /\ walker' = "open" /\ errs' = errs /\ walker = "send"
        /\ dirs[at.dir].kind = "dir" /\ at.file > Len(dirs[at.dir].files)
    BY <1>1, <1>2, <1>7 DEF LeaveDirectory, NextDirectory, WalkerAt, Here
  <2>2. at' \in [dir : Nat, file : Nat] /\ WalkerAt'
    BY <1>1, <1>2, <1>3, <2>1 DEF WalkerAt
  <2>3. ErrsTold'
    BY <1>1, <1>2, <1>3, <2>1 DEF ErrsTold, mainVars
  <2>4. \A k \in DOMAIN dirs : \A j \in DOMAIN dirs[k].files : Sent(k, j)' => Sent(k, j)
    BY <1>1, <1>2, <2>1 DEF Sent
  <2>5. QED
    BY <1>2, <1>3, <2>1, <2>2, <2>3, <2>4, WalkerChange
<1>8. CASE WalkEnds
  <2>1. /\ at' = at /\ errs' = "nil" /\ walker = "open" /\ walker' = "close"
        /\ at.dir = Len(dirs) + 1
    BY <1>1, <1>2, <1>8 DEF WalkEnds, WalkerAt
  <2>2. WalkerAt' /\ ErrsTold'
    BY <1>2, <1>3, <2>1 DEF WalkerAt, ErrsTold, Here, mainVars
  <2>3. QED
    BY <1>2, <1>3, <2>1, <2>2, WalkerChange DEF Sent
<1>9. CASE ClosePaths
  <2>1. at' = at /\ errs' = errs /\ walker = "close" /\ walker' = "gone"
    BY <1>9 DEF ClosePaths
  <2>2. WalkerAt' /\ ErrsTold'
    BY <1>2, <1>3, <2>1 DEF WalkerAt, ErrsTold, Here, mainVars
  <2>3. QED
    BY <1>2, <1>3, <2>1, <2>2, WalkerChange DEF Sent
<1>10. QED
  BY <1>4, <1>5, <1>6, <1>7, <1>8, <1>9 DEF Walk

\* A file is handed over: its result is on its way to the caller, unless it is
\* not to be shown.
LEMMA ReceivePathIInv ==
  ASSUME IInv, NEW d \in Digesters, ReceivePath(d)
  PROVE  IInv'
<1>0. PICK f : f = dirs[at.dir].files[at.file]
  OBVIOUS
<1>1. /\ UNCHANGED <<dirs, walker, errs, closed, main, resMap, ret>>
      /\ walker = "send" /\ at.file <= Len(dirs[at.dir].files)
      /\ digester[d] = "receive"
      /\ at' = [at EXCEPT !.file = @ + 1]
      /\ \/ /\ f.read = "error" \/ Kept(f)
            /\ job' = [job EXCEPT ![d] = f]
            /\ digester' = [digester EXCEPT ![d] = "send"]
         \/ /\ ~ (f.read = "error" \/ Kept(f))
            /\ job' = job /\ digester' = digester
  BY <1>0 DEF ReceivePath, Here, mainVars, digesterVars
<1>2. /\ at \in [dir : Nat, file : Nat] /\ at.dir \in Nat /\ at.file \in Nat
      /\ at.dir \in DOMAIN dirs /\ dirs[at.dir].kind = "dir"
      /\ at.file \in DOMAIN dirs[at.dir].files /\ f \in File
  BY <1>0, <1>1, WalkFacts DEF IInv, TypeOK, WalkerAt, Here
<1>3. at'.dir = at.dir /\ at'.file = at.file + 1 /\ at' \in [dir : Nat, file : Nat]
  BY <1>1, <1>2
<1>4. /\ digester \in [Digesters -> {"receive", "send", "gone"}]
      /\ job \in [Digesters -> File \cup {NoJob}]
  BY DEF IInv, TypeOK
<1>5. TypeOK'
  BY <1>1, <1>2, <1>3, <1>4 DEF IInv, TypeOK
<1>6. \A e \in Digesters : /\ digester'[e] = "gone" <=> digester[e] = "gone"
                           /\ digester[e] = "send" =>
                                digester'[e] = "send" /\ job'[e] = job[e]
  BY <1>1, <1>4
<1>7. LeavesInTurn'
  BY <1>1, <1>6 DEF IInv, LeavesInTurn
<1>8. WalkerAt' /\ ErrsTold'
  BY <1>1, <1>2, <1>3 DEF IInv, WalkerAt, ErrsTold, Here
<1>9. NothingLost'
  <2> SUFFICES ASSUME main # "returned", NEW k \in DOMAIN dirs,
                      NEW j \in DOMAIN dirs[k].files, Sent(k, j)',
                      NEW g, g = dirs[k].files[j]
               PROVE  /\ g.read = "error" => InHand(g)'
                      /\ Kept(g) => InHand(g)' \/ g.name \in DOMAIN resMap
    BY <1>1 DEF NothingLost, InHand
  <2>1. InHand(g) => InHand(g)'
    BY <1>6 DEF InHand
  <2>2. CASE Sent(k, j)
    <3>1. /\ g.read = "error" => InHand(g)
          /\ Kept(g) => InHand(g) \/ g.name \in DOMAIN resMap
      BY <2>2 DEF IInv, NothingLost
    <3>2. QED
      BY <2>1, <3>1
  <2>3. CASE ~ Sent(k, j)
    <3>1. k = at.dir /\ j = at.file
      <4>1. k \in Nat /\ j \in Nat
        BY WalkFacts DEF IInv
      <4>2. QED
        BY <1>2, <1>3, <2>3, <4>1 DEF Sent
    <3>2. g = f
      BY <1>0, <3>1
    <3>3. f.read = "error" \/ Kept(f) => InHand(f)'
      BY <1>1, <1>4 DEF InHand
    <3>4. QED
      BY <3>2, <3>3
  <2>4. QED
    BY <2>2, <2>3
<1>10. NothingInvented'
  <2>1. ASSUME NEW e \in Digesters, digester'[e] = "send"
        PROVE  \E k \in DOMAIN dirs : \E j \in DOMAIN dirs[k].files :
                 /\ job'[e] = dirs[k].files[j]
                 /\ job'[e].read = "error" \/ Kept(job'[e])
    <3>1. CASE digester[e] = "send"
      BY <1>6, <3>1 DEF IInv, NothingInvented
    <3>2. CASE digester[e] # "send"
      <4>1. e = d /\ job'[e] = f /\ (f.read = "error" \/ Kept(f))
        BY <1>1, <1>4, <2>1, <3>2
      <4>2. QED
        BY <1>0, <1>2, <4>1
    <3>3. QED
      BY <3>1, <3>2
  <2>2. QED
    BY <1>1, <2>1 DEF IInv, NothingInvented
<1>11. QED
  BY <1>5, <1>7, <1>8, <1>9, <1>10 DEF IInv

LEMMA NoMorePathsIInv ==
  ASSUME IInv, NEW d \in Digesters, NoMorePaths(d)
  PROVE  IInv'
<1>1. /\ UNCHANGED <<dirs, walker, at, errs, job, closed, main, resMap, ret>>
      /\ digester[d] = "receive" /\ walker = "gone"
      /\ digester' = [digester EXCEPT ![d] = "gone"]
      /\ TypeOK
  BY DEF NoMorePaths, walkerVars, mainVars, IInv
<1>2. \A e \in Digesters : /\ digester[e] = "send" <=> digester'[e] = "send"
                           /\ digester[e] = "gone" => digester'[e] = "gone"
  BY <1>1 DEF TypeOK
<1>3. TypeOK'
  BY <1>1 DEF TypeOK
<1>4. LeavesInTurn'
  BY <1>1, <1>2 DEF IInv, LeavesInTurn
<1>5. WalkerAt' /\ ErrsTold'
  BY <1>1 DEF IInv, WalkerAt, ErrsTold, Here
<1>6. NothingLost' /\ NothingInvented'
  BY <1>1, <1>2 DEF IInv, NothingLost, NothingInvented, Sent, InHand
<1>7. QED
  BY <1>3, <1>4, <1>5, <1>6 DEF IInv

\* Once the scan has returned, nothing that is abandoned is missed.
LEMMA AbandonIInv ==
  ASSUME IInv, NEW d \in Digesters, Abandon(d)
  PROVE  IInv'
<1>1. /\ UNCHANGED <<dirs, walker, at, errs, closed, main, resMap, ret>>
      /\ digester[d] = "send" /\ main = "returned"
      /\ digester' = [digester EXCEPT ![d] = "gone"]
      /\ job' = [job EXCEPT ![d] = NoJob]
      /\ TypeOK
  BY DEF Abandon, walkerVars, mainVars, IInv
<1>2. TypeOK'
  BY <1>1 DEF TypeOK
<1>3. LeavesInTurn'
  BY <1>1 DEF IInv, LeavesInTurn, TypeOK
<1>4. WalkerAt' /\ ErrsTold' /\ NothingLost'
  BY <1>1 DEF IInv, WalkerAt, ErrsTold, Here, NothingLost
<1>5. NothingInvented'
  BY <1>1 DEF IInv, NothingInvented, TypeOK
<1>6. QED
  BY <1>2, <1>3, <1>4, <1>5 DEF IInv

\* A result arrives: in the map, or as the error the scan returns.
LEMMA SendResultIInv ==
  ASSUME IInv, NEW d \in Digesters, SendResult(d)
  PROVE  IInv'
<1> DEFINE one == [n \in {job[d].name} |-> job[d].id]
<1>1. /\ UNCHANGED <<dirs, walker, at, errs, closed>>
      /\ digester[d] = "send" /\ main = "range"
      /\ digester' = [digester EXCEPT ![d] = "receive"]
      /\ job' = [job EXCEPT ![d] = NoJob]
      /\ \/ /\ job[d].read = "error" /\ ret' = Failure /\ main' = "returned"
            /\ resMap' = resMap
         \/ /\ job[d].read # "error" /\ resMap' = Copy(resMap, one)
            /\ main' = main /\ ret' = ret
      /\ TypeOK
  BY DEF SendResult, walkerVars, IInv
<1>2. PICK k \in DOMAIN dirs : \E j \in DOMAIN dirs[k].files :
        /\ job[d] = dirs[k].files[j]
        /\ job[d].read = "error" \/ Kept(job[d])
  BY <1>1 DEF IInv, NothingInvented
<1>3. job[d] \in File /\ job[d].name \in Names /\ job[d].id \in Ids
  BY <1>1, <1>2, WalkFacts DEF File
<1>4. /\ one \in Maps /\ DOMAIN one = {job[d].name} /\ one[job[d].name] = job[d].id
  BY <1>3, MapFacts
<1>5. resMap \in Maps
  BY <1>1 DEF TypeOK
<1> HIDE DEF one
<1>6. /\ Copy(resMap, one) \in Maps
      /\ DOMAIN Copy(resMap, one) = DOMAIN resMap \cup {job[d].name}
      /\ \A n \in DOMAIN Copy(resMap, one) :
           \/ n \in DOMAIN resMap /\ Copy(resMap, one)[n] = resMap[n]
           \/ n = job[d].name /\ Copy(resMap, one)[n] = job[d].id
  <2>1. /\ Copy(resMap, one) \in Maps
        /\ DOMAIN Copy(resMap, one) = DOMAIN resMap \cup DOMAIN one
        /\ \A n \in DOMAIN Copy(resMap, one) :
             \/ n \in DOMAIN resMap /\ Copy(resMap, one)[n] = resMap[n]
             \/ n \in DOMAIN one /\ Copy(resMap, one)[n] = one[n]
    BY <1>4, <1>5, CopyFacts
  <2>2. QED
    BY <1>4, <2>1
<1>7. \A e \in Digesters \ {d} : digester'[e] = digester[e] /\ job'[e] = job[e]
  BY <1>1 DEF TypeOK
<1>8. digester'[d] = "receive"
  BY <1>1 DEF TypeOK
<1>9. TypeOK'
  BY <1>1, <1>5, <1>6, ResultFacts DEF TypeOK
<1>10. LeavesInTurn'
  BY <1>1, <1>7, <1>8, ResultFacts DEF IInv, LeavesInTurn
<1>11. WalkerAt' /\ ErrsTold'
  BY <1>1 DEF IInv, WalkerAt, ErrsTold, Here
<1>12. NothingLost'
  <2> SUFFICES ASSUME main' # "returned", NEW i \in DOMAIN dirs,
                      NEW m \in DOMAIN dirs[i].files, Sent(i, m),
                      NEW g, g = dirs[i].files[m]
               PROVE  /\ g.read = "error" => InHand(g)'
                      /\ Kept(g) => InHand(g)' \/ g.name \in DOMAIN resMap'
    BY <1>1 DEF NothingLost, Sent, InHand
  <2>1. /\ g.read = "error" => InHand(g)
        /\ Kept(g) => InHand(g) \/ g.name \in DOMAIN resMap
    BY <1>1 DEF IInv, NothingLost
  <2>2. job[d].read # "error" /\ DOMAIN resMap' = DOMAIN resMap \cup {job[d].name}
    BY <1>1, <1>6
  <2>3. InHand(g) => InHand(g)' \/ g = job[d]
    BY <1>7 DEF InHand
  <2>4. QED
    BY <2>1, <2>2, <2>3
<1>13. NothingInvented'
  <2>1. ASSUME NEW e \in Digesters, digester'[e] = "send"
        PROVE  digester[e] = "send" /\ job'[e] = job[e]
    BY <1>7, <1>8, <2>1
  <2>2. ASSUME NEW n \in DOMAIN resMap'
        PROVE  OfferedAs(dirs, n, resMap'[n])
    <3>1. CASE n \in DOMAIN resMap /\ resMap'[n] = resMap[n]
      BY <3>1 DEF IInv, NothingInvented
    <3>2. CASE n = job[d].name /\ resMap'[n] = job[d].id /\ job[d].read # "error"
      BY <1>2, <3>2 DEF OfferedAs, KeptIn
    <3>3. QED
      BY <1>1, <1>6, <2>2, <3>1, <3>2
  <2>3. QED
    BY <1>1, <2>1, <2>2 DEF IInv, NothingInvented
<1>14. QED
  BY <1>9, <1>10, <1>11, <1>12, <1>13 DEF IInv

LEMMA CollectIInv ==
  ASSUME IInv, Collect
  PROVE  IInv'
<1>1. /\ UNCHANGED <<dirs, walker, at, digester, job, resMap>>
      /\ TypeOK
  BY DEF Collect, CloseResults, NoMoreResults, ReceiveErr, walkerVars, digesterVars,
         mainVars, IInv
<1>2. TypeOK'
  BY <1>1, ResultFacts DEF Collect, CloseResults, NoMoreResults, ReceiveErr, walkerVars,
                          mainVars, TypeOK
<1>3. LeavesInTurn'
  BY <1>1, ResultFacts DEF Collect, CloseResults, NoMoreResults, ReceiveErr, mainVars,
                          IInv, LeavesInTurn, TypeOK
<1>4. WalkerAt' /\ ErrsTold'
  BY <1>1 DEF Collect, CloseResults, NoMoreResults, ReceiveErr, walkerVars, mainVars,
              IInv, WalkerAt, ErrsTold, Here
<1>5. NothingLost' /\ NothingInvented'
  <2>1. main' # "returned" => main # "returned"
    BY DEF Collect, CloseResults, NoMoreResults, ReceiveErr, mainVars
  <2>2. QED
    BY <1>1, <2>1 DEF IInv, NothingLost, NothingInvented, Sent, InHand
<1>6. QED
  BY <1>2, <1>3, <1>4, <1>5 DEF IInv

LEMMA NextIInv == IInv /\ [Next]_vars => IInv'
<1> SUFFICES ASSUME IInv, [Next]_vars
             PROVE  IInv'
  OBVIOUS
<1>1. ASSUME NEW d \in Digesters, Digest(d)
      PROVE  IInv'
  BY <1>1, ReceivePathIInv, NoMorePathsIInv, AbandonIInv, SendResultIInv DEF Digest
<1>2. CASE UNCHANGED vars
  <2>1. UNCHANGED <<dirs, walker, at, errs, digester, job, closed, main, resMap, ret>>
    BY <1>2 DEF vars
  <2>2. TypeOK' /\ LeavesInTurn' /\ WalkerAt' /\ ErrsTold'
    BY <2>1 DEF IInv, TypeOK, LeavesInTurn, WalkerAt, Here, ErrsTold
  <2>3. NothingLost' /\ NothingInvented'
    BY <2>1 DEF IInv, NothingLost, NothingInvented, Sent, InHand
  <2>4. QED
    BY <2>2, <2>3 DEF IInv
<1>3. QED
  BY <1>1, <1>2, WalkIInv, CollectIInv DEF Next, Step, Returned

(***************************************************************************)
(* The invariant of scanMultiplePL holds in every reachable state, for any *)
(* directories and files and any number of digesters: nobody leaves too    *)
(* early, and every file handed over is on its way or has arrived.         *)
(***************************************************************************)
THEOREM Invariance == Spec => []IInv
BY InitIInv, NextIInv, PTL DEF Spec

-----------------------------------------------------------------------------

\* When c is closed, the walker and the digesters are gone.
LEMMA Over ==
  ASSUME IInv, main = "errC"
  PROVE  closed /\ walker = "gone" /\ \A d \in Digesters : digester[d] = "gone"
<1>1. PICK d \in Digesters : TRUE
  BY DigestersAssumption
<1>2. QED
  BY <1>1 DEF IInv, LeavesInTurn

LEMMA InitLeaves == Init => SuccessLeavesNobody
BY DEF Init, SuccessLeavesNobody

LEMMA NextLeaves ==
  IInv /\ SuccessLeavesNobody /\ [Next]_vars => SuccessLeavesNobody'
<1> SUFFICES ASSUME IInv, SuccessLeavesNobody, [Next]_vars, ret' # NoRet, ret'.ok
             PROVE  walker' = "gone" /\ closed' /\ \A d \in Digesters : digester'[d] = "gone"
  BY DEF SuccessLeavesNobody
<1>1. CASE ret' = ret
  <2>1. walker = "gone" /\ closed /\ \A d \in Digesters : digester[d] = "gone"
    BY <1>1 DEF SuccessLeavesNobody
  <2>2. walker' = walker
    BY <2>1 DEF Next, Step, Returned, vars, Walk, SkipDirectory, OpenDirectory, WalkFails,
                LeaveDirectory, WalkEnds, ClosePaths, Digest, ReceivePath, NoMorePaths,
                Abandon, SendResult, Collect, CloseResults, NoMoreResults, ReceiveErr,
                walkerVars
  <2>3. UNCHANGED <<digester, closed>>
    BY <2>1 DEF Next, Step, Returned, vars, Walk, SkipDirectory, OpenDirectory, WalkFails,
                LeaveDirectory, WalkEnds, ClosePaths, Digest, ReceivePath, NoMorePaths,
                Abandon, SendResult, Collect, CloseResults, NoMoreResults, ReceiveErr,
                digesterVars
  <2>4. QED
    BY <2>1, <2>2, <2>3
<1>2. CASE ret' # ret
  <2>1. ~ \E d \in Digesters : SendResult(d)
    <3>1. ~ Failure.ok
      BY DEF Failure
    <3>2. ret' # Failure
      BY <3>1
    <3>3. QED
      BY <1>2, <3>2 DEF SendResult
  <2>2. ReceiveErr
    BY <1>2, <2>1 DEF Next, Step, Returned, vars, Walk, SkipDirectory, OpenDirectory,
                WalkFails, LeaveDirectory, WalkEnds, ClosePaths, Digest, ReceivePath,
                NoMorePaths, Abandon, Collect, CloseResults, NoMoreResults, mainVars
  <2>3. QED
    BY <2>2, Over DEF ReceiveErr, digesterVars
<1>3. QED
  BY <1>1, <1>2

(***************************************************************************)
(* A scan that succeeds leaves no goroutine behind, although the walker    *)
(* never looks at done.                                                    *)
(***************************************************************************)
THEOREM NobodyLeft == Spec => []SuccessLeavesNobody
BY InitLeaves, NextLeaves, Invariance, PTL DEF Spec

-----------------------------------------------------------------------------

\* What is promised, in terms of the operators of this module.
LEMMA PromiseFacts ==
  /\ Promise!Results = Results
  /\ \A ds, r : Promise!Promised(ds, r) <=> IsPromised(ds, r)
<1>1. Promise!Results = Results
  BY DEF Promise!Results, Results, Promise!Maps, Maps
<1>2. \A ds, k : Promise!Fails(ds[k]) <=> Fails(ds[k])
  BY DEF Promise!Fails, Fails
<1>3. Promise!Failure = Failure
  BY DEF Promise!Failure, Failure, Promise!NoFiles, NoFiles
<1>4. \A fs : Promise!KeptIn(fs) = KeptIn(fs)
  BY DEF Promise!KeptIn, KeptIn, Promise!Kept, Kept
<1>5. \A ds, n : Promise!Offered(ds, n) <=> Offered(ds, n)
  BY <1>4 DEF Promise!Offered, Offered
<1>6. \A ds, n, i : Promise!OfferedAs(ds, n, i) <=> OfferedAs(ds, n, i)
  BY <1>4 DEF Promise!OfferedAs, OfferedAs
<1>7. \A ds : {n \in Names : Promise!Offered(ds, n)} = {n \in Names : Offered(ds, n)}
  BY <1>5
<1>8. QED
  BY <1>1, <1>2, <1>3, <1>6, <1>7 DEF Promise!Promised, IsPromised

\* A result that is an error comes from a file that could not be read.
LEMMA SendPromised ==
  ASSUME IInv, NEW d \in Digesters, SendResult(d), ret' # ret
  PROVE  ret = NoRet /\ ret' \in Results /\ IsPromised(dirs, ret')
<1>1. /\ digester[d] = "send" /\ job[d].read = "error" /\ ret' = Failure
      /\ main = "range"
  BY DEF SendResult
<1>2. PICK k \in DOMAIN dirs : \E j \in DOMAIN dirs[k].files : job[d] = dirs[k].files[j]
  BY <1>1 DEF IInv, NothingInvented
<1>3. Fails(dirs[k])
  BY <1>1, <1>2 DEF Fails
<1>4. ret = NoRet
  BY <1>1 DEF IInv, LeavesInTurn
<1>5. QED
  BY <1>1, <1>3, <1>4, ResultFacts DEF IsPromised

\* What the caller returns after the last result: every file was handed over,
\* and nobody holds one any more.
LEMMA ReceivePromised ==
  ASSUME IInv, ReceiveErr
  PROVE  ret = NoRet /\ ret' \in Results /\ IsPromised(dirs, ret')
<1>1. /\ main = "errC" /\ errs # "empty" /\ TypeOK
      /\ ret' = IF errs = "error" THEN Failure ELSE Success(resMap)
  BY DEF ReceiveErr, IInv
<1>2. ret = NoRet
  BY <1>1 DEF IInv, LeavesInTurn
<1>3. CASE errs = "error"
  <2>1. \E k \in DOMAIN dirs : Fails(dirs[k])
    BY <1>3 DEF IInv, ErrsTold
  <2>2. QED
    BY <1>1, <1>2, <1>3, <2>1, ResultFacts DEF IsPromised
<1>4. CASE errs = "nil"
  <2>1. at.dir = Len(dirs) + 1
    BY <1>4 DEF IInv, ErrsTold
  <2>2. \A g : ~ InHand(g)
    BY <1>1, Over DEF InHand
  <2>3. ASSUME NEW k \in DOMAIN dirs
        PROVE  /\ dirs[k].kind # "bad"
               /\ \A j \in DOMAIN dirs[k].files :
                    /\ dirs[k].files[j].read # "error"
                    /\ Kept(dirs[k].files[j]) => dirs[k].files[j].name \in DOMAIN resMap
    <3>1. k < at.dir
      BY <1>1, <2>1, WalkFacts
    <3>2. \A j \in DOMAIN dirs[k].files : Sent(k, j)
      BY <3>1 DEF Sent
    <3>3. QED
      BY <1>1, <2>2, <3>1, <3>2 DEF IInv, ErrsTold, NothingLost
  <2>4. ~ \E k \in DOMAIN dirs : Fails(dirs[k])
    BY <2>3 DEF Fails
  <2>5. \A k \in DOMAIN dirs : \A j \in KeptIn(dirs[k].files) :
          dirs[k].files[j].name \in DOMAIN resMap
    BY <2>3 DEF KeptIn
  <2>6. /\ dirs \in Inputs /\ resMap \in Maps
        /\ \A n \in DOMAIN resMap : OfferedAs(dirs, n, resMap[n])
    BY <1>1 DEF TypeOK, IInv, NothingInvented
  <2>7. Success(resMap) \in Results /\ IsPromised(dirs, Success(resMap))
    BY <2>4, <2>5, <2>6, AllNames
  <2>8. QED
    BY <1>1, <1>2, <1>4, <2>7
<1>5. QED
  BY <1>1, <1>3, <1>4 DEF TypeOK

\* The scan returns once, and what is promised.
LEMMA ReturnsPromised ==
  ASSUME IInv, [Next]_vars
  PROVE  /\ dirs' = dirs
         /\ ret' # ret => ret = NoRet /\ ret' \in Results /\ IsPromised(dirs, ret')
<1>1. CASE \E d \in Digesters : SendResult(d)
  BY <1>1, SendPromised DEF SendResult
<1>2. CASE ReceiveErr
  BY <1>2, ReceivePromised DEF ReceiveErr
<1>3. CASE ~ (\E d \in Digesters : SendResult(d)) /\ ~ ReceiveErr
  BY <1>3 DEF Next, Step, Returned, vars, Walk, SkipDirectory, OpenDirectory, WalkFails,
              LeaveDirectory, WalkEnds, ClosePaths, Digest, ReceivePath, NoMorePaths,
              Abandon, Collect, CloseResults, NoMoreResults, mainVars
<1>4. QED
  BY <1>1, <1>2, <1>3

(***************************************************************************)
(* scanMultiplePL returns what is promised of the scan, once: an error if  *)
(* something cannot be read, and otherwise every name that is offered, by  *)
(* whichever digester and in whichever order.                              *)
(***************************************************************************)
THEOREM Implements == Spec => ScanSpec
<1>1. Init => Promise!Init
  BY DEF Init, Promise!Init
<1>2. IInv /\ [Next]_vars => [Promise!Return]_(Promise!vars)
  BY ReturnsPromised, PromiseFacts DEF Promise!Return, Promise!vars
<1>3. QED
  BY <1>1, <1>2, Invariance, PTL DEF Spec, ScanSpec, Promise!Spec

(***************************************************************************)
(* scanMultiplePL returns what the sequential scan does, when no two files *)
(* offered under one name differ (TestConsistency).                        *)
(***************************************************************************)
THEOREM AgreesWithSequential == Spec => []AgreesWithST
<1> DEFINE AsPromised == ret # NoRet => ret \in Results /\ IsPromised(dirs, ret)
<1>1. Init => AsPromised
  BY DEF Init
<1>2. IInv /\ AsPromised /\ [Next]_vars => AsPromised'
  <2> SUFFICES ASSUME IInv, AsPromised, [Next]_vars, ret' # NoRet
               PROVE  ret' \in Results /\ IsPromised(dirs', ret')
    OBVIOUS
  <2>1. QED
    BY ReturnsPromised
<1>3. IInv /\ AsPromised => AgreesWithST
  <2> SUFFICES ASSUME IInv, AsPromised, ret # NoRet, NoClash(dirs)
               PROVE  ret = ScanST(dirs)
    BY DEF AgreesWithST
  <2>1. dirs \in Inputs
    BY DEF IInv, TypeOK
  <2>2. QED
    BY <2>1, SequentialPromised, PromiseUnique
<1> HIDE DEF AsPromised
<1>4. QED
  BY <1>1, <1>2, <1>3, Invariance, PTL DEF Spec
=============================================================================
