-------------------------- MODULE ConfigFileProofs ---------------------------
(***************************************************************************)
(* Proofs about ConfigFile, for any number of processes, inodes and        *)
(* settings: the inductive invariant IInv, and from it type correctness,   *)
(* NeverBroken, DefaultsOnlyReplaceEmpty and the refinement of ConfigStore. *)
(***************************************************************************)
EXTENDS ConfigFile, TLAPS

\* The defaults are a configuration, and validating one yields a valid one.
LEMMA ConfigFacts ==
  /\ DefaultConfig \in Config
  /\ ~ DefaultConfig.valid
  /\ \A c \in Config : Validate(c) \in Config /\ Validate(c).valid
BY DEF Config, DefaultConfig, Validate

\* The sentinels are not configurations, and differ where the steps compare.
LEMMA SentinelFacts ==
  /\ Missing \notin Config /\ Empty \notin Config /\ Broken \notin Config
  /\ NoConf \notin Config /\ NoFile \notin Config
  /\ Missing # Empty /\ Broken # Missing /\ Broken # Empty
  /\ NoInode \notin Inodes /\ NoProc \notin Procs
BY SentinelAssumption

\* The initial states satisfy the invariant.
LEMMA InitIInv == Init => IInv
BY SentinelFacts DEF Init, IInv, TypeOK, HoldsOwnInode, UntouchedWhileMissing,
   OneInodeWhileEmpty, WritesAllowed, HoldsValidConfig, InLock, Writing

\* A process that opens the lock file leaves the invariant true.
LEMMA OpenIInv ==
  ASSUME IInv, NEW p \in Procs, StartLoad(p) \/ StartSave(p)
  PROVE  IInv'
<1> USE SentinelFacts DEF IInv, TypeOK
<1>1. OpenLock(p)
  BY DEF StartLoad, StartSave
<1>2. path' \in Inodes /\ file' # Missing /\ file' # Broken
  BY <1>1 DEF OpenLock, FreeInodes
<1>3. TypeOK'
  BY <1>1, <1>2 DEF OpenLock, StartLoad, StartSave, FreeInodes
<1>4. ASSUME NEW q \in Procs
      PROVE  HoldsOwnInode(q)' /\ UntouchedWhileMissing(q)' /\ OneInodeWhileEmpty(q)'
             /\ WritesAllowed(q)' /\ HoldsValidConfig(q)'
  <2>1. HoldsOwnInode(q)'
    BY <1>1, <1>2 DEF OpenLock, HoldsOwnInode, InLock
  <2>2. UntouchedWhileMissing(q)'
    BY <1>2 DEF UntouchedWhileMissing
  <2>3. OneInodeWhileEmpty(q)'
    BY <1>1, <1>2 DEF OpenLock, StartLoad, StartSave, OneInodeWhileEmpty,
       UntouchedWhileMissing, HoldsOwnInode
  <2>4. WritesAllowed(q)'
    BY <1>1 DEF OpenLock, StartLoad, StartSave, WritesAllowed, Writing,
       UntouchedWhileMissing
  <2>5. HoldsValidConfig(q)'
    BY <1>1 DEF OpenLock, StartLoad, StartSave, HoldsValidConfig
  <2>6. QED
    BY <2>1, <2>2, <2>3, <2>4, <2>5
<1>5. QED
  BY <1>2, <1>3, <1>4

\* The part of the invariant that every process carries for itself.
ProcInv(q) ==
  /\ HoldsOwnInode(q) /\ UntouchedWhileMissing(q) /\ OneInodeWhileEmpty(q)
  /\ WritesAllowed(q) /\ HoldsValidConfig(q)

\* A process past AcquireLock is the only one past it on its inode.
LEMMA OneHolderPerInode ==
  ASSUME IInv, NEW p \in Procs, NEW q \in Procs,
         InLock(p), InLock(q), fd[p] = fd[q]
  PROVE  p = q
BY DEF IInv, HoldsOwnInode

\* While the file is empty, that makes it the only one past AcquireLock.
LEMMA OneHolderWhileEmpty ==
  ASSUME IInv, file = Empty, NEW p \in Procs, NEW q \in Procs,
         InLock(p), InLock(q)
  PROVE  p = q
<1>1. fd[p] = path /\ fd[q] = path
  BY DEF IInv, HoldsOwnInode, OneInodeWhileEmpty, InLock
<1>2. QED
  BY <1>1, OneHolderPerInode

\* Taking the lock and giving it back only change who owns the inode.
LEMMA LockIInv ==
  ASSUME IInv, NEW p \in Procs, AcquireLock(p) \/ Unlock(p)
  PROVE  IInv'
<1> USE SentinelFacts
<1>1. file' = file /\ path' = path /\ mem' = mem /\ tmp' = tmp /\ out' = out
  BY DEF AcquireLock, Unlock
<1>2. fd[p] \in Inodes
  BY DEF IInv, TypeOK, HoldsOwnInode, AcquireLock, Unlock
<1>3. TypeOK'
  <2>1. CASE AcquireLock(p)
    BY <2>1, <1>2 DEF IInv, TypeOK, AcquireLock
  <2>2. CASE Unlock(p)
    <3>1. pc[p] = "unlock" => mem[p].items \in SUBSET Items
      BY DEF IInv, TypeOK, HoldsValidConfig, Config
    <3>2. saved' \in SUBSET Items
      BY <2>2, <3>1 DEF IInv, TypeOK, Unlock
    <3>3. QED
      BY <2>2, <3>2 DEF IInv, TypeOK, Unlock
  <2>3. QED
    BY <2>1, <2>2
<1>4. ASSUME NEW q \in Procs
      PROVE  ProcInv(q)'
  <2>1. HoldsOwnInode(q)'
    <3>1. CASE AcquireLock(p)
      BY <3>1, <1>2 DEF IInv, TypeOK, AcquireLock, HoldsOwnInode, InLock
    <3>2. CASE Unlock(p)
      <4>1. InLock(p)
        BY <3>2 DEF Unlock, InLock
      <4>2. q # p /\ InLock(q) => fd[q] # fd[p]
        BY <4>1, OneHolderPerInode
      <4>3. QED
        BY <3>2, <1>2, <4>1, <4>2 DEF IInv, TypeOK, Unlock, HoldsOwnInode, InLock
    <3>3. QED
      BY <3>1, <3>2
  <2>2. UntouchedWhileMissing(q)'
    BY <1>1 DEF IInv, TypeOK, UntouchedWhileMissing, AcquireLock, Unlock
  <2>3. OneInodeWhileEmpty(q)'
    BY <1>1 DEF IInv, TypeOK, OneInodeWhileEmpty, AcquireLock, Unlock
  <2>4. WritesAllowed(q)'
    BY <1>1 DEF IInv, TypeOK, WritesAllowed, Writing, AcquireLock, Unlock
  <2>5. HoldsValidConfig(q)'
    BY <1>1 DEF IInv, TypeOK, HoldsValidConfig, AcquireLock, Unlock
  <2>6. QED
    BY <2>1, <2>2, <2>3, <2>4, <2>5 DEF ProcInv
<1>5. QED
  BY <1>1, <1>3, <1>4 DEF IInv, ProcInv

\* What rawRead returned, be it from the file or the defaults it has just put
\* there, leaves the process in a state the invariant allows.
LEMMA GotConfigInv ==
  ASSUME IInv, NEW p \in Procs, NEW c \in Config, GotConfig(p, c)
  PROVE  /\ mem' \in [Procs -> Config \cup {NoConf}]
         /\ out' \in [Procs -> Config \cup {NoConf}]
         /\ pc' \in [Procs -> {"idle", "lock", "stat", "read", "create",
                               "encode", "rename", "unlock", "fail"}]
         /\ mem'[p] # NoConf /\ mem'[p].valid
         /\ pc'[p] \in {"stat", "create", "unlock"}
         /\ pc'[p] = "create" => out'[p] = mem'[p]
         /\ \A q \in Procs \ {p} :
              pc'[q] = pc[q] /\ mem'[q] = mem[q] /\ out'[q] = out[q]
<1> USE SentinelFacts, ConfigFacts DEF IInv, TypeOK
<1>1. CASE mem[p] = NoConf
  BY <1>1 DEF GotConfig
<1>2. CASE mem[p] # NoConf
  BY <1>2 DEF GotConfig, HoldsValidConfig
<1>3. QED
  BY <1>1, <1>2

\* Stat and reading do not touch the file.
LEMMA ReadIInv ==
  ASSUME IInv, NEW p \in Procs, StatFile(p) \/ ReadFile(p)
  PROVE  IInv'
<1> USE SentinelFacts, ConfigFacts
<1>1. UNCHANGED <<path, file, owner, fd, op, tmp, saved>>
  BY DEF StatFile, ReadFile
<1>2. CASE StatFile(p)
  <2>1. TypeOK'
    BY <1>2 DEF IInv, TypeOK, StatFile
  <2>2. ASSUME NEW q \in Procs
        PROVE  ProcInv(q)'
    <3>1. HoldsOwnInode(q)' /\ UntouchedWhileMissing(q)' /\ HoldsValidConfig(q)'
      BY <1>2 DEF IInv, TypeOK, StatFile, HoldsOwnInode, InLock,
         UntouchedWhileMissing, HoldsValidConfig
    <3>2. OneInodeWhileEmpty(q)'
      BY <1>2 DEF IInv, TypeOK, StatFile, OneInodeWhileEmpty
    <3>3. WritesAllowed(q)'
      BY <1>2 DEF IInv, TypeOK, StatFile, WritesAllowed, Writing,
         OneInodeWhileEmpty
    <3>4. QED
      BY <3>1, <3>2, <3>3 DEF ProcInv
  <2>3. QED
    BY <1>1, <2>1, <2>2 DEF IInv, ProcInv
<1>3. CASE ReadFile(p)
  <2>1. file \in Config /\ GotConfig(p, file) /\ pc[p] = "read"
    BY <1>3 DEF ReadFile
  <2>2. TypeOK'
    BY <1>1, <2>1, GotConfigInv DEF IInv, TypeOK
  <2>3. ASSUME NEW q \in Procs
        PROVE  ProcInv(q)'
    <3>1. CASE q = p
      BY <3>1, <1>1, <2>1, GotConfigInv DEF ProcInv, IInv, HoldsOwnInode, InLock,
         UntouchedWhileMissing, OneInodeWhileEmpty, WritesAllowed, Writing,
         HoldsValidConfig
    <3>2. CASE q # p
      BY <3>2, <1>1, <2>1, GotConfigInv DEF ProcInv, IInv, HoldsOwnInode, InLock,
         UntouchedWhileMissing, OneInodeWhileEmpty, WritesAllowed, Writing,
         HoldsValidConfig
    <3>3. QED
      BY <3>1, <3>2
  <2>4. QED
    BY <1>1, <2>2, <2>3 DEF IInv, ProcInv
<1>4. QED
  BY <1>2, <1>3

\* Filling the temporary file does not touch the file either.
LEMMA TempIInv ==
  ASSUME IInv, NEW p \in Procs, CreateTemp(p) \/ EncodeTemp(p)
  PROVE  IInv'
<1> USE SentinelFacts
<1>1. UNCHANGED <<path, file, owner, fd, op, out, mem, saved>>
  BY DEF CreateTemp, EncodeTemp
<1>2. pc[p] \in {"create", "encode"} /\ pc' \in {[pc EXCEPT ![p] = "encode"], [pc EXCEPT ![p] = "rename"]}
  BY DEF CreateTemp, EncodeTemp
<1>3. out[p] \in Config
  BY <1>2, ConfigFacts DEF IInv, TypeOK, WritesAllowed, Writing
<1>4. TypeOK'
  BY <1>1, <1>2, <1>3 DEF IInv, TypeOK, CreateTemp, EncodeTemp
<1>5. ASSUME NEW q \in Procs
      PROVE  ProcInv(q)'
  <2>1. HoldsOwnInode(q)' /\ UntouchedWhileMissing(q)' /\ HoldsValidConfig(q)'
    BY <1>1, <1>2 DEF IInv, TypeOK, HoldsOwnInode, InLock,
       UntouchedWhileMissing, HoldsValidConfig
  <2>2. OneInodeWhileEmpty(q)'
    BY <1>1, <1>2 DEF IInv, TypeOK, OneInodeWhileEmpty
  <2>3. WritesAllowed(q)'
    BY <1>1, <1>2 DEF IInv, TypeOK, WritesAllowed, Writing, CreateTemp, EncodeTemp
  <2>4. QED
    BY <2>1, <2>2, <2>3 DEF ProcInv
<1>6. QED
  BY <1>1, <1>4, <1>5 DEF IInv, ProcInv

\* A rename of the defaults finds the file empty and its process alone past
\* the lock; any other rename finds, and leaves, a complete configuration.
LEMMA RenameCases ==
  ASSUME IInv, NEW p \in Procs, RenameTemp(p)
  PROVE  \/ /\ file = Empty /\ file' = DefaultConfig /\ mem[p] = NoConf
            /\ GotConfig(p, DefaultConfig)
            /\ \A q \in Procs \ {p} : ~ InLock(q)
         \/ /\ file \in Config /\ file' = mem[p] /\ mem[p] \in Config
            /\ mem' = mem /\ pc' = [pc EXCEPT ![p] = "unlock"]
            /\ out' = [out EXCEPT ![p] = NoConf]
<1> USE SentinelFacts, ConfigFacts
<1>1. Writing(p) /\ InLock(p) /\ file' = tmp[p] /\ tmp[p] = out[p]
  BY DEF RenameTemp, Writing, InLock, IInv, WritesAllowed
<1>2. CASE file = Empty /\ out[p] = DefaultConfig /\ mem[p] = NoConf
  <2>1. \A q \in Procs \ {p} : ~ InLock(q)
    BY <1>1, <1>2, OneHolderWhileEmpty
  <2>2. QED
    BY <1>1, <1>2, <2>1 DEF RenameTemp
<1>3. CASE file \in Config /\ out[p] = mem[p] /\ mem[p] # NoConf
  <2>1. mem[p] \in Config /\ out[p] # DefaultConfig
    BY <1>3 DEF IInv, TypeOK, HoldsValidConfig
  <2>2. QED
    BY <1>1, <1>3, <2>1 DEF RenameTemp
<1>4. QED
  BY <1>1, <1>2, <1>3 DEF IInv, WritesAllowed

LEMMA RenameIInv ==
  ASSUME IInv, NEW p \in Procs, RenameTemp(p)
  PROVE  IInv'
<1> USE SentinelFacts, ConfigFacts
<1>1. /\ UNCHANGED <<owner, fd, op, saved>> /\ pc[p] = "rename"
      /\ path' \in Inodes /\ tmp' = [tmp EXCEPT ![p] = NoFile]
  BY DEF RenameTemp, FreeInodes
<1>2. file' \in Config
  BY RenameCases
<1>3. CASE /\ file = Empty /\ file' = DefaultConfig /\ mem[p] = NoConf
           /\ GotConfig(p, DefaultConfig)
           /\ \A q \in Procs \ {p} : ~ InLock(q)
  <2>1. TypeOK'
    BY <1>1, <1>2, <1>3, GotConfigInv DEF IInv, TypeOK
  <2>2. ASSUME NEW q \in Procs
        PROVE  ProcInv(q)'
    <3>1. CASE q = p
      BY <3>1, <1>1, <1>2, <1>3, GotConfigInv DEF ProcInv, IInv, HoldsOwnInode,
         InLock, UntouchedWhileMissing, OneInodeWhileEmpty, WritesAllowed, Writing,
         HoldsValidConfig
    <3>2. CASE q # p
      BY <3>2, <1>1, <1>2, <1>3, GotConfigInv DEF ProcInv, IInv, HoldsOwnInode,
         InLock, UntouchedWhileMissing, OneInodeWhileEmpty, WritesAllowed, Writing,
         HoldsValidConfig
    <3>3. QED
      BY <3>1, <3>2
  <2>3. QED
    BY <1>1, <1>2, <2>1, <2>2 DEF IInv, ProcInv
<1>4. CASE /\ file \in Config /\ file' = mem[p] /\ mem[p] \in Config
           /\ mem' = mem /\ pc' = [pc EXCEPT ![p] = "unlock"]
           /\ out' = [out EXCEPT ![p] = NoConf]
  <2>1. TypeOK'
    BY <1>1, <1>2, <1>4 DEF IInv, TypeOK
  <2>2. ASSUME NEW q \in Procs
        PROVE  ProcInv(q)'
    BY <1>1, <1>2, <1>4 DEF ProcInv, IInv, TypeOK, HoldsOwnInode, InLock,
       UntouchedWhileMissing, OneInodeWhileEmpty, WritesAllowed, Writing,
       HoldsValidConfig
  <2>3. QED
    BY <1>1, <1>2, <2>1, <2>2 DEF IInv, ProcInv
<1>5. QED
  BY <1>3, <1>4, RenameCases

\* An error only changes what the process will do next.
LEMMA FailIInv ==
  ASSUME IInv, NEW p \in Procs, ReadFails(p) \/ WriteFails(p)
  PROVE  IInv'
<1> USE SentinelFacts
<1>1. Fails(p) /\ InLock(p)
  BY DEF ReadFails, WriteFails, InLock
<1>2. UNCHANGED <<path, file, owner, fd, op, saved>>
  BY <1>1 DEF Fails
<1>3. TypeOK'
  BY <1>1 DEF IInv, TypeOK, Fails
<1>4. ASSUME NEW q \in Procs
      PROVE  ProcInv(q)'
  BY <1>1, <1>2 DEF Fails, ProcInv, IInv, TypeOK, HoldsOwnInode, InLock,
     UntouchedWhileMissing, OneInodeWhileEmpty, WritesAllowed, Writing,
     HoldsValidConfig
<1>5. QED
  BY <1>2, <1>3, <1>4 DEF IInv, ProcInv

\* So do the callers, and a crash.
LEMMA AmendIInv ==
  ASSUME IInv, NEW p \in Procs, Amend(p)
  PROVE  IInv'
<1> USE SentinelFacts
<1>1. PICK i \in Items : mem' = [mem EXCEPT ![p] =
          [valid |-> mem[p].valid, items |-> mem[p].items \cup {i}]]
  BY DEF Amend
<1>2. /\ UNCHANGED <<path, file, owner, fd, pc, op, tmp, out, saved>>
      /\ pc[p] = "idle" /\ mem[p] \in Config
  BY DEF Amend, IInv, TypeOK
<1>3. mem'[p] \in Config /\ mem'[p].valid = mem[p].valid
  BY <1>1, <1>2 DEF Config, IInv, TypeOK
<1>4. TypeOK'
  BY <1>1, <1>2, <1>3 DEF IInv, TypeOK
<1>5. ASSUME NEW q \in Procs
      PROVE  ProcInv(q)'
  <2>1. CASE q = p
    BY <2>1, <1>2, <1>3 DEF ProcInv, IInv, HoldsOwnInode, InLock,
       UntouchedWhileMissing, OneInodeWhileEmpty, WritesAllowed, Writing,
       HoldsValidConfig
  <2>2. CASE q # p
    BY <2>2, <1>1, <1>2 DEF ProcInv, IInv, TypeOK, HoldsOwnInode, InLock,
       UntouchedWhileMissing, OneInodeWhileEmpty, WritesAllowed, Writing,
       HoldsValidConfig
  <2>3. QED
    BY <2>1, <2>2
<1>6. QED
  BY <1>2, <1>4, <1>5 DEF IInv, ProcInv

LEMMA CrashIInv ==
  ASSUME IInv, NEW p \in Procs, Crash(p)
  PROVE  IInv'
<1> USE SentinelFacts
<1>1. TypeOK'
  BY DEF Crash, IInv, TypeOK
<1>2. ASSUME NEW q \in Procs
      PROVE  ProcInv(q)'
  BY DEF Crash, ProcInv, IInv, TypeOK, HoldsOwnInode, InLock,
     UntouchedWhileMissing, OneInodeWhileEmpty, WritesAllowed, Writing,
     HoldsValidConfig
<1>3. QED
  BY <1>1, <1>2 DEF Crash, IInv, ProcInv

\* Every step keeps the invariant.
LEMMA NextIInv == IInv /\ [Next]_vars => IInv'
<1> SUFFICES ASSUME IInv, [Next]_vars
             PROVE  IInv'
  OBVIOUS
<1>1. ASSUME NEW p \in Procs, Step(p)
      PROVE  IInv'
  BY <1>1, OpenIInv, LockIInv, ReadIInv, TempIInv, RenameIInv, FailIInv, AmendIInv,
     CrashIInv DEF Step, InCall
<1>2. CASE UNCHANGED vars
  BY <1>2 DEF vars, IInv, TypeOK, HoldsOwnInode, InLock, UntouchedWhileMissing,
     OneInodeWhileEmpty, WritesAllowed, Writing, HoldsValidConfig
<1>3. QED
  BY <1>1, <1>2 DEF Next

-----------------------------------------------------------------------------

(***************************************************************************)
(* IInv holds in every reachable state: mutual exclusion on each inode,    *)
(* and on the file for as long as it is empty.                             *)
(***************************************************************************)
THEOREM Invariance == Spec => []IInv
BY InitIInv, NextIInv, PTL DEF Spec

\* The variables keep their types.
THEOREM TypeCorrect == Spec => []TypeOK
<1>1. IInv => TypeOK
  BY DEF IInv
<1>2. QED
  BY <1>1, Invariance, PTL

(***************************************************************************)
(* No reader ever finds a half-written file, with any number of processes, *)
(* whatever they write at the same time and wherever they crash.           *)
(***************************************************************************)
THEOREM NeverBrokenHolds == Spec => []NeverBroken
<1>1. IInv => NeverBroken
  BY DEF IInv, TypeOK, NeverBroken
<1>2. QED
  BY <1>1, Invariance, PTL

\* The file changes only when it is created or renamed over.
LEMMA FileChanges ==
  ASSUME IInv, [Next]_vars, file' # file
  PROVE  \/ file = Missing /\ file' = Empty
         \/ \E p \in Procs : RenameTemp(p)
BY DEF Next, Step, InCall, vars, StartLoad, StartSave, OpenLock, AcquireLock, StatFile,
   ReadFile, ReadFails, CreateTemp, EncodeTemp, WriteFails, Fails, Unlock, Amend, Crash

(***************************************************************************)
(* The defaults never overwrite a configuration, although two processes    *)
(* can be past the lock at the same time.                                  *)
(***************************************************************************)
THEOREM DefaultsAreSafe == Spec => DefaultsOnlyReplaceEmpty
<1>1. IInv /\ [Next]_vars
        => [file' = DefaultConfig /\ file # DefaultConfig => file = Empty]_vars
  <2> SUFFICES ASSUME IInv, [Next]_vars, file' = DefaultConfig, file # DefaultConfig
               PROVE  file = Empty
    OBVIOUS
  <2>1. PICK p \in Procs : RenameTemp(p)
    BY FileChanges, SentinelFacts, ConfigFacts
  <2>2. mem[p] \in Config => file' # mem[p]
    BY ConfigFacts, SentinelFacts DEF IInv, HoldsValidConfig
  <2>3. QED
    BY <2>1, <2>2, RenameCases
<1>2. QED
  BY <1>1, Invariance, PTL DEF Spec, DefaultsOnlyReplaceEmpty

\* Both modules have the same configurations, defaults and validation.
LEMMA SameConfigs ==
  /\ Store!Config = Config /\ Store!DefaultConfig = DefaultConfig
  /\ \A c : Store!Validate(c) = Validate(c)
BY DEF Store!Config, Config, Store!DefaultConfig, DefaultConfig, Store!Validate,
   Validate

\* Opening the lock file creates the store, or leaves it alone but for the
\* *Config a load starts without.
LEMMA OpenImplements ==
  ASSUME IInv, NEW p \in Procs, StartLoad(p) \/ StartSave(p)
  PROVE  [Store!Next]_Store!vars
<1> USE SentinelFacts
<1>1. CASE file = Missing
  <2>1. mem[p] = NoConf
    BY <1>1 DEF IInv, UntouchedWhileMissing
  <2>2. mem' = mem
    BY <2>1 DEF IInv, TypeOK, StartLoad, StartSave
  <2>3. Store!Create
    BY <1>1, <2>2 DEF Store!Create, StartLoad, StartSave, OpenLock
  <2>4. QED
    BY <2>3 DEF Store!Next
<1>2. CASE file # Missing
  <2>1. file' = file
    BY <1>2 DEF StartLoad, StartSave, OpenLock
  <2>2. CASE StartLoad(p)
    BY <2>1, <2>2 DEF StartLoad, Store!Forget, Store!Next
  <2>3. CASE StartSave(p)
    BY <2>1, <2>3 DEF StartSave, Store!vars
  <2>4. QED
    BY <2>2, <2>3
<1>3. QED
  BY <1>1, <1>2

\* The first read of a call is a snapshot; the second one is not seen.
LEMMA ReadImplements ==
  ASSUME IInv, NEW p \in Procs, ReadFile(p)
  PROVE  [Store!Next]_Store!vars
<1>1. CASE mem[p] = NoConf
  <2>1. Store!Snapshot(p)
    BY <1>1, SameConfigs DEF Store!Snapshot, ReadFile, GotConfig
  <2>2. QED
    BY <2>1 DEF Store!Next
<1>2. CASE mem[p] # NoConf
  BY <1>2 DEF ReadFile, GotConfig, Store!vars
<1>3. QED
  BY <1>1, <1>2

\* A rename writes the defaults over an empty file, or replaces the file by
\* what the process holds in memory, whoever else is past the lock.
LEMMA RenameImplements ==
  ASSUME IInv, NEW p \in Procs, RenameTemp(p)
  PROVE  [Store!Next]_Store!vars
<1>1. CASE /\ file = Empty /\ file' = DefaultConfig /\ mem[p] = NoConf
           /\ GotConfig(p, DefaultConfig)
  <2>1. Store!WriteDefaults(p)
    BY <1>1, SameConfigs DEF Store!WriteDefaults, GotConfig
  <2>2. QED
    BY <2>1 DEF Store!Next
<1>2. CASE file \in Config /\ file' = mem[p] /\ mem[p] \in Config /\ mem' = mem
  <2>1. Store!Replace(p)
    BY <1>2, SameConfigs DEF Store!Replace
  <2>2. QED
    BY <2>1 DEF Store!Next
<1>3. QED
  BY <1>1, <1>2, RenameCases

\* An error makes a load forget its *Config, and a crash any process.
LEMMA FailImplements ==
  ASSUME NEW p \in Procs, Fails(p) \/ Crash(p)
  PROVE  [Store!Next]_Store!vars
<1>1. \/ UNCHANGED <<file, mem>>
      \/ UNCHANGED file /\ mem' = [mem EXCEPT ![p] = NoConf]
  BY DEF Fails, Crash
<1>2. QED
  BY <1>1 DEF Store!Forget, Store!Next, Store!vars

\* A setting added to the copy in memory.
LEMMA AmendImplements ==
  ASSUME IInv, NEW p \in Procs, Amend(p)
  PROVE  [Store!Next]_Store!vars
<1>1. mem[p] \in Config /\ UNCHANGED file
  BY DEF Amend, IInv, TypeOK
<1>2. PICK i \in Items : mem' = [mem EXCEPT ![p] =
          [valid |-> mem[p].valid, items |-> mem[p].items \cup {i}]]
  BY DEF Amend
<1>3. Store!Amend(p)
  BY <1>1, <1>2, SameConfigs DEF Store!Amend
<1>4. QED
  BY <1>3 DEF Store!Next

(***************************************************************************)
(* Processes past the lock on different inodes, crashes and failed writes  *)
(* notwithstanding, what the rest of the program sees of the config        *)
(* package is ConfigStore: atomic snapshots and whole-file replacements.   *)
(***************************************************************************)
THEOREM Implements == Spec => StoreSpec
<1>1. Init => Store!Init
  BY DEF Init, Store!Init
<1>2. IInv /\ [Next]_vars => [Store!Next]_Store!vars
  <2> SUFFICES ASSUME IInv, [Next]_vars
               PROVE  [Store!Next]_Store!vars
    OBVIOUS
  <2>1. CASE UNCHANGED vars
    BY <2>1 DEF vars, Store!vars
  <2>2. ASSUME NEW p \in Procs, Step(p)
        PROVE  [Store!Next]_Store!vars
    <3>1. CASE StartLoad(p) \/ StartSave(p)
      BY <3>1, OpenImplements
    <3>2. CASE AcquireLock(p) \/ StatFile(p) \/ CreateTemp(p) \/ EncodeTemp(p) \/ Unlock(p)
      BY <3>2 DEF AcquireLock, StatFile, CreateTemp, EncodeTemp, Unlock, Store!vars
    <3>3. CASE ReadFile(p)
      BY <3>3, ReadImplements
    <3>4. CASE RenameTemp(p)
      BY <3>4, RenameImplements
    <3>5. CASE ReadFails(p) \/ WriteFails(p) \/ Crash(p)
      BY <3>5, FailImplements DEF ReadFails, WriteFails
    <3>6. CASE Amend(p)
      BY <3>6, AmendImplements
    <3>7. QED
      BY <2>2, <3>1, <3>2, <3>3, <3>4, <3>5, <3>6 DEF Step, InCall
  <2>3. QED
    BY <2>1, <2>2 DEF Next
<1>3. QED
  BY <1>1, <1>2, Invariance, PTL DEF Spec, StoreSpec, Store!Spec
=============================================================================
