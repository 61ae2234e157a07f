----------------------------- MODULE ConfigFile ------------------------------
(***************************************************************************)
(* config/config.go: the configuration file shared by every process of     *)
(* glauncher, its advisory lock, and the temporary file + rename by which  *)
(* it is rewritten.  One step is one system call on shared state.          *)
(*                                                                         *)
(* The lock (github.com/gofrs/flock) is flock(2) on the configuration file *)
(* itself: it belongs to the inode the path named when it was opened.      *)
(* rawSave renames another inode over that path, so the state says which   *)
(* inode is at the path and which one each process has open.  What an      *)
(* inode holds once it is not at the path anymore is never read again, and *)
(* a temporary file is private until it is renamed: the content of the     *)
(* file at the path, and of each temporary file, is all that is kept.      *)
(***************************************************************************)
EXTENDS FiniteSets

CONSTANTS
  Procs,     \* processes of glauncher: f, glauncher_cli, the remote server
  Inodes,    \* inodes of the file system
  Items,     \* settings the providers and remotes put in the configuration
  Missing,   \* there is no file at the config path
  Empty,     \* a file of size 0
  Broken,    \* a file whose bytes do not decode to a Config
  NoConf,    \* a nil *Config
  NoInode,   \* no file, no open file
  NoFile,    \* no temporary file
  NoProc     \* nobody holds the lock

VARIABLES
  path,      \* the inode the config path names
  file,      \* what that inode holds
  owner,     \* owner[i]: the process that holds flock(2) on inode i
  fd,        \* fd[p]: the inode p opened for its lock
  pc,        \* pc[p]: the next system call of p
  op,        \* op[p]: the exported method p is executing
  tmp,       \* tmp[p]: what the temporary file of p holds
  out,       \* out[p]: the receiver of rawSave
  mem,       \* mem[p]: the *Config p works with
  saved      \* settings of the configurations Save() returned nil for

vars == <<path, file, owner, fd, pc, op, tmp, out, mem, saved>>

\* A Config, reduced to what the properties tell apart: whether validate()
\* has filled its defaults in, and which settings it holds.
Config == [valid : BOOLEAN, items : SUBSET Items]

ASSUME SentinelAssumption ==
  /\ {Missing, Empty, Broken, NoConf, NoFile} \cap Config = {}
  /\ Missing # Empty /\ Broken \notin {Missing, Empty}
  /\ NoInode \notin Inodes
  /\ NoProc \notin Procs

DefaultConfig == [valid |-> FALSE, items |-> {}]

Validate(c) == [valid |-> TRUE, items |-> c.items]

\* The inodes a new file may get: not at the path, and not open.
FreeInodes == {i \in Inodes \ {path} : \A p \in Procs : fd[p] # i}

-----------------------------------------------------------------------------

Init ==
  /\ path = NoInode
  /\ file = Missing
  /\ owner = [i \in Inodes |-> NoProc]
  /\ fd = [p \in Procs |-> NoInode]
  /\ pc = [p \in Procs |-> "idle"]
  /\ op = [p \in Procs |-> "none"]
  /\ tmp = [p \in Procs |-> NoFile]
  /\ out = [p \in Procs |-> NoConf]
  /\ mem = [p \in Procs |-> NoConf]
  /\ saved = {}

(***************************************************************************)
(* lock(): open the path, creating an empty file if there is none, then    *)
(* wait for flock(2) on the inode that was opened.                         *)
(***************************************************************************)
OpenLock(p) ==
  /\ pc[p] = "idle"
  /\ pc' = [pc EXCEPT ![p] = "lock"]
  /\ IF file = Missing
     THEN path' \in FreeInodes /\ file' = Empty
     ELSE UNCHANGED <<path, file>>
  /\ fd' = [fd EXCEPT ![p] = path']
  /\ UNCHANGED <<owner, tmp, out, saved>>

StartLoad(p) ==
  /\ OpenLock(p)
  /\ op' = [op EXCEPT ![p] = "load"]
  /\ mem' = [mem EXCEPT ![p] = NoConf]

StartSave(p) ==
  /\ mem[p] # NoConf
  /\ OpenLock(p)
  /\ op' = [op EXCEPT ![p] = "save"]
  /\ UNCHANGED mem

\* Variant: a shared lock, or none at all.
AcquireSharedLock(p) ==
  /\ pc[p] = "lock"
  /\ owner' = [owner EXCEPT ![fd[p]] = p]
  /\ pc' = [pc EXCEPT ![p] = "stat"]
  /\ UNCHANGED <<path, file, fd, op, tmp, out, mem, saved>>

AcquireLock(p) ==
  /\ pc[p] = "lock"
  /\ owner[fd[p]] = NoProc
  /\ owner' = [owner EXCEPT ![fd[p]] = p]
  /\ pc' = [pc EXCEPT ![p] = "stat"]
  /\ UNCHANGED <<path, file, fd, op, tmp, out, mem, saved>>

(***************************************************************************)
(* rawRead(): called for the Config that LoadConfigAt returns (mem[p] is   *)
(* still nil) and again, by saveIfChanged, for the latest one.             *)
(***************************************************************************)
StatFile(p) ==
  /\ pc[p] = "stat"
  /\ file # Missing
  /\ IF file = Empty
     THEN /\ out' = [out EXCEPT ![p] = DefaultConfig]
          /\ pc' = [pc EXCEPT ![p] = "create"]
     ELSE /\ pc' = [pc EXCEPT ![p] = "read"]
          /\ UNCHANGED out
  /\ UNCHANGED <<path, file, owner, fd, op, tmp, mem, saved>>

\* Variant: LoadConfigAt returns what it read without validate().
GotUnvalidatedConfig(p, c) ==
  IF mem[p] = NoConf
  THEN /\ mem' = [mem EXCEPT ![p] = c]
       /\ out' = [out EXCEPT ![p] = NoConf]
       /\ pc' = [pc EXCEPT ![p] = "stat"]
  ELSE /\ UNCHANGED mem
       /\ out' = [out EXCEPT ![p] = IF c = mem[p] THEN NoConf ELSE mem[p]]
       /\ pc' = [pc EXCEPT ![p] = IF c = mem[p] THEN "unlock" ELSE "create"]

\* Variant: LoadConfigAt calls Save(), which locks the file once more.
GotConfigThenSave(p, c) ==
  IF mem[p] = NoConf
  THEN /\ mem' = [mem EXCEPT ![p] = Validate(c)]
       /\ out' = [out EXCEPT ![p] = NoConf]
       /\ pc' = [pc EXCEPT ![p] = "lock"]
  ELSE /\ UNCHANGED mem
       /\ out' = [out EXCEPT ![p] = IF c = mem[p] THEN NoConf ELSE mem[p]]
       /\ pc' = [pc EXCEPT ![p] = IF c = mem[p] THEN "unlock" ELSE "create"]

\* Variant: the comparison of saveIfChanged is the wrong way round.
GotConfigSaveIfEqual(p, c) ==
  IF mem[p] = NoConf
  THEN /\ mem' = [mem EXCEPT ![p] = Validate(c)]
       /\ out' = [out EXCEPT ![p] = NoConf]
       /\ pc' = [pc EXCEPT ![p] = "stat"]
  ELSE /\ UNCHANGED mem
       /\ out' = [out EXCEPT ![p] = IF c # mem[p] THEN NoConf ELSE mem[p]]
       /\ pc' = [pc EXCEPT ![p] = IF c # mem[p] THEN "unlock" ELSE "create"]

\* Variant: no comparison, the file is rewritten each time.
GotConfigSaveAlways(p, c) ==
  IF mem[p] = NoConf
  THEN /\ mem' = [mem EXCEPT ![p] = Validate(c)]
       /\ out' = [out EXCEPT ![p] = NoConf]
       /\ pc' = [pc EXCEPT ![p] = "stat"]
  ELSE /\ UNCHANGED mem
       /\ out' = [out EXCEPT ![p] = mem[p]]
       /\ pc' = [pc EXCEPT ![p] = "create"]

\* rawRead returned c.  The first time, LoadConfigAt validates it and enters
\* saveIfChanged, which reads again; the second time, c is the latest
\* configuration, and the file is rewritten only if it differs from ours.
GotConfig(p, c) ==
  IF mem[p] = NoConf
  THEN /\ mem' = [mem EXCEPT ![p] = Validate(c)]
       /\ out' = [out EXCEPT ![p] = NoConf]
       /\ pc' = [pc EXCEPT ![p] = "stat"]
  ELSE /\ UNCHANGED mem
       /\ out' = [out EXCEPT ![p] = IF c = mem[p] THEN NoConf ELSE mem[p]]
       /\ pc' = [pc EXCEPT ![p] = IF c = mem[p] THEN "unlock" ELSE "create"]

\* Variant: the error is dropped and the method returns nil.
FailsSilently(p) ==
  /\ pc' = [pc EXCEPT ![p] = "unlock"]
  /\ out' = [out EXCEPT ![p] = NoConf]
  /\ tmp' = [tmp EXCEPT ![p] = NoFile]
  /\ UNCHANGED <<path, file, owner, fd, op, mem, saved>>

\* Every error inside the lock makes the exported method return it.
Fails(p) ==
  /\ pc' = [pc EXCEPT ![p] = "fail"]
  /\ out' = [out EXCEPT ![p] = NoConf]
  /\ tmp' = [tmp EXCEPT ![p] = NoFile]
  /\ mem' = IF op[p] = "load" THEN [mem EXCEPT ![p] = NoConf] ELSE mem
  /\ UNCHANGED <<path, file, owner, fd, op, saved>>

\* Variant: the error of Decode is ignored.
ReadFileIgnoringErrors(p) ==
  /\ pc[p] = "read"
  /\ file # Missing
  /\ GotConfig(p, IF file \in Config THEN file ELSE DefaultConfig)
  /\ UNCHANGED <<path, file, owner, fd, op, tmp, saved>>

ReadFile(p) ==
  /\ pc[p] = "read"
  /\ file \in Config
  /\ GotConfig(p, file)
  /\ UNCHANGED <<path, file, owner, fd, op, tmp, saved>>

\* Stat, Open or Decode fails: always, if the file is gone or is not the JSON
\* encoding of a Config, and at any time for reasons of the system.
ReadFails(p) ==
  /\ pc[p] \in {"stat", "read"}
  /\ Fails(p)

(***************************************************************************)
(* rawSave(): encode into a temporary file, rename it over the path.       *)
(***************************************************************************)
\* Variant: the file at the config path is truncated and written in place.
CreateInPlace(p) ==
  /\ pc[p] = "create"
  /\ file' = Broken
  /\ tmp' = [tmp EXCEPT ![p] = Broken]
  /\ pc' = [pc EXCEPT ![p] = "encode"]
  /\ UNCHANGED <<path, owner, fd, op, out, mem, saved>>

CreateTemp(p) ==
  /\ pc[p] = "create"
  /\ tmp' = [tmp EXCEPT ![p] = Broken]
  /\ pc' = [pc EXCEPT ![p] = "encode"]
  /\ UNCHANGED <<path, file, owner, fd, op, out, mem, saved>>

\* Variant: the temporary file is removed before it is renamed.
EncodeAndRemove(p) ==
  /\ pc[p] = "encode"
  /\ tmp' = [tmp EXCEPT ![p] = NoFile]
  /\ pc' = [pc EXCEPT ![p] = "rename"]
  /\ UNCHANGED <<path, file, owner, fd, op, out, mem, saved>>

EncodeTemp(p) ==
  /\ pc[p] = "encode"
  /\ tmp' = [tmp EXCEPT ![p] = out[p]]
  /\ pc' = [pc EXCEPT ![p] = "rename"]
  /\ UNCHANGED <<path, file, owner, fd, op, out, mem, saved>>

\* The defaults were written on behalf of readConfigAt, which returns them;
\* anything else is the last write of saveIfChanged.
RenameTemp(p) ==
  /\ pc[p] = "rename"
  /\ path' \in FreeInodes
  /\ file' = tmp[p]
  /\ tmp' = [tmp EXCEPT ![p] = NoFile]
  /\ IF out[p] = DefaultConfig
     THEN GotConfig(p, DefaultConfig)
     ELSE /\ out' = [out EXCEPT ![p] = NoConf]
          /\ pc' = [pc EXCEPT ![p] = "unlock"]
          /\ UNCHANGED mem
  /\ UNCHANGED <<owner, fd, op, saved>>

\* The disk is full, the temporary directory is on another file system, ...
\* The deferred function removes the temporary file.
WriteFails(p) ==
  /\ pc[p] \in {"create", "encode", "rename"}
  /\ Fails(p)

(***************************************************************************)
(* The deferred Unlock() and the return of the exported method.            *)
(***************************************************************************)
Unlock(p) ==
  /\ pc[p] \in {"unlock", "fail"}
  /\ owner' = [owner EXCEPT ![fd[p]] = NoProc]
  /\ fd' = [fd EXCEPT ![p] = NoInode]
  /\ op' = [op EXCEPT ![p] = "none"]
  /\ pc' = [pc EXCEPT ![p] = "idle"]
  /\ saved' = IF op[p] = "save" /\ pc[p] = "unlock"
              THEN saved \cup mem[p].items ELSE saved
  /\ UNCHANGED <<path, file, tmp, out, mem>>

(***************************************************************************)
(* The callers and the environment.                                        *)
(***************************************************************************)

\* A provider, a remote or the CLI puts a setting in its copy.
Amend(p) ==
  /\ pc[p] = "idle"
  /\ mem[p] # NoConf
  /\ \E i \in Items \ mem[p].items :
       mem' = [mem EXCEPT ![p] =
                 [valid |-> @.valid, items |-> @.items \cup {i}]]
  /\ UNCHANGED <<path, file, owner, fd, pc, op, tmp, out, saved>>

\* The process dies or exits: the kernel closes its files, which releases the
\* lock; a temporary file, if any, stays behind in the temporary directory.
Crash(p) ==
  /\ owner' = [i \in Inodes |-> IF owner[i] = p THEN NoProc ELSE owner[i]]
  /\ fd' = [fd EXCEPT ![p] = NoInode]
  /\ pc' = [pc EXCEPT ![p] = "idle"]
  /\ op' = [op EXCEPT ![p] = "none"]
  /\ tmp' = [tmp EXCEPT ![p] = NoFile]
  /\ out' = [out EXCEPT ![p] = NoConf]
  /\ mem' = [mem EXCEPT ![p] = NoConf]
  /\ UNCHANGED <<path, file, saved>>

-----------------------------------------------------------------------------

\* The steps of p inside LoadConfigAt or Save, once it has opened the file.
InCall(p) ==
  \/ AcquireLock(p) \/ StatFile(p) \/ ReadFile(p) \/ ReadFails(p)
  \/ CreateTemp(p) \/ EncodeTemp(p) \/ RenameTemp(p) \/ WriteFails(p)
  \/ Unlock(p)

Step(p) == StartLoad(p) \/ StartSave(p) \/ InCall(p) \/ Amend(p) \/ Crash(p)

Next == \E p \in Procs : Step(p)

Spec == Init /\ [][Next]_vars

\* A process that is not blocked goes on with its call, and the kernel does
\* not starve a process that waits for the lock.
Fairness ==
  \A p \in Procs : WF_vars(InCall(p)) /\ SF_vars(AcquireLock(p))

-----------------------------------------------------------------------------

TypeOK ==
  /\ path \in Inodes \cup {NoInode}
  /\ file \in Config \cup {Missing, Empty, Broken}
  /\ owner \in [Inodes -> Procs \cup {NoProc}]
  /\ fd \in [Procs -> Inodes \cup {NoInode}]
  /\ pc \in [Procs -> {"idle", "lock", "stat", "read", "create", "encode",
                       "rename", "unlock", "fail"}]
  /\ op \in [Procs -> {"none", "load", "save"}]
  /\ tmp \in [Procs -> Config \cup {NoFile, Broken}]
  /\ out \in [Procs -> Config \cup {NoConf}]
  /\ mem \in [Procs -> Config \cup {NoConf}]
  /\ saved \in SUBSET Items

(***************************************************************************)
(* Why the defaults are safe although the lock does not exclude processes  *)
(* from each other: as long as the file is empty, its first inode is the   *)
(* only one anybody has opened, so for that long the lock does exclude.    *)
(* Later, all a process can do to the file is replace one complete         *)
(* configuration by another.                                               *)
(***************************************************************************)
InLock(p) == pc[p] \notin {"idle", "lock"}

Writing(p) == pc[p] \in {"create", "encode", "rename"}

HoldsOwnInode(p) ==
  /\ pc[p] = "idle" <=> fd[p] = NoInode
  /\ InLock(p) => owner[fd[p]] = p

UntouchedWhileMissing(p) ==
  file = Missing => pc[p] = "idle" /\ mem[p] = NoConf

OneInodeWhileEmpty(p) ==
  file = Empty =>
    /\ fd[p] \in {NoInode, path}
    /\ mem[p] = NoConf
    /\ pc[p] \notin {"read", "unlock"}

WritesAllowed(p) ==
  /\ pc[p] = "read" => file \in Config
  /\ Writing(p) =>
       \/ file = Empty /\ out[p] = DefaultConfig /\ mem[p] = NoConf
       \/ file \in Config /\ out[p] = mem[p] /\ mem[p] # NoConf
  /\ pc[p] = "rename" => tmp[p] = out[p]

HoldsValidConfig(p) ==
  /\ mem[p] # NoConf => mem[p].valid
  /\ pc[p] = "unlock" => mem[p] # NoConf

IInv ==
  /\ TypeOK
  /\ file # Broken
  /\ file = Missing <=> path = NoInode
  /\ \A p \in Procs :
       /\ HoldsOwnInode(p)
       /\ UntouchedWhileMissing(p)
       /\ OneInodeWhileEmpty(p)
       /\ WritesAllowed(p)
       /\ HoldsValidConfig(p)

(***************************************************************************)
(* A reader that opens the path at any instant, crashes included, finds an *)
(* empty file or one whole configuration, never the bytes rawSave has      *)
(* written so far ("temporary file to avoid corruption", config.go:120).   *)
(***************************************************************************)
NeverBroken == file \in {Missing, Empty} \cup Config

(***************************************************************************)
(* rawSave in readConfigAt writes the defaults only over an empty file: it *)
(* never takes back what another process configured between the Stat that  *)
(* found size 0 and the Rename.                                            *)
(***************************************************************************)
DefaultsOnlyReplaceEmpty ==
  [][file' = DefaultConfig /\ file # DefaultConfig => file = Empty]_vars

(***************************************************************************)
(* What the file holds is what some process had in memory, whole; reads    *)
(* are snapshots; defaults only fill an empty file.                        *)
(***************************************************************************)
Store == INSTANCE ConfigStore 

StoreSpec == Store!Spec

(***************************************************************************)
(* Loading takes back no setting another process has put in the file: the  *)
(* lock held since the Config was read, and the second read under it, are  *)
(* there for that ("make sure the copy is live", config.go:189).           *)
(***************************************************************************)
LoadTakesNothingBack ==
  [][\A p \in Procs :
       op[p] = "load" /\ RenameTemp(p) /\ file \in Config
         => file.items \subseteq file'.items]_vars

(***************************************************************************)
(* LoadConfigAt and Save return: nothing that holds the lock waits for it  *)
(* ("The file lock is *not* reentrant and this can cause deadlocks",       *)
(* config.go:5), and nobody returns without releasing it.                  *)
(***************************************************************************)
CallsReturn == \A p \in Procs : pc[p] # "idle" ~> pc[p] = "idle"
=============================================================================
