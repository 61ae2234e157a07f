------------------------ MODULE ConfigFileUserProofs -------------------------
(***************************************************************************)
(* Theorems about ConfigFileUser, for any number of edits of any kind.     *)
(* That a broken file is kept holds for any number of processes; the other *)
(* three hold for one process next to the user, and fail for two, which    *)
(* the lock does not exclude from each other (ConfigFile.tla).             *)
(***************************************************************************)
EXTENDS ConfigFileUser, TLAPS

Calls == {"stat", "read", "create", "encode", "rename", "unlock", "fail"}

\* What holds of each process by itself, whatever the others and the user do.
TypeP(p) ==
  /\ pc[p] \in {"idle", "lock"} \cup Calls
  /\ op[p] \in {"none", "load", "save"}
  /\ mem[p] # NoConf => mem[p] \in Config /\ mem[p].valid
  /\ Writing(p) => out[p] = DefaultConfig \/ (out[p] = mem[p] /\ mem[p] # NoConf)
  /\ pc[p] = "unlock" => mem[p] # NoConf
  /\ pc[p] = "rename" => tmp[p] = out[p]

TypeU ==
  /\ DOMAIN pc = Procs /\ DOMAIN op = Procs /\ DOMAIN mem = Procs
  /\ DOMAIN out = Procs /\ DOMAIN tmp = Procs
  /\ file \in Config \cup {Missing, Empty, Broken}
  /\ saved \subseteq Items
  /\ edits \in Nat
  /\ \A p \in Procs : TypeP(p)

\* Nobody is about to replace a file that is broken: the user breaks it at
\* rest, and whoever reads it then gets an error.
KeepsBroken == file = Broken => \A p \in Procs : ~ Writing(p)

\* One process p, from its lock to its unlock.
AloneInCall(p) ==
  /\ Writing(p) => \/ out[p] = DefaultConfig /\ file = Empty
                   \/ out[p] = mem[p] /\ mem[p] # NoConf
  /\ pc[p] = "unlock" => mem[p] # NoConf /\ file = mem[p]

\* A load that has read the file rewrites it only if validate() changed it.
LoadsLive(p) ==
  op[p] = "load" =>
    /\ pc[p] = "lock" => mem[p] = NoConf
    /\ pc[p] \in {"stat", "read"} /\ mem[p] # NoConf =>
         file \in Config /\ mem[p] = Validate(file)
    /\ Writing(p) /\ mem[p] # NoConf => file \in Config /\ ~ file.valid

\* What was saved is in the file, and in the memory of whoever may save next.
SavedIsKept(p) ==
  edits = 0 =>
    /\ saved # {} => file \in Config /\ saved \subseteq file.items
    /\ mem[p] # NoConf => saved \subseteq mem[p].items
    /\ Writing(p) /\ saved # {} => out[p] = mem[p] /\ mem[p] # NoConf

InvU == TypeU /\ KeepsBroken

InvLone ==
  /\ InvU
  /\ SavedSettingsStay
  /\ \A p \in Procs : AloneInCall(p) /\ LoadsLive(p) /\ SavedIsKept(p)

-----------------------------------------------------------------------------
(* Each step is one of a process, which leaves the others as they are      *)

Others(p) ==
  \A q \in Procs \ {p} :
    /\ pc'[q] = pc[q] /\ op'[q] = op[q] /\ mem'[q] = mem[q]
    /\ out'[q] = out[q] /\ tmp'[q] = tmp[q]

Domains ==
  /\ DOMAIN pc = Procs /\ DOMAIN op = Procs /\ DOMAIN mem = Procs
  /\ DOMAIN out = Procs /\ DOMAIN tmp = Procs

LEMMA ConfigFacts ==
  /\ DefaultConfig \in Config /\ ~ DefaultConfig.valid
  /\ \A c \in Config : /\ Validate(c) \in Config /\ Validate(c).valid
                       /\ Validate(c).items = c.items
                       /\ c.valid => Validate(c) = c
                       /\ c.valid \in BOOLEAN /\ c.items \subseteq Items
                       /\ c \notin {Missing, Empty, Broken, NoConf, NoFile}
BY SentinelAssumption DEF DefaultConfig, Config, Validate

\* What p does to itself and to the file, each way a step can go.
Idles(p) ==   \* Crash
  /\ pc'[p] = "idle" /\ op'[p] = "none" /\ tmp'[p] = NoFile /\ out'[p] = NoConf
  /\ mem'[p] = NoConf /\ file' = file /\ saved' = saved

Opens(p) ==   \* StartLoad, StartSave
  /\ pc[p] = "idle" /\ pc'[p] = "lock" /\ out'[p] = out[p] /\ tmp'[p] = tmp[p]
  /\ \/ op'[p] = "load" /\ mem'[p] = NoConf
     \/ op'[p] = "save" /\ mem'[p] = mem[p]
  /\ \/ file = Missing /\ file' = Empty
     \/ file' = file
  /\ saved' = saved

Stats(p) ==   \* AcquireLock, and StatFile for a file that is not empty
  /\ pc[p] \in {"lock", "stat"}
  /\ pc[p] = "lock" => pc'[p] = "stat"
  /\ pc[p] = "stat" => pc'[p] = "read"
  /\ op'[p] = op[p] /\ mem'[p] = mem[p] /\ out'[p] = out[p] /\ tmp'[p] = tmp[p]
  /\ file' = file /\ saved' = saved

FindsEmpty(p) ==   \* StatFile
  /\ pc[p] = "stat" /\ file = Empty
  /\ pc'[p] = "create" /\ out'[p] = DefaultConfig
  /\ op'[p] = op[p] /\ mem'[p] = mem[p] /\ tmp'[p] = tmp[p]
  /\ file' = file /\ saved' = saved

Got(p, c) ==   \* GotConfig
  \/ /\ mem[p] = NoConf /\ mem'[p] = Validate(c)
     /\ out'[p] = NoConf /\ pc'[p] = "stat"
  \/ /\ mem[p] # NoConf /\ mem'[p] = mem[p]
     /\ \/ c = mem[p] /\ out'[p] = NoConf /\ pc'[p] = "unlock"
        \/ c # mem[p] /\ out'[p] = mem[p] /\ pc'[p] = "create"

Reads(p) ==   \* ReadFile
  /\ pc[p] = "read" /\ file \in Config /\ Got(p, file)
  /\ op'[p] = op[p] /\ tmp'[p] = tmp[p] /\ file' = file /\ saved' = saved

Errs(p) ==   \* ReadFails, WriteFails
  /\ pc[p] \in {"stat", "read", "create", "encode", "rename"}
  /\ pc'[p] = "fail" /\ op'[p] = op[p] /\ out'[p] = NoConf /\ tmp'[p] = NoFile
  /\ mem'[p] \in {mem[p], NoConf}
  /\ file' = file /\ saved' = saved

Encodes(p) ==   \* CreateTemp, EncodeTemp
  /\ \/ pc[p] = "create" /\ pc'[p] = "encode"
     \/ pc[p] = "encode" /\ pc'[p] = "rename" /\ tmp'[p] = out[p]
  /\ op'[p] = op[p] /\ mem'[p] = mem[p] /\ out'[p] = out[p]
  /\ file' = file /\ saved' = saved

Renames(p) ==   \* RenameTemp
  /\ pc[p] = "rename" /\ file' = tmp[p]
  /\ \/ out[p] = DefaultConfig /\ Got(p, DefaultConfig)
     \/ /\ out[p] # DefaultConfig
        /\ out'[p] = NoConf /\ pc'[p] = "unlock" /\ mem'[p] = mem[p]
  /\ op'[p] = op[p] /\ tmp'[p] = NoFile /\ saved' = saved

Returns(p) ==   \* Unlock
  /\ pc[p] \in {"unlock", "fail"} /\ pc'[p] = "idle" /\ op'[p] = "none"
  /\ mem'[p] = mem[p] /\ out'[p] = out[p] /\ tmp'[p] = tmp[p] /\ file' = file
  /\ saved' = IF op[p] = "save" /\ pc[p] = "unlock" THEN saved \cup mem[p].items ELSE saved

Amends(p) ==   \* Amend
  /\ pc[p] = "idle" /\ mem[p] # NoConf
  /\ \E i \in Items : mem'[p] = [valid |-> mem[p].valid, items |-> mem[p].items \cup {i}]
  /\ pc'[p] = pc[p] /\ op'[p] = op[p] /\ out'[p] = out[p] /\ tmp'[p] = tmp[p]
  /\ file' = file /\ saved' = saved

Does(p) ==
  \/ Idles(p) \/ Opens(p) \/ Stats(p) \/ FindsEmpty(p) \/ Reads(p) \/ Errs(p)
  \/ Encodes(p) \/ Renames(p) \/ Returns(p) \/ Amends(p)

LEMMA GotFacts ==
  ASSUME Domains, NEW p \in Procs, NEW c, GotConfig(p, c)
  PROVE  /\ Got(p, c)
         /\ DOMAIN pc' = Procs /\ DOMAIN mem' = Procs /\ DOMAIN out' = Procs
         /\ \A q \in Procs \ {p} : pc'[q] = pc[q] /\ out'[q] = out[q] /\ mem'[q] = mem[q]
<1>1. CASE mem[p] = NoConf
  BY <1>1 DEF GotConfig, Got, Domains
<1>2. CASE mem[p] # NoConf
  BY <1>2 DEF GotConfig, Got, Domains
<1>3. QED
  BY <1>1, <1>2

LEMMA StepDoes ==
  ASSUME Domains, NEW p \in Procs, Step(p)
  PROVE  Does(p) /\ Others(p) /\ Domains'
<1>1. CASE StartLoad(p)
  <2>1. Opens(p)
    BY <1>1 DEF StartLoad, OpenLock, Opens, Domains
  <2>2. QED
    BY <1>1, <2>1 DEF StartLoad, OpenLock, Does, Others, Domains
<1>2. CASE StartSave(p)
  <2>1. Opens(p)
    BY <1>2 DEF StartSave, OpenLock, Opens, Domains
  <2>2. QED
    BY <1>2, <2>1 DEF StartSave, OpenLock, Does, Others, Domains
<1>3. CASE AcquireLock(p)
  BY <1>3 DEF AcquireLock, Stats, Does, Others, Domains
<1>4. CASE StatFile(p)
  <2>1. CASE file = Empty
    BY <1>4, <2>1 DEF StatFile, FindsEmpty, Does, Others, Domains
  <2>2. CASE file # Empty
    BY <1>4, <2>2 DEF StatFile, Stats, Does, Others, Domains
  <2>3. QED
    BY <2>1, <2>2
<1>5. CASE ReadFile(p)
  <2>1. /\ Got(p, file)
        /\ DOMAIN pc' = Procs /\ DOMAIN mem' = Procs /\ DOMAIN out' = Procs
        /\ \A q \in Procs \ {p} : pc'[q] = pc[q] /\ out'[q] = out[q] /\ mem'[q] = mem[q]
    BY <1>5, GotFacts DEF ReadFile, Domains
  <2>2. Reads(p)
    BY <1>5, <2>1 DEF ReadFile, Reads
  <2>3. QED
    BY <1>5, <2>1, <2>2 DEF ReadFile, Does, Others, Domains
<1>6. CASE ReadFails(p) \/ WriteFails(p)
  <2>1. Errs(p)
    BY <1>6 DEF ReadFails, WriteFails, Fails, Errs, Domains
  <2>2. Others(p) /\ Domains'
    BY <1>6 DEF ReadFails, WriteFails, Fails, Others, Domains
  <2>3. QED
    BY <2>1, <2>2 DEF Does
<1>7. CASE CreateTemp(p)
  BY <1>7 DEF CreateTemp, Encodes, Does, Others, Domains
<1>8. CASE EncodeTemp(p)
  BY <1>8 DEF EncodeTemp, Encodes, Does, Others, Domains
<1>9. CASE RenameTemp(p)
  <2>1. CASE out[p] = DefaultConfig
    <3>1. /\ Got(p, DefaultConfig)
          /\ DOMAIN pc' = Procs /\ DOMAIN mem' = Procs /\ DOMAIN out' = Procs
          /\ \A q \in Procs \ {p} : pc'[q] = pc[q] /\ out'[q] = out[q] /\ mem'[q] = mem[q]
      BY <1>9, <2>1, GotFacts DEF RenameTemp, Domains
    <3>2. Renames(p)
      BY <1>9, <2>1, <3>1 DEF RenameTemp, Renames, Domains
    <3>3. QED
      BY <1>9, <3>1, <3>2 DEF RenameTemp, Does, Others, Domains
  <2>2. CASE out[p] # DefaultConfig
    BY <1>9, <2>2 DEF RenameTemp, Renames, Does, Others, Domains
  <2>3. QED
    BY <2>1, <2>2
<1>10. CASE Unlock(p)
  BY <1>10 DEF Unlock, Returns, Does, Others, Domains
<1>11. CASE Amend(p)
  <2>1. Amends(p)
    BY <1>11 DEF Amend, Amends, Domains
  <2>2. QED
    BY <1>11, <2>1 DEF Amend, Does, Others, Domains
<1>12. CASE Crash(p)
  BY <1>12 DEF Crash, Idles, Does, Others, Domains
<1>13. QED
  BY <1>1, <1>2, <1>3, <1>4, <1>5, <1>6, <1>7, <1>8, <1>9, <1>10, <1>11, <1>12
  DEF Step, InCall

-----------------------------------------------------------------------------
(* The invariant of any number of processes *)

LEMMA TypeStep ==
  ASSUME InvU, NEW p \in Procs, Does(p)
  PROVE  /\ TypeP(p)'
         /\ file' \in Config \cup {Missing, Empty, Broken}
         /\ saved' \subseteq Items
         /\ file' = Broken => file = Broken /\ ~ Writing(p)'
<1>1. /\ TypeP(p) /\ file \in Config \cup {Missing, Empty, Broken} /\ saved \subseteq Items
      /\ file = Broken => ~ Writing(p)
  BY DEF InvU, TypeU, KeepsBroken
<1>2. CASE Idles(p) \/ Opens(p) \/ Stats(p)
  BY <1>1, <1>2, SentinelAssumption DEF Idles, Opens, Stats, TypeP, Writing, Calls
<1>3. CASE FindsEmpty(p) \/ Errs(p)
  BY <1>1, <1>3, ConfigFacts, SentinelAssumption DEF FindsEmpty, Errs, TypeP, Writing, Calls
<1>4. CASE Reads(p)
  BY <1>1, <1>4, ConfigFacts DEF Reads, Got, TypeP, Writing, Calls
<1>5. CASE Encodes(p)
  BY <1>1, <1>5 DEF Encodes, TypeP, Writing, Calls
<1>6. CASE Renames(p)
  <2>1. file' \in Config
    BY <1>1, <1>6, ConfigFacts DEF Renames, TypeP, Writing
  <2>2. TypeP(p)'
    BY <1>1, <1>6, ConfigFacts DEF Renames, Got, TypeP, Writing, Calls
  <2>3. QED
    BY <1>1, <1>6, <2>1, <2>2, ConfigFacts DEF Renames
<1>7. CASE Returns(p)
  <2>1. saved' \subseteq Items
    BY <1>1, <1>7, ConfigFacts DEF Returns, TypeP
  <2>2. QED
    BY <1>1, <1>7, <2>1 DEF Returns, TypeP, Writing, Calls
<1>8. CASE Amends(p)
  <2>1. mem'[p] \in Config /\ mem'[p].valid
    BY <1>1, <1>8 DEF Amends, TypeP, Config
  <2>2. QED
    BY <1>1, <1>8, <2>1 DEF Amends, TypeP, Writing, Calls
<1>9. QED
  BY <1>2, <1>3, <1>4, <1>5, <1>6, <1>7, <1>8 DEF Does

LEMMA InitInvU == InitU => InvU
BY SentinelAssumption
DEF InitU, Init, InvU, TypeU, TypeP, KeepsBroken, Writing

LEMMA EditInvU ==
  ASSUME InvU, NEW c \in UserFiles, UserEdit(c)
  PROVE  InvU'
<1>1. \A p \in Procs : ~ Writing(p) /\ TypeP(p)
  BY DEF UserEdit, Writing, InvU, TypeU
<1>2. \A p \in Procs : (~ Writing(p))' /\ TypeP(p)'
  BY <1>1 DEF UserEdit, TypeP, Writing
<1>3. file' \in Config \cup {Missing, Empty, Broken} /\ edits' \in Nat
  BY UserAssumption DEF UserEdit, InvU, TypeU
<1>4. QED
  BY <1>2, <1>3 DEF UserEdit, InvU, TypeU, KeepsBroken

LEMMA StepInvU ==
  ASSUME InvU, NEW p \in Procs, Step(p), edits' = edits
  PROVE  InvU' /\ Does(p) /\ Others(p)
<1>1. Domains
  BY DEF InvU, TypeU, Domains
<1>2. Does(p) /\ Others(p) /\ Domains'
  BY <1>1, StepDoes
<1>3. /\ TypeP(p)' /\ file' \in Config \cup {Missing, Empty, Broken} /\ saved' \subseteq Items
      /\ file' = Broken => file = Broken /\ ~ Writing(p)'
  BY <1>2, TypeStep
<1>4. \A q \in Procs \ {p} : TypeP(q)' /\ (file = Broken => ~ Writing(q)')
  BY <1>2 DEF InvU, TypeU, TypeP, KeepsBroken, Writing, Others
<1>5. \A q \in Procs : TypeP(q)' /\ (file' = Broken => ~ Writing(q)')
  BY <1>3, <1>4
<1>6. QED
  BY <1>2, <1>3, <1>5 DEF InvU, TypeU, KeepsBroken, Domains

LEMMA StutterInvU ==
  ASSUME InvU, UNCHANGED varsU
  PROVE  InvU'
BY DEF InvU, TypeU, TypeP, KeepsBroken, Writing, varsU, vars

LEMMA NextInvU == InvU /\ [NextU]_varsU => InvU'
BY EditInvU, StepInvU, StutterInvU DEF NextU, Next

LEMMA InvarianceU == SpecU => []InvU
BY InitInvU, NextInvU, PTL DEF SpecU

(***************************************************************************)
(* Whatever processes are running, a file that the user has broken stays   *)
(* as it is until the user repairs it (readConfigAt, saveIfChanged).       *)
(***************************************************************************)
THEOREM BrokenIsKept == SpecU => BrokenFileKept
<1>1. InvU /\ [NextU]_varsU => [file = Broken => file' = Broken \/ edits' # edits]_varsU
  <2>1. SUFFICES ASSUME InvU, [NextU]_varsU, file = Broken, edits' = edits
                 PROVE  file' = Broken
    OBVIOUS
  <2>2. ASSUME NEW p \in Procs, Step(p)
        PROVE  file' = Broken
    <3>1. Does(p)
      BY <2>1, <2>2, StepInvU
    <3>2. pc[p] # "rename"
      BY <2>1 DEF InvU, KeepsBroken, Writing
    <3>3. QED
      BY <2>1, <3>1, <3>2, SentinelAssumption
      DEF Does, Idles, Opens, Stats, FindsEmpty, Reads, Errs, Encodes, Renames,
          Returns, Amends
  <2>3. ASSUME NEW c \in UserFiles, UserEdit(c)
        PROVE  FALSE
    BY <2>1, <2>3 DEF UserEdit, InvU, TypeU
  <2>4. QED
    BY <2>1, <2>2, <2>3 DEF NextU, Next, varsU, vars
<1>2. QED
  BY <1>1, InvarianceU, PTL DEF SpecU, BrokenFileKept

-----------------------------------------------------------------------------
(* One process and the user *)

Lone == \A p, q \in Procs : p = q

Alone(p) == AloneInCall(p) /\ LoadsLive(p) /\ SavedIsKept(p)

LEMMA AloneStep ==
  ASSUME InvLone, NEW p \in Procs, Does(p), edits' = edits
  PROVE  Alone(p)'
<1>1. /\ TypeP(p) /\ file \in Config \cup {Missing, Empty, Broken} /\ saved \subseteq Items
      /\ AloneInCall(p) /\ LoadsLive(p) /\ SavedIsKept(p)
  BY DEF InvLone, InvU, TypeU
<1> USE <1>1
<1>2. CASE Idles(p)
  BY <1>2, SentinelAssumption
  DEF Idles, Alone, AloneInCall, LoadsLive, SavedIsKept, Writing
<1>3. CASE Opens(p)
  BY <1>3, SentinelAssumption
  DEF Opens, Alone, AloneInCall, LoadsLive, SavedIsKept, Writing
<1>4. CASE Stats(p)
  BY <1>4 DEF Stats, Alone, AloneInCall, LoadsLive, SavedIsKept, Writing
<1>5. CASE FindsEmpty(p)
  BY <1>5, ConfigFacts DEF FindsEmpty, Alone, AloneInCall, LoadsLive, SavedIsKept, Writing
<1>6. CASE Reads(p)
  <2>1. CASE mem[p] = NoConf
    BY <1>6, <2>1, ConfigFacts
    DEF Reads, Got, Alone, AloneInCall, LoadsLive, SavedIsKept, Writing
  <2>2. CASE mem[p] # NoConf
    BY <1>6, <2>2, ConfigFacts
    DEF Reads, Got, Alone, AloneInCall, LoadsLive, SavedIsKept, Writing, TypeP
  <2>3. QED
    BY <2>1, <2>2
<1>7. CASE Errs(p)
  BY <1>7 DEF Errs, Alone, AloneInCall, LoadsLive, SavedIsKept, Writing
<1>8. CASE Encodes(p)
  BY <1>8 DEF Encodes, Alone, AloneInCall, LoadsLive, SavedIsKept, Writing
<1>9. CASE Renames(p)
  <2>1. CASE out[p] = DefaultConfig
    BY <1>9, <2>1, ConfigFacts
    DEF Renames, Got, Alone, AloneInCall, LoadsLive, SavedIsKept, Writing, TypeP
  <2>2. CASE out[p] # DefaultConfig
    BY <1>9, <2>2, ConfigFacts
    DEF Renames, Alone, AloneInCall, LoadsLive, SavedIsKept, Writing, TypeP
  <2>3. QED
    BY <2>1, <2>2
<1>10. CASE Returns(p)
  BY <1>10, ConfigFacts
  DEF Returns, Alone, AloneInCall, LoadsLive, SavedIsKept, Writing, TypeP
<1>11. CASE Amends(p)
  BY <1>11, SentinelAssumption
  DEF Amends, Alone, AloneInCall, LoadsLive, SavedIsKept, Writing
<1>12. QED
  BY <1>2, <1>3, <1>4, <1>5, <1>6, <1>7, <1>8, <1>9, <1>10, <1>11 DEF Does

LEMMA EditAlone ==
  ASSUME InvLone, NEW c \in UserFiles, UserEdit(c), NEW p \in Procs
  PROVE  Alone(p)'
<1>1. pc[p] \in {"idle", "lock"} /\ TypeP(p) /\ LoadsLive(p) /\ edits \in Nat
  BY DEF UserEdit, InvLone, InvU, TypeU
<1>2. edits' = edits + 1 /\ pc' = pc /\ op' = op /\ mem' = mem /\ out' = out
  BY DEF UserEdit
<1>3. edits' # 0
  BY <1>1, <1>2
<1>4. QED
  BY <1>1, <1>2, <1>3 DEF Alone, AloneInCall, LoadsLive, SavedIsKept, Writing

LEMMA InitInvLone == InitU => InvLone
<1>1. InitU => InvU /\ SavedSettingsStay
  BY InitInvU DEF InitU, Init, SavedSettingsStay
<1>2. InitU => \A p \in Procs : Alone(p)
  BY DEF InitU, Init, Alone, AloneInCall, LoadsLive, SavedIsKept, Writing
<1>3. QED
  BY <1>1, <1>2 DEF InvLone, Alone

LEMMA NextInvLone ==
  ASSUME Lone
  PROVE  InvLone /\ [NextU]_varsU => InvLone'
<1> SUFFICES ASSUME InvLone, [NextU]_varsU
             PROVE  InvLone'
  OBVIOUS
<1>1. InvU'
  BY NextInvU DEF InvLone
<1>2. ASSUME NEW p \in Procs, Step(p), edits' = edits, NEW q \in Procs
      PROVE  Alone(q)'
  <2>1. Does(p) /\ q = p
    BY <1>2, StepInvU DEF InvLone, Lone
  <2>2. Alone(p)'
    BY <1>2, <2>1, AloneStep
  <2>3. QED
    BY <2>1, <2>2
<1>3. ASSUME UNCHANGED varsU, NEW q \in Procs
      PROVE  Alone(q)'
  <2>1. Alone(q)
    BY DEF InvLone, Alone
  <2>2. QED
    BY <1>3, <2>1
    DEF Alone, AloneInCall, LoadsLive, SavedIsKept, Writing, varsU, vars
<1>4. \A q \in Procs : Alone(q)'
  BY <1>2, <1>3, EditAlone
  DEF NextU, Next, InvLone, Alone
<1>5. SavedSettingsStay'
  <2>1. ASSUME NEW p \in Procs, Step(p), edits' = edits
        PROVE  SavedSettingsStay'
    BY <2>1, <1>4 DEF Alone, SavedIsKept, SavedSettingsStay
  <2>2. ASSUME NEW c \in UserFiles, UserEdit(c)
        PROVE  SavedSettingsStay'
    <3>1. edits' # 0
      BY <2>2 DEF UserEdit, InvLone, InvU, TypeU
    <3>2. QED
      BY <3>1 DEF SavedSettingsStay
  <2>3. CASE UNCHANGED varsU
    BY <2>3 DEF InvLone, SavedSettingsStay, varsU, vars
  <2>4. QED
    BY <2>1, <2>2, <2>3 DEF NextU, Next
<1>6. QED
  BY <1>1, <1>4, <1>5 DEF InvLone, Alone

LEMMA InvarianceLone ==
  ASSUME Lone
  PROVE  SpecU => []InvLone
BY InitInvLone, NextInvLone, PTL DEF SpecU

(***************************************************************************)
(* What the one process has saved stays in the file as long as the user    *)
(* leaves it alone, whatever fails or crashes (saveIfChanged, rawSave).    *)
(***************************************************************************)
THEOREM SavedStays ==
  ASSUME \A p, q \in Procs : p = q
  PROVE  SpecU => []SavedSettingsStay
<1>1. Lone
  BY DEF Lone
<1>2. InvLone => SavedSettingsStay
  BY DEF InvLone
<1>3. QED
  BY <1>1, <1>2, InvarianceLone, PTL

(***************************************************************************)
(* When a call of the one process returns nil, the file holds a validated  *)
(* configuration, whatever the user has made of it before.                 *)
(***************************************************************************)
THEOREM SuccessIsValid ==
  ASSUME \A p, q \in Procs : p = q
  PROVE  SpecU => SuccessLeavesConfig
<1>1. Lone
  BY DEF Lone
<1>2. InvLone => \A p \in Procs : pc[p] = "unlock" => file \in Config /\ file.valid
  BY DEF InvLone, InvU, TypeU, TypeP, AloneInCall
<1>3. InvLone /\ [NextU]_varsU =>
        [\A p \in Procs :
           pc[p] = "unlock" /\ Unlock(p) => file \in Config /\ file.valid]_varsU
  BY <1>2
<1>4. QED
  BY <1>1, <1>3, InvarianceLone, PTL DEF SpecU, SuccessLeavesConfig

(***************************************************************************)
(* A process that is alone does not rewrite a valid configuration because  *)
(* it loads it (saveIfChanged).                                            *)
(***************************************************************************)
THEOREM LoadsDoNotRewrite ==
  ASSUME \A p, q \in Procs : p = q
  PROVE  SpecU => LoadKeepsValidFile
<1>1. Lone
  BY DEF Lone
<1>2. InvLone =>
        \A p \in Procs : op[p] = "load" /\ pc[p] = "rename" => ~ (file \in Config /\ file.valid)
  <2>1. SUFFICES ASSUME InvLone, NEW p \in Procs, op[p] = "load", pc[p] = "rename",
                        file \in Config, file.valid
                 PROVE  FALSE
    OBVIOUS
  <2>2. AloneInCall(p) /\ LoadsLive(p)
    BY <2>1 DEF InvLone
  <2>3. QED
    BY <2>1, <2>2, ConfigFacts DEF AloneInCall, LoadsLive, Writing
<1>3. InvLone /\ [NextU]_varsU =>
        [\A p \in Procs :
           op[p] = "load" /\ RenameTemp(p) => ~ (file \in Config /\ file.valid)]_varsU
  BY <1>2 DEF RenameTemp
<1>4. QED
  BY <1>1, <1>3, InvarianceLone, PTL DEF SpecU, LoadKeepsValidFile
=============================================================================
