--------------------------- MODULE ConfigFileUser ----------------------------
(***************************************************************************)
(* ConfigFile with the other writer of the file: the user, who edits it    *)
(* with a text editor while processes of glauncher run.  The note at       *)
(* config/config.go:11 allows to read, write and truncate the file in      *)
(* place, and advises against unlinking it.                                *)
(*                                                                         *)
(* The user edits at rest: no process is between its Lock() and its        *)
(* Unlock(), though some may be waiting or hold a *Config in memory.       *)
(***************************************************************************)
EXTENDS ConfigFile, Naturals

CONSTANTS
  UserFiles,   \* what the user may leave in the file
  MaxEdits     \* bound on the number of edits

ASSUME UserAssumption ==
  /\ UserFiles \subseteq Config \cup {Missing, Empty, Broken}
  /\ MaxEdits \in Nat

VARIABLE edits \* edits made so far

varsU == <<vars, edits>>

InitU == Init /\ edits = 0

\* An edit in place, or, for Missing, an unlink.
UserEdit(c) ==
  /\ \A p \in Procs : pc[p] \in {"idle", "lock"}
  /\ file # Missing
  /\ edits < MaxEdits
  /\ edits' = edits + 1
  /\ file' = c
  /\ path' = IF c = Missing THEN NoInode ELSE path
  /\ UNCHANGED <<owner, fd, pc, op, tmp, out, mem, saved>>

NextU ==
  \/ Next /\ UNCHANGED edits
  \/ \E c \in UserFiles : UserEdit(c)

SpecU == InitU /\ [][NextU]_varsU

FairSpecU == SpecU /\ Fairness

-----------------------------------------------------------------------------

(***************************************************************************)
(* A file the user broke stays as it is until the user repairs it: neither *)
(* the defaults nor a *Config still in memory replace it, Save() and       *)
(* LoadConfigAt report an error instead (readConfigAt, saveIfChanged).     *)
(***************************************************************************)
BrokenFileKept ==
  [][file = Broken => file' = Broken \/ edits' # edits]_varsU

(***************************************************************************)
(* When a call returns nil, the file holds a complete and validated        *)
(* configuration, whatever state the user had left it in before the call.  *)
(***************************************************************************)
SuccessLeavesConfig ==
  [][\A p \in Procs :
       pc[p] = "unlock" /\ Unlock(p) => file \in Config /\ file.valid]_varsU

(***************************************************************************)
(* As long as the user leaves the file alone, the settings that the one    *)
(* process saved stay in it: Save() returned nil for them, and neither a   *)
(* later call nor a crash anywhere takes them back.                        *)
(***************************************************************************)
SavedSettingsStay ==
  edits = 0 /\ saved # {} => file \in Config /\ saved \subseteq file.items

(***************************************************************************)
(* A lone process does not rewrite a valid configuration by loading it     *)
(* ("Avoid rewriting the configuration file if not needed", README.md:29). *)
(***************************************************************************)
LoadKeepsValidFile ==
  [][\A p \in Procs :
       op[p] = "load" /\ RenameTemp(p) => ~ (file \in Config /\ file.valid)]_varsU
=============================================================================
