----------------------------- MODULE ConfigStore -----------------------------
(***************************************************************************)
(* What the config package promises to the rest of glauncher, without the  *)
(* lock, the temporary file or the order of system calls: one file that is *)
(* at every instant missing, empty, or one complete configuration; a load  *)
(* is a snapshot of the whole file, a save replaces the whole file, and    *)
(* the built-in defaults are only ever written over an empty file.         *)
(*                                                                         *)
(* ConfigFile.tla (config/config.go) implements this specification.        *)
(***************************************************************************)
CONSTANTS
  Procs,     \* processes of glauncher: f, glauncher_cli, the remote server
  Items,     \* settings the providers and remotes put in the configuration
  Missing,   \* there is no file at the config path
  Empty,     \* the file has size 0
  NoConf     \* the process has no *Config

VARIABLES
  file,      \* what opening the config path and reading it would yield
  mem        \* mem[p]: the *Config process p works with

vars == <<file, mem>>

\* A Config, reduced to what the properties tell apart: whether validate()
\* has filled its defaults in, and which settings it holds.
Config == [valid : BOOLEAN, items : SUBSET Items]

DefaultConfig == [valid |-> FALSE, items |-> {}]

Validate(c) == [valid |-> TRUE, items |-> c.items]

-----------------------------------------------------------------------------

Init ==
  /\ file = Missing
  /\ mem = [p \in Procs |-> NoConf]

\* The first process to come along leaves an empty file behind.
Create ==
  /\ file = Missing
  /\ file' = Empty
  /\ UNCHANGED mem

\* The defaults, not validated yet, replace an empty file; the process that
\* wrote them goes on with a validated copy.
WriteDefaults(p) ==
  /\ file = Empty
  /\ file' = DefaultConfig
  /\ mem' = [mem EXCEPT ![p] = Validate(DefaultConfig)]

\* A load: the process gets a validated copy of the whole file.
Snapshot(p) ==
  /\ file \in Config
  /\ mem' = [mem EXCEPT ![p] = Validate(file)]
  /\ UNCHANGED file

\* The process replaces the whole file by its copy.
Replace(p) ==
  /\ file \in Config
  /\ mem[p] \in Config
  /\ file' = mem[p]
  /\ UNCHANGED mem

\* The process changes its own copy, or loses it (a failed load, an exit).
Amend(p) ==
  /\ mem[p] \in Config
  /\ \E i \in Items :
       mem' = [mem EXCEPT ![p] =
                 [valid |-> @.valid, items |-> @.items \cup {i}]]
  /\ UNCHANGED file

Forget(p) ==
  /\ mem' = [mem EXCEPT ![p] = NoConf]
  /\ UNCHANGED file

Next ==
  \/ Create
  \/ \E p \in Procs :
        \/ WriteDefaults(p) \/ Snapshot(p) \/ Replace(p)
        \/ Amend(p) \/ Forget(p)

Spec == Init /\ [][Next]_vars
=============================================================================
