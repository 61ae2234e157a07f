------------------------------ MODULE FSession -------------------------------
(***************************************************************************)
(* cmd/f, frontend/: sessions of f, from StartF() to the launch of what is *)
(* selected in fzf, next to "glauncher save-entry-provider-settings".      *)
(* They share the configuration, which each process loads and saves as a   *)
(* whole (ConfigStore.tla).  What becomes of an entry that goes to the     *)
(* remote is in Remote.tla: here the call returns nil or an error.         *)
(***************************************************************************)
EXTENDS Settings, EntryLaunch

CONSTANTS
  Fs,           \* sessions of f
  Clis,         \* processes that save the settings built into glauncher_cli
  FirstConfigs, \* what may be in the configuration file
  Flags,        \* flags f may be given
  UserKeys,     \* keys that may leave fzf, "" for Enter, "line" see Select
  NewShortcuts, NewCommands  \* what glauncher_cli adds

ASSUME FSessionAssumption ==
  /\ Fs \cap Clis = {}
  /\ NewShortcuts \subseteq Names /\ NewCommands \subseteq Names
  /\ UserKeys \subseteq Keys \cup {"", "line"} /\ "" \in UserKeys

VARIABLES
  file,     \* the configuration file
  conf,     \* conf[p]: the *Config of p
  missed,   \* missed[p]: what was stored since p loaded it, as <<provider, item>>
  lost,     \* what was stored once and is not any more
  session,  \* session[f]: where f is
  cli       \* cli[c]: where glauncher_cli is

vars == <<file, conf, missed, lost, session, cli>>

Procs == Fs \cup Clis

Remotes == {"rpc", "http"}

\* config.Config: the addresses of the remotes, the sections of the providers,
\* and the providers that are not used.
Config == [remotes : [Remotes -> {"absent", "stored", "bad"}],
           providers : [ProviderNames -> Section \cup {Absent, Garbled}],
           blacklist : SUBSET ProviderNames]

\* What the section of a provider is about.
ItemsOf(n) ==
  CASE n \in {"command", "shortcut"} -> Names
    [] n = "path" -> HideOptions
    [] n \in {"desktop", "application"} -> Ids

WellTyped(c) ==
  /\ c \in Config
  /\ \A n \in ProviderNames :
       c.providers[n] \in Section => c.providers[n].items \subseteq ItemsOf(n)

ASSUME FirstConfigsAssumption == \A c \in FirstConfigs : WellTyped(c)

\* What was stored for good, as <<provider, item>>.
Stored(c) ==
  {x \in ProviderNames \X (Names \cup Ids) :
     c.providers[x[1]] \notin {Absent, Garbled} /\ x[2] \in c.providers[x[1]].items}

EntryLines == {""} \cup UNION {{prefix \o n : n \in EntryNames} : prefix \in Prefixes}

Session == [pc : {"start", "remote", "providers", "fzf", "wait", "dispatch",
                  "command", "held", "handed", "blacklist", "save",
                  "done", "fatal"},
            remote : BOOLEAN,
            todo : SUBSET ProviderNames,
            providers : SUBSET [name : ProviderNames,
                                content : SUBSET EntryNames,
                                prefix : Prefixes],
            flags : Flags,
            find : {"off", "lists", "ended"},  \* fdfind
            copier : BOOLEAN,           \* goroutine that feeds fzf
            out : {"none", "entry", "bad"},  \* of fzf
            line : EntryLines,
            key : UserKeys,
            launched : ProviderNames \cup {"none"},
            hidden : SUBSET ({"desktop", "application"} \X Ids)]  \* what f itself has blacklisted

Start == [pc |-> "start", remote |-> FALSE, todo |-> {}, providers |-> {},
          flags |-> {}, find |-> "off", copier |-> FALSE, out |-> "none",
          line |-> "", key |-> "", launched |-> "none", hidden |-> {}]

Init ==
  /\ file \in FirstConfigs
  /\ conf = [p \in Procs |-> file]
  /\ missed = [p \in Procs |-> {}]
  /\ lost = {}
  /\ \E fl \in [Fs -> Flags] : session = [f \in Fs |-> [Start EXCEPT !.flags = fl[f]]]
  /\ cli = [c \in Clis |-> "start"]

-----------------------------------------------------------------------------
(* The configuration *)

LoadConfig(p) ==
  /\ conf' = [conf EXCEPT ![p] = file]
  /\ missed' = [missed EXCEPT ![p] = {}]
  /\ UNCHANGED <<file, lost>>

\* p changes its copy to c, and saves it if it comes to that.
Save(p, c, saves) ==
  /\ conf' = [conf EXCEPT ![p] = c]
  /\ file' = IF saves THEN c ELSE file
  /\ lost' = lost \cup (Stored(file) \ Stored(file'))
  /\ missed' = [q \in Procs |->
       IF saves /\ q # p THEN missed[q] \cup (Stored(c) \ Stored(file))
       ELSE missed[q]]

SetSection(p, n, set) ==
  Save(p, [conf[p] EXCEPT !.providers[n] = set.sec], set.saves)

-----------------------------------------------------------------------------
(* f *)

pc(f) == session[f].pc

Goes(f, to) == session' = [session EXCEPT ![f].pc = to]

\* Nothing else is kept of a session that is over, or starts again.
Ends(f, to) ==
  session' = [session EXCEPT ![f] = [Start EXCEPT !.pc = to,
                                                  !.flags = session[f].flags,
                                                  !.hidden = session[f].hidden]]

Only(f) == UNCHANGED <<file, conf, missed, lost, cli>>

StartF(f) ==
  /\ pc(f) = "start"
  /\ LoadConfig(f)
  /\ Goes(f, "remote")
  /\ UNCHANGED cli

\* The providers that are not on the blacklist are to be built.
BuildsProviders(f, connected) ==
  session' = [session EXCEPT
    ![f].pc = "providers", ![f].remote = connected, ![f].providers = {},
    ![f].todo = ProviderNames \ conf[f].blacklist]

\* GetRPCConfig() comes first, and an error there is the last of it.
NoAddress(f) ==
  {r \in Remotes : /\ conf[f].remotes[r] = "absent"
                   /\ r = "http" => conf[f].remotes["rpc"] = "stored"}

\* The default address of a remote is set, and saved; if it cannot be, f does
\* without a remote.
StoreAddress(f) ==
  /\ pc(f) = "remote"
  /\ \E r \in NoAddress(f), saved \in BOOLEAN :
       /\ Save(f, [conf[f] EXCEPT !.remotes[r] = "stored"], saved)
       /\ IF saved THEN UNCHANGED session ELSE BuildsProviders(f, FALSE)
  /\ UNCHANGED cli

\* Connect().  An address that is bad, like a selection that names no remote,
\* is an error of GetRemote(), which f only logs.
GetRemote(f) ==
  /\ pc(f) = "remote" /\ NoAddress(f) = {}
  /\ \E connected \in BOOLEAN :
       /\ connected => \A r \in Remotes : conf[f].remotes[r] = "stored"
       /\ BuildsProviders(f, connected)
  /\ Only(f)

\* In the random order of a map.
BuildProvider(f, n, ok) ==
  LET new == NewProvider(n, conf[f].providers[n], session[f].flags, ok) IN
  /\ pc(f) = "providers" /\ n \in session[f].todo
  /\ SetSection(f, n, new)
  /\ IF new.error THEN Ends(f, "fatal")
     ELSE session' = [session EXCEPT
            ![f].todo = @ \ {n},
            ![f].providers = IF session[f].remote \/ IsRemoteIndependent(n)
                             THEN @ \cup {new.provider} ELSE @]
  /\ UNCHANGED cli

Offered(f) == UNION {Lines(p) : p \in session[f].providers}

\* GetEntryReader() of all providers, and fzf; a goroutine copies from the
\* readers to fzf as long as fdfind lists.  Either program may not start.
StartFromReader(f) ==
  /\ pc(f) = "providers" /\ session[f].todo = {}
  /\ LET walks == \E p \in session[f].providers : p.name = "path" IN
       \/ Ends(f, "fatal")
       \/ session' = [session EXCEPT
            ![f].pc = "fzf", ![f].copier = walks,
            ![f].find = IF walks THEN "lists" ELSE "off"]
  /\ Only(f)

\* fdfind finds something more, or nothing more.  If fzf has left, the copy
\* fails, and ends; from then on fdfind blocks in its pipe.
FindLists(f) ==
  /\ session[f].find = "lists" /\ session[f].copier /\ pc(f) = "wait"
  /\ session' = [session EXCEPT ![f].copier = FALSE]
  /\ Only(f)

FindEnds(f) ==
  /\ session[f].find = "lists" /\ session[f].copier
  /\ session' = [session EXCEPT ![f].find = "ended", ![f].copier = FALSE]
  /\ Only(f)

\* The user leaves fzf: without a selection (130, or no output), with an
\* entry, perhaps through one of the keys, or with two entries that are
\* marked, the first of which GetSelection() takes for a key; or fzf fails,
\* finds no match, or puts out more lines than GetSelection() expects.
Leaves(f, out, line, key) ==
  /\ pc(f) = "fzf"
  /\ session' = [session EXCEPT ![f].pc = "wait", ![f].out = out,
                                ![f].line = line, ![f].key = key]
  /\ Only(f)

Cancel(f) == Leaves(f, "none", "", "")

FzfFails(f) == Leaves(f, "bad", "", "")

Select(f, line, key) ==
  /\ line \in Offered(f)
  /\ key = "line" => Cardinality(Offered(f)) > 1
  /\ Leaves(f, "entry", line, key)

Selected(f) ==
  CASE session[f].out = "none" -> Ends(f, "done")
    [] session[f].out = "bad" -> Ends(f, "fatal")
    [] session[f].out = "entry" -> Goes(f, "dispatch")

\* Variant: fdfind is waited for.
GetSelectionAfterFind(f) ==
  /\ pc(f) = "wait" /\ session[f].find # "lists"
  /\ Selected(f)
  /\ Only(f)

\* cmd.Wait() waits for the goroutine that copies, too.
GetSelection(f) ==
  /\ pc(f) = "wait" /\ ~ session[f].copier
  /\ Selected(f)
  /\ Only(f)

-----------------------------------------------------------------------------
(* The loop over the providers, in the random order they were built in.    *)
(* The first that fetches the selection and launches it ends the loop;     *)
(* without a remote, one that needs it is passed over.  Files may have     *)
(* gone since they were listed.                                            *)

Takes(f, p, there) ==
  /\ Fetches(p, session[f].line, there)
  /\ InFrontend(p.name, session[f].key) # "remote" \/ session[f].remote

Dispatch(f) ==
  /\ pc(f) = "dispatch"
  /\ \E there \in SUBSET Files : \E p \in session[f].providers :
       /\ Takes(f, p, there)
       /\ session' = [session EXCEPT
            ![f].launched = p.name,
            ![f].pc = CASE InFrontend(p.name, session[f].key) = "run" -> "command"
                        [] InFrontend(p.name, session[f].key) = "blacklist" -> "blacklist"
                        [] OTHER -> "handed"]
  /\ Only(f)

\* No provider could handle the selection.
Unhandled(f) ==
  /\ pc(f) = "dispatch"
  /\ \E there \in SUBSET Files : \A p \in session[f].providers : ~ Takes(f, p, there)
  /\ Ends(f, "fatal")
  /\ Only(f)

\* userRemote.HandleEntry(): see RemoteService.
RemoteAnswers(f) ==
  /\ pc(f) = "handed"
  /\ \E to \in {"done", "fatal"} : Ends(f, to)
  /\ Only(f)

\* Command.LaunchInFrontend(): after a failure f stays until it is
\* interrupted, unless the command says to close, or was interrupted itself.
CommandEnds(f) ==
  /\ pc(f) = "command"
  /\ \E to \in {"done", "held", "fatal"} : Ends(f, to)
  /\ Only(f)

Interrupt(f) ==
  /\ pc(f) = "held"
  /\ Ends(f, "fatal")
  /\ Only(f)

\* DesktopFile.LaunchInFrontend() with ctrl-d: the configuration is loaded
\* anew, and f starts again once it is saved.
LoadBlacklist(f) ==
  /\ pc(f) = "blacklist"
  /\ LoadConfig(f)
  /\ Goes(f, "save")
  /\ UNCHANGED cli

\* Variant: the name is put on the blacklist, which is one of identifiers.
SaveNameOnBlacklist(f) ==
  LET n == session[f].launched
      app == TrimPrefix(session[f].line, "@ ")
  IN
  /\ pc(f) = "save"
  /\ SetSection(f, n, Blacklist(conf[f].providers[n], app))
  /\ session' = [session EXCEPT ![f] =
       [Start EXCEPT !.flags = session[f].flags,
                     !.hidden = session[f].hidden \cup {<<n, IdOf[app]>>}]]
  /\ UNCHANGED cli

SaveBlacklist(f) ==
  LET n == session[f].launched
      id == IdOf[TrimPrefix(session[f].line, "@ ")]
      set == Blacklist(conf[f].providers[n], id)
  IN
  /\ pc(f) = "save"
  /\ SetSection(f, n, set)
  /\ session' = [session EXCEPT ![f] =
       IF set.error THEN [@ EXCEPT !.pc = "fatal"]
       ELSE [Start EXCEPT !.flags = session[f].flags,
                          !.hidden = session[f].hidden \cup {<<n, id>>}]]
  /\ UNCHANGED cli

-----------------------------------------------------------------------------
(* glauncher save-entry-provider-settings *)

CliLoads(c) ==
  /\ cli[c] = "start"
  /\ LoadConfig(c)
  /\ cli' = [cli EXCEPT ![c] = "shortcuts"]
  /\ UNCHANGED session

SaveEntryProviderSettings(c) ==
  \E n \in {"shortcut", "command"} :
    LET set == IF n = "shortcut"
               THEN AddShortcutsToConfig(conf[c].providers[n], NewShortcuts)
               ELSE AddCommandsToConfig(conf[c].providers[n], NewCommands)
    IN
    /\ cli[c] = IF n = "shortcut" THEN "shortcuts" ELSE "commands"
    /\ SetSection(c, n, set)
    /\ cli' = [cli EXCEPT ![c] = CASE set.error -> "fatal"
                                   [] ~ set.error /\ n = "shortcut" -> "commands"
                                   [] OTHER -> "done"]
    /\ UNCHANGED session

-----------------------------------------------------------------------------

SessionStep(f) ==
  \/ StartF(f) \/ StoreAddress(f) \/ GetRemote(f)
  \/ \E n \in ProviderNames, ok \in BOOLEAN : BuildProvider(f, n, ok)
  \/ StartFromReader(f) \/ GetSelection(f) \/ Dispatch(f) \/ Unhandled(f)
  \/ LoadBlacklist(f) \/ SaveBlacklist(f)

Find(f) == FindLists(f) \/ FindEnds(f)

Outside(f) == RemoteAnswers(f) \/ CommandEnds(f)

User(f) ==
  \/ Cancel(f) \/ FzfFails(f) \/ Interrupt(f)
  \/ \E line \in Offered(f), key \in UserKeys : Select(f, line, key)

Next ==
  \/ \E f \in Fs : SessionStep(f) \/ Find(f) \/ Outside(f) \/ User(f)
  \/ \E c \in Clis : CliLoads(c) \/ SaveEntryProviderSettings(c)

Spec == Init /\ [][Next]_vars

(***************************************************************************)
(* f is scheduled, and fdfind, which runs by itself, finds something more  *)
(* or ends.  The user owes nothing, and nor do the command that f runs and *)
(* the remote that it calls.                                               *)
(***************************************************************************)
FairSpec ==
  /\ Spec
  /\ \A f \in Fs : WF_vars(SessionStep(f)) /\ WF_vars(Find(f))

-----------------------------------------------------------------------------

TypeOK ==
  /\ WellTyped(file)
  /\ conf \in [Procs -> Config] /\ \A p \in Procs : WellTyped(conf[p])
  /\ missed \in [Procs -> SUBSET (ProviderNames \X (Names \cup Ids))]
  /\ lost \subseteq ProviderNames \X (Names \cup Ids)
  /\ session \in [Fs -> Session]
  /\ cli \in [Clis -> {"start", "shortcuts", "commands", "done", "fatal"}]

(***************************************************************************)
(* Commands, shortcuts and blacklisted applications vanish from the file   *)
(* only through the save of a process that loaded the file before they     *)
(* were stored: no process loses what it knew of (conf.Save() in the       *)
(* providers and the remotes, which replaces the whole file).              *)
(***************************************************************************)
LossesAreStale ==
  [][\A x \in Stored(file) \ Stored(file') :
       \E p \in Procs : conf'[p] = file' /\ x \in missed[p]]_vars

\* The constructor of the provider fails, or panics.
Bricked(n, c) == NewProvider(n, c.providers[n], {}, TRUE).error

(***************************************************************************)
(* What the program stores in a section, at the first start of a provider, *)
(* from glauncher_cli or by ctrl-d, in any order, never makes the          *)
(* constructor of the provider fail at a later start: a section that does  *)
(* was that way when the process loaded it, by the user's own hand.        *)
(***************************************************************************)
NeverBricked ==
  [][\A n \in ProviderNames :
       file' # file /\ Bricked(n, file') =>
         \E p \in Procs : file' = conf'[p] /\ Bricked(n, conf[p])]_vars

(***************************************************************************)
(* An application that was blacklisted with ctrl-d is not offered when f   *)
(* has started again, nor later, unless another process has taken it from  *)
(* the file (LaunchInFrontend, the restart in StartF).  The exceptions are *)
(* the extra applications, which the application provider goes on to offer *)
(* ("skip items from the blacklist" is only said of the others).           *)
(***************************************************************************)
HiddenStays ==
  \A f \in Fs : \A x \in session[f].hidden \ lost :
    \A p \in session[f].providers : \A a \in p.content :
      p.name = x[1] /\ IdOf[a] = x[2] => p.name = "application" /\ a \in Extras

(***************************************************************************)
(* When save-entry-provider-settings ends well, what it adds was stored,   *)
(* even if it is lost since; or the section does not decode, which nobody  *)
(* is told (AddCommandsToConfig returns nil).                              *)
(***************************************************************************)
AddedIsStored ==
  \A c \in Clis : cli[c] = "done" =>
    \A x \in ({"shortcut"} \X NewShortcuts) \cup ({"command"} \X NewCommands) :
      x \in Stored(file) \cup lost \/ conf[c].providers[x[1]] = Garbled

(***************************************************************************)
(* f gives up on a selection ("no provider could handle the selection")    *)
(* only if each provider that offered the line listed a file that has gone *)
(* since, or offered an application that is to be launched while there is  *)
(* no remote: whatever the other lines, prefixes and names, what a         *)
(* provider writes for fzf it finds again, and none that needs the remote  *)
(* for all that it does is asked without one (GetEntryReader, Fetch,       *)
(* IsRemoteIndependent and LaunchInFrontend of each provider).             *)
(***************************************************************************)
SelectedIsHandled ==
  [][\A f \in Fs :
       pc(f) = "dispatch" /\ pc(f)' = "fatal" =>
         /\ session[f].line \in Offered(f)
         /\ \A p \in session[f].providers : session[f].line \in Lines(p) =>
              \/ p.name = "path" /\ session[f].remote
              \/ /\ p.name \in {"desktop", "application"}
                 /\ session[f].key # "ctrl-d" /\ ~ session[f].remote]_vars

(***************************************************************************)
(* The inductive invariant.                                                *)
(***************************************************************************)

\* A process knows what is stored, unless it was stored since it loaded.
NothingUnknown ==
  \A p \in Procs : Stored(file) \subseteq Stored(conf[p]) \cup missed[p]

\* What f has blacklisted was stored, and f knows of it once it has loaded
\* the configuration again.
HiddenIsStored ==
  \A f \in Fs :
    /\ session[f].hidden \subseteq Stored(file) \cup lost
    /\ pc(f) # "start" => session[f].hidden \subseteq Stored(conf[f]) \cup lost

ByKind ==
  \A f \in Fs : \A p \in session[f].providers :
    /\ p.name = "desktop" => p.content \subseteq Apps
    /\ p.name = "application" => p.content \subseteq Apps \cup Extras
    /\ p.name \in {"desktop", "application"} => p.prefix = "@ "
    /\ session[f].remote \/ IsRemoteIndependent(p.name)

\* The selection is one of the lines that are offered.
LineIsOffered ==
  \A f \in Fs :
    (pc(f) = "wait" /\ session[f].out = "entry") \/ pc(f) = "dispatch" =>
      session[f].line \in Offered(f)

\* What was launched is known from the loop over the providers until f ends,
\* or starts again; only applications come to be blacklisted.
LaunchedAfterSelection ==
  \A f \in Fs :
    /\ session[f].launched # "none" =>
         pc(f) \in {"command", "handed", "blacklist", "save", "fatal"}
    /\ pc(f) \in {"blacklist", "save"} =>
         /\ session[f].launched \in {"desktop", "application"}
         /\ TrimPrefix(session[f].line, "@ ") \in Apps \cup Extras

\* AddedIsStored, before and after the commands.
AddedSoFar ==
  \A c \in Clis, n \in {"shortcut", "command"} :
    cli[c] \in (IF n = "shortcut" THEN {"commands", "done"} ELSE {"done"}) =>
      \/ {n} \X (IF n = "shortcut" THEN NewShortcuts ELSE NewCommands)
           \subseteq Stored(file) \cup lost
      \/ conf[c].providers[n] = Garbled

(***************************************************************************)
(* Between the steps of f and glauncher_cli: each process knows what was   *)
(* stored when it loaded the configuration, what f has hidden and what     *)
(* glauncher_cli has added is stored or lost, and f launches a line that   *)
(* it has offered.                                                         *)
(***************************************************************************)
IInv ==
  /\ TypeOK /\ NothingUnknown
  /\ HiddenIsStored /\ HiddenStays
  /\ ByKind /\ LineIsOffered /\ LaunchedAfterSelection
  /\ AddedSoFar

(***************************************************************************)
(* After the user has left fzf, f ends, starts again, runs the command, or *)
(* hands the entry to the remote, even though GetSelection() waits for the *)
(* goroutine that still reads from fdfind.                                 *)
(***************************************************************************)
SelectionEnds ==
  \A f \in Fs : pc(f) = "wait" ~> pc(f) \in {"done", "fatal", "command", "handed", "start"}

(***************************************************************************)
(* "get the defaults, and store them" (NewCommandProvider,                 *)
(* NewShortcutProvider): the settings stored at the first start are those  *)
(* the provider uses.                                                      *)
(***************************************************************************)
DefaultsAreStored ==
  \A f \in Fs : \A p \in session[f].providers :
    p.name \in {"command", "shortcut"} =>
      p.prefix = conf[f].providers[p.name].prefix
=============================================================================
