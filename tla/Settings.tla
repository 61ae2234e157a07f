------------------------------ MODULE Settings -------------------------------
(***************************************************************************)
(* entry/*_provider.go: the section each provider keeps in the             *)
(* configuration, how it is changed, and what a provider makes of it.      *)
(*                                                                         *)
(* A section is what FromJSON() reads and ValToJSON() writes.  Its items   *)
(* are the commands or shortcuts by name, the blacklisted applications, or *)
(* the options that are set for paths.  Names, prefixes and lines are      *)
(* strings, as Fetch() cuts the one from the other.                        *)
(***************************************************************************)
EXTENDS FiniteSets, Naturals, Sequences

CONSTANTS
  Names,     \* names of commands, shortcuts and files
  BadUrls,   \* names of the shortcuts that validateURL() rejects
  Files,     \* what fdfind finds in the base directory
  Folders,   \* those of them that are directories
  Apps,      \* names of applications that have a desktop file
  Extras,    \* names of those that the user adds to the application provider
  Ids, IdOf, \* and the identifiers of these
  Absent,    \* there is no section, or an empty one
  Garbled    \* the section is not of the type of the settings

ProviderNames == {"command", "shortcut", "path", "desktop", "application"}

HideOptions == {"hide-files", "hide-folders"}

Prefixes == {"", "< ", "& ", "@ "}

EntryNames == Names \cup Apps \cup Extras \cup {"config"}

\* made: the map or list of items is not nil; extra: the ExtraApplication of
\* the application provider, which no function adds to.
Section == [items : SUBSET (Names \cup Ids \cup HideOptions),
            prefix : {"", "< ", "& "}, made : BOOLEAN, extra : SUBSET Extras]

\* strings.TrimPrefix(): a prefix that is not there is not taken off.
TrimPrefix(line, prefix) ==
  IF Len(prefix) <= Len(line) /\ SubSeq(line, 1, Len(prefix)) = prefix
  THEN SubSeq(line, Len(prefix) + 1, Len(line)) ELSE line

\* A name that an extra application takes from another one is left out.
ASSUME SettingsAssumption ==
  /\ Absent # Garbled /\ Absent \notin Section /\ Garbled \notin Section
  /\ Files \subseteq Names /\ Apps \cap Extras = {}
  /\ IdOf \in [Apps \cup Extras -> Ids]

ASSUME LineAssumption ==
  \A prefix \in Prefixes, n \in EntryNames : TrimPrefix(prefix \o n, prefix) = n

\* ValFromJSON(): the fields that are absent are zero.
Zero == [items |-> {}, prefix |-> "", made |-> FALSE, extra |-> {}]

ValFromJSON(sec) == IF sec = Absent THEN Zero ELSE sec

\* What a function that sets a section returns, and what it left there;
\* saves: it got as far as conf.Save().
Set(error, saves, sec) == [error |-> error, saves |-> saves, sec |-> sec]

-----------------------------------------------------------------------------
(* Without override: nothing is added if a name is there already. *)

Merge(sec, new) ==
  Set(FALSE, TRUE,
      [ValFromJSON(sec) EXCEPT !.items = @ \cup new, !.made = TRUE])

Duplicates(sec, new) == ValFromJSON(sec).items \cap new

\* Variant: what is there is not looked at.
AddCommandsAfresh(sec, new) ==
  IF sec = Garbled THEN Set(FALSE, FALSE, sec) ELSE Merge(Absent, new)

\* Variant: conf.Save() is forgotten.
AddCommandsUnsaved(sec, new) == [Merge(sec, new) EXCEPT !.saves = FALSE]

AddCommandsToConfig(sec, new) ==
  CASE sec = Garbled -> Set(FALSE, FALSE, sec)   \* the error is not returned
    [] sec # Garbled /\ Duplicates(sec, new) # {} -> Set(TRUE, FALSE, sec)
    [] OTHER -> Merge(sec, new)

\* Variant: the map is left as it is if there is nothing to add.
AddShortcutsIfAny(sec, new) ==
  CASE sec = Garbled -> Set(FALSE, FALSE, sec)
    [] sec # Garbled /\ new = {} -> Set(FALSE, TRUE, ValFromJSON(sec))
    [] OTHER -> Merge(sec, new)

AddShortcutsToConfig(sec, new) ==
  CASE sec = Garbled -> Set(FALSE, FALSE, sec)
    [] sec # Garbled /\ (Duplicates(sec, new) # {} \/ new \cap BadUrls # {})
         -> Set(TRUE, FALSE, sec)
    [] OTHER -> Merge(sec, new)

\* The result of validate() is not looked at.
SetPathProviderSettings(sec, options) ==
  IF sec = Garbled THEN Set(TRUE, FALSE, sec)
  ELSE Set(FALSE, TRUE, [ValFromJSON(sec) EXCEPT !.items = options, !.made = TRUE])

SetDfConfig(sec, blacklist) ==
  IF sec = Garbled THEN Set(TRUE, FALSE, sec)
  ELSE Set(FALSE, TRUE, [ValFromJSON(sec) EXCEPT !.items = blacklist])

SetApplicationConfig(sec, blacklist) == SetDfConfig(sec, blacklist)

\* LaunchInFrontend() of an application with ctrl-d.
Blacklist(sec, id) ==
  IF sec = Garbled THEN Set(TRUE, FALSE, sec)
  ELSE Set(FALSE, TRUE, [ValFromJSON(sec) EXCEPT !.items = @ \cup {id}])

-----------------------------------------------------------------------------
(* The constructors: the section they leave, whether they fail (or panic), *)
(* and the provider.                                                       *)

Provider(name, content, prefix) ==
  [name |-> name, content |-> content, prefix |-> prefix]

New(set, fails, provider) ==
  [error |-> set.error \/ fails, saves |-> set.saves, sec |-> set.sec,
   provider |-> provider]

\* No section yet: the defaults are used, and stored by the function above.
defaultCommandList == [items |-> {}, prefix |-> "< ", made |-> TRUE, extra |-> {}]
defaultShortcutList == [items |-> {}, prefix |-> "& ", made |-> TRUE, extra |-> {}]
defaultPathProviderSettings == Zero
defaultDfSettings == Zero
defaultApplicationSettings == Zero

InUse(sec, default) ==
  CASE sec = Absent -> default
    [] sec = Garbled -> Zero
    [] OTHER -> sec

FirstTime(sec, set) == IF sec = Absent THEN set ELSE Set(FALSE, FALSE, sec)

NewCommandProvider(sec) ==
  LET use == InUse(sec, defaultCommandList) IN
  New(FirstTime(sec, AddCommandsToConfig(sec, use.items)), sec = Garbled,
      Provider("command", use.items, use.prefix))

\* The configuration file itself is a shortcut; a nil map panics.
NewShortcutProvider(sec) ==
  LET use == InUse(sec, defaultShortcutList) IN
  New(FirstTime(sec, AddShortcutsToConfig(sec, use.items)),
      sec = Garbled \/ ~ use.made \/ use.items \cap BadUrls # {},
      Provider("shortcut", use.items \cup {"config"}, use.prefix))

NewPathProvider(sec, flags) ==
  LET use == InUse(sec, defaultPathProviderSettings)
      hide == (use.items \cup flags) \cap HideOptions
  IN  New(FirstTime(sec, SetPathProviderSettings(sec, use.items)),
          sec = Garbled \/ hide = HideOptions,
          Provider("path",
                   {n \in Files : (IF n \in Folders THEN "hide-folders"
                                   ELSE "hide-files") \notin hide},
                   ""))

Shown(blacklist) == {a \in Apps : IdOf[a] \notin blacklist}

\* ok: ScanMulti() returns no error.
NewDesktopFileProvider(sec, ok) ==
  LET use == InUse(sec, defaultDfSettings) IN
  New(FirstTime(sec, SetDfConfig(sec, use.items)), sec = Garbled \/ ~ ok,
      Provider("desktop", Shown(use.items), "@ "))

\* ok: the Python script lists the applications.  Extra ones are added
\* whether they are blacklisted or not.
NewApplicationProvider(sec, ok) ==
  LET use == InUse(sec, defaultApplicationSettings) IN
  New(FirstTime(sec, SetApplicationConfig(sec, use.items)), sec = Garbled \/ ~ ok,
      Provider("application", Shown(use.items) \cup use.extra, "@ "))

NewProvider(name, sec, flags, ok) ==
  CASE name = "command" -> NewCommandProvider(sec)
    [] name = "shortcut" -> NewShortcutProvider(sec)
    [] name = "path" -> NewPathProvider(sec, flags)
    [] name = "desktop" -> NewDesktopFileProvider(sec, ok)
    [] name = "application" -> NewApplicationProvider(sec, ok)

\* Variant: only paths ask for a remote.
IndependentUnlessPath(name) == name # "path"

IsRemoteIndependent(name) == name \notin {"shortcut", "path"}

\* The lines GetEntryReader() yields.
Lines(p) == {p.prefix \o n : n \in p.content}

\* A path is looked up by the whole line, among the files that are there
\* now; an entry of another provider by the line without the prefix.
Fetches(p, line, there) ==
  IF p.name = "path" THEN line \in there ELSE TrimPrefix(line, p.prefix) \in p.content
=============================================================================
