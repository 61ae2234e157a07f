--------------------------- MODULE FSessionProofs ----------------------------
(***************************************************************************)
(* Theorems about FSession, for any number of sessions of f and processes  *)
(* of glauncher_cli, any names and identifiers, and whatever well-typed    *)
(* configuration they begin with.                                          *)
(*                                                                         *)
(* What a constructor, or a function that sets a section, makes of the     *)
(* section comes first; then what a step does to the configuration and to  *)
(* what each process knows of it; then the invariant, action by action.    *)
(***************************************************************************)
EXTENDS FSession, TLAPS

Maybe == Section \cup {Absent, Garbled}

\* What the section of n may be.
SectionOf(n, sec) == sec \in Maybe /\ (sec \in Section => sec.items \subseteq ItemsOf(n))

\* The domain of a provider's content, and its prefix.
ProviderOf(n, p) ==
  /\ p \in [name : ProviderNames, content : SUBSET EntryNames, prefix : Prefixes]
  /\ p.name = n
  /\ n = "desktop" => p.content \subseteq Apps
  /\ n = "application" => p.content \subseteq Apps \cup Extras
  /\ n \in {"desktop", "application"} => p.prefix = "@ "

\* What the provider n offers of what is blacklisted.
Hides(n, blacklist, content) ==
  \A a \in content : IdOf[a] \in blacklist => n = "application" /\ a \in Extras

-----------------------------------------------------------------------------
(* Sections *)

LEMMA SectionFields ==
  ASSUME NEW sec \in Section
  PROVE  /\ sec.items \subseteq Names \cup Ids \cup HideOptions
         /\ sec.prefix \in {"", "< ", "& "} /\ sec.made \in BOOLEAN
         /\ sec.extra \subseteq Extras
         /\ sec # Absent /\ sec # Garbled
BY SettingsAssumption DEF Section

LEMMA ZeroFacts ==
  Zero \in Section /\ Zero.items = {} /\ Zero.prefix = "" /\ Zero.made = FALSE
BY DEF Zero, Section

LEMMA DefaultFacts ==
  /\ defaultCommandList \in Section /\ defaultCommandList.items = {}
  /\ defaultShortcutList \in Section /\ defaultShortcutList.items = {}
  /\ defaultShortcutList.made = TRUE
BY DEF defaultCommandList, defaultShortcutList, Section

LEMMA ItemsFacts ==
  /\ ItemsOf("command") = Names /\ ItemsOf("shortcut") = Names
  /\ ItemsOf("path") = HideOptions
  /\ ItemsOf("desktop") = Ids /\ ItemsOf("application") = Ids
BY DEF ItemsOf

LEMMA FromJSON ==
  ASSUME NEW n, NEW sec, SectionOf(n, sec), sec # Garbled
  PROVE  /\ ValFromJSON(sec) \in Section
         /\ ValFromJSON(sec).items \subseteq ItemsOf(n)
         /\ sec \in Section => ValFromJSON(sec) = sec
         /\ sec \notin Section => sec = Absent /\ ValFromJSON(sec) = Zero
<1>1. CASE sec = Absent
  BY <1>1, ZeroFacts, SettingsAssumption DEF ValFromJSON
<1>2. CASE sec \in Section
  BY <1>2, SectionFields DEF ValFromJSON, SectionOf
<1>3. QED
  BY <1>1, <1>2 DEF SectionOf, Maybe

\* What the default for an absent section has in it.
LEMMA InUseFacts ==
  ASSUME NEW n, NEW sec, SectionOf(n, sec),
         NEW default \in Section, default.items = {}
  PROVE  /\ InUse(sec, default) \in Section
         /\ InUse(sec, default).items \subseteq ItemsOf(n)
         /\ sec \in Section => InUse(sec, default) = sec
         /\ sec = Absent => InUse(sec, default) = default
<1>1. CASE sec = Absent
  BY <1>1, SettingsAssumption DEF InUse
<1>2. CASE sec = Garbled
  BY <1>2, ZeroFacts, SettingsAssumption DEF InUse
<1>3. CASE sec \in Section
  BY <1>3, SectionFields DEF InUse, SectionOf
<1>4. QED
  BY <1>1, <1>2, <1>3 DEF SectionOf, Maybe

\* The section that is merged with new items.
LEMMA MergeFacts ==
  ASSUME NEW sec, ValFromJSON(sec) \in Section, NEW new, new \subseteq Names \cup Ids
  PROVE  /\ Merge(sec, new).error = FALSE /\ Merge(sec, new).saves = TRUE
         /\ Merge(sec, new).sec \in Section
         /\ Merge(sec, new).sec.items = ValFromJSON(sec).items \cup new
         /\ Merge(sec, new).sec.made = TRUE
<1>1. ValFromJSON(sec) \in Section
  OBVIOUS
<1>2. PICK s : s = ValFromJSON(sec)
  OBVIOUS
<1>3. [s EXCEPT !.items = @ \cup new, !.made = TRUE] \in Section
  BY <1>1, <1>2 DEF Section
<1>4. /\ [s EXCEPT !.items = @ \cup new, !.made = TRUE].items = s.items \cup new
      /\ [s EXCEPT !.items = @ \cup new, !.made = TRUE].made = TRUE
  BY <1>1, <1>2 DEF Section
<1>5. QED
  BY <1>2, <1>3, <1>4 DEF Merge, Set

LEMMA SetFields ==
  ASSUME NEW error, NEW saves, NEW sec
  PROVE  /\ Set(error, saves, sec).error = error
         /\ Set(error, saves, sec).saves = saves
         /\ Set(error, saves, sec).sec = sec
BY DEF Set

LEMMA NewFields ==
  ASSUME NEW set, NEW fails, NEW provider
  PROVE  LET new == New(set, fails, provider) IN
         /\ new.error = (set.error \/ fails) /\ new.saves = set.saves
         /\ new.sec = set.sec /\ new.provider = provider
BY DEF New

LEMMA ProviderFields ==
  ASSUME NEW name, NEW content, NEW prefix
  PROVE  LET p == Provider(name, content, prefix) IN
         /\ p.name = name /\ p.content = content /\ p.prefix = prefix
BY DEF Provider

\* A section is left alone, or merged with what is new; the latter makes the
\* map or list, and is never refused for a section that is absent.
Added(n, sec, new, set) ==
  /\ sec = Garbled => set = Set(FALSE, FALSE, sec)
  /\ sec # Garbled =>
       \/ set.error = TRUE /\ set.saves = FALSE /\ set.sec = sec
       \/ /\ set.error = FALSE /\ set.saves = TRUE /\ set.sec \in Section
          /\ set.sec.items = ValFromJSON(sec).items \cup new
          /\ set.sec.made = TRUE
          /\ n = "shortcut" => new \cap BadUrls = {}
  /\ sec # Garbled /\ new = {} => set.error = FALSE

LEMMA CommandsAdded ==
  ASSUME NEW sec, SectionOf("command", sec), NEW new, new \subseteq Names
  PROVE  Added("command", sec, new, AddCommandsToConfig(sec, new))
<1> DEFINE set == AddCommandsToConfig(sec, new)
<1>1. CASE sec = Garbled
  <2>1. set = Set(FALSE, FALSE, sec)
    BY <1>1 DEF AddCommandsToConfig
  <2>2. QED
    BY <1>1, <2>1 DEF Added
<1>2. CASE sec # Garbled /\ Duplicates(sec, new) # {}
  <2>1. set = Set(TRUE, FALSE, sec) /\ new # {}
    BY <1>2 DEF AddCommandsToConfig, Duplicates
  <2>2. QED
    BY <1>2, <2>1, SettingsAssumption DEF Added, Set
<1>3. CASE sec # Garbled /\ Duplicates(sec, new) = {}
  <2>1. set = Merge(sec, new)
    BY <1>3 DEF AddCommandsToConfig
  <2>2. new \subseteq Names \cup Ids
    OBVIOUS
  <2> DEFINE m == Merge(sec, new)
  <2>3. ValFromJSON(sec) \in Section
    BY <1>3, FromJSON
  <2>4. /\ m.error = FALSE /\ m.saves = TRUE /\ m.sec \in Section
        /\ m.sec.items = ValFromJSON(sec).items \cup new /\ m.sec.made = TRUE
    BY <2>2, <2>3, MergeFacts
  <2>5. QED
    BY <1>3, <2>1, <2>4 DEF Added
<1>4. QED
  BY <1>1, <1>2, <1>3

LEMMA ShortcutsAdded ==
  ASSUME NEW sec, SectionOf("shortcut", sec), NEW new, new \subseteq Names
  PROVE  Added("shortcut", sec, new, AddShortcutsToConfig(sec, new))
<1> DEFINE set == AddShortcutsToConfig(sec, new)
           refused == Duplicates(sec, new) # {} \/ new \cap BadUrls # {}
<1>1. CASE sec = Garbled
  <2>1. set = Set(FALSE, FALSE, sec)
    BY <1>1 DEF AddShortcutsToConfig
  <2>2. QED
    BY <1>1, <2>1 DEF Added
<1>2. CASE sec # Garbled /\ refused
  <2>1. set = Set(TRUE, FALSE, sec) /\ new # {}
    BY <1>2 DEF AddShortcutsToConfig, Duplicates
  <2>2. QED
    BY <1>2, <2>1, SettingsAssumption DEF Added, Set
<1>3. CASE sec # Garbled /\ ~ refused
  <2>1. set = Merge(sec, new)
    BY <1>3 DEF AddShortcutsToConfig
  <2>2. new \subseteq Names \cup Ids
    OBVIOUS
  <2> DEFINE m == Merge(sec, new)
  <2>3. ValFromJSON(sec) \in Section
    BY <1>3, FromJSON
  <2>4. /\ m.error = FALSE /\ m.saves = TRUE /\ m.sec \in Section
        /\ m.sec.items = ValFromJSON(sec).items \cup new /\ m.sec.made = TRUE
    BY <2>2, <2>3, MergeFacts
  <2>5. QED
    BY <1>3, <2>1, <2>4 DEF Added
<1>4. QED
  BY <1>1, <1>2, <1>3

\* When the constructor fails, without flags.
Fails(n, sec) ==
  \/ sec = Garbled
  \/ /\ sec \in Section /\ n = "shortcut"
     /\ sec.made = FALSE \/ sec.items \cap BadUrls # {}
  \/ sec \in Section /\ n = "path" /\ sec.items \cap HideOptions = HideOptions

\* What the constructor does to a section that is absent.
First(n, sec) ==
  /\ sec.error = FALSE /\ sec.saves = TRUE
  /\ sec.sec \in Section /\ sec.sec.items = {}
  /\ n = "shortcut" => sec.sec.made = TRUE

LEMMA FirstCommand ==
  First("command", AddCommandsToConfig(Absent, {}))
<1>1. SectionOf("command", Absent)
  BY SettingsAssumption DEF SectionOf, Maybe
<1>2. Added("command", Absent, {}, AddCommandsToConfig(Absent, {}))
  BY <1>1, CommandsAdded
<1>3. QED
  BY <1>2, ZeroFacts, SettingsAssumption DEF Added, First, ValFromJSON

LEMMA FirstShortcut ==
  First("shortcut", AddShortcutsToConfig(Absent, {}))
<1>1. SectionOf("shortcut", Absent)
  BY SettingsAssumption DEF SectionOf, Maybe
<1>2. Added("shortcut", Absent, {}, AddShortcutsToConfig(Absent, {}))
  BY <1>1, ShortcutsAdded
<1>3. QED
  BY <1>2, ZeroFacts, SettingsAssumption DEF Added, First, ValFromJSON

LEMMA FirstOthers ==
  /\ First("path", SetPathProviderSettings(Absent, {}))
  /\ First("desktop", SetDfConfig(Absent, {}))
  /\ First("application", SetApplicationConfig(Absent, {}))
<1>1. ValFromJSON(Absent) = Zero
  BY DEF ValFromJSON
<1>2. /\ [Zero EXCEPT !.items = {}, !.made = TRUE] \in Section
      /\ [Zero EXCEPT !.items = {}, !.made = TRUE].items = {}
      /\ [Zero EXCEPT !.items = {}] \in Section
      /\ [Zero EXCEPT !.items = {}].items = {}
  BY DEF Zero, Section
<1>3. /\ SetPathProviderSettings(Absent, {})
           = Set(FALSE, TRUE, [Zero EXCEPT !.items = {}, !.made = TRUE])
      /\ SetDfConfig(Absent, {}) = Set(FALSE, TRUE, [Zero EXCEPT !.items = {}])
      /\ SetApplicationConfig(Absent, {}) = SetDfConfig(Absent, {})
  BY <1>1, SettingsAssumption
  DEF SetPathProviderSettings, SetDfConfig, SetApplicationConfig
<1>4. \A sec \in Section : sec.items = {} =>
        \A n : n # "shortcut" => First(n, Set(FALSE, TRUE, sec))
  BY DEF First, Set
<1>5. QED
  BY <1>2, <1>3, <1>4

\* What a constructor returns.
Constructed(n, sec, flags, ok, new) ==
  /\ new.error \in BOOLEAN /\ new.saves \in BOOLEAN
  /\ sec = Absent => new.saves = TRUE /\ new.sec \in Section /\ new.sec.items = {}
  /\ sec = Absent /\ n = "shortcut" => new.sec.made = TRUE
  /\ sec # Absent => new.saves = FALSE /\ new.sec = sec
  /\ ProviderOf(n, new.provider)
  /\ n \in {"desktop", "application"} /\ sec \in Section =>
       Hides(n, sec.items, new.provider.content)
  /\ flags = {} /\ ok => (new.error <=> Fails(n, sec))

LEMMA FirstTimeFacts ==
  ASSUME NEW sec, NEW set
  PROVE  /\ sec = Absent => FirstTime(sec, set) = set
         /\ sec # Absent => /\ FirstTime(sec, set).error = FALSE
                            /\ FirstTime(sec, set).saves = FALSE
                            /\ FirstTime(sec, set).sec = sec
BY DEF FirstTime, Set

\* A constructor, from the function it calls at the first start, when it
\* fails, and the provider it makes.
LEMMA Construct ==
  ASSUME NEW n, NEW sec, NEW set, sec = Absent => First(n, set),
         NEW fails \in BOOLEAN, NEW flags, NEW ok \in BOOLEAN,
         flags = {} /\ ok => (fails <=> Fails(n, sec)),
         NEW p, ProviderOf(n, p),
         n \in {"desktop", "application"} /\ sec \in Section =>
           Hides(n, sec.items, p.content)
  PROVE  Constructed(n, sec, flags, ok, New(FirstTime(sec, set), fails, p))
<1> DEFINE first == FirstTime(sec, set)
           new == New(first, fails, p)
<1>1. /\ new.error = (first.error \/ fails) /\ new.saves = first.saves
      /\ new.sec = first.sec /\ new.provider = p
  BY NewFields
<1>2. sec = Absent => first = set
  BY FirstTimeFacts
<1>3. sec # Absent => first.error = FALSE /\ first.saves = FALSE /\ first.sec = sec
  BY FirstTimeFacts
<1>4. first.error = FALSE
  BY <1>2, <1>3 DEF First
<1> HIDE DEF first, new
<1>5. new.error \in BOOLEAN /\ (flags = {} /\ ok => (new.error <=> Fails(n, sec)))
  BY <1>1, <1>4
<1>6. sec = Absent => /\ new.saves = TRUE /\ new.sec \in Section /\ new.sec.items = {}
                      /\ n = "shortcut" => new.sec.made = TRUE
  BY <1>1, <1>2 DEF First
<1>7. sec # Absent => new.saves = FALSE /\ new.sec = sec
  BY <1>1, <1>3
<1>8. new.saves \in BOOLEAN
  BY <1>6, <1>7
<1>9. /\ ProviderOf(n, new.provider)
      /\ n \in {"desktop", "application"} /\ sec \in Section =>
           Hides(n, sec.items, new.provider.content)
  BY <1>1
<1>10. Constructed(n, sec, flags, ok, new)
  BY <1>5, <1>6, <1>7, <1>8, <1>9, Zenon DEF Constructed
<1>11. QED
  BY <1>10 DEF new, first

LEMMA NewCommand ==
  ASSUME NEW sec, SectionOf("command", sec), NEW flags,
         NEW ok \in BOOLEAN
  PROVE  Constructed("command", sec, flags, ok, NewCommandProvider(sec))
<1> DEFINE use == InUse(sec, defaultCommandList)
           p == Provider("command", use.items, use.prefix)
<1>1. use \in Section /\ use.items \subseteq Names
  BY InUseFacts, DefaultFacts, ItemsFacts
<1>2. sec = Absent => use.items = {}
  BY InUseFacts, DefaultFacts
<1>3. ProviderOf("command", p)
  BY <1>1, SectionFields DEF ProviderOf, Provider, ProviderNames, Prefixes, EntryNames
<1>4. sec = Absent => First("command", AddCommandsToConfig(sec, use.items))
  BY <1>2, FirstCommand
<1>5. (sec = Garbled) \in BOOLEAN /\ ((sec = Garbled) <=> Fails("command", sec))
  BY DEF Fails
<1> HIDE DEF use, p
<1>6. Constructed("command", sec, flags, ok,
        New(FirstTime(sec, AddCommandsToConfig(sec, use.items)), sec = Garbled, p))
  BY <1>3, <1>4, <1>5, Construct
<1>7. QED
  BY <1>6 DEF NewCommandProvider, use, p

LEMMA NewShortcut ==
  ASSUME NEW sec, SectionOf("shortcut", sec), NEW flags,
         NEW ok \in BOOLEAN
  PROVE  Constructed("shortcut", sec, flags, ok, NewShortcutProvider(sec))
<1> DEFINE use == InUse(sec, defaultShortcutList)
           p == Provider("shortcut", use.items \cup {"config"}, use.prefix)
           fails == sec = Garbled \/ ~ use.made \/ use.items \cap BadUrls # {}
<1>1. use \in Section /\ use.items \subseteq Names
  BY InUseFacts, DefaultFacts, ItemsFacts
<1>2. /\ sec = Absent => use.items = {} /\ use.made = TRUE
      /\ sec \in Section => use = sec
  BY InUseFacts, DefaultFacts
<1>3. ProviderOf("shortcut", p)
  BY <1>1, SectionFields DEF ProviderOf, Provider, ProviderNames, Prefixes, EntryNames
<1>4. sec = Absent => First("shortcut", AddShortcutsToConfig(sec, use.items))
  BY <1>2, FirstShortcut
<1>5. fails \in BOOLEAN
  OBVIOUS
<1>6. fails <=> Fails("shortcut", sec)
  <2>1. use.made \in BOOLEAN
    BY <1>1, SectionFields
  <2>2. CASE sec = Absent
    BY <2>2, <1>2, SettingsAssumption DEF Fails
  <2>3. CASE sec \in Section
    BY <2>1, <2>3, <1>2 DEF Fails
  <2>4. CASE sec = Garbled
    BY <2>4 DEF Fails
  <2>5. QED
    BY <2>2, <2>3, <2>4 DEF SectionOf, Maybe
<1> HIDE DEF use, p, fails
<1>7. Constructed("shortcut", sec, flags, ok,
        New(FirstTime(sec, AddShortcutsToConfig(sec, use.items)), fails, p))
  BY <1>3, <1>4, <1>5, <1>6, Construct
<1>8. QED
  BY <1>7 DEF NewShortcutProvider, use, p, fails

LEMMA NewPath ==
  ASSUME NEW sec, SectionOf("path", sec), NEW flags,
         NEW ok \in BOOLEAN
  PROVE  Constructed("path", sec, flags, ok, NewPathProvider(sec, flags))
<1> DEFINE use == InUse(sec, defaultPathProviderSettings)
           hide == (use.items \cup flags) \cap HideOptions
           content == {n \in Files : (IF n \in Folders THEN "hide-folders"
                                      ELSE "hide-files") \notin hide}
           p == Provider("path", content, "")
           fails == sec = Garbled \/ hide = HideOptions
<1>1. use \in Section
  BY InUseFacts, ZeroFacts DEF defaultPathProviderSettings
<1>2. /\ sec = Absent => use.items = {}
      /\ sec \in Section => use = sec
  BY InUseFacts, ZeroFacts DEF defaultPathProviderSettings
<1>3. ProviderOf("path", p)
  BY SettingsAssumption DEF ProviderOf, Provider, ProviderNames, Prefixes, EntryNames
<1>4. sec = Absent => First("path", SetPathProviderSettings(sec, use.items))
  BY <1>2, FirstOthers
<1>5. fails \in BOOLEAN
  OBVIOUS
<1>6. flags = {} => (fails <=> Fails("path", sec))
  <2>1. CASE sec = Absent
    BY <2>1, <1>2, SettingsAssumption DEF Fails, HideOptions
  <2>2. CASE sec \in Section
    BY <2>2, <1>2 DEF Fails
  <2>3. CASE sec = Garbled
    BY <2>3 DEF Fails
  <2>4. QED
    BY <2>1, <2>2, <2>3 DEF SectionOf, Maybe
<1>7. Constructed("path", sec, flags, ok,
        New(FirstTime(sec, SetPathProviderSettings(sec, use.items)), fails, p))
  <2> HIDE DEF use, p, fails
  <2>1. QED
    BY <1>3, <1>4, <1>5, <1>6, Construct
<1>8. QED
  BY <1>7 DEF NewPathProvider

LEMMA NewDesktopFile ==
  ASSUME NEW sec, SectionOf("desktop", sec), NEW flags,
         NEW ok \in BOOLEAN
  PROVE  Constructed("desktop", sec, flags, ok, NewDesktopFileProvider(sec, ok))
<1> DEFINE use == InUse(sec, defaultDfSettings)
           p == Provider("desktop", Shown(use.items), "@ ")
           fails == sec = Garbled \/ ~ ok
<1>1. /\ sec = Absent => use.items = {}
      /\ sec \in Section => use = sec
  BY InUseFacts, ZeroFacts DEF defaultDfSettings
<1>2. ProviderOf("desktop", p)
  BY DEF ProviderOf, Provider, ProviderNames, Prefixes, EntryNames, Shown
<1>3. sec \in Section => Hides("desktop", sec.items, p.content)
  BY <1>1 DEF Provider, Hides, Shown
<1>4. sec = Absent => First("desktop", SetDfConfig(sec, use.items))
  BY <1>1, FirstOthers
<1>5. fails \in BOOLEAN /\ (ok => (fails <=> Fails("desktop", sec)))
  BY DEF Fails
<1> HIDE DEF use, p, fails
<1>6. Constructed("desktop", sec, flags, ok,
        New(FirstTime(sec, SetDfConfig(sec, use.items)), fails, p))
  BY <1>2, <1>3, <1>4, <1>5, Construct
<1>7. QED
  BY <1>6 DEF NewDesktopFileProvider, use, p, fails

LEMMA NewApplication ==
  ASSUME NEW sec, SectionOf("application", sec), NEW flags,
         NEW ok \in BOOLEAN
  PROVE  Constructed("application", sec, flags, ok, NewApplicationProvider(sec, ok))
<1> DEFINE use == InUse(sec, defaultApplicationSettings)
           p == Provider("application", Shown(use.items) \cup use.extra, "@ ")
           fails == sec = Garbled \/ ~ ok
<1>1. /\ use \in Section
      /\ sec = Absent => use.items = {}
      /\ sec \in Section => use = sec
  BY InUseFacts, ZeroFacts DEF defaultApplicationSettings
<1>2. ProviderOf("application", p)
  BY <1>1, SectionFields DEF ProviderOf, Provider, ProviderNames, Prefixes, EntryNames, Shown
<1>3. sec \in Section => Hides("application", sec.items, p.content)
  BY <1>1, SectionFields DEF Provider, Hides, Shown
<1>4. sec = Absent => First("application", SetApplicationConfig(sec, use.items))
  BY <1>1, FirstOthers
<1>5. fails \in BOOLEAN /\ (ok => (fails <=> Fails("application", sec)))
  BY DEF Fails
<1> HIDE DEF use, p, fails
<1>6. Constructed("application", sec, flags, ok,
        New(FirstTime(sec, SetApplicationConfig(sec, use.items)), fails, p))
  BY <1>2, <1>3, <1>4, <1>5, Construct
<1>7. QED
  BY <1>6 DEF NewApplicationProvider, use, p, fails

LEMMA NewFacts ==
  ASSUME NEW n \in ProviderNames, NEW sec, SectionOf(n, sec), NEW flags,
         NEW ok \in BOOLEAN
  PROVE  Constructed(n, sec, flags, ok, NewProvider(n, sec, flags, ok))
<1>1. CASE n = "command"
  BY <1>1, NewCommand DEF NewProvider
<1>2. CASE n = "shortcut"
  BY <1>2, NewShortcut DEF NewProvider
<1>3. CASE n = "path"
  BY <1>3, NewPath DEF NewProvider
<1>4. CASE n = "desktop"
  BY <1>4, NewDesktopFile DEF NewProvider
<1>5. CASE n = "application"
  BY <1>5, NewApplication DEF NewProvider
<1>6. QED
  BY <1>1, <1>2, <1>3, <1>4, <1>5 DEF ProviderNames

-----------------------------------------------------------------------------
(* What is in a section stays there, and the section stays in order        *)

\* What a function that sets the section of n leaves: a section of its type,
\* with what was in it, that is not to blame if the constructor fails.
Keeps(n, sec, set) ==
  /\ SectionOf(n, set.sec)
  /\ set.saves \in BOOLEAN
  /\ sec \in Section => set.sec \in Section /\ sec.items \subseteq set.sec.items
  /\ sec = Garbled => set.sec = Garbled
  /\ Fails(n, set.sec) => Fails(n, sec)

LEMMA ConstructorKeeps ==
  ASSUME NEW n \in ProviderNames, NEW sec, SectionOf(n, sec), NEW flags,
         NEW ok \in BOOLEAN
  PROVE  Keeps(n, sec, NewProvider(n, sec, flags, ok))
<1> DEFINE new == NewProvider(n, sec, flags, ok)
<1>1. Constructed(n, sec, flags, ok, new)
  BY NewFacts
<1> HIDE DEF new
<1>2. CASE sec = Absent
  <2>1. new.saves = TRUE /\ new.sec \in Section /\ new.sec.items = {}
    BY <1>1, <1>2 DEF Constructed
  <2>2. n = "shortcut" => new.sec.made = TRUE
    BY <1>1, <1>2 DEF Constructed
  <2>3. ~ Fails(n, new.sec)
    BY <2>1, <2>2, SectionFields DEF Fails, HideOptions
  <2>4. SectionOf(n, new.sec)
    BY <2>1 DEF SectionOf, Maybe
  <2>5. Keeps(n, sec, new)
    BY <1>2, <2>1, <2>3, <2>4, SettingsAssumption DEF Keeps
  <2>6. QED
    BY <2>5 DEF new
<1>3. CASE sec # Absent
  <2>1. new.saves = FALSE /\ new.sec = sec
    BY <1>1, <1>3 DEF Constructed
  <2>2. Keeps(n, sec, new)
    BY <2>1 DEF Keeps
  <2>3. QED
    BY <2>2 DEF new
<1>4. QED
  BY <1>2, <1>3

LEMMA AddedKeeps ==
  ASSUME NEW n \in {"command", "shortcut"}, NEW sec, SectionOf(n, sec),
         NEW new, new \subseteq Names, NEW set, Added(n, sec, new, set)
  PROVE  /\ Keeps(n, sec, set)
         /\ set.error # TRUE /\ sec # Garbled =>
              set.saves = TRUE /\ set.sec \in Section /\ new \subseteq set.sec.items
<1>1. CASE sec = Garbled
  <2>1. set.saves = FALSE /\ set.sec = sec
    BY <1>1 DEF Added, Set
  <2>2. QED
    BY <1>1, <2>1 DEF Keeps
<1>2. CASE sec # Garbled /\ set.error = TRUE /\ set.saves = FALSE /\ set.sec = sec
  BY <1>2 DEF Keeps
<1>3. CASE /\ sec # Garbled
           /\ set.error = FALSE /\ set.saves = TRUE /\ set.sec \in Section
           /\ set.sec.items = ValFromJSON(sec).items \cup new
           /\ set.sec.made = TRUE
           /\ n = "shortcut" => new \cap BadUrls = {}
  <2>1. /\ ValFromJSON(sec) \in Section
        /\ ValFromJSON(sec).items \subseteq ItemsOf(n)
        /\ sec \in Section => ValFromJSON(sec) = sec
        /\ sec \notin Section => sec = Absent /\ ValFromJSON(sec) = Zero
    BY <1>3, FromJSON
  <2>2. ItemsOf(n) = Names
    BY ItemsFacts
  <2>3. SectionOf(n, set.sec)
    BY <1>3, <2>1, <2>2 DEF SectionOf, Maybe
  <2>4. sec \in Section => sec.items \subseteq set.sec.items
    BY <1>3, <2>1
  <2>5. Fails(n, set.sec) => Fails(n, sec)
    <3>1. set.sec # Garbled
      BY <1>3, SectionFields
    <3>2. SUFFICES ASSUME n = "shortcut", set.sec.items \cap BadUrls # {}
                   PROVE  Fails(n, sec)
      BY <1>3, <3>1 DEF Fails
    <3>3. ValFromJSON(sec).items \cap BadUrls # {}
      BY <1>3, <3>2
    <3>4. sec \in Section
      BY <2>1, <3>3, ZeroFacts
    <3>5. QED
      BY <2>1, <3>2, <3>3, <3>4 DEF Fails
  <2>6. QED
    BY <1>3, <2>3, <2>4, <2>5 DEF Keeps
<1>4. QED
  BY <1>1, <1>2, <1>3 DEF Added

LEMMA BlacklistKeeps ==
  ASSUME NEW n \in {"desktop", "application"}, NEW sec, SectionOf(n, sec), NEW id \in Ids
  PROVE  LET set == Blacklist(sec, id) IN
         /\ Keeps(n, sec, set) /\ set.error \in BOOLEAN
         /\ ~ set.error => set.saves = TRUE /\ set.sec \in Section /\ id \in set.sec.items
<1> DEFINE set == Blacklist(sec, id)
<1>1. CASE sec = Garbled
  <2>1. set.error = TRUE /\ set.saves = FALSE /\ set.sec = sec
    BY <1>1 DEF Blacklist, Set
  <2>2. QED
    BY <1>1, <2>1 DEF Keeps
<1>2. CASE sec # Garbled
  <2>1. /\ ValFromJSON(sec) \in Section
        /\ ValFromJSON(sec).items \subseteq Ids
        /\ sec \in Section => ValFromJSON(sec) = sec
        /\ sec \notin Section => sec = Absent
    BY <1>2, FromJSON, ItemsFacts
  <2>2. PICK s : s = [ValFromJSON(sec) EXCEPT !.items = @ \cup {id}]
    OBVIOUS
  <2>3. s \in Section /\ s.items = ValFromJSON(sec).items \cup {id}
    BY <2>1, <2>2 DEF Section
  <2>4. set.error = FALSE /\ set.saves = TRUE /\ set.sec = s
    BY <1>2, <2>2 DEF Blacklist, Set
  <2>5. SectionOf(n, s)
    BY <2>1, <2>3, ItemsFacts DEF SectionOf, Maybe
  <2>6. ~ Fails(n, s)
    BY <2>3, SectionFields DEF Fails
  <2>7. Keeps(n, sec, set)
    <3> HIDE DEF set
    <3>1. QED
      BY <1>2, <2>1, <2>3, <2>4, <2>5, <2>6 DEF Keeps
  <2>8. QED
    BY <2>3, <2>4, <2>7
<1>3. QED
  BY <1>1, <1>2

-----------------------------------------------------------------------------
(* Configurations *)

LEMMA ConfigFields ==
  ASSUME NEW c, WellTyped(c)
  PROVE  /\ c.remotes \in [Remotes -> {"absent", "stored", "bad"}]
         /\ c.blacklist \subseteq ProviderNames
         /\ \A n \in ProviderNames : SectionOf(n, c.providers[n])
<1>1. c.providers \in [ProviderNames -> Section \cup {Absent, Garbled}]
  BY DEF WellTyped, Config
<1>2. QED
  BY <1>1 DEF WellTyped, Config, SectionOf, Maybe

LEMMA StoredFacts ==
  ASSUME NEW c, WellTyped(c)
  PROVE  /\ Stored(c) \subseteq ProviderNames \X (Names \cup Ids)
         /\ \A n \in ProviderNames, i \in Names \cup Ids :
              <<n, i>> \in Stored(c) <=>
                c.providers[n] \in Section /\ i \in c.providers[n].items
<1>1. \A n \in ProviderNames : c.providers[n] \in Section \cup {Absent, Garbled}
  BY ConfigFields DEF SectionOf, Maybe
<1>2. \A n \in ProviderNames :
        c.providers[n] \in Section <=> c.providers[n] \notin {Absent, Garbled}
  BY <1>1, SettingsAssumption
<1>3. QED
  BY <1>2 DEF Stored

LEMMA BrickedFacts ==
  ASSUME NEW c, WellTyped(c), NEW n \in ProviderNames
  PROVE  Bricked(n, c) <=> Fails(n, c.providers[n])
<1>1. SectionOf(n, c.providers[n])
  BY ConfigFields
<1>2. Constructed(n, c.providers[n], {}, TRUE, NewProvider(n, c.providers[n], {}, TRUE))
  BY <1>1, NewFacts
<1>3. QED
  BY <1>2, Zenon DEF Bricked, Constructed

\* d is c after changes that keep what is stored, and brick nothing.
Improves(c, d) ==
  /\ WellTyped(d)
  /\ Stored(c) \subseteq Stored(d)
  /\ \A n \in ProviderNames : Bricked(n, d) => Bricked(n, c)
  /\ \A n \in ProviderNames : c.providers[n] = Garbled => d.providers[n] = Garbled

LEMMA SectionSet ==
  ASSUME NEW c, WellTyped(c), NEW n \in ProviderNames,
         NEW set, Keeps(n, c.providers[n], set)
  PROVE  LET d == [c EXCEPT !.providers[n] = set.sec] IN
         Improves(c, d) /\ d.providers[n] = set.sec /\ d.remotes = c.remotes
<1>1. PICK d : d = [c EXCEPT !.providers[n] = set.sec]
  OBVIOUS
<1>2. SectionOf(n, set.sec)
  BY DEF Keeps
<1>3. c \in Config
  BY DEF WellTyped
<1>4. d \in Config
  BY <1>1, <1>2, <1>3 DEF Config, SectionOf, Maybe
<1>5. /\ d.providers[n] = set.sec
      /\ \A m \in ProviderNames : m # n => d.providers[m] = c.providers[m]
      /\ d.remotes = c.remotes
  BY <1>1, <1>3 DEF Config
<1>6. WellTyped(d)
  BY <1>2, <1>4, <1>5 DEF WellTyped, SectionOf
<1>7. ASSUME NEW x \in Stored(c)
      PROVE  x \in Stored(d)
  <2>1. PICK m \in ProviderNames, i \in Names \cup Ids : x = <<m, i>>
    BY StoredFacts
  <2>2. c.providers[m] \in Section /\ i \in c.providers[m].items
    BY <2>1, StoredFacts
  <2>3. d.providers[m] \in Section /\ i \in d.providers[m].items
    BY <2>2, <1>5 DEF Keeps
  <2>4. QED
    BY <1>6, <2>1, <2>3, StoredFacts
<1>8. ASSUME NEW m \in ProviderNames, Bricked(m, d)
      PROVE  Bricked(m, c)
  <2>1. Fails(m, d.providers[m])
    BY <1>6, <1>8, BrickedFacts
  <2>2. Fails(m, c.providers[m])
    <3>1. CASE m = n
      BY <3>1, <2>1, <1>5 DEF Keeps
    <3>2. CASE m # n
      BY <3>2, <2>1, <1>5
    <3>3. QED
      BY <3>1, <3>2
  <2>3. QED
    BY <2>2, BrickedFacts
<1>9. \A m \in ProviderNames : c.providers[m] = Garbled => d.providers[m] = Garbled
  BY <1>5 DEF Keeps
<1>10. Improves(c, d)
  BY <1>6, <1>7, <1>8, <1>9 DEF Improves
<1>11. QED
  BY <1>1, <1>5, <1>10

LEMMA RemoteSet ==
  ASSUME NEW c, WellTyped(c), NEW r \in Remotes
  PROVE  Improves(c, [c EXCEPT !.remotes[r] = "stored"])
<1>1. PICK d : d = [c EXCEPT !.remotes[r] = "stored"]
  OBVIOUS
<1>2. c \in Config
  BY DEF WellTyped
<1>3. d \in Config /\ d.providers = c.providers
  BY <1>1, <1>2 DEF Config
<1>4. QED
  BY <1>1, <1>3 DEF Improves, WellTyped, Stored, Bricked

-----------------------------------------------------------------------------
(* The invariant in three parts: the configuration, each session by itself *)
(* and what is saved from glauncher_cli                                    *)

StoreOK ==
  /\ WellTyped(file)
  /\ conf \in [Procs -> Config] /\ \A p \in Procs : WellTyped(conf[p])
  /\ missed \in [Procs -> SUBSET (ProviderNames \X (Names \cup Ids))]
  /\ lost \subseteq ProviderNames \X (Names \cup Ids)
  /\ NothingUnknown

LinesOf(providers) == UNION {Lines(p) : p \in providers}

\* Session s, whose process has the configuration c in memory, d is in the
\* file, and l is lost.
SessionOK(s, c, d, l) ==
  /\ s \in Session
  /\ s.hidden \subseteq Stored(d) \cup l
  /\ s.pc # "start" => s.hidden \subseteq Stored(c) \cup l
  /\ \A x \in s.hidden \ l : \A p \in s.providers : \A a \in p.content :
       p.name = x[1] /\ IdOf[a] = x[2] => p.name = "application" /\ a \in Extras
  /\ \A p \in s.providers :
       /\ p.name = "desktop" => p.content \subseteq Apps
       /\ p.name = "application" => p.content \subseteq Apps \cup Extras
       /\ p.name \in {"desktop", "application"} => p.prefix = "@ "
       /\ s.remote \/ IsRemoteIndependent(p.name)
  /\ (s.pc = "wait" /\ s.out = "entry") \/ s.pc = "dispatch" =>
       s.line \in LinesOf(s.providers)
  /\ s.launched # "none" => s.pc \in {"command", "handed", "blacklist", "save", "fatal"}
  /\ s.pc \in {"blacklist", "save"} =>
       /\ s.launched \in {"desktop", "application"}
       /\ TrimPrefix(s.line, "@ ") \in Apps \cup Extras

SessionsOK ==
  /\ session \in [Fs -> Session]
  /\ \A f \in Fs : SessionOK(session[f], conf[f], file, lost)

\* What c adds to the section of n, and when it is done with it.
ToAdd(n) == IF n = "shortcut" THEN NewShortcuts ELSE NewCommands
After(n) == IF n = "shortcut" THEN {"commands", "done"} ELSE {"done"}

\* at: where glauncher_cli is, with c in memory, d in the file, and l lost.
CliOK(at, c, d, l) ==
  /\ at \in {"start", "shortcuts", "commands", "done", "fatal"}
  /\ \A n \in {"shortcut", "command"} :
       at \in After(n) =>
         \/ {n} \X ToAdd(n) \subseteq Stored(d) \cup l
         \/ c.providers[n] = Garbled

ClisOK ==
  /\ cli \in [Clis -> {"start", "shortcuts", "commands", "done", "fatal"}]
  /\ \A c \in Clis : CliOK(cli[c], conf[c], file, lost)

LEMMA Parts == IInv <=> StoreOK /\ SessionsOK /\ ClisOK
<1>1. TypeOK /\ NothingUnknown <=>
        /\ StoreOK /\ session \in [Fs -> Session]
        /\ cli \in [Clis -> {"start", "shortcuts", "commands", "done", "fatal"}]
  BY DEF TypeOK, StoreOK
<1>2. ASSUME session \in [Fs -> Session]
      PROVE  HiddenIsStored /\ HiddenStays /\ ByKind /\ LineIsOffered
               /\ LaunchedAfterSelection
             <=> \A f \in Fs : SessionOK(session[f], conf[f], file, lost)
  BY <1>2, Zenon
  DEF HiddenIsStored, HiddenStays, ByKind, LineIsOffered, LaunchedAfterSelection,
      Offered, LinesOf, SessionOK, pc
<1>3. ASSUME cli \in [Clis -> {"start", "shortcuts", "commands", "done", "fatal"}]
      PROVE  AddedSoFar <=> \A c \in Clis : CliOK(cli[c], conf[c], file, lost)
  BY <1>3, Zenon DEF AddedSoFar, CliOK, ToAdd, After
<1>4. QED
  BY <1>1, <1>2, <1>3 DEF IInv, SessionsOK, ClisOK

\* A step of p: what was stored still is, or is lost, and the others keep
\* what they have in memory.
StoreStep(p) ==
  /\ StoreOK'
  /\ lost \subseteq lost'
  /\ Stored(file) \subseteq Stored(file') \cup lost'
  /\ \A q \in Procs : q # p => conf'[q] = conf[q]

LEMMA LoadStep ==
  ASSUME StoreOK, NEW p \in Procs, LoadConfig(p)
  PROVE  StoreStep(p) /\ conf'[p] = file
<1>1. conf'[p] = file /\ \A q \in Procs : q # p => conf'[q] = conf[q]
  BY DEF LoadConfig, StoreOK
<1>2. missed'[p] = {} /\ \A q \in Procs : q # p => missed'[q] = missed[q]
  BY DEF LoadConfig, StoreOK
<1>3. file' = file /\ lost' = lost
  BY DEF LoadConfig
<1>4. /\ conf' \in [Procs -> Config]
      /\ missed' \in [Procs -> SUBSET (ProviderNames \X (Names \cup Ids))]
  BY DEF LoadConfig, StoreOK, WellTyped
<1>5. \A q \in Procs : WellTyped(conf'[q])
  BY <1>1 DEF StoreOK
<1>6. NothingUnknown'
  BY <1>1, <1>2, <1>3 DEF NothingUnknown, StoreOK
<1>7. QED
  BY <1>1, <1>3, <1>4, <1>5, <1>6 DEF StoreStep, StoreOK

LEMMA SaveStep ==
  ASSUME StoreOK, NEW p \in Procs, NEW c, Improves(conf[p], c),
         NEW saves \in BOOLEAN, Save(p, c, saves)
  PROVE  /\ StoreStep(p) /\ conf'[p] = c
         /\ file' = IF saves THEN c ELSE file
<1>1. conf'[p] = c /\ \A q \in Procs : q # p => conf'[q] = conf[q]
  BY DEF Save, StoreOK
<1>2. file' = IF saves THEN c ELSE file
  BY DEF Save
<1>3. lost' = lost \cup (Stored(file) \ Stored(file'))
  BY DEF Save
<1>4. \A q \in Procs :
        missed'[q] = IF saves /\ q # p THEN missed[q] \cup (Stored(c) \ Stored(file))
                     ELSE missed[q]
  BY DEF Save
<1>5. WellTyped(c) /\ WellTyped(file')
  BY <1>2 DEF Improves, StoreOK
<1>6. Stored(file) \subseteq ProviderNames \X (Names \cup Ids)
      /\ Stored(c) \subseteq ProviderNames \X (Names \cup Ids)
  BY <1>5, StoredFacts DEF StoreOK
<1>7. missed' \in [Procs -> SUBSET (ProviderNames \X (Names \cup Ids))]
  BY <1>6 DEF Save, StoreOK
<1>8. conf' \in [Procs -> Config] /\ \A q \in Procs : WellTyped(conf'[q])
  <2>1. c \in Config
    BY <1>5 DEF WellTyped
  <2>2. QED
    BY <1>1, <1>5, <2>1 DEF Save, StoreOK
<1>9. NothingUnknown'
  <2>1. SUFFICES ASSUME NEW q \in Procs
                 PROVE  Stored(file') \subseteq Stored(conf'[q]) \cup missed'[q]
    BY DEF NothingUnknown
  <2>2. Stored(file) \subseteq Stored(conf[q]) \cup missed[q]
    BY DEF NothingUnknown, StoreOK
  <2>3. CASE q = p
    <3>1. Stored(conf[p]) \subseteq Stored(c)
      BY DEF Improves
    <3>2. QED
      BY <2>2, <2>3, <3>1, <1>1, <1>2, <1>4
  <2>4. CASE q # p
    BY <2>2, <2>4, <1>1, <1>2, <1>4
  <2>5. QED
    BY <2>3, <2>4
<1>10. lost' \subseteq ProviderNames \X (Names \cup Ids)
  BY <1>3, <1>6 DEF StoreOK
<1>11. QED
  BY <1>1, <1>2, <1>3, <1>5, <1>7, <1>8, <1>9, <1>10 DEF StoreStep, StoreOK

-----------------------------------------------------------------------------
(* What a step of one process leaves alone *)

LEMMA SessionLater ==
  ASSUME NEW s, NEW c, NEW d, NEW l, SessionOK(s, c, d, l),
         NEW cc, NEW dd, NEW ll, l \subseteq ll,
         Stored(d) \subseteq Stored(dd) \cup ll,
         Stored(c) \subseteq Stored(cc)
  PROVE  SessionOK(s, cc, dd, ll)
BY DEF SessionOK

LEMMA CliLater ==
  ASSUME NEW at, NEW c, NEW d, NEW l, CliOK(at, c, d, l),
         NEW dd, NEW ll, l \subseteq ll,
         Stored(d) \subseteq Stored(dd) \cup ll
  PROVE  CliOK(at, c, dd, ll)
BY DEF CliOK

\* A step of f that makes t of its session.
LEMMA SessionStepIInv ==
  ASSUME IInv, NEW f \in Fs, StoreStep(f), UNCHANGED cli,
         NEW t, session' = [session EXCEPT ![f] = t],
         SessionOK(t, conf'[f], file', lost')
  PROVE  IInv'
<1>1. StoreOK /\ SessionsOK /\ ClisOK
  BY Parts
<1>2. t \in Session
  BY DEF SessionOK
<1>3. /\ session' \in [Fs -> Session]
      /\ session'[f] = t /\ \A g \in Fs : g # f => session'[g] = session[g]
  BY <1>1, <1>2 DEF SessionsOK
<1>4. ASSUME NEW g \in Fs
      PROVE  SessionOK(session'[g], conf'[g], file', lost')
  <2>1. CASE g = f
    BY <1>3, <2>1
  <2>2. CASE g # f
    <3>1. conf'[g] = conf[g] /\ session'[g] = session[g]
      BY <1>3, <2>2 DEF StoreStep, Procs
    <3>2. SessionOK(session[g], conf[g], file, lost)
      BY <1>1 DEF SessionsOK
    <3>3. SessionOK(session[g], conf[g], file', lost')
      BY <3>2, SessionLater DEF StoreStep
    <3>4. QED
      BY <3>1, <3>3
  <2>3. QED
    BY <2>1, <2>2
<1>5. ASSUME NEW c \in Clis
      PROVE  CliOK(cli'[c], conf'[c], file', lost')
  <2>1. c # f /\ c \in Procs
    BY FSessionAssumption DEF Procs
  <2>2. conf'[c] = conf[c]
    BY <2>1 DEF StoreStep
  <2>3. CliOK(cli[c], conf[c], file, lost)
    BY <1>1 DEF ClisOK
  <2>4. CliOK(cli[c], conf[c], file', lost')
    BY <2>3, CliLater DEF StoreStep
  <2>5. QED
    BY <2>2, <2>4
<1>6. StoreOK' /\ SessionsOK' /\ ClisOK'
  BY <1>1, <1>3, <1>4, <1>5 DEF StoreStep, SessionsOK, ClisOK
<1>7. QED
  BY <1>6, Parts, PTL

\* A step of c that brings it to at.
LEMMA CliStepIInv ==
  ASSUME IInv, NEW c \in Clis, StoreStep(c), UNCHANGED session,
         NEW at, cli' = [cli EXCEPT ![c] = at],
         CliOK(at, conf'[c], file', lost')
  PROVE  IInv'
<1>1. StoreOK /\ SessionsOK /\ ClisOK
  BY Parts
<1>2. at \in {"start", "shortcuts", "commands", "done", "fatal"}
  BY DEF CliOK
<1>3. /\ cli' \in [Clis -> {"start", "shortcuts", "commands", "done", "fatal"}]
      /\ cli'[c] = at /\ \A b \in Clis : b # c => cli'[b] = cli[b]
  BY <1>1, <1>2 DEF ClisOK
<1>4. ASSUME NEW b \in Clis
      PROVE  CliOK(cli'[b], conf'[b], file', lost')
  <2>1. CASE b = c
    BY <1>3, <2>1
  <2>2. CASE b # c
    <3>1. conf'[b] = conf[b] /\ cli'[b] = cli[b]
      BY <1>3, <2>2 DEF StoreStep, Procs
    <3>2. CliOK(cli[b], conf[b], file, lost)
      BY <1>1 DEF ClisOK
    <3>3. CliOK(cli[b], conf[b], file', lost')
      BY <3>2, CliLater DEF StoreStep
    <3>4. QED
      BY <3>1, <3>3
  <2>3. QED
    BY <2>1, <2>2
<1>5. ASSUME NEW f \in Fs
      PROVE  SessionOK(session'[f], conf'[f], file', lost')
  <2>1. c # f /\ f \in Procs
    BY FSessionAssumption DEF Procs
  <2>2. conf'[f] = conf[f]
    BY <2>1 DEF StoreStep
  <2>3. SessionOK(session[f], conf[f], file, lost)
    BY <1>1 DEF SessionsOK
  <2>4. SessionOK(session[f], conf[f], file', lost')
    BY <2>3, SessionLater DEF StoreStep
  <2>5. QED
    BY <2>2, <2>4
<1>6. StoreOK' /\ SessionsOK' /\ ClisOK'
  BY <1>1, <1>3, <1>4, <1>5 DEF StoreStep, SessionsOK, ClisOK
<1>7. QED
  BY <1>6, Parts, PTL

LEMMA OnlyStep ==
  ASSUME StoreOK, NEW f, Only(f)
  PROVE  /\ StoreStep(f) /\ UNCHANGED cli
         /\ conf'[f] = conf[f] /\ file' = file /\ lost' = lost
<1>1. StoreOK'
  BY DEF Only, StoreOK, NothingUnknown
<1>2. QED
  BY <1>1 DEF Only, StoreStep

\* A step of f in which only its session changes.
LEMMA OnlyIInv ==
  ASSUME IInv, NEW f \in Fs, Only(f),
         NEW t, session' = [session EXCEPT ![f] = t],
         SessionOK(t, conf[f], file, lost)
  PROVE  IInv'
<1>1. StoreOK
  BY Parts
<1>2. /\ StoreStep(f) /\ UNCHANGED cli
      /\ conf'[f] = conf[f] /\ file' = file /\ lost' = lost
  BY <1>1, OnlyStep
<1>3. SessionOK(t, conf'[f], file', lost')
  BY <1>2
<1>4. QED
  BY <1>2, <1>3, SessionStepIInv

LEMMA OfSession ==
  ASSUME IInv, NEW f \in Fs
  PROVE  /\ SessionOK(session[f], conf[f], file, lost)
         /\ session[f] \in Session /\ session \in [Fs -> Session]
         /\ WellTyped(conf[f]) /\ WellTyped(file) /\ StoreOK
         /\ f \in Procs
<1>1. StoreOK /\ SessionsOK
  BY Parts
<1>2. f \in Procs
  BY DEF Procs
<1>3. QED
  BY <1>1, <1>2 DEF StoreOK, SessionsOK

-----------------------------------------------------------------------------
(* What becomes of a session *)

\* Until something is launched.
LEMMA Quiet ==
  ASSUME NEW s, NEW c, NEW d, NEW l, SessionOK(s, c, d, l), s.pc # "start",
         NEW t \in Session, t.hidden = s.hidden,
         t.providers = {} \/ (t.providers = s.providers /\ t.remote = s.remote),
         (t.pc = "wait" /\ t.out = "entry") \/ t.pc = "dispatch" =>
           t.line \in LinesOf(t.providers),
         t.launched = "none", t.pc \notin {"blacklist", "save"}
  PROVE  SessionOK(t, c, d, l)
BY DEF SessionOK

\* Nothing changes but the goroutines.
LEMMA Aside ==
  ASSUME NEW s, NEW c, NEW d, NEW l, SessionOK(s, c, d, l),
         NEW t \in Session, t.hidden = s.hidden, t.providers = s.providers,
         t.launched = s.launched, t.pc = s.pc, t.line = s.line,
         t.remote = s.remote, t.out = s.out
  PROVE  SessionOK(t, c, d, l)
BY DEF SessionOK

LEMMA EntryLinesFacts ==
  /\ "" \in EntryLines
  /\ \A prefix \in Prefixes, n \in EntryNames : prefix \o n \in EntryLines
<1>1. "" \in EntryLines
  BY DEF EntryLines
<1>2. ASSUME NEW prefix \in Prefixes, NEW n \in EntryNames
      PROVE  prefix \o n \in EntryLines
  <2>1. prefix \o n \in {prefix \o m : m \in EntryNames}
    OBVIOUS
  <2>2. {prefix \o m : m \in EntryNames} \in {{q \o m : m \in EntryNames} : q \in Prefixes}
    BY Zenon
  <2>3. QED
    BY <2>1, <2>2, Zenon DEF EntryLines
<1>3. QED
  BY <1>1, <1>2

Ended(s, to) == [Start EXCEPT !.pc = to, !.flags = s.flags, !.hidden = s.hidden]

LEMMA EndedFacts ==
  ASSUME NEW s \in Session, NEW to \in {"done", "held", "fatal", "start"}
  PROVE  LET t == Ended(s, to) IN
         /\ t \in Session /\ t.hidden = s.hidden /\ t.providers = {}
         /\ t.launched = "none" /\ t.pc = to
BY FSessionAssumption, EntryLinesFacts DEF Ended, Start, Session

LEMMA Over ==
  ASSUME NEW s, NEW c, NEW d, NEW l, SessionOK(s, c, d, l), s.pc # "start",
         NEW to \in {"done", "held", "fatal"}
  PROVE  SessionOK(Ended(s, to), c, d, l)
<1>1. s \in Session
  BY DEF SessionOK
<1>2. PICK t : t = Ended(s, to)
  OBVIOUS
<1>3. /\ t \in Session /\ t.hidden = s.hidden /\ t.providers = {}
      /\ t.launched = "none" /\ t.pc = to
  BY <1>1, <1>2, EndedFacts
<1>4. SessionOK(t, c, d, l)
  BY <1>3, Quiet
<1>5. QED
  BY <1>2, <1>4

\* f ends in a step that leaves the configuration alone.
LEMMA EndsIInv ==
  ASSUME IInv, NEW f \in Fs, Only(f), pc(f) # "start",
         NEW to \in {"done", "held", "fatal"}, Ends(f, to)
  PROVE  IInv'
<1>1. session' = [session EXCEPT ![f] = Ended(session[f], to)]
  BY DEF Ends, Ended
<1>2. SessionOK(Ended(session[f], to), conf[f], file, lost)
  BY OfSession, Over DEF pc
<1>3. QED
  BY <1>1, <1>2, OnlyIInv

\* What it takes to go on to to, nothing being launched.
LEMMA GoesFacts ==
  ASSUME NEW s \in Session,
         NEW to \in {"remote", "providers", "fzf", "wait", "dispatch", "save", "fatal"}
  PROVE  LET t == [s EXCEPT !.pc = to] IN
         /\ t \in Session /\ t.pc = to /\ t.hidden = s.hidden
         /\ t.providers = s.providers /\ t.launched = s.launched /\ t.line = s.line
         /\ t.remote = s.remote /\ t.out = s.out
BY DEF Session

LEMMA StartFIInv ==
  ASSUME IInv, NEW f \in Fs, StartF(f)
  PROVE  IInv'
<1> DEFINE s == session[f]
<1>1. /\ SessionOK(s, conf[f], file, lost) /\ s \in Session /\ f \in Procs /\ StoreOK
      /\ s.pc = "start"
  BY OfSession DEF StartF, pc
<1>2. StoreStep(f) /\ conf'[f] = file /\ file' = file /\ lost' = lost
  BY <1>1, LoadStep DEF StartF, LoadConfig
<1>3. PICK t : t = [s EXCEPT !.pc = "remote"]
  OBVIOUS
<1>4. session' = [session EXCEPT ![f] = t]
  BY <1>3 DEF StartF, Goes
<1>5. /\ t \in Session /\ t.pc = "remote" /\ t.hidden = s.hidden
      /\ t.providers = s.providers /\ t.launched = s.launched /\ t.remote = s.remote
  BY <1>1, <1>3, GoesFacts
<1>6. SessionOK(t, file, file, lost)
  BY <1>1, <1>5 DEF SessionOK
<1>7. QED
  BY <1>2, <1>4, <1>6, SessionStepIInv DEF StartF

\* The providers are to be built, with or without a remote.
LEMMA BuildsFacts ==
  ASSUME NEW s, NEW c, NEW d, NEW l, SessionOK(s, c, d, l), s.pc = "remote",
         NEW connected \in BOOLEAN, NEW todo \in SUBSET ProviderNames,
         NEW t, t = [s EXCEPT !.pc = "providers", !.remote = connected,
                              !.providers = {}, !.todo = todo]
  PROVE  SessionOK(t, c, d, l)
<1>1. s \in Session
  BY DEF SessionOK
<1>2. /\ t \in Session /\ t.hidden = s.hidden /\ t.providers = {}
      /\ t.launched = s.launched /\ t.pc = "providers"
  BY <1>1 DEF Session
<1>3. s.launched = "none"
  BY DEF SessionOK
<1>4. QED
  BY <1>2, <1>3, Quiet

LEMMA StoreAddressIInv ==
  ASSUME IInv, NEW f \in Fs, StoreAddress(f)
  PROVE  IInv'
<1> DEFINE s == session[f]
<1>1. /\ SessionOK(s, conf[f], file, lost) /\ session \in [Fs -> Session]
      /\ WellTyped(conf[f]) /\ StoreOK /\ f \in Procs /\ s.pc = "remote"
  BY OfSession DEF StoreAddress, pc
<1>2. PICK r \in Remotes, saved \in BOOLEAN :
        /\ Save(f, [conf[f] EXCEPT !.remotes[r] = "stored"], saved)
        /\ IF saved THEN UNCHANGED session ELSE BuildsProviders(f, FALSE)
  BY DEF StoreAddress, NoAddress
<1>3. PICK c : c = [conf[f] EXCEPT !.remotes[r] = "stored"]
  OBVIOUS
<1>4. Improves(conf[f], c)
  BY <1>1, <1>3, RemoteSet
<1>5. StoreStep(f) /\ conf'[f] = c /\ UNCHANGED cli
  BY <1>1, <1>2, <1>3, <1>4, SaveStep DEF StoreAddress
<1>6. SessionOK(s, c, file', lost')
  BY <1>1, <1>4, <1>5, SessionLater DEF StoreStep, Improves
<1>7. CASE saved
  <2>1. session' = [session EXCEPT ![f] = s]
    BY <1>1, <1>2, <1>7
  <2>2. QED
    BY <1>5, <1>6, <2>1, SessionStepIInv
<1>8. CASE ~ saved
  <2>1. PICK todo \in SUBSET ProviderNames : todo = ProviderNames \ conf[f].blacklist
    OBVIOUS
  <2>2. PICK t : t = [s EXCEPT !.pc = "providers", !.remote = FALSE, !.providers = {},
                               !.todo = todo]
    OBVIOUS
  <2>3. session' = [session EXCEPT ![f] = t]
    BY <1>2, <1>8, <2>1, <2>2 DEF BuildsProviders
  <2>4. SessionOK(t, c, file', lost')
    <3> HIDE DEF s
    <3>1. QED
      BY <1>1, <1>6, <2>2, BuildsFacts
  <2>5. QED
    BY <1>5, <2>3, <2>4, SessionStepIInv
<1>9. QED
  BY <1>7, <1>8

LEMMA GetRemoteIInv ==
  ASSUME IInv, NEW f \in Fs, GetRemote(f)
  PROVE  IInv'
<1> DEFINE s == session[f]
<1>1. /\ SessionOK(s, conf[f], file, lost) /\ s.pc = "remote" /\ Only(f)
  BY OfSession DEF GetRemote, pc
<1>2. PICK connected \in BOOLEAN : BuildsProviders(f, connected)
  BY DEF GetRemote
<1>3. PICK todo \in SUBSET ProviderNames : todo = ProviderNames \ conf[f].blacklist
  OBVIOUS
<1>4. PICK t : t = [s EXCEPT !.pc = "providers", !.remote = connected, !.providers = {},
                             !.todo = todo]
  OBVIOUS
<1>5. session' = [session EXCEPT ![f] = t]
  BY <1>2, <1>3, <1>4 DEF BuildsProviders
<1>6. SessionOK(t, conf[f], file, lost)
  <2> HIDE DEF s
  <2>1. QED
    BY <1>1, <1>4, BuildsFacts
<1>7. QED
  BY <1>1, <1>5, <1>6, OnlyIInv

\* The provider that is added does not offer what is hidden: f knows of it.
LEMMA ProviderHides ==
  ASSUME NEW s, NEW c, NEW d, NEW l, SessionOK(s, c, d, l), s.pc # "start",
         WellTyped(c), NEW n \in ProviderNames, NEW flags, NEW ok \in BOOLEAN,
         NEW x \in s.hidden \ l, x[1] = n,
         NEW a \in NewProvider(n, c.providers[n], flags, ok).provider.content,
         IdOf[a] = x[2]
  PROVE  n = "application" /\ a \in Extras
<1>1. s.hidden \in SUBSET ({"desktop", "application"} \X Ids)
  BY DEF SessionOK, Session
<1>2. PICK m \in {"desktop", "application"}, id \in Ids : x = <<m, id>>
  BY <1>1
<1>3. <<n, id>> \in Stored(c)
  BY <1>2 DEF SessionOK
<1>4. c.providers[n] \in Section /\ id \in c.providers[n].items
  BY <1>3, StoredFacts
<1>5. Constructed(n, c.providers[n], flags, ok, NewProvider(n, c.providers[n], flags, ok))
  BY ConfigFields, NewFacts
<1>6. Hides(n, c.providers[n].items, NewProvider(n, c.providers[n], flags, ok).provider.content)
  BY <1>2, <1>4, <1>5 DEF Constructed
<1>7. IdOf[a] \in c.providers[n].items
  BY <1>2, <1>4
<1>8. QED
  BY <1>6, <1>7 DEF Hides

LEMMA BuildProviderIInv ==
  ASSUME IInv, NEW f \in Fs, NEW n \in ProviderNames, NEW ok \in BOOLEAN,
         BuildProvider(f, n, ok)
  PROVE  IInv'
<1> DEFINE s == session[f]
           sec == conf[f].providers[n]
<1>1. /\ SessionOK(s, conf[f], file, lost) /\ s \in Session /\ s.pc = "providers"
      /\ WellTyped(conf[f]) /\ StoreOK /\ f \in Procs
  BY OfSession DEF BuildProvider, pc
<1>2. PICK new : new = NewProvider(n, sec, s.flags, ok)
  OBVIOUS
<1>3. SectionOf(n, sec)
  BY <1>1, ConfigFields
<1>4. Keeps(n, sec, new) /\ Constructed(n, sec, s.flags, ok, new)
  BY <1>2, <1>3, ConstructorKeeps, NewFacts
<1>5. PICK c : c = [conf[f] EXCEPT !.providers[n] = new.sec]
  OBVIOUS
<1>6. Improves(conf[f], c)
  BY <1>1, <1>4, <1>5, SectionSet
<1>7. Save(f, c, new.saves) /\ new.saves \in BOOLEAN
  BY <1>2, <1>4, <1>5 DEF BuildProvider, SetSection, Keeps
<1>8. StoreStep(f) /\ conf'[f] = c
  BY <1>1, <1>6, <1>7, SaveStep
<1>9. SessionOK(s, c, file', lost')
  BY <1>1, <1>6, <1>8, SessionLater DEF StoreStep, Improves
<1>10. CASE new.error
  <2>1. session' = [session EXCEPT ![f] = Ended(s, "fatal")]
    BY <1>2, <1>10 DEF BuildProvider, Ends, Ended
  <2>2. SessionOK(Ended(s, "fatal"), c, file', lost')
    <3>1. PICK t : t = Ended(s, "fatal")
      OBVIOUS
    <3>2. t \in Session /\ t.hidden = s.hidden /\ t.providers = {} /\ t.launched = "none"
          /\ t.pc = "fatal"
      BY <1>1, <3>1, EndedFacts
    <3>3. QED
      BY <1>1, <1>9, <3>1, <3>2, Quiet
  <2>3. QED
    BY <1>8, <2>1, <2>2, SessionStepIInv DEF BuildProvider
<1>11. CASE ~ new.error
  <2>1. PICK ps : ps = IF s.remote \/ IsRemoteIndependent(n)
                       THEN s.providers \cup {new.provider} ELSE s.providers
    OBVIOUS
  <2>2. PICK t : t = [s EXCEPT !.todo = @ \ {n}, !.providers = ps]
    OBVIOUS
  <2>3. session' = [session EXCEPT ![f] = t]
    BY <1>2, <1>11, <2>1, <2>2 DEF BuildProvider
  <2>4. ProviderOf(n, new.provider)
    BY <1>4 DEF Constructed
  <2>5. /\ ps \subseteq s.providers \cup {new.provider}
        /\ new.provider \in ps =>
             new.provider \in s.providers \/ s.remote \/ IsRemoteIndependent(n)
    BY <2>1
  <2>6. ps \in SUBSET [name : ProviderNames, content : SUBSET EntryNames,
                       prefix : Prefixes]
    BY <1>1, <2>4, <2>5 DEF Session, ProviderOf
  <2>7. /\ t \in Session /\ t.hidden = s.hidden /\ t.providers = ps
        /\ t.launched = s.launched /\ t.pc = "providers" /\ t.remote = s.remote
    BY <1>1, <2>2, <2>6 DEF Session
  <2>8. s.launched = "none"
    BY <1>1 DEF SessionOK
  <2>9. \A p \in ps :
          /\ p.name = "desktop" => p.content \subseteq Apps
          /\ p.name = "application" => p.content \subseteq Apps \cup Extras
          /\ p.name \in {"desktop", "application"} => p.prefix = "@ "
          /\ s.remote \/ IsRemoteIndependent(p.name)
    BY <1>1, <2>4, <2>5 DEF SessionOK, ProviderOf
  <2>10. ASSUME NEW x \in s.hidden \ lost', NEW p \in ps, p.name = x[1],
                NEW a \in p.content, IdOf[a] = x[2]
         PROVE  p.name = "application" /\ a \in Extras
    <3>1. CASE p \in s.providers
      BY <1>9, <2>10, <3>1 DEF SessionOK
    <3>2. CASE p = new.provider
      <4>1. x[1] = n
        BY <2>4, <2>10, <3>2 DEF ProviderOf
      <4>2. x \in s.hidden \ lost
        BY <2>10, <1>8 DEF StoreStep
      <4>3. p.name = n
        BY <2>4, <3>2 DEF ProviderOf
      <4>4. QED
        BY <1>1, <1>2, <2>10, <3>2, <4>1, <4>2, <4>3, ProviderHides
    <3>3. QED
      BY <2>5, <3>1, <3>2
  <2>11. SessionOK(t, c, file', lost')
    BY <1>1, <1>9, <2>7, <2>8, <2>9, <2>10 DEF SessionOK
  <2>12. QED
    BY <1>8, <2>3, <2>11, SessionStepIInv DEF BuildProvider
<1>12. QED
  BY <1>10, <1>11

LEMMA StartFromReaderIInv ==
  ASSUME IInv, NEW f \in Fs, StartFromReader(f)
  PROVE  IInv'
<1> DEFINE s == session[f]
<1>1. /\ SessionOK(s, conf[f], file, lost) /\ s \in Session /\ s.pc = "providers"
      /\ Only(f)
  BY OfSession DEF StartFromReader, pc
<1>2. CASE Ends(f, "fatal")
  BY <1>1, <1>2, EndsIInv DEF pc
<1>3. ASSUME NEW walks \in BOOLEAN,
             session' = [session EXCEPT ![f].pc = "fzf", ![f].copier = walks,
                                        ![f].find = IF walks THEN "lists" ELSE "off"]
      PROVE  IInv'
  <2>1. PICK t : t = [s EXCEPT !.pc = "fzf", !.copier = walks,
                               !.find = IF walks THEN "lists" ELSE "off"]
    OBVIOUS
  <2>2. session' = [session EXCEPT ![f] = t]
    BY <1>3, <2>1
  <2>3. /\ t \in Session /\ t.hidden = s.hidden /\ t.providers = s.providers
        /\ t.launched = s.launched /\ t.pc = "fzf" /\ t.remote = s.remote
    BY <1>1, <2>1 DEF Session
  <2>4. s.launched = "none"
    BY <1>1 DEF SessionOK
  <2>5. SessionOK(t, conf[f], file, lost)
    BY <1>1, <2>3, <2>4, Quiet
  <2>6. QED
    BY <1>1, <2>2, <2>5, OnlyIInv
<1>4. QED
  BY <1>2, <1>3 DEF StartFromReader

LEMMA FindIInv ==
  ASSUME IInv, NEW f \in Fs, Find(f)
  PROVE  IInv'
<1> DEFINE s == session[f]
<1>1. /\ SessionOK(s, conf[f], file, lost) /\ s \in Session /\ Only(f)
  BY OfSession DEF Find, FindLists, FindEnds
<1>2. PICK t : /\ t \in {[s EXCEPT !.copier = FALSE],
                         [s EXCEPT !.find = "ended", !.copier = FALSE]}
               /\ session' = [session EXCEPT ![f] = t]
  BY DEF Find, FindLists, FindEnds
<1>3. /\ t \in Session /\ t.hidden = s.hidden /\ t.providers = s.providers
      /\ t.launched = s.launched /\ t.pc = s.pc /\ t.line = s.line
      /\ t.remote = s.remote /\ t.out = s.out
  BY <1>1, <1>2 DEF Session
<1>4. SessionOK(t, conf[f], file, lost)
  BY <1>1, <1>3, Aside
<1>5. QED
  BY <1>1, <1>2, <1>4, OnlyIInv

\* The user leaves fzf, perhaps with a line that is offered.
LEMMA LeavesIInv ==
  ASSUME IInv, NEW f \in Fs, NEW out \in {"none", "entry", "bad"},
         NEW line \in EntryLines, NEW key \in UserKeys, Leaves(f, out, line, key),
         out = "entry" => line \in LinesOf(session[f].providers)
  PROVE  IInv'
<1> DEFINE s == session[f]
<1>1. /\ SessionOK(s, conf[f], file, lost) /\ s \in Session /\ s.pc = "fzf" /\ Only(f)
  BY OfSession DEF Leaves, pc
<1>2. PICK t : t = [s EXCEPT !.pc = "wait", !.out = out, !.line = line, !.key = key]
  OBVIOUS
<1>3. session' = [session EXCEPT ![f] = t]
  BY <1>2 DEF Leaves
<1>4. /\ t \in Session /\ t.hidden = s.hidden /\ t.providers = s.providers
      /\ t.launched = s.launched /\ t.pc = "wait" /\ t.remote = s.remote
      /\ t.out = out /\ t.line = line
  BY <1>1, <1>2 DEF Session
<1>5. s.launched = "none"
  BY <1>1 DEF SessionOK
<1>6. SessionOK(t, conf[f], file, lost)
  BY <1>1, <1>4, <1>5, Quiet
<1>7. QED
  BY <1>1, <1>3, <1>6, OnlyIInv

LEMMA CancelIInv ==
  ASSUME IInv, NEW f \in Fs, Cancel(f) \/ FzfFails(f)
  PROVE  IInv'
<1>1. "" \in EntryLines /\ "" \in UserKeys
  BY FSessionAssumption, EntryLinesFacts
<1>2. QED
  BY <1>1, LeavesIInv DEF Cancel, FzfFails

LEMMA OfferedLines ==
  ASSUME NEW f \in Fs, session[f] \in Session
  PROVE  /\ Offered(f) = LinesOf(session[f].providers)
         /\ Offered(f) \subseteq EntryLines
<1>1. ASSUME NEW p \in session[f].providers, NEW line \in Lines(p)
      PROVE  line \in EntryLines
  <2>1. PICK n \in p.content : line = p.prefix \o n
    BY <1>1 DEF Lines
  <2>2. p.prefix \in Prefixes /\ p.content \subseteq EntryNames
    BY DEF Session
  <2>3. QED
    BY <2>1, <2>2, EntryLinesFacts
<1>2. QED
  BY <1>1 DEF Offered, LinesOf

LEMMA SelectIInv ==
  ASSUME IInv, NEW f \in Fs, NEW line \in Offered(f), NEW key \in UserKeys,
         Select(f, line, key)
  PROVE  IInv'
<1>1. session[f] \in Session
  BY OfSession
<1>2. line \in EntryLines /\ line \in LinesOf(session[f].providers)
  BY <1>1, OfferedLines
<1>3. QED
  BY <1>2, LeavesIInv DEF Select

LEMMA GetSelectionIInv ==
  ASSUME IInv, NEW f \in Fs, GetSelection(f)
  PROVE  IInv'
<1> DEFINE s == session[f]
<1>1. /\ SessionOK(s, conf[f], file, lost) /\ s \in Session /\ s.pc = "wait" /\ Only(f)
  BY OfSession DEF GetSelection, pc
<1>2. CASE Ends(f, "done") \/ Ends(f, "fatal")
  BY <1>1, <1>2, EndsIInv DEF pc
<1>3. CASE s.out = "entry" /\ Goes(f, "dispatch")
  <2>1. PICK t : t = [s EXCEPT !.pc = "dispatch"]
    OBVIOUS
  <2>2. session' = [session EXCEPT ![f] = t]
    BY <1>3, <2>1 DEF Goes
  <2>3. /\ t \in Session /\ t.hidden = s.hidden /\ t.providers = s.providers
        /\ t.launched = s.launched /\ t.pc = "dispatch" /\ t.remote = s.remote
        /\ t.line = s.line
    BY <1>1, <2>1, GoesFacts
  <2>4. s.launched = "none" /\ s.line \in LinesOf(s.providers)
    BY <1>1, <1>3 DEF SessionOK
  <2>5. SessionOK(t, conf[f], file, lost)
    BY <1>1, <2>3, <2>4, Quiet
  <2>6. QED
    BY <1>1, <2>2, <2>5, OnlyIInv
<1>4. s.out \in {"none", "entry", "bad"}
  BY <1>1 DEF Session
<1>5. Selected(f)
  BY DEF GetSelection
<1>6. QED
  BY <1>2, <1>3, <1>4, <1>5 DEF Selected

LEMMA DispatchIInv ==
  ASSUME IInv, NEW f \in Fs, Dispatch(f)
  PROVE  IInv'
<1> DEFINE s == session[f]
           to(p) == CASE InFrontend(p.name, s.key) = "run" -> "command"
                      [] InFrontend(p.name, s.key) = "blacklist" -> "blacklist"
                      [] OTHER -> "handed"
<1>1. /\ SessionOK(s, conf[f], file, lost) /\ s \in Session /\ s.pc = "dispatch"
      /\ Only(f)
  BY OfSession DEF Dispatch, pc
<1>2. PICK there \in SUBSET Files, p \in s.providers :
        /\ Takes(f, p, there)
        /\ session' = [session EXCEPT ![f].launched = p.name, ![f].pc = to(p)]
  BY DEF Dispatch
<1>3. PICK pcto : pcto = to(p)
  OBVIOUS
<1>4. /\ pcto \in {"command", "blacklist", "handed"}
      /\ pcto = "blacklist" => InFrontend(p.name, s.key) = "blacklist"
  BY <1>3, Zenon
<1>5. pcto = "blacklist" => p.name \in {"desktop", "application"}
  BY <1>4 DEF InFrontend
<1>6. PICK t : t = [s EXCEPT !.launched = p.name, !.pc = pcto]
  OBVIOUS
<1>7. session' = [session EXCEPT ![f] = t]
  <2> HIDE DEF to
  <2>1. QED
    BY <1>2, <1>3, <1>6
<1>8. /\ p.name \in ProviderNames /\ p.name # "none"
      /\ p.name \in {"desktop", "application"} =>
           p.content \subseteq Apps \cup Extras /\ p.prefix = "@ "
  <2>1. p.name \in ProviderNames
    BY <1>1 DEF Session
  <2>2. QED
    BY <1>1, <2>1 DEF SessionOK, ProviderNames
<1>9. /\ t \in Session /\ t.hidden = s.hidden /\ t.providers = s.providers
      /\ t.launched = p.name /\ t.line = s.line /\ t.pc = pcto /\ t.remote = s.remote
  BY <1>1, <1>4, <1>6, <1>8 DEF Session
<1>10. p.name # "path" => TrimPrefix(s.line, p.prefix) \in p.content
  BY <1>2 DEF Takes, Fetches
<1>11. t.pc \in {"blacklist", "save"} =>
         /\ t.launched \in {"desktop", "application"}
         /\ TrimPrefix(t.line, "@ ") \in Apps \cup Extras
  BY <1>4, <1>5, <1>8, <1>9, <1>10
<1>12. t.pc \in {"command", "handed", "blacklist", "save", "fatal"}
  BY <1>4, <1>9
<1>13. t.pc # "wait" /\ t.pc # "dispatch" /\ t.pc # "start"
  BY <1>4, <1>9
<1>14. SessionOK(t, conf[f], file, lost)
  BY <1>1, <1>9, <1>11, <1>12, <1>13 DEF SessionOK
<1>15. QED
  BY <1>1, <1>7, <1>14, OnlyIInv

LEMMA EndingsIInv ==
  ASSUME IInv, NEW f \in Fs,
         Unhandled(f) \/ RemoteAnswers(f) \/ CommandEnds(f) \/ Interrupt(f)
  PROVE  IInv'
<1>1. Only(f) /\ pc(f) # "start" /\ \E to \in {"done", "held", "fatal"} : Ends(f, to)
  BY DEF Unhandled, RemoteAnswers, CommandEnds, Interrupt
<1>2. QED
  BY <1>1, EndsIInv

LEMMA LoadBlacklistIInv ==
  ASSUME IInv, NEW f \in Fs, LoadBlacklist(f)
  PROVE  IInv'
<1> DEFINE s == session[f]
<1>1. /\ SessionOK(s, conf[f], file, lost) /\ s \in Session /\ f \in Procs /\ StoreOK
      /\ s.pc = "blacklist"
  BY OfSession DEF LoadBlacklist, pc
<1>2. StoreStep(f) /\ conf'[f] = file /\ file' = file /\ lost' = lost
  BY <1>1, LoadStep DEF LoadBlacklist, LoadConfig
<1>3. PICK t : t = [s EXCEPT !.pc = "save"]
  OBVIOUS
<1>4. session' = [session EXCEPT ![f] = t]
  BY <1>3 DEF LoadBlacklist, Goes
<1>5. /\ t \in Session /\ t.pc = "save" /\ t.hidden = s.hidden
      /\ t.providers = s.providers /\ t.launched = s.launched /\ t.line = s.line
      /\ t.remote = s.remote
  BY <1>1, <1>3, GoesFacts
<1>6. SessionOK(t, file, file, lost)
  BY <1>1, <1>5 DEF SessionOK
<1>7. QED
  BY <1>2, <1>4, <1>6, SessionStepIInv DEF LoadBlacklist

LEMMA SaveBlacklistIInv ==
  ASSUME IInv, NEW f \in Fs, SaveBlacklist(f)
  PROVE  IInv'
<1> DEFINE s == session[f]
<1>1. /\ SessionOK(s, conf[f], file, lost) /\ s \in Session /\ s.pc = "save"
      /\ WellTyped(conf[f]) /\ StoreOK /\ f \in Procs
  BY OfSession DEF SaveBlacklist, pc
<1>2. PICK n \in {"desktop", "application"} : n = s.launched
  BY <1>1 DEF SessionOK
<1>3. PICK id \in Ids : id = IdOf[TrimPrefix(s.line, "@ ")]
  BY <1>1, SettingsAssumption DEF SessionOK
<1>4. PICK set : set = Blacklist(conf[f].providers[n], id)
  OBVIOUS
<1>5. n \in ProviderNames
  BY DEF ProviderNames
<1>6. SectionOf(n, conf[f].providers[n])
  BY <1>1, <1>5, ConfigFields
<1>7. /\ Keeps(n, conf[f].providers[n], set) /\ set.error \in BOOLEAN
      /\ ~ set.error => set.saves = TRUE /\ set.sec \in Section /\ id \in set.sec.items
  BY <1>4, <1>6, BlacklistKeeps
<1>8. PICK c : c = [conf[f] EXCEPT !.providers[n] = set.sec]
  OBVIOUS
<1>9. Improves(conf[f], c) /\ c.providers[n] = set.sec
  BY <1>1, <1>5, <1>7, <1>8, SectionSet
<1>10. Save(f, c, set.saves) /\ set.saves \in BOOLEAN
  BY <1>2, <1>3, <1>4, <1>7, <1>8 DEF SaveBlacklist, SetSection, Keeps
<1>11. StoreStep(f) /\ conf'[f] = c /\ file' = IF set.saves THEN c ELSE file
  BY <1>1, <1>9, <1>10, SaveStep
<1>12. SessionOK(s, c, file', lost')
  BY <1>1, <1>9, <1>11, SessionLater DEF StoreStep, Improves
<1>13. CASE set.error
  <2>1. PICK t : t = [s EXCEPT !.pc = "fatal"]
    OBVIOUS
  <2>2. session' = [session EXCEPT ![f] = t]
    BY <1>2, <1>3, <1>4, <1>13, <2>1 DEF SaveBlacklist
  <2>3. /\ t \in Session /\ t.pc = "fatal" /\ t.hidden = s.hidden
        /\ t.providers = s.providers /\ t.launched = s.launched /\ t.line = s.line
        /\ t.remote = s.remote
    BY <1>1, <2>1, GoesFacts
  <2>4. SessionOK(t, c, file', lost')
    BY <1>1, <1>12, <2>3 DEF SessionOK
  <2>5. QED
    BY <1>11, <2>2, <2>4, SessionStepIInv DEF SaveBlacklist
<1>14. CASE ~ set.error
  <2>1. PICK t : t = [Start EXCEPT !.flags = s.flags,
                                   !.hidden = s.hidden \cup {<<n, id>>}]
    OBVIOUS
  <2>2. session' = [session EXCEPT ![f] = t]
    BY <1>2, <1>3, <1>4, <1>14, <2>1 DEF SaveBlacklist
  <2>3. s.hidden \cup {<<n, id>>} \in SUBSET ({"desktop", "application"} \X Ids)
    <3>1. s.hidden \in SUBSET ({"desktop", "application"} \X Ids)
      BY <1>1 DEF Session
    <3>2. QED
      BY <3>1
  <2>4. s.flags \in Flags
    BY <1>1 DEF Session
  <2>5. /\ t \in Session /\ t.pc = "start" /\ t.hidden = s.hidden \cup {<<n, id>>}
        /\ t.providers = {} /\ t.launched = "none"
    BY <2>1, <2>3, <2>4, FSessionAssumption, EntryLinesFacts DEF Start, Session
  <2>6. file' = c /\ WellTyped(c)
    BY <1>7, <1>9, <1>11, <1>14 DEF Improves
  <2>7. <<n, id>> \in Stored(file')
    BY <1>5, <1>7, <1>9, <1>14, <2>6, StoredFacts
  <2>8. t.hidden \subseteq Stored(file') \cup lost'
    BY <1>12, <2>5, <2>7 DEF SessionOK
  <2>9. SessionOK(t, c, file', lost')
    BY <2>5, <2>8 DEF SessionOK
  <2>10. QED
    BY <1>11, <2>2, <2>9, SessionStepIInv DEF SaveBlacklist
<1>15. QED
  BY <1>7, <1>13, <1>14

-----------------------------------------------------------------------------
(* glauncher save-entry-provider-settings *)

LEMMA CliLoadsIInv ==
  ASSUME IInv, NEW c \in Clis, CliLoads(c)
  PROVE  IInv'
<1>1. StoreOK /\ ClisOK /\ c \in Procs
  BY Parts DEF Procs
<1>2. StoreStep(c) /\ conf'[c] = file /\ file' = file /\ lost' = lost
  BY <1>1, LoadStep DEF CliLoads, LoadConfig
<1>3. CliOK("shortcuts", conf'[c], file', lost')
  BY DEF CliOK, After
<1>4. QED
  BY <1>2, <1>3, CliStepIInv DEF CliLoads

\* What c adds to the section of n, and how it goes on.
LEMMA AddIInv ==
  ASSUME IInv, NEW c \in Clis, NEW n \in {"shortcut", "command"},
         NEW set, Added(n, conf[c].providers[n], ToAdd(n), set),
         set.error \in BOOLEAN,
         cli[c] = IF n = "shortcut" THEN "shortcuts" ELSE "commands",
         SetSection(c, n, set), UNCHANGED session,
         NEW at, cli' = [cli EXCEPT ![c] = at],
         at = CASE set.error -> "fatal"
                [] ~ set.error /\ n = "shortcut" -> "commands"
                [] OTHER -> "done"
  PROVE  IInv'
<1>1. /\ StoreOK /\ ClisOK /\ c \in Procs /\ n \in ProviderNames
      /\ CliOK(cli[c], conf[c], file, lost) /\ WellTyped(conf[c])
  BY Parts DEF Procs, ProviderNames, ClisOK, StoreOK
<1>2. ToAdd(n) \subseteq Names
  BY FSessionAssumption DEF ToAdd
<1>3. SectionOf(n, conf[c].providers[n])
  BY <1>1, ConfigFields
<1>4. /\ Keeps(n, conf[c].providers[n], set)
      /\ set.error # TRUE /\ conf[c].providers[n] # Garbled =>
           set.saves = TRUE /\ set.sec \in Section /\ ToAdd(n) \subseteq set.sec.items
  <2>1. n \in {"command", "shortcut"}
    OBVIOUS
  <2>2. PICK sec : sec = conf[c].providers[n]
    OBVIOUS
  <2>3. SectionOf(n, sec) /\ Added(n, sec, ToAdd(n), set)
    BY <1>3, <2>2
  <2>4. /\ Keeps(n, sec, set)
        /\ set.error # TRUE /\ sec # Garbled =>
             set.saves = TRUE /\ set.sec \in Section /\ ToAdd(n) \subseteq set.sec.items
    BY <2>1, <1>2, <2>3, AddedKeeps
  <2>5. QED
    BY <2>2, <2>4
<1>5. PICK d : d = [conf[c] EXCEPT !.providers[n] = set.sec]
  OBVIOUS
<1>6. Improves(conf[c], d) /\ d.providers[n] = set.sec
  BY <1>1, <1>4, <1>5, SectionSet
<1>7. Save(c, d, set.saves) /\ set.saves \in BOOLEAN
  BY <1>4, <1>5 DEF SetSection, Keeps
<1>8. StoreStep(c) /\ conf'[c] = d /\ file' = IF set.saves THEN d ELSE file
  BY <1>1, <1>6, <1>7, SaveStep
<1>9. ~ set.error => \/ {n} \X ToAdd(n) \subseteq Stored(file') \cup lost'
                     \/ d.providers[n] = Garbled
  <2>1. SUFFICES ASSUME ~ set.error, conf[c].providers[n] # Garbled
                 PROVE  {n} \X ToAdd(n) \subseteq Stored(file')
    BY <1>1, <1>6 DEF Improves
  <2>2. file' = d /\ d.providers[n] \in Section /\ ToAdd(n) \subseteq d.providers[n].items
    BY <1>4, <1>6, <1>8, <2>1
  <2>3. WellTyped(d)
    BY <1>6 DEF Improves
  <2>4. QED
    BY <1>1, <1>2, <2>2, <2>3, StoredFacts
<1>10. at \in {"fatal", "commands", "done"}
       /\ (at # "fatal" => ~ set.error)
       /\ (at = "commands" => n = "shortcut")
       /\ (at = "done" => n = "command")
  BY Zenon
<1>11. ASSUME NEW m \in {"shortcut", "command"}, at \in After(m)
       PROVE  \/ {m} \X ToAdd(m) \subseteq Stored(file') \cup lost'
              \/ d.providers[m] = Garbled
  <2>1. ~ set.error
    BY <1>11, <1>10 DEF After
  <2>2. CASE m = n
    BY <1>9, <2>1, <2>2
  <2>3. CASE m # n
    <3>1. n = "command" /\ m = "shortcut"
      BY <1>10, <1>11, <2>3 DEF After
    <3>2. cli[c] \in After(m)
      BY <3>1 DEF After
    <3>3. \/ {m} \X ToAdd(m) \subseteq Stored(file) \cup lost
          \/ conf[c].providers[m] = Garbled
      BY <1>1, <3>2 DEF CliOK
    <3>4. m \in ProviderNames
      BY DEF ProviderNames
    <3>5. QED
      BY <1>6, <1>8, <3>3, <3>4 DEF Improves, StoreStep
  <2>4. QED
    BY <2>2, <2>3
<1>12. CliOK(at, conf'[c], file', lost')
  BY <1>8, <1>10, <1>11 DEF CliOK
<1>13. QED
  BY <1>8, <1>12, CliStepIInv

LEMMA SaveEntryProviderSettingsIInv ==
  ASSUME IInv, NEW c \in Clis, SaveEntryProviderSettings(c)
  PROVE  IInv'
<1> DEFINE add(n) == IF n = "shortcut"
                     THEN AddShortcutsToConfig(conf[c].providers[n], NewShortcuts)
                     ELSE AddCommandsToConfig(conf[c].providers[n], NewCommands)
<1>1. PICK n \in {"shortcut", "command"} :
        /\ cli[c] = IF n = "shortcut" THEN "shortcuts" ELSE "commands"
        /\ SetSection(c, n, add(n))
        /\ cli' = [cli EXCEPT ![c] = CASE add(n).error -> "fatal"
                                       [] ~ add(n).error /\ n = "shortcut" -> "commands"
                                       [] OTHER -> "done"]
        /\ UNCHANGED session
  BY DEF SaveEntryProviderSettings
<1>2. PICK set : set = add(n)
  OBVIOUS
<1>3. c \in Procs /\ n \in ProviderNames /\ WellTyped(conf[c])
  BY Parts DEF Procs, ProviderNames, StoreOK
<1>4. SectionOf(n, conf[c].providers[n])
  BY <1>3, ConfigFields
<1>5. Added(n, conf[c].providers[n], ToAdd(n), set)
  BY <1>2, <1>4, CommandsAdded, ShortcutsAdded, FSessionAssumption DEF ToAdd
<1>6. set.error \in BOOLEAN
  <2>1. CASE conf[c].providers[n] = Garbled
    <3>1. set = Set(FALSE, FALSE, conf[c].providers[n])
      BY <1>5, <2>1 DEF Added
    <3>2. QED
      BY <3>1 DEF Set
  <2>2. CASE conf[c].providers[n] # Garbled
    BY <1>5, <2>2, Zenon DEF Added
  <2>3. QED
    BY <2>1, <2>2
<1>7. SetSection(c, n, set)
  BY <1>1, <1>2
<1>8. PICK at : at = CASE set.error -> "fatal"
                       [] ~ set.error /\ n = "shortcut" -> "commands"
                       [] OTHER -> "done"
  OBVIOUS
<1>9. cli' = [cli EXCEPT ![c] = at]
  BY <1>1, <1>2, <1>8
<1>10. /\ cli[c] = IF n = "shortcut" THEN "shortcuts" ELSE "commands"
       /\ UNCHANGED session
  BY <1>1
<1> HIDE DEF add
<1>11. QED
  BY <1>5, <1>6, <1>7, <1>8, <1>9, <1>10, AddIInv

-----------------------------------------------------------------------------

LEMMA InitIInv == Init => IInv
<1> SUFFICES ASSUME Init
             PROVE  IInv
  OBVIOUS
<1>1. WellTyped(file) /\ \A p \in Procs : conf[p] = file /\ missed[p] = {}
  BY FirstConfigsAssumption DEF Init
<1>2. StoreOK
  BY <1>1 DEF Init, StoreOK, NothingUnknown, WellTyped
<1>3. PICK fl \in [Fs -> Flags] : session = [f \in Fs |-> [Start EXCEPT !.flags = fl[f]]]
  BY DEF Init
<1>4. ASSUME NEW f \in Fs
      PROVE  SessionOK(session[f], conf[f], file, lost)
  <2>1. PICK flags \in Flags : session[f] = [Start EXCEPT !.flags = flags]
    BY <1>3
  <2>2. /\ session[f] \in Session /\ session[f].pc = "start"
        /\ session[f].hidden = {} /\ session[f].providers = {}
        /\ session[f].launched = "none"
    <3>1. PICK t : t = [Start EXCEPT !.flags = flags]
      OBVIOUS
    <3>2. /\ t \in Session /\ t.pc = "start" /\ t.hidden = {} /\ t.providers = {}
          /\ t.launched = "none"
      BY <3>1, FSessionAssumption, EntryLinesFacts DEF Start, Session
    <3>3. QED
      BY <2>1, <3>1, <3>2
  <2>3. QED
    BY <2>2 DEF SessionOK
<1>5. SessionsOK
  <2>1. \A f \in Fs : session[f] \in Session
    BY <1>4 DEF SessionOK
  <2>2. QED
    BY <1>3, <1>4, <2>1 DEF SessionsOK
<1>6. ClisOK
  BY DEF Init, ClisOK, CliOK, After
<1>7. QED
  BY <1>2, <1>5, <1>6, Parts

LEMMA StutterIInv ==
  ASSUME IInv, UNCHANGED vars
  PROVE  IInv'
<1>1. StoreOK /\ SessionsOK /\ ClisOK
  BY Parts
<1>2. StoreOK' /\ SessionsOK' /\ ClisOK'
  BY <1>1 DEF StoreOK, NothingUnknown, SessionsOK, ClisOK, vars
<1>3. QED
  BY <1>2, Parts, PTL

LEMMA NextIInv == IInv /\ [Next]_vars => IInv'
<1> SUFFICES ASSUME IInv, [Next]_vars
             PROVE  IInv'
  OBVIOUS
<1>1. ASSUME NEW f \in Fs, SessionStep(f)
      PROVE  IInv'
  BY <1>1, StartFIInv, StoreAddressIInv, GetRemoteIInv, BuildProviderIInv,
     StartFromReaderIInv, GetSelectionIInv, DispatchIInv, EndingsIInv,
     LoadBlacklistIInv, SaveBlacklistIInv
  DEF SessionStep
<1>2. ASSUME NEW f \in Fs, User(f)
      PROVE  IInv'
  BY <1>2, CancelIInv, SelectIInv, EndingsIInv DEF User
<1>3. ASSUME NEW f \in Fs, Outside(f)
      PROVE  IInv'
  BY <1>3, EndingsIInv DEF Outside
<1>4. QED
  BY <1>1, <1>2, <1>3, FindIInv, CliLoadsIInv, SaveEntryProviderSettingsIInv, StutterIInv
  DEF Next

(***************************************************************************)
(* The invariant of sessions and of glauncher_cli holds in every reachable *)
(* state, for any number of both that share one configuration file.        *)
(***************************************************************************)

THEOREM Invariance == Spec => []IInv
BY InitIInv, NextIInv, PTL DEF Spec

(***************************************************************************)
(* The variables have their types: whatever is loaded, changed and saved,  *)
(* each section in the file stays one of its provider (conf.Save()).       *)
(***************************************************************************)

THEOREM TypeCorrect == Spec => []TypeOK
<1>1. IInv => TypeOK
  BY DEF IInv
<1>2. QED
  BY <1>1, Invariance, PTL

(***************************************************************************)
(* What was blacklisted with ctrl-d is not offered again, unless another   *)
(* process has taken it from the file, or it is an extra application,      *)
(* which the blacklist does not concern (LaunchInFrontend, StartF).        *)
(***************************************************************************)

THEOREM HiddenStaysHidden == Spec => []HiddenStays
<1>1. IInv => HiddenStays
  BY DEF IInv
<1>2. QED
  BY <1>1, Invariance, PTL

(***************************************************************************)
(* When save-entry-provider-settings ends well, what it adds was stored,   *)
(* or the section does not decode (AddCommandsToConfig).                   *)
(***************************************************************************)

THEOREM AddedWasStored == Spec => []AddedIsStored
<1>1. IInv => AddedIsStored
  <2>1. SUFFICES ASSUME IInv, NEW c \in Clis, cli[c] = "done",
                        NEW n \in {"shortcut", "command"}, NEW i \in ToAdd(n)
                 PROVE  \/ <<n, i>> \in Stored(file) \cup lost
                        \/ conf[c].providers[n] = Garbled
    BY DEF AddedIsStored, ToAdd
  <2>2. CliOK(cli[c], conf[c], file, lost)
    BY <2>1, Parts DEF ClisOK
  <2>3. cli[c] \in After(n)
    BY <2>1 DEF After
  <2>4. QED
    BY <2>2, <2>3 DEF CliOK
<1>2. QED
  BY <1>1, Invariance, PTL

-----------------------------------------------------------------------------
(* Every step leaves the file alone, or replaces it by what a process made *)
(* of the configuration in its memory                                      *)

Replaces(p) == conf'[p] = file' /\ Improves(conf[p], file')

LEMMA SaveReplaces ==
  ASSUME StoreOK, NEW p \in Procs, NEW c, Improves(conf[p], c),
         NEW saves \in BOOLEAN, Save(p, c, saves)
  PROVE  file' = file \/ Replaces(p)
<1>1. conf'[p] = c /\ file' = IF saves THEN c ELSE file
  BY SaveStep
<1>2. QED
  BY <1>1 DEF Replaces

LEMMA SectionReplaces ==
  ASSUME IInv, NEW p \in Procs, NEW n \in ProviderNames, NEW set,
         Keeps(n, conf[p].providers[n], set), SetSection(p, n, set)
  PROVE  file' = file \/ Replaces(p)
<1>1. StoreOK /\ WellTyped(conf[p])
  BY Parts DEF StoreOK
<1>2. PICK c : c = [conf[p] EXCEPT !.providers[n] = set.sec]
  OBVIOUS
<1>3. Improves(conf[p], c)
  BY <1>1, <1>2, SectionSet
<1>4. Save(p, c, set.saves) /\ set.saves \in BOOLEAN
  BY <1>2 DEF SetSection, Keeps
<1>5. QED
  BY <1>1, <1>3, <1>4, SaveReplaces

LEMMA FileStep ==
  ASSUME IInv, [Next]_vars
  PROVE  file' = file \/ \E p \in Procs : Replaces(p)
<1>1. ASSUME NEW f \in Fs, StoreAddress(f)
      PROVE  file' = file \/ Replaces(f)
  <2>1. StoreOK /\ WellTyped(conf[f]) /\ f \in Procs
    BY OfSession
  <2>2. PICK r \in Remotes, saved \in BOOLEAN :
          Save(f, [conf[f] EXCEPT !.remotes[r] = "stored"], saved)
    BY <1>1 DEF StoreAddress, NoAddress
  <2>3. Improves(conf[f], [conf[f] EXCEPT !.remotes[r] = "stored"])
    BY <2>1, RemoteSet
  <2>4. QED
    BY <2>1, <2>2, <2>3, SaveReplaces
<1>2. ASSUME NEW f \in Fs, NEW n \in ProviderNames, NEW ok \in BOOLEAN,
             BuildProvider(f, n, ok)
      PROVE  file' = file \/ Replaces(f)
  <2>1. WellTyped(conf[f]) /\ f \in Procs
    BY OfSession
  <2>2. SectionOf(n, conf[f].providers[n])
    BY <2>1, ConfigFields
  <2>3. PICK new : new = NewProvider(n, conf[f].providers[n], session[f].flags, ok)
    OBVIOUS
  <2>4. Keeps(n, conf[f].providers[n], new)
    BY <2>2, <2>3, ConstructorKeeps
  <2>5. SetSection(f, n, new)
    BY <1>2, <2>3 DEF BuildProvider
  <2>6. QED
    BY <2>1, <2>4, <2>5, SectionReplaces
<1>3. ASSUME NEW f \in Fs, SaveBlacklist(f)
      PROVE  file' = file \/ Replaces(f)
  <2>1. /\ SessionOK(session[f], conf[f], file, lost) /\ session[f].pc = "save"
        /\ WellTyped(conf[f]) /\ f \in Procs
    BY <1>3, OfSession DEF SaveBlacklist, pc
  <2>2. PICK n \in {"desktop", "application"} : n = session[f].launched
    BY <2>1 DEF SessionOK
  <2>3. PICK id \in Ids : id = IdOf[TrimPrefix(session[f].line, "@ ")]
    BY <2>1, SettingsAssumption DEF SessionOK
  <2>4. n \in ProviderNames
    BY DEF ProviderNames
  <2>5. SectionOf(n, conf[f].providers[n])
    BY <2>1, <2>4, ConfigFields
  <2>6. PICK set : set = Blacklist(conf[f].providers[n], id)
    OBVIOUS
  <2>7. Keeps(n, conf[f].providers[n], set)
    BY <2>5, <2>6, BlacklistKeeps
  <2>8. SetSection(f, n, set)
    BY <1>3, <2>2, <2>3, <2>6 DEF SaveBlacklist
  <2>9. QED
    BY <2>1, <2>4, <2>7, <2>8, SectionReplaces
<1>4. ASSUME NEW c \in Clis, SaveEntryProviderSettings(c)
      PROVE  file' = file \/ Replaces(c)
  <2>1. PICK n \in {"shortcut", "command"} :
          SetSection(c, n, IF n = "shortcut"
                           THEN AddShortcutsToConfig(conf[c].providers[n], NewShortcuts)
                           ELSE AddCommandsToConfig(conf[c].providers[n], NewCommands))
    BY <1>4 DEF SaveEntryProviderSettings
  <2>2. PICK set : set = IF n = "shortcut"
                         THEN AddShortcutsToConfig(conf[c].providers[n], NewShortcuts)
                         ELSE AddCommandsToConfig(conf[c].providers[n], NewCommands)
    OBVIOUS
  <2>3. PICK sec : sec = conf[c].providers[n]
    OBVIOUS
  <2>4. WellTyped(conf[c]) /\ c \in Procs /\ n \in ProviderNames /\ n \in {"command", "shortcut"}
    BY Parts DEF StoreOK, Procs, ProviderNames
  <2>5. SectionOf(n, sec)
    BY <2>3, <2>4, ConfigFields
  <2>6. ToAdd(n) \subseteq Names /\ Added(n, sec, ToAdd(n), set)
    BY <2>2, <2>3, <2>5, CommandsAdded, ShortcutsAdded, FSessionAssumption DEF ToAdd
  <2>7. Keeps(n, sec, set)
    BY <2>4, <2>5, <2>6, AddedKeeps
  <2>8. SetSection(c, n, set)
    BY <2>1, <2>2
  <2>9. QED
    BY <2>3, <2>4, <2>7, <2>8, SectionReplaces
<1>5. ASSUME NEW f \in Fs, SessionStep(f)
      PROVE  file' = file \/ Replaces(f)
  <2>1. CASE \/ GetRemote(f) \/ StartFromReader(f) \/ GetSelection(f) \/ Dispatch(f)
             \/ Unhandled(f)
    BY <2>1 DEF GetRemote, StartFromReader, GetSelection, Dispatch, Unhandled, Only
  <2>2. CASE StartF(f) \/ LoadBlacklist(f)
    BY <2>2 DEF StartF, LoadBlacklist, LoadConfig
  <2>3. QED
    BY <1>1, <1>2, <1>3, <1>5, <2>1, <2>2 DEF SessionStep
<1>6. ASSUME NEW f \in Fs, Find(f) \/ Outside(f) \/ User(f)
      PROVE  file' = file
  BY <1>6 DEF Find, FindLists, FindEnds, Outside, RemoteAnswers, CommandEnds, User,
              Cancel, FzfFails, Interrupt, Select, Leaves, Only
<1>7. ASSUME NEW c \in Clis, CliLoads(c)
      PROVE  file' = file
  BY <1>7 DEF CliLoads, LoadConfig
<1>8. CASE UNCHANGED vars
  BY <1>8 DEF vars
<1>9. QED
  BY <1>4, <1>5, <1>6, <1>7, <1>8 DEF Next, Procs

(***************************************************************************)
(* Only a process that loaded the file before something was stored takes   *)
(* it from the file again, by saving its own copy (conf.Save()).           *)
(***************************************************************************)

THEOREM LossesOnlyByStaleCopies == Spec => LossesAreStale
<1>1. IInv /\ [Next]_vars =>
        [\A x \in Stored(file) \ Stored(file') :
           \E p \in Procs : conf'[p] = file' /\ x \in missed[p]]_vars
  <2>1. SUFFICES ASSUME IInv, [Next]_vars, NEW x \in Stored(file) \ Stored(file')
                 PROVE  \E p \in Procs : conf'[p] = file' /\ x \in missed[p]
    OBVIOUS
  <2>2. PICK p \in Procs : Replaces(p)
    BY <2>1, FileStep
  <2>3. x \notin Stored(conf[p])
    BY <2>1, <2>2 DEF Replaces, Improves
  <2>4. x \in missed[p]
    BY <2>1, <2>3 DEF IInv, NothingUnknown
  <2>5. QED
    BY <2>2, <2>4 DEF Replaces
<1>2. QED
  BY <1>1, Invariance, PTL DEF Spec, LossesAreStale

(***************************************************************************)
(* What the program stores never makes a constructor fail that would not   *)
(* have failed on the configuration as it was loaded (AddCommandsToConfig, *)
(* SetPathProviderSettings and the others).                                *)
(***************************************************************************)

THEOREM NeverBricksItself == Spec => NeverBricked
<1>1. IInv /\ [Next]_vars =>
        [\A n \in ProviderNames :
           file' # file /\ Bricked(n, file') =>
             \E p \in Procs : file' = conf'[p] /\ Bricked(n, conf[p])]_vars
  BY FileStep DEF Replaces, Improves
<1>2. QED
  BY <1>1, Invariance, PTL DEF Spec, NeverBricked

-----------------------------------------------------------------------------
(* The loop over the providers                                             *)

LEMMA OthersStay ==
  ASSUME session \in [Fs -> Session], NEW g \in Fs,
         SessionStep(g) \/ Find(g) \/ Outside(g) \/ User(g),
         NEW f \in Fs, f # g
  PROVE  session'[f] = session[f]
<1>1. CASE \/ StartF(g) \/ StoreAddress(g) \/ GetRemote(g) \/ LoadBlacklist(g)
  BY <1>1 DEF StartF, StoreAddress, GetRemote, LoadBlacklist, Goes, BuildsProviders
<1>2. ASSUME NEW n \in ProviderNames, NEW ok \in BOOLEAN, BuildProvider(g, n, ok)
      PROVE  session'[f] = session[f]
  <2>1. PICK new : new = NewProvider(n, conf[g].providers[n], session[g].flags, ok)
    OBVIOUS
  <2>2. \/ Ends(g, "fatal")
        \/ session' = [session EXCEPT
             ![g].todo = @ \ {n},
             ![g].providers = IF session[g].remote \/ IsRemoteIndependent(n)
                              THEN @ \cup {new.provider} ELSE @]
    BY <1>2, <2>1 DEF BuildProvider
  <2>3. QED
    BY <2>2 DEF Ends
<1>3. CASE StartFromReader(g) \/ GetSelection(g) \/ Dispatch(g) \/ Unhandled(g)
  <2>1. CASE StartFromReader(g)
    BY <2>1 DEF StartFromReader, Ends
  <2>2. CASE GetSelection(g)
    <3>1. Ends(g, "done") \/ Ends(g, "fatal") \/ Goes(g, "dispatch")
          \/ session[g].out \notin {"none", "bad", "entry"}
      BY <2>2 DEF GetSelection, Selected
    <3>2. session[g].out \in {"none", "bad", "entry"}
      BY DEF Session
    <3>3. QED
      BY <3>1, <3>2 DEF Ends, Goes
  <2>3. CASE Dispatch(g)
    <3>1. PICK launched, to :
            session' = [session EXCEPT ![g].launched = launched, ![g].pc = to]
      BY <2>3 DEF Dispatch
    <3>2. QED
      BY <3>1
  <2>4. CASE Unhandled(g)
    BY <2>4 DEF Unhandled, Ends
  <2>5. QED
    BY <1>3, <2>1, <2>2, <2>3, <2>4
<1>4. CASE SaveBlacklist(g)
  <2>1. PICK t : session' = [session EXCEPT ![g] = t]
    BY <1>4 DEF SaveBlacklist
  <2>2. QED
    BY <2>1
<1>5. CASE Find(g) \/ Outside(g) \/ User(g)
  BY <1>5 DEF Find, FindLists, FindEnds, Outside, RemoteAnswers, CommandEnds, User,
              Cancel, FzfFails, Interrupt, Select, Leaves, Ends
<1>6. QED
  BY <1>1, <1>2, <1>3, <1>4, <1>5 DEF SessionStep

\* f leaves the loop with an error only if no provider takes the selection.
LEMMA LoopFails ==
  ASSUME IInv, [Next]_vars, NEW f \in Fs, pc(f) = "dispatch", pc(f)' = "fatal"
  PROVE  Unhandled(f)
<1>1. session \in [Fs -> Session]
  BY OfSession
<1>2. session'[f] # session[f]
  BY DEF pc
<1>3. SessionStep(f) \/ Find(f) \/ Outside(f) \/ User(f)
  <2>1. ASSUME NEW c \in Clis, CliLoads(c) \/ SaveEntryProviderSettings(c)
        PROVE  UNCHANGED session
    BY <2>1 DEF CliLoads, SaveEntryProviderSettings
  <2>2. QED
    BY <1>1, <1>2, <2>1, OthersStay DEF Next, vars
<1>4. ~ Find(f)
  <2>1. Find(f) =>
          \/ session' = [session EXCEPT ![f].copier = FALSE]
          \/ session' = [session EXCEPT ![f].find = "ended", ![f].copier = FALSE]
    BY DEF Find, FindLists, FindEnds
  <2>2. session[f] \in Session
    BY <1>1
  <2>3. Find(f) => session'[f].pc = session[f].pc
    BY <1>1, <2>1, <2>2 DEF Session
  <2>4. QED
    BY <2>3 DEF pc
<1>5. ~ Outside(f) /\ ~ User(f)
  BY DEF Outside, RemoteAnswers, CommandEnds, User, Cancel, FzfFails, Interrupt, Select,
         Leaves, pc
<1>6. ~ Dispatch(f)
  <2>1. SUFFICES ASSUME Dispatch(f)
                 PROVE  FALSE
    OBVIOUS
  <2>2. PICK p :
          session' = [session EXCEPT
            ![f].launched = p.name,
            ![f].pc = CASE InFrontend(p.name, session[f].key) = "run" -> "command"
                        [] InFrontend(p.name, session[f].key) = "blacklist" -> "blacklist"
                        [] OTHER -> "handed"]
    BY <2>1 DEF Dispatch
  <2>3. PICK to : to = CASE InFrontend(p.name, session[f].key) = "run" -> "command"
                         [] InFrontend(p.name, session[f].key) = "blacklist" -> "blacklist"
                         [] OTHER -> "handed"
    OBVIOUS
  <2>4. to # "fatal"
    BY <2>3, Zenon
  <2>5. session' = [session EXCEPT ![f].launched = p.name, ![f].pc = to]
    BY <2>2, <2>3
  <2>6. session'[f].pc = to
    BY <1>1, <2>5 DEF Session
  <2>7. QED
    BY <2>4, <2>6 DEF pc
<1>7. QED
  BY <1>3, <1>4, <1>5, <1>6
  DEF SessionStep, StartF, StoreAddress, GetRemote, BuildProvider, StartFromReader,
      GetSelection, LoadBlacklist, SaveBlacklist, pc

\* A provider fetches each of its lines, unless it is one of paths.
LEMMA LineIsFetched ==
  ASSUME NEW p, p.prefix \in Prefixes, p.content \subseteq EntryNames,
         p.name # "path", NEW line \in Lines(p), NEW there
  PROVE  Fetches(p, line, there)
<1>1. PICK n \in p.content : line = p.prefix \o n
  BY DEF Lines
<1>2. TrimPrefix(line, p.prefix) = n
  BY <1>1, LineAssumption
<1>3. QED
  BY <1>1, <1>2 DEF Fetches

(***************************************************************************)
(* "no provider could handle the selection" is said only of a file that    *)
(* has gone, or of an application that the remote is missing for: the      *)
(* providers find again what they wrote for fzf, and those that need the   *)
(* remote are not asked without one (IsRemoteIndependent, Fetch).          *)
(***************************************************************************)

THEOREM OfferedIsHandled == Spec => SelectedIsHandled
<1>1. ASSUME IInv, [Next]_vars, NEW f \in Fs, pc(f) = "dispatch", pc(f)' = "fatal"
      PROVE  /\ session[f].line \in Offered(f)
             /\ \A p \in session[f].providers : session[f].line \in Lines(p) =>
                  \/ p.name = "path" /\ session[f].remote
                  \/ /\ p.name \in {"desktop", "application"}
                     /\ session[f].key # "ctrl-d" /\ ~ session[f].remote
  <2> DEFINE s == session[f]
  <2>1. SessionOK(s, conf[f], file, lost) /\ s \in Session
    BY <1>1, OfSession
  <2>2. s.line \in Offered(f)
    BY <1>1, <2>1, OfferedLines DEF SessionOK, pc
  <2>3. PICK there \in SUBSET Files : \A p \in s.providers : ~ Takes(f, p, there)
    BY <1>1, LoopFails DEF Unhandled
  <2>4. SUFFICES ASSUME NEW p \in s.providers, s.line \in Lines(p)
                 PROVE  \/ p.name = "path" /\ s.remote
                        \/ /\ p.name \in {"desktop", "application"}
                           /\ s.key # "ctrl-d" /\ ~ s.remote
    BY <2>2
  <2>5. /\ p.name \in ProviderNames /\ p.prefix \in Prefixes
        /\ p.content \subseteq EntryNames /\ s.remote \in BOOLEAN
    BY <2>1 DEF Session
  <2>6. s.remote \/ IsRemoteIndependent(p.name)
    BY <2>1 DEF SessionOK
  <2>7. CASE p.name = "path"
    BY <2>6, <2>7 DEF IsRemoteIndependent
  <2>8. CASE p.name # "path"
    <3>1. Fetches(p, s.line, there)
      BY <2>4, <2>5, <2>8, LineIsFetched
    <3>2. InFrontend(p.name, s.key) = "remote" /\ ~ s.remote
      BY <2>3, <3>1 DEF Takes
    <3>3. p.name \in {"command", "desktop", "application"}
      BY <2>5, <2>6, <2>8, <3>2 DEF IsRemoteIndependent, ProviderNames
    <3>4. p.name # "command" /\ s.key # "ctrl-d"
      BY <3>2, <3>3, Zenon DEF InFrontend
    <3>5. QED
      BY <3>2, <3>3, <3>4
  <2>9. QED
    BY <2>7, <2>8
<1>2. IInv /\ [Next]_vars =>
        [\A f \in Fs :
           pc(f) = "dispatch" /\ pc(f)' = "fatal" =>
             /\ session[f].line \in Offered(f)
             /\ \A p \in session[f].providers : session[f].line \in Lines(p) =>
                  \/ p.name = "path" /\ session[f].remote
                  \/ /\ p.name \in {"desktop", "application"}
                     /\ session[f].key # "ctrl-d" /\ ~ session[f].remote]_vars
  BY <1>1
<1>3. QED
  BY <1>2, Invariance, PTL DEF Spec, SelectedIsHandled
=============================================================================
