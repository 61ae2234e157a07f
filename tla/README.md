# A verification of glauncher

glauncher is a launcher: `f` shows a list of entries in fzf and launches the
one the user selects, in its own terminal or through a *remote*, a background
server that `glauncher_cli` starts and stops. This directory holds TLA+
modules that model its code, TLC configurations that check them on small
instances, and theorems that TLAPS proves for every instance.

## 1. Inventory

| Component | State it keeps | Operations |
|---|---|---|
| `config/config.go` | one JSON file, its advisory lock, a `*Config` in each process | `LoadConfig(At)`, `Save` |
| `entry/desktopfile_provider.go`, scan | goroutines, channels, a map of results | `ScanMulti` (`scanMultiplePL`), `scanMultipleMT`, `scanMultipleST` |
| `entry/desktopfile_provider.go`, files | none | `readKV`, `Visible`, `Read` |
| provider settings (`command_`, `shortcut_`, `path_`, `desktopfile_`, `application_provider.go`) | a sub-tree of the `*Config` | `New…Provider`, `Add…ToConfig`, `Set…`, blacklisting |
| entries (`entry.go`, `map_provider.go`, `path_provider.go`) | the registered providers, the content of each | `GetEntryReader`, `Fetch`, `LaunchInFrontend`, `RemoteLaunch` |
| `entry/entry_serializer.go`, `version` | the registry of entry types | `SerializeWithOptions`, `DeserializeWithOption` |
| `remote/remote_http.go` | a listener, the channel `done` | `Start`, `Close`, `Connect`, `HandleEntry` |
| `remote/remote_rpc.go` | a listener, the channel `done` | the same over `net/rpc` |
| `cmd/glauncher_cli` | the flag `interrupted`, a signal context | `start-remote`, `kill-remote`, `save-entry-provider-settings` |
| `cmd/f`, `frontend/frontend.go` | the options, the fzf process, the pipes into it | a session: collect, select, dispatch, restart |
| `logger`, `utils` | a log file | I/O and conversions |

How they interact. Every process (`f`, `glauncher_cli`, the remote server is
one) loads the configuration when it starts; providers and remotes put missing
settings in the copy in memory and save the whole of it. `f` asks the remote
whether it runs, builds the providers (the desktop file provider scans), lets
fzf read the entries from all of them, asks them in turn which one knows the
selected line, and launches the entry or sends it, serialized, to the remote.
Blacklisting an application reloads and saves the configuration and restarts
the session.

What is hard, and what makes each component correct:

* **config**: several processes, crashes and failed writes between any two
  system calls, a lock on an inode that a rename replaces. A reader must find
  a whole configuration; the defaults must replace nothing but an empty file;
  a broken file must be kept; calls must return; what is saved should stay.
* **scan**: goroutines that leave early, unbuffered channels, results in any
  order. The scan must return, with an error iff there was one, and otherwise
  with every offered name; it should leave no goroutine behind and agree with
  the sequential scan.
* **remotes**: requests that race with each other and with the end of the
  server; an entry must be launched exactly once if the client is told so; a
  stopped server must stop, its client must be told.
* **session**: what is offered must be handled once it is selected, by a
  provider that can; a restart must see the new blacklist; f must not wait for
  programs that fzf has left behind.
* **settings**: what a provider stores must be what it uses; no process may
  take back what another stored.

`PROJECT.json` lists every hazard with its line and the properties about it.

## 2. Modules

| Module | Models | Role |
|---|---|---|
| `ConfigStore` | what `config` promises | abstract specification |
| `ConfigFile` | `config/config.go`, one step per system call | detailed specification |
| `ConfigFileUser` | `ConfigFile` and the user's text editor | composition |
| `ConfigFileProofs`, `ConfigFileUserProofs` | theorems about `ConfigFile` and `ConfigFileUser` | TLAPS |
| `DesktopFiles` | directories, files, `ScanDirectory`, `scanMultipleST` | data and reference |
| `DesktopScan` | what `ScanMulti` promises | abstract specification |
| `ScanPL` | `scanMultiplePL`, `walkDesktopFiles`, `digester` | detailed specification |
| `ScanMT` | `scanMultipleMT`, `sendAndMerge` | detailed specification |
| `DesktopFilesProofs` | what the sequential scan yields, facts both scans need | TLAPS |
| `ScanPLProofs`, `ScanMTProofs` | theorems about `ScanPL` and `ScanMT` | TLAPS |
| `DesktopEntry` | `readKV`, `Visible`, `Read` | algorithm, against a reference |
| `DesktopEntryProofs` | theorems about `DesktopEntry` | TLAPS |
| `EntrySerializer` | `entry_serializer.go`, `version.go` | operators |
| `EntryLaunch` | `LaunchInFrontend`, `RemoteLaunch` of all entries | operators |
| `RemoteService` | what a `Remote` promises to `f` | abstract specification |
| `Remote` | `remote/`, `start-remote`, `kill-remote`, `f`'s calls | detailed specification |
| `RemoteProofs` | theorems about `Remote` | TLAPS |
| `Settings` | the sections of the configuration, the constructors of providers | operators |
| `FSession` | `cmd/f`, `frontend`, `save-entry-provider-settings` | composition over `Settings`, `EntryLaunch` |
| `FSessionProofs` | theorems about `FSession` | TLAPS |
| `MC…` | instances | for TLC |

### ConfigStore, ConfigFile

A `Config` is reduced to whether `validate()` has filled in its defaults
(`valid`) and the set of settings it holds (`items`). `file` is what the path
shows: missing, empty, broken (undecodable) or a `Config`. `path` is the inode
there, `fd[p]` the inode process `p` opened for its lock, `owner[i]` the holder
of flock(2) on inode `i`. `mem[p]` is the `*Config` the process works with and
`saved` the settings `Save()` returned nil for.

Actions follow the code from lock to unlock: `OpenLock` (open with `O_CREATE`),
`AcquireLock`, `StatFile`, `ReadFile`, `GotConfig` (both uses of `rawRead`, in
`LoadConfigAt` and in `saveIfChanged`, with the comparison), `CreateTemp`,
`EncodeTemp`, `RenameTemp`, and `Unlock` with the return. `ReadFails` and
`WriteFails` are the error returns, `Crash` the end of a process anywhere,
`Amend` a caller that changes its copy between calls. A `lock()` that fails
changes nothing, so a process that only tries is not a step. Losing power is
left out: nothing is synced, and what survives is up to the file system.

The lock does not exclude processes from each other: `rawSave` renames a new
inode over the path, so a process that waits on the old inode gets its lock
while another one opens and locks the new one. What still holds, and why, is
the invariant `IInv`: while the file is empty nobody has opened anything but
its first inode (`OneInodeWhileEmpty`), so the lock does exclude for that long
and the defaults replace nothing else; afterwards a process replaces the whole
file by a whole configuration (`WritesAllowed`). What does not hold is
`LoadTakesNothingBack`: see the findings.

`ConfigFileUser` adds `UserEdit`: in place (truncate, break, write by hand), or
an unlink, at rest, when no process is between its lock and its unlock.

### DesktopFiles, DesktopScan, ScanPL, ScanMT

A file is what `Read()` makes of it: an error, not to be shown, or a name and
an identifier (the base name of the file). The scan gets any list of
directories of the set `Inputs`. `DesktopScan` is one step: return `Failure` if
anything could not be read, otherwise every offered name with the identifier of
one of the files of that name.

`ScanPL`: `walker` with its position `at`, `digester[d]` with the result in its
hand `job[d]`, the caller `main`. A send on an unbuffered channel and its
receive are one action (`ReceivePath`, `SendResult`); reading the file is part
of `ReceivePath`, being local. `closed` is the channel `c`, `errs` the channel
with one place, and `done` is closed when `ret` is set (it is closed by the
deferred call). The walker never looks at `done`: after an error, when all
digesters have left, it stays behind for ever. The model has these behaviours;
`SuccessLeavesNobody` says they need an error. A panic (`parseBool`) ends the
process and is not a step.

`ScanMT`: one goroutine per directory, `sendAndMerge` as the three cases of its
select (`Send`, `Merge`, `Discard`), `done` and `errChan` as counters, the
caller's loop (`ReceiveDone`, `ReceiveErr`) and `Return`.

### DesktopEntry

What `Read()` makes of one file, which the scans take as given. A file is a
sequence of lines, a line a sequence of tokens: a word is a longest run of the
letters, digits and hyphens of `localizedEntry`, and everything else that an
expression or a separator names is a token of its own (`Other`; `"_"` is any
character that none names, `"\t"` any space). The regular expressions are modelled
by what they match. `localizedEntry` is not bound to the line: `KeyStarts` is
wherever a word, or `Name[de]`, and `=` follow each other, so `X_Hidden=maybe`,
`#Hidden=maybe` and a translation whose value holds `Hidden=maybe` have entries
with the key `Hidden`, while `Hidden =true` has one with the key `Hidden `. `\s*` after
`=` reaches over the end of the line: an entry without a value takes the next
line that has text for it (`Taken`, `ValueAt`). `MainGroup` is the cut at the next
header, `TrimSpace` and `Split` are those of `strings`, `ShowOn` is the loop over
the desktops, and the file that `os.ReadFile` fails on is `Unreadable`.

Left out by `Ordinary`, which the inputs must satisfy: lines of nothing but
spaces, and lines that begin with `=`. There `\s*` would reach the key or the value
over several lines at once. A file ends with a line feed; `crlf` says that its
lines end with two characters, and then no header matches.

`ShownAsEntered` compares the result, for the files that are `Plain`, with a
definition that speaks of entries and groups and not of how they are read. A
plain file has comments (without `=` in the main group), empty lines,
translations and other groups as it likes, its entries in any order, and the lists name one desktop without a separator
after it. What the Desktop Entry Specification allows beyond that, and this code
reads in another way, is not plain; the findings below say what becomes of it.

### RemoteService, Remote

`RemoteService`: an entry that is handed over is launched at most once, before
the call returns, and was launched if it returns nil. An error says nothing:
the server may have launched the entry and ended before it answered.

`Remote` has, for each process that runs `start-remote`, the listener, the
channel `done` (closed, for HTTP; a queue of one, for RPC), the goroutine that
runs `Start` (`start`), the flag `interrupted`, the signal context (`ctx`) and
the goroutine that waits for it (`watch`). `call[c]` is the call of a client and
the handler that serves it, a goroutine of the process `peer`: `closeRoute` in
two steps (`CheckDone`, `CloseDone`), `CloseServer`, `httpReceiver` and
`HandleEntry` with the programs they run. When a process ends, by `Exit`,
`Crash` or a signal after `stop()`, its handlers end with it, and their clients
get an error (`Lost`). `Connect` is at the start of `f`; the entry goes to
whoever holds the address when something is selected (`HandleEntry`). Whether
`kind` is HTTP or RPC is chosen once: the two have an address each. Binding the
address is taken to succeed iff nobody holds it. A path is launched as what it
is when the handler looks, `Data` standing for what that is. The program that a
handler runs may fail to start, which is an error like any other (`Refuse`).

Four things the model shows and no property forbids: an answer to `/close`
may be lost, since `Start` returns, and the process may exit, before it is
written (`kill-remote` then reports an error although the server is gone); a
`start-remote` that did not get the address and is interrupted before `Start`
returns closes the server that has it; a signal that comes before the listener
is up is spent on a `Close()` that fails, while the server goes on; and of two
`/close` requests that cross, the second closes `done` again, so that its handler
panics and its `kill-remote` gets an error, while the server ends as it should.

### Settings, FSession

A section of the configuration is what `FromJSON` reads: the items (names,
blacklisted identifiers, hide options), the prefix, whether the list or map is
there at all, and the extra applications. It may be absent, or of the wrong type
(`Garbled`: the user edits the file). `AddCommandsToConfig` and its siblings map
a section to a section, an error, and whether `conf.Save()` was reached; the
`New...` operators add the provider. `ok` is what the constructor cannot decide: the
scan of the desktop files, or the Python script, returned without an error. What
the code does not look at, the model does not either: a section that does not
decode is reported as stored by `AddCommandsToConfig`, and extra applications are
offered whether the blacklist has them or not.

Names, prefixes and lines are strings. A line is the prefix and the name one
after the other (`Lines`), and `Fetches` has both ways back: `MapProvider.Fetch`
looks up what `TrimPrefix` leaves, `PathProvider.Fetch` the whole line among the
files that are there when it looks. So the line `< x` may be taken for the file of
that name, for the command `x` under the prefix `"< "`, and, since a prefix that is
not there is not missed, for a shortcut `< x` under `"& "`: by the first of these
providers that is asked.

`FSession` is `StartF`: load, the two addresses (`StoreAddress`, which may fail, and
then f does without a remote), the connection, the providers in any order, the
readers and fzf, the user's choice, the loop over the providers, the launch.
`conf[p]` is the `*Config` of each process, loaded and saved as a whole, the two
steps of `ConfigStore`; `missed` and `lost` are history variables: what others
stored since p loaded, and what was stored once and is gone. `fdfind` and the
goroutine that copies into fzf are `find` and `copier`: `GetSelection` waits for the
copier, which fails only when there is something more to copy. The ways out of
fzf are `Cancel` (130, or no output), `FzfFails` (another exit code, or output of
the wrong form, which end f) and `Select`; two marked entries are taken, as the
code does, for a key (`line`) and an entry. A command is one action with its
outcomes, its wait for an interrupt being the state `held`. `glauncher_cli` saves
its shortcuts and commands beside it.

`SelectedIsHandled` relates the four functions a provider is made of: whatever
`GetEntryReader` writes for fzf, `Fetch` must find again, and a provider that needs
the remote for everything (`IsRemoteIndependent`, `LaunchInFrontend`) must not be
there without one. f gives up on a selection only for the two reasons that are
left: a file that has gone, or an application, which f offers without a remote
too, so that it can be blacklisted.

Definitions that begin with the comment "Variant:" are plausible mistakes in
the code next to them; the mutants of `PROJECT.json` show with them that each
property depends on the code.

## 3. Runs

| Run | Instance | Shows |
|---|---|---|
| `config_shared` | 2 processes, 4 inodes, 2 settings | `NeverBroken`, `DefaultsOnlyReplaceEmpty`, `IInv`; `ConfigFile` implements `ConfigStore` |
| `config_user_shared` | 2 processes, 1 edit in place | `BrokenFileKept`; every call returns (`CallsReturn`) |
| `config_user_single` | 1 process, 2 edits or unlinks | `SavedSettingsStay`, `SuccessLeavesConfig`, `LoadKeepsValidFile` |
| `config_rewrite` | 2 processes | violates `LoadTakesNothingBack` |
| `scan_pl` | ≤ 2 directories of ≤ 2 files, 2 digesters | `ScanPL` implements `DesktopScan`; `ScanEnds`, `SuccessLeavesNobody`, `AgreesWithST`, `IInv` |
| `scan_pl_order` | the same | violates `SameAsST` |
| `scan_mt` | the same, and 3 directories of ≤ 1 file | `ScanMT` implements `DesktopScan`; `ResultReady`, `AgreesWithST`, `EveryoneEnds`, `IInv` |
| `remote` | 2 servers of the same or two builds, 1 killer, 1 f, both kinds | `Remote` implements `RemoteService`; `NoForeignLaunch`, `OkMeansOpened`, `IInv` |
| `remote_ends` | 1 server, 2 killers, 1 f, both kinds | `HandleReturns`, `CloseEnds`, `InterruptEnds` |
| `session` | 1 f with restarts, 1 glauncher_cli, 7 first configurations | `LossesAreStale`, `NeverBricked`, `HiddenStays`, `AddedIsStored`, `SelectedIsHandled`, `SelectionEnds`, `IInv` |
| `session_prefix` | 1 f | violates `DefaultsAreStored` |
| `desktop_entry` | all files of a header, with or without a type, a name and ≤ 3 lines of 24 kinds; all of ≤ 2 lines, with both ends of line; one that cannot be read | `ShownAsEntered`, `BadFilesOnly` |

Bounds. Two processes with four inodes: the one at the path, one open by each
process, and a free one for the next rename, so a rename is never held up; the
split lock needs exactly a waiter on the old inode and a newcomer on the new
one. One setting per process tells whose write survived. One or two edits put
the user before, between and after the calls. Two digesters and four files: one
digester can bring the error, the other can hold a result when the caller
leaves, and a file is left for the walker to be stuck with. Two names and three
identifiers, one blacklisted, make every clash within and across directories.
Three goroutines for `ScanMT` let two meet in `resChan` while a third fails.
Two servers let one end, and another one with other code take its address,
between the calls of one client; a server runs once, so that a restart is
another server. Two killers cross in `closeRoute`, and fill `done` twice. One
type of entry suffices for the remote, since `RemoteLaunch` of a path has every
outcome the others have. One session and one writer make every order of load and
save between two processes. The first configurations are an absent file, one
whose only mistake is an address, one with the names that are added, sections
that do not decode, a bad shortcut, a section without a list, and one where a
file, a command and a shortcut may each be taken for the line `< x`; the complete ones have an
extra application under the identifier of another one. Three lines after the
type and the name hold a boolean, a list and a header with something behind it,
or an entry without a value, the line it takes, and one more; the kinds of line
have each separator, each list form and each partial key once.

Deadlock is checked in the runs of the configuration and the scans; a scan that
has returned may stay as it is (`Returned`). Processes of `Remote`, `FSession`
and `DesktopEntry` come to an end, and the whole system may stop then.

Fairness. `Fairness` of `ConfigFile`: a process goes on with a call it can go
on with (weak fairness: it runs, and system calls return), and is not passed
over for ever by flock(2) while the lock comes free again and again (strong
fairness of `AcquireLock`; Linux queues waiters of flock in order). It is not
assumed that a process ever starts a call, survives, or succeeds. The scans
need only that some goroutine that can run does run (`WF_vars(Step)`): every
step uses up work. `FairSpec` of `Remote`: each goroutine of a server that can go
on does, so does each handler, and the programs a handler waits for end; no
process has to start, send a signal or crash. `FairSpec` of `FSession`: f goes
on, and `fdfind` finds something more or ends. The user owes nothing, not even to
leave fzf or a command that failed, nor do the command that f runs, which may be
a shell, and the remote that it calls: `SelectionEnds` follows f up to these two,
`command` and `handed` being among its outcomes.

### Findings

1. `LoadTakesNothingBack`: process A saves (its rename replaces the inode); B,
   waiting on the old inode, gets its lock while C opens the new one. C loads
   and is about to rewrite the file, B saves and is told so, C's rename takes
   B's settings back. A mere load did that. The lock file and the configuration
   would have to be different files.
   The same split lock has a second effect after a truncation, which the note at
   `config.go:11` allows: two processes find size 0, and the defaults of the
   second one replace the configuration the first one has completed.
2. `DefaultsAreStored`: at its first start a provider of commands or shortcuts
   uses the prefix `"< "` or `"& "`, but stores the empty one; at the second
   start its entries have no prefix, and the order of a map decides whether a
   line is taken for a file, an application or the command of that name.
3. `SameAsST`: if two files are offered under one name, the order in which the
   digesters deliver decides which one is returned and launched, even within
   one directory. `TestConsistency` compares the scans and fails then.
   `scanMultipleMT`, which only the tests call, has the same disagreement
   across directories: the map that is sent first wins.

Two more disagreements came up that no run is about, since the properties that
would state them are false by a single function, and the models have the code's
side of them:

* Desktop files. `desktopfile_provider.go:250` refers to the Desktop Entry
  Specification, and line 246 splits lists at `:` while that separates and ends
  them with `;`. So `OnlyShowIn=GNOME;KDE;` is one name for this code, and hides the
  application on every desktop, `NotShowIn=GNOME;` hides it on none. A space before
  `=` stays in the key and one after it in the value, so `Hidden =true` is not read
  and `Type= Application` is no application. A comment, or the part of a key behind a
  character like `_`, counts as an entry: `#Hidden=true` hides the application,
  `X_Hidden=maybe` ends f in a panic. An empty `Name=` takes the next line for the
  name. `Plain` leaves these files out; `BadFilesOnly` has them all.
* Extra applications. "skip items from the blacklist"
  (`application_provider.go:173`) is done for those that the script lists; line 181
  then adds the extra ones without looking. One that is blacklisted with ctrl-d is
  offered again after the restart: the exception of `HiddenStays`.

One exception is written into `CloseEnds` and `InterruptEnds` (`Stuck`): an RPC
server whose `Start` has returned on a first `CloseServer`, that gets a signal
before `interrupted` is reset, and a second `CloseServer` that fills `done`
again, waits in its own `Close()` for room in a channel nobody reads any more;
`errGroup.Wait()` does not return. A channel with room for one message is one
message short there.

## 4. Proofs

Every invariant, every action property and every refinement the passing runs
check is also a theorem, for all values of the constants that satisfy the
`ASSUME`s of the modules. The assumptions say that sentinels are not values,
that inputs have their types and that processes of different kinds are
different ones; TLC evaluates each of them. Where an argument needs more, it is
a hypothesis of the theorem and named below.

The modules are laid out alike: facts about operators, the initial states, one
lemma for each action or group of actions that act alike (`...IInv`), `NextIInv`, the
theorem `Invariance` (`Spec => []IInv`), and what follows from it.

### ConfigFileProofs

For any sets of processes, inodes and settings, under `SentinelAssumption` (the
sentinels are different from each other and from what they stand beside):

* `Invariance`, `TypeCorrect`, `NeverBrokenHolds`. The lemma
  `OneHolderWhileEmpty` is the heart: mutual exclusion on each inode, and a
  single inode while the file is empty, make its writer the only one past the
  lock; `RenameCases` draws from it the two things a rename can do.
* `DefaultsAreSafe`: an action property, from `IInv` and `RenameCases`.
* `Implements`: `Spec => StoreSpec`. Opening a missing file is `Create`, the
  first read is `Snapshot`, the rename is `WriteDefaults` or `Replace`, errors
  and crashes are `Forget`, everything else is a stutter.

### ConfigFileUserProofs

With a user who edits the file any number of times. `Does(p)` sums up what a
step of process `p` does to `p` and to the file; every argument goes through
these ten ways.

* `BrokenIsKept`, for any number of processes. `BrokenFileKept` follows from
  `InvU`: while the file is broken nobody is past his reading of it
  (`KeepsBroken`), since the user edits at rest and the read then fails.
* `SavedStays`, `SuccessIsValid`, `LoadsDoNotRewrite`, under the hypothesis that
  there is one process, `\A p, q \in Procs : p = q`. With two they are false:
  finding 1 is a counterexample to the first. `InvLone` says where the file, the
  copy in memory and the copy that is being written agree at each step of a
  call: what was saved is in all three, because `saveIfChanged` compares with
  what it has just read; a load that writes has read a file `validate` changes.

### DesktopFilesProofs, ScanPLProofs, ScanMTProofs

For any set of lists of directories of any length, names and identifiers.
`DesktopFilesProofs` has what both scans need. `ScanST` is a recursive function
over the directories; `PartialExists` shows by induction (the lemma `UpTo`: a
set that holds 0 and is closed under successor up to a bound) that there is one
that satisfies its equation, `PartialFacts` what its values hold, and
`SequentialPromised` that the sequential scan keeps the promise of
`DesktopScan`. `NoClash` leaves only one map to keep it with
(`PromisedAgrees`), so a concurrent scan that keeps it agrees.

* `ScanPLProofs`: `Invariance`; `NobodyLeft`; `Implements`; `AgreesWithSequential`.
  `NothingLost` says of every file the walker has handed over that its name is in
  the results, or it is in the hand of a digester (`WalkerAt` says how far the
  walker is); `ErrsTold` what the message in `errs`, or its receipt, says about the
  directories; `LeavesInTurn` that `c` is closed, and the caller past its
  loop, only after the digesters have left. A return without error therefore
  finds everything collected.
* `ScanMTProofs`: `Invariance`; `ResultIsReady`; `Implements`;
  `AgreesWithSequential`. `MessagesCounted` ties the two counters to the
  cardinality of the sets of goroutines that are gone, `NothingLost` says who
  holds each name between two meetings in `resChan`, `NothingInvented` that it
  comes from a file. When `waiting` is 0, as many goroutines are gone with a
  result as there are directories, hence all of them; nobody holds a map, so
  there is one in `resChan`. This needs the counting and the carrying parts
  together, which is why `ResultReady` is not inductive alone.

### DesktopEntryProofs

For files of any number of lines over any words, a file that cannot be read, and
any list of desktops. `InputsAssumption` restricts the lines to those that are
`Ordinary`, and says that words are not the other tokens. `ReadOnce`, that the
result is `ReadFile` of the inputs, is the invariant; the rest is about that
operator.

* `OnlyBadFilesEndF`: what the map has under a key of one word stands behind that
  word and `=` in a line (`KeyFacts`, `RestIsBehind`), or begins with the spaces
  and the end of that line (`ValueFacts`), so no group but one that says so, in
  whatever place, makes an application or a boolean that is none (`KVFacts`,
  `MainGroupFacts`).
* `ShownIffEntered`: in a plain file an entry is found with its key and value
  (`EntryFound`), a translation under a key that nobody asks for
  (`TranslationFound`), and nothing else is; no line is taken for the value of
  another one (`NoneTaken`), the text that is cut out is the group (`CutIsGroup`),
  and the map holds its entries and nothing that matters besides (`GoodKV`,
  `PlainKV`). A list without separators is one name (`SplitOne`). The loop over the
  desktops, a recursive function, equals its closed form `Decided`
  (`ShowOnValue`): the closed form satisfies its equation, and a last position at
  which another solution differs does not exist.

The whole value of `Type` has to be `Application`: one that begins with it is not
enough, and the run has such a line.

### RemoteProofs

For any number of servers, killers and sessions of f, any builds, entries,
options and exit codes.

* `Invariance`, `TypeCorrect`: at most one process serves (`Up`), and what each
  server, each handler and each caller has done agrees (`ServerInv`, `CallInv`,
  `EntryInv`).
* `NoForeignLaunches`, `OkMeansOpenedAlways`: neither follows from `IInv` alone. A
  message carries the version of f that sent it, nothing is launched of another
  one, a second program runs only after the first was `xdg-open`, and the answer
  is nil only after a program that ended well or that nobody waits for: this
  `History` of a call is what `FullInvariance` adds.
* `RemoteRefinement`: `Spec => RemoteSpec`. The call is `HandleEntry`, the first
  program that runs is `Launch`, the answer, the loss of the server and an
  address nobody holds are `Succeed` and `Fail`; signals, closers, the second
  program and everything between are stutters (`EntryStepMaps`). That an entry
  is launched at most once needs `EntryInv`, which tells from `ran` how far the
  handler is.

### FSessionProofs

For any number of sessions of f and processes of glauncher_cli, any names,
identifiers and first configurations that are well typed
(`FirstConfigsAssumption`), with `SettingsAssumption`: a section is neither
absent nor undecodable, files have names, and an application has one identifier.
`LineAssumption`, that a prefix which was put before a name comes off again, is a
fact about strings, which are opaque to the provers: it is assumed for the proofs
and evaluated by TLC for the names of the run.

* `Invariance`, `TypeCorrect`. `IInv` is proved in three parts: `StoreOK` (what
  each process knows of the file, `NothingUnknown`), `SessionsOK` and `ClisOK`.
  Every `New...` and `Add...ToConfig` keeps the items of a section or fails without
  a save (`Keeps`, `Fails`), so a process only loses what it has missed.
* `HiddenStaysHidden`: `HiddenStays` is not inductive. What was hidden must have
  been stored, and f must know of it from the moment it loads again until it
  builds the providers (`HiddenIsStored`). The extra applications are its
  exception, as the code has it.
* `OfferedIsHandled`: f leaves the loop with an error only through `Unhandled`
  (`LoopFails`, for which the steps of the other sessions leave f alone,
  `OthersStay`); the line is one that was offered (`LineIsOffered`), its provider
  fetches it (`LineIsFetched`), and one that cannot do without the remote was built
  with it (`ByKind`).
* `AddedWasStored`: the two saves of glauncher_cli one by one (`AddedSoFar`).
* `LossesOnlyByStaleCopies`, `NeverBricksItself`: action properties. By `FileStep` a
  step leaves the file alone or replaces it by what one process made of its
  copy; by `NothingUnknown` what is lost was missed, and by `BrickedFacts` no
  function makes a section bad that it found good.

### Only model-checked

Liveness: `CallsReturn`, `ScanEnds`, `EveryoneEnds`, `HandleReturns`, `CloseEnds`,
`InterruptEnds`, `SelectionEnds`. They rest on fairness, and with it on `ENABLED`,
which the proof system does not handle. The three violated properties
have no theorem, being false.

## 5. Not modelled, and the plan

Left out: `logger` (I/O), `ResolvePath`, `async_readwriter.go` (commented out),
`candidatesDirectories` (reads the environment), the Python scripts of the
deprecated application provider, the build script, the command lines, `GetProviders` (no caller). The encodings are those of
`encoding/json`, `net/http` and `net/rpc`, and are taken to work.

What the models leave out of a part they cover: `FSession` has no failures of
I/O while it loads or saves but those of storing an address (they are in
`ConfigFile`, and end f), no crash (f keeps nothing but the file), and drops an old `fdfind` at a restart, though it
lives until f exits. `Remote` has no network but the loopback: a call that
reaches a living server is answered.

What is left to do: the hazards of `PROJECT.json` that no property covers, each
with its reason there; and the invariants that hold of `ConfigFileUser` with two
processes, for which only `BrokenIsKept` is proved.
