----------------------------- MODULE EntryLaunch -----------------------------
(***************************************************************************)
(* LaunchInFrontend() and RemoteLaunch() of the entries: which programs    *)
(* they run.  An entry is known by its Go type; key is the option fzf-key, *)
(* empty if none was pressed.                                              *)
(***************************************************************************)

\* GetCtrlKeysOptions()
Keys == {"ctrl-t", "ctrl-a", "ctrl-p", "ctrl-n", "ctrl-d", "ctrl-v"}

Run(program, target) == [program |-> program, target |-> target]

\* What RemoteLaunch() of some entry runs.
Runs ==
  [program : {"xdg-open", "nautilus", "x-terminal-emulator", "code", "gtk-launch",
              "python"},
   target : {"it", "parent"}]

\* A launch that fails before it runs anything.
NoRun == Run("none", "none")

\* Where LaunchInFrontend() leaves the entry.
InFrontend(type, key) ==
  CASE type = "command" -> "run"
    [] type \in {"application", "desktop"} /\ key = "ctrl-d" -> "blacklist"
    [] OTHER -> "remote"

\* A terminal and VSCode open the directory, or that of the file.
Folder(stat) == IF stat = "dir" THEN "it" ELSE "parent"

\* Path.RemoteLaunch, up to its first program; stat is what the path is now.
PathRun(key, stat) ==
  CASE key = "" -> Run("xdg-open", "it")
    [] key = "ctrl-p" -> Run("xdg-open", "parent")
    [] key = "ctrl-n" -> Run("nautilus", "it")
    [] key = "ctrl-t" /\ stat # "gone" -> Run("x-terminal-emulator", Folder(stat))
    [] key = "ctrl-v" /\ stat # "gone" -> Run("code", Folder(stat))
    [] OTHER -> NoRun

ShortCutRun == Run("xdg-open", "it")

DesktopFileRun == Run("gtk-launch", "it")

ApplicationRun == Run("python", "it")

\* Command.RemoteLaunch always fails: commands run in the terminal of f.
CommandRun == NoRun

FirstRun(type, key, stat) ==
  CASE type = "path" -> PathRun(key, stat)
    [] type = "shortcut" -> ShortCutRun
    [] type = "desktop" -> DesktopFileRun
    [] type = "application" -> ApplicationRun
    [] type = "command" -> CommandRun

\* Nobody waits for the end of these once they have started.
Started(run) == run.program \in {"nautilus", "x-terminal-emulator"}

\* xdg-open has nothing to open the path with: its parent is opened instead.
FallsBack(type, key, exit) == type = "path" /\ key = "" /\ exit \in {3, 4}

ParentRun == Run("xdg-open", "parent")
=============================================================================
