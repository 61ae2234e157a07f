----------------------------- MODULE MCFSession ------------------------------
(***************************************************************************)
(* Instances of FSession.  The configuration is that of a first run, a     *)
(* complete one, or one with mistakes of whoever edited it by hand.        *)
(***************************************************************************)
EXTENDS FSession

NoFile ==
  [remotes |-> [r \in Remotes |-> "absent"], providers |-> [n \in ProviderNames |-> Absent],
   blacklist |-> {"application"}]

\* extra is under the identifier of app.
With(command, shortcut, blacklist) ==
  [remotes |-> [r \in Remotes |-> "stored"],
   providers |-> [n \in ProviderNames |->
     CASE n = "command" -> command
       [] n = "shortcut" -> shortcut
       [] n = "desktop" -> Zero
       [] n = "application" -> [Zero EXCEPT !.extra = Extras]
       [] OTHER -> Absent],
   blacklist |-> blacklist]

Items(i, p) == [Zero EXCEPT !.items = i, !.prefix = p, !.made = TRUE]

MCFirstConfigs ==
  {NoFile,
   With(Items({"x"}, "< "), Items({"x"}, ""), {"application"}),
   With(Garbled, Items({"y"}, "& "), {"command"}),          \* y is added, too
   With(Items({}, "< "), Items({"bad"}, "& "), {"path"}),
   [With(Items({"x"}, "< "), Items({"< x"}, "& "), {"desktop"})
      EXCEPT !.remotes["http"] = "absent"],
   [NoFile EXCEPT !.remotes["rpc"] = "bad"],
   With(Garbled, [Zero EXCEPT !.prefix = "& "], {"path"})}  \* no list

MCIdOf == [a \in Apps \cup Extras |-> "app.desktop"]

MCFlags == {{}, {"hide-files"}, {"hide-files", "hide-folders"}}
=============================================================================
