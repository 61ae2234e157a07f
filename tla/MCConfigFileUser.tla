-------------------------- MODULE MCConfigFileUser ---------------------------
(* Instances of ConfigFileUser for TLC. *)
EXTENDS ConfigFileUser

\* The user truncates the file, breaks it, or writes a configuration by hand:
\* every setting but no fzf path, so that it still has to be validated.
InPlaceEdits == {Empty, Broken, [valid |-> FALSE, items |-> Items]}

AnyEdit == InPlaceEdits \cup {Missing}
=============================================================================
