--------------------------- MODULE MCDesktopEntry ----------------------------
(***************************************************************************)
(* Instances of DesktopEntry: files with a header, a name, perhaps a type, *)
(* and up to three more lines, and all files of up to two lines.           *)
(***************************************************************************)
EXTENDS DesktopEntry

MCWords ==
  {"Desktop", "Entry", "Type", "Name", "NoDisplay", "Hidden", "OnlyShowIn", "NotShowIn",
   "Application", "Link", "true", "false", "yes", "A", "B", "X"}

Main == <<"[", "Desktop", "\t", "Entry", "]">>

Application == <<"Type", "=", "Application">>

Lines ==
  {Main, <<"[", "X", "]">>, << >>,
   Application, <<"Type", "\t", "=", "Application">>, <<"Type", "=", "Link">>,
   <<"Type", "=", "Application", "\t", "X">>,
   <<"Name", "=", "B">>, <<"Name", "[", "A", "]", "=", "X">>,
   <<"NoDisplay", "=", "true">>, <<"NoDisplay", "=", "false">>,
   <<"Hidden", "=", "yes">>, <<"Hidden", "=", "\t", "true">>, <<"Hidden", "=">>,
   <<"#", "Hidden", "=", "true">>, <<"X", "_", "Hidden", "=", "yes">>,
   <<"Name", "[", "A", "_", "B", "]", "=", "NoDisplay", "=", "X">>,
   <<"#", "\t", "Hidden">>, <<"true">>,
   <<"OnlyShowIn", "=", "A", ";", "B", ";">>, <<"OnlyShowIn", "=", "A", ":", "B">>,
   <<"OnlyShowIn", "=", "B">>, <<"NotShowIn", "=", "A">>, <<"NotShowIn", "=", "\t">>}

UpTo(n) == UNION {[1 .. k -> Lines] : k \in 0 .. n}

MCInputs ==
  LET name == <<"Name", "=", "A">> IN
  [lines : {begin \o s : begin \in {<<Main, name>>, <<Main, Application, name>>}, s \in UpTo(3)},
   crlf : {FALSE}]
  \cup [lines : UpTo(2), crlf : BOOLEAN]

MCDesktops == {<<<<"A">>>>, <<<<"B">>, <<"A">>>>, <<<< >>>>}
=============================================================================
