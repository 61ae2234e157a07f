---------------------------- MODULE DesktopEntry -----------------------------
(***************************************************************************)
(* entry/desktopfile_provider.go: what Read() makes of one .desktop file,  *)
(* the File of DesktopFiles.tla.  A file is a sequence of lines, a line a  *)
(* sequence of tokens: words, the longest runs of [A-Za-z0-9\-], and other *)
(* characters: "\t" for a space or a tab, and "_" for any that neither an  *)
(* expression nor a separator names.                                       *)
(***************************************************************************)
EXTENDS Naturals, Sequences, FiniteSetsExt

CONSTANTS
  Words,      \* the words that files are made of
  Inputs,     \* the files that are read: [lines, crlf]
  Unreadable, \* one that os.ReadFile() fails on: a dangling link, for instance
  Desktops,   \* what XDG_CURRENT_DESKTOP may name, in order
  NotRead     \* Read() was not called yet

Other == {"=", "\t", "[", "]", "#", ":", ";", "_"}

Token == Words \cup Other

Blank(s) == \A i \in DOMAIN s : s[i] = "\t"

\* An expression finds its key within one line: no line begins with "=", or
\* has nothing but spaces.
Ordinary(l) ==
  /\ l # << >> => ~ Blank(l)
  /\ \A j \in DOMAIN l : l[j] = "=" => ~ Blank(SubSeq(l, 1, j - 1))

ASSUME InputsAssumption ==
  /\ Words \cap (Other \cup {"\n"}) = {}
  /\ Inputs \subseteq [lines : Seq(Seq(Token)), crlf : BOOLEAN]
  /\ Unreadable \notin Inputs
  /\ \A c \in Inputs : \A i \in DOMAIN c.lines : Ordinary(c.lines[i])
  /\ Desktops \subseteq Seq(Seq(Token \ {":"}))

IsHeader(l) == Len(l) > 2 /\ l[1] = "[" /\ l[Len(l)] = "]"

IsMainHeader(l) == l = <<"[", "Desktop", "\t", "Entry", "]">>

\* Positions at which a regular expression matches in lines.
Matches(lines, P(_)) == {i \in DOMAIN lines : P(lines[i])}

\* strings.TrimSpace().
TrimSpace(s) ==
  LET text == {i \in DOMAIN s : s[i] \notin {"\t", "\n"}} IN
  IF text = {} THEN << >> ELSE SubSeq(s, Min(text), Max(text))

\* strings.Split(), as a set.
Split(s, separator) ==
  LET ends == {0, Len(s) + 1} \cup {i \in DOMAIN s : s[i] = separator}
      next(i) == Min({j \in ends : j > i})
  IN {SubSeq(s, i + 1, next(i) - 1) : i \in ends \ {Len(s) + 1}}

-----------------------------------------------------------------------------

\* The first part of localizedEntry: a word, or two as in "Name[de]", and
\* spaces.
IsKey(s) ==
  LET key == TrimSpace(s) IN
  /\ s # << >> /\ s[1] \in Words
  /\ \/ Len(key) = 1
     \/ Len(key) = 4 /\ key[2] = "[" /\ key[3] \in Words /\ key[4] = "]"

\* Where a key begins, be it in the middle of what the file takes for one
\* ("X_Hidden="), in a comment, or within a value.
KeyStarts(l) ==
  {i \in DOMAIN l : \E j \in DOMAIN l : j > i /\ l[j] = "=" /\ IsKey(SubSeq(l, i, j - 1))}

Separator(l) == Min({j \in DOMAIN l : j > Min(KeyStarts(l)) /\ l[j] = "="})

KeyOf(l) == SubSeq(l, Min(KeyStarts(l)), Separator(l) - 1)

Rest(l) == SubSeq(l, Separator(l) + 1, Len(l))

\* The line after line i to which "\s*" reaches; 0 if there is none.
NextText(lines, i) ==
  LET S == {j \in DOMAIN lines : j > i /\ lines[j] # << >>} IN
  IF S = {} THEN 0 ELSE Min(S)

PrevText(lines, i) ==
  LET S == {j \in DOMAIN lines : j < i /\ lines[j] # << >>} IN
  IF S = {} THEN 0 ELSE Max(S)

\* The line is the value of the entry before it, which has none.
Taken(lines) ==
  LET taken[i \in 0 .. Len(lines)] ==
        LET p == IF i = 0 THEN 0 ELSE PrevText(lines, i) IN
        /\ p # 0
        /\ lines[i] # << >> /\ KeyStarts(lines[p]) # {} /\ Blank(Rest(lines[p]))
        /\ ~ taken[p]
  IN taken

\* What follows "=" in the match, over the end of the line if need be.
ValueAt(lines, i) ==
  IF Blank(Rest(lines[i])) /\ NextText(lines, i) # 0
  THEN Rest(lines[i]) \o <<"\n">> \o lines[NextText(lines, i)]
  ELSE Rest(lines[i])

\* The lines in which localizedEntry finds a match, one in each: ".+" goes
\* to the end of the line.
Found(lines) ==
  LET taken == Taken(lines) IN
  {i \in DOMAIN lines :
     /\ KeyStarts(lines[i]) # {} /\ ~ taken[i]
     /\ Rest(lines[i]) # << >> \/ NextText(lines, i) # 0}

\* data: the last match with a key counts.
KV(lines) ==
  LET found == Found(lines)
      last(k) == Max({i \in found : KeyOf(lines[i]) = k})
  IN [k \in {KeyOf(lines[i]) : i \in found} |-> ValueAt(lines, last(k))]

\* Variant: up to the end of the file.
ToTheEnd(lines) ==
  LET start == Min(Matches(lines, IsMainHeader))
  IN SelectSeq(SubSeq(lines, start + 1, Len(lines)), LAMBDA l : ~ IsHeader(l))

\* From the main header to the next one.
MainGroup(lines) ==
  LET start == Min(Matches(lines, IsMainHeader))
      after == {i \in Matches(lines, IsHeader) : i > start}
      end == IF after = {} THEN Len(lines) ELSE Min(after) - 1
  IN SubSeq(lines, start + 1, end)

-----------------------------------------------------------------------------

\* A map without the key yields the zero value.
MustGet(d, key) == IF key \in DOMAIN d THEN d[key] ELSE << >>

IsApplication(d) == MustGet(d, <<"Type">>) = <<"Application">>

GetBool(d, key) == IF key \in DOMAIN d THEN TrimSpace(d[key]) ELSE <<"false">>

\* parseBool() panics.
NoBool(d, key) == GetBool(d, key) \notin {<<"true">>, <<"false">>}

GetSet(d, key) == IF key \in DOMAIN d THEN Split(d[key], ":") ELSE {}

\* The loop over the desktops, left at the first that either list names.
ShowOn(d, desktops) ==
  LET only == GetSet(d, <<"OnlyShowIn">>)
      not == GetSet(d, <<"NotShowIn">>)
      from[i \in 1 .. Len(desktops) + 1] ==
        CASE i > Len(desktops) -> only = {}
          [] i <= Len(desktops) /\ desktops[i] \in only -> TRUE
          [] i <= Len(desktops) /\ desktops[i] \in not \ only -> FALSE
          [] OTHER -> from[i + 1]
  IN from[1]

\* Variant: the booleans are read first.
VisibleBooleansFirst(d, desktops) ==
  CASE NoBool(d, <<"NoDisplay">>) \/ NoBool(d, <<"Hidden">>) -> "panic"
    [] OTHER -> IF /\ IsApplication(d)
                   /\ GetBool(d, <<"NoDisplay">>) = <<"false">>
                   /\ GetBool(d, <<"Hidden">>) = <<"false">> /\ ShowOn(d, desktops)
                THEN "shown" ELSE "hidden"

Visible(d, desktops) ==
  CASE ~ IsApplication(d) -> "hidden"
    [] IsApplication(d) /\ NoBool(d, <<"NoDisplay">>) -> "panic"
    [] IsApplication(d) /\ GetBool(d, <<"NoDisplay">>) = <<"true">> -> "hidden"
    [] IsApplication(d) /\ GetBool(d, <<"NoDisplay">>) = <<"false">> /\ NoBool(d, <<"Hidden">>)
         -> "panic"
    [] OTHER -> IF GetBool(d, <<"Hidden">>) = <<"false">> /\ ShowOn(d, desktops)
                THEN "shown" ELSE "hidden"

Of(read, name) == [read |-> read, name |-> name]

\* Without the mandatory header, which must be followed by "\n".
Lacks(content) ==
  content.crlf \/ Matches(content.lines, IsMainHeader) = {}

ReadFile(content, desktops) ==
  IF content = Unreadable \/ Lacks(content) THEN Of("error", << >>)
  ELSE LET d == KV(MainGroup(content.lines)) IN
       IF Visible(d, desktops) = "shown" THEN Of("shown", MustGet(d, <<"Name">>))
       ELSE Of(Visible(d, desktops), << >>)

-----------------------------------------------------------------------------

VARIABLES content, desktops, result

vars == <<content, desktops, result>>

Init ==
  /\ content \in Inputs \cup {Unreadable}
  /\ desktops \in Desktops
  /\ result = NotRead

Read ==
  /\ result = NotRead
  /\ result' = ReadFile(content, desktops)
  /\ UNCHANGED <<content, desktops>>

Next == Read

Spec == Init /\ [][Next]_vars

-----------------------------------------------------------------------------

\* The lines of the group: those that follow its header, not another one.
InMain(lines) ==
  {i \in DOMAIN lines : \E h \in 1 .. i - 1 :
     /\ IsMainHeader(lines[h])
     /\ \A j \in h + 1 .. i : ~ IsHeader(lines[j])}

\* "Key=value", and nothing around either.
IsEntry(l) ==
  Len(l) > 2 /\ l[1] \in Words /\ l[2] = "=" /\ l[3] # "\t" /\ l[Len(l)] # "\t"

EntryValue(l) == SubSeq(l, 3, Len(l))

\* "Name[pt_BR]=value": for a language, which nobody asks for here.
IsTranslation(l) ==
  \E e \in 2 .. Len(l) - 1 :
    l[e - 1] = "]" /\ l[e] = "=" /\ l[e + 1] # "\t" /\ \A j \in DOMAIN l : l[j] = "=" => j = e

Entries(lines) == {i \in InMain(lines) : IsEntry(lines[i])}

\* The entry with key k says v.
Says(lines, k, v) ==
  \E i \in Entries(lines) : lines[i][1] = k /\ EntryValue(lines[i]) = v

Has(lines, k) == \E i \in Entries(lines) : lines[i][1] = k

\* One group, and there each key once, with a value that suits it: what the
\* Desktop Entry Specification and this program read in the same way.
Plain(c) ==
  LET lines == c.lines IN
  /\ c # Unreadable /\ ~ c.crlf
  /\ Cardinality(Matches(lines, IsMainHeader)) = 1
  /\ \A i \in InMain(lines) :
       \/ IsEntry(lines[i]) \/ IsTranslation(lines[i])
       \/ \A j \in DOMAIN lines[i] : lines[i][j] # "="
  /\ \A i, j \in Entries(lines) : lines[i][1] = lines[j][1] => i = j
  /\ \A i \in Entries(lines) :
       /\ lines[i][1] \in {"NoDisplay", "Hidden"} =>
            EntryValue(lines[i]) \in {<<"true">>, <<"false">>}
       /\ lines[i][1] \in {"OnlyShowIn", "NotShowIn"} =>
            \A j \in DOMAIN lines[i] : lines[i][j] \notin {":", ";"}
  /\ Has(lines, "Type") /\ Has(lines, "Name")

(***************************************************************************)
(* "Whether the desktop entry should be presented to the user or not": of  *)
(* a plain file, whatever its other groups, comments and translations say  *)
(* and in whatever order the entries are, an application is shown unless   *)
(* it is hidden, or the desktops that are in use decide against it, the    *)
(* first of them that OnlyShowIn or NotShowIn names (readKV, Visible).     *)
(* Not plain are files that the specification cited at line 250 allows and *)
(* that the code reads in another way: lists of several names, which end   *)
(* in ";" there and are split at ":" here, spaces around "=", a comment,   *)
(* or part of a key, that looks like an entry, values that are empty.      *)
(***************************************************************************)
ShownAsEntered ==
  result # NotRead /\ Plain(content) =>
    LET lines == content.lines
        first(i) == \A j \in 1 .. i - 1 : /\ ~ Says(lines, "OnlyShowIn", desktops[j])
                                         /\ ~ Says(lines, "NotShowIn", desktops[j])
        here ==
          \/ \E i \in DOMAIN desktops : first(i) /\ Says(lines, "OnlyShowIn", desktops[i])
          \/ /\ ~ Has(lines, "OnlyShowIn")
             /\ \A i \in DOMAIN desktops : ~ Says(lines, "NotShowIn", desktops[i])
        shown ==
          /\ Says(lines, "Type", <<"Application">>)
          /\ ~ Says(lines, "NoDisplay", <<"true">>) /\ ~ Says(lines, "Hidden", <<"true">>)
          /\ here
    IN /\ result.read = (IF shown THEN "shown" ELSE "hidden")
       /\ shown => Says(lines, "Name", result.name)

\* What follows "k=" in line l, wherever that is.
Behind(l, k) ==
  {SubSeq(l, j + 1, Len(l)) : j \in {j \in 2 .. Len(l) : l[j - 1] = k /\ l[j] = "="}}

(***************************************************************************)
(* One file ends all of f by an error only if it cannot be read or lacks   *)
(* the mandatory header, and by a panic only if the main group has, be it  *)
(* in a comment or behind part of a key, both "Type=Application" up to the *)
(* end of a line and a "NoDisplay=" or "Hidden=" that the line does not    *)
(* go on to make a boolean: of links, directories and other groups, and of *)
(* keys with a space before "=", no boolean is read (Visible, parseBool).  *)
(***************************************************************************)
BadFilesOnly ==
  /\ result # NotRead /\ result.read = "error" => content = Unreadable \/ Lacks(content)
  /\ result # NotRead /\ result.read = "panic" =>
       LET lines == content.lines IN
       /\ \E i \in InMain(lines) : <<"Application">> \in Behind(lines[i], "Type")
       /\ \E i \in InMain(lines) :
            \E v \in Behind(lines[i], "NoDisplay") \cup Behind(lines[i], "Hidden") :
              TrimSpace(v) \notin {<<"true">>, <<"false">>}
=============================================================================
