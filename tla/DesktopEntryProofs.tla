------------------------- MODULE DesktopEntryProofs --------------------------
(***************************************************************************)
(* Theorems about DesktopEntry: what Read() makes of files of any length,  *)
(* over any words, and in any desktops.                                    *)
(***************************************************************************)
EXTENDS DesktopEntry, FiniteSetTheorems, SequenceTheorems, WellFoundedInduction, TLAPS

-----------------------------------------------------------------------------
(* Positions *)

\* A set of positions has a first one.
LEMMA MinFacts ==
  ASSUME NEW S, S \subseteq Nat, S # {}
  PROVE  Min(S) \in S /\ \A y \in S : Min(S) <= y
<1>1. PICK x \in S : \A y \in S : ~ (<<y, x>> \in OpToRel(<, Nat))
  BY WFMin, NatLessThanWellFounded
<1>2. \A y \in S : ~ (y < x)
  BY <1>1 DEF OpToRel
<1>3. \A y \in S : x =< y
  BY <1>2
<1>4. QED
  BY <1>3 DEF Min

\* Positions in a sequence have a last one.
LEMMA MaxFacts ==
  ASSUME NEW len \in Nat, NEW S, S \subseteq 0 .. len, S # {}
  PROVE  Max(S) \in S /\ \A y \in S : y <= Max(S)
<1> DEFINE T == {len - y : y \in S}
<1>1. T \subseteq Nat /\ T # {}
  <2>1. \A y \in S : y \in 0 .. len /\ len - y \in Nat
    OBVIOUS
  <2>2. QED
    BY <2>1
<1>2. Min(T) \in T /\ \A y \in T : Min(T) <= y
  <2> HIDE DEF T
  <2>1. QED
    BY <1>1, MinFacts
<1>3. PICK x \in S : Min(T) = len - x
  BY <1>2
<1>4. ASSUME NEW y \in S
      PROVE  x >= y
  <2>1. len - y \in T
    OBVIOUS
  <2>2. len - x <= len - y
    BY <1>2, <1>3, <2>1
  <2>3. QED
    BY <2>2
<1>5. QED
  BY <1>4 DEF Max

-----------------------------------------------------------------------------
(* Lines *)

\* Lines without a header.
NoHeaders(lines) ==
  lines \in Seq(Seq(Token)) /\ \A i \in DOMAIN lines : ~ IsHeader(lines[i])

\* The group goes from the line after a header of that name up to the end,
\* or to the line before the next header.
LEMMA MainGroupFacts ==
  ASSUME NEW lines \in Seq(Seq(Token)), Matches(lines, IsMainHeader) # {}
  PROVE  \E start \in 1 .. Len(lines) : \E end \in start .. Len(lines) :
           /\ IsMainHeader(lines[start])
           /\ \A i \in Matches(lines, IsMainHeader) : start <= i
           /\ \A i \in start + 1 .. end : ~ IsHeader(lines[i])
           /\ end = Len(lines) \/ IsHeader(lines[end + 1])
           /\ MainGroup(lines) = SubSeq(lines, start + 1, end)
<1> DEFINE S == Matches(lines, IsMainHeader)
           start == Min(S)
           after == {i \in Matches(lines, IsHeader) : i > start}
           end == IF after = {} THEN Len(lines) ELSE Min(after) - 1
<1>1. S \subseteq 1 .. Len(lines) /\ \A i \in S : IsMainHeader(lines[i])
  BY DEF Matches
<1>2. start \in S /\ \A i \in S : start <= i
  <2>1. S \subseteq Nat
    BY <1>1
  <2>2. QED
    BY <2>1, MinFacts
<1>3. start \in 1 .. Len(lines) /\ IsMainHeader(lines[start])
  BY <1>1, <1>2
<1>4. MainGroup(lines) = SubSeq(lines, start + 1, end)
  BY DEF MainGroup
<1>5. \A i \in 1 .. Len(lines) : i > start /\ IsHeader(lines[i]) => i \in after
  BY DEF Matches
<1>6. \A i \in after : i \in 1 .. Len(lines) /\ i > start /\ IsHeader(lines[i])
  BY DEF Matches
<1> HIDE DEF S, start, after
<1>7. CASE after = {}
  <2>1. end = Len(lines)
    BY <1>7
  <2>2. \A i \in start + 1 .. end : ~ IsHeader(lines[i])
    BY <1>3, <1>5, <1>7, <2>1
  <2>3. end \in start .. Len(lines)
    BY <1>3, <2>1
  <2> HIDE DEF end
  <2>4. QED
    BY <1>2, <1>3, <1>4, <2>1, <2>2, <2>3 DEF S
<1>8. CASE after # {}
  <2>1. Min(after) \in after /\ \A i \in after : Min(after) <= i
    <3>1. after \subseteq Nat
      BY <1>6
    <3>2. QED
      BY <1>8, <3>1, MinFacts
  <2>2. end = Min(after) - 1
    BY <1>8
  <2>3. end \in start .. Len(lines) /\ IsHeader(lines[end + 1])
    BY <1>3, <1>6, <2>1, <2>2
  <2>4. ASSUME NEW i \in start + 1 .. end
        PROVE  ~ IsHeader(lines[i])
    <3>1. i < Min(after) /\ i \in 1 .. Len(lines) /\ i > start
      BY <1>3, <1>6, <2>1, <2>2
    <3>2. i \notin after
      BY <1>3, <1>6, <2>1, <3>1
    <3>3. QED
      BY <1>5, <3>1, <3>2
  <2> HIDE DEF end
  <2>5. QED
    BY <1>2, <1>3, <1>4, <2>3, <2>4 DEF S
<1>9. QED
  BY <1>7, <1>8

\* A line of the text that is cut out is a line of the group.
LEMMA CutFacts ==
  ASSUME NEW lines \in Seq(Seq(Token)), NEW start \in 1 .. Len(lines),
         NEW end \in start .. Len(lines),
         IsMainHeader(lines[start]),
         \A i \in start + 1 .. end : ~ IsHeader(lines[i])
  PROVE  LET cut == SubSeq(lines, start + 1, end) IN
         /\ NoHeaders(cut)
         /\ DOMAIN cut = 1 .. end - start
         /\ \A i \in DOMAIN cut : cut[i] = lines[start + i] /\ start + i \in InMain(lines)
<1> DEFINE cut == SubSeq(lines, start + 1, end)
<1>1. /\ cut \in Seq(Seq(Token)) /\ DOMAIN cut = 1 .. end - start
      /\ \A i \in 1 .. end - start : cut[i] = lines[start + i]
  OBVIOUS
<1> HIDE DEF cut
<1>2. ASSUME NEW i \in 1 .. end - start
      PROVE  start + i \in InMain(lines) /\ ~ IsHeader(lines[start + i])
  <2>1. start + i \in DOMAIN lines /\ start \in 1 .. (start + i) - 1
    OBVIOUS
  <2>2. \A j \in start + 1 .. start + i : ~ IsHeader(lines[j])
    OBVIOUS
  <2>3. QED
    BY <2>1, <2>2 DEF InMain
<1>3. QED
  BY <1>1, <1>2 DEF NoHeaders, cut

-----------------------------------------------------------------------------
(* What readKV() makes of lines without a header                           *)

\* A key and its "=", where a line has them.
LEMMA KeyFacts ==
  ASSUME NEW l \in Seq(Token), KeyStarts(l) # {}
  PROVE  \E p, e \in DOMAIN l :
           /\ p < e /\ l[e] = "=" /\ p \in KeyStarts(l) /\ e = Separator(l)
           /\ \A q \in KeyStarts(l) : p <= q
           /\ \A j \in DOMAIN l : j > p /\ l[j] = "=" => e <= j
           /\ KeyOf(l) = SubSeq(l, p, e - 1)
           /\ Rest(l) = SubSeq(l, e + 1, Len(l))
<1> DEFINE S == KeyStarts(l)
           p == Min(S)
           E == {j \in DOMAIN l : j > p /\ l[j] = "="}
           e == Min(E)
<1>1. S \subseteq Nat /\ \A q \in S : q \in DOMAIN l /\ \E j \in DOMAIN l : j > q /\ l[j] = "="
  BY DEF KeyStarts
<1>2. Separator(l) = e
  BY DEF Separator
<1>3. KeyOf(l) = SubSeq(l, p, e - 1) /\ Rest(l) = SubSeq(l, e + 1, Len(l))
  BY <1>2 DEF KeyOf, Rest
<1> HIDE DEF S
<1>4. p \in S /\ \A q \in S : p <= q
  BY <1>1, MinFacts DEF S
<1> HIDE DEF p
<1>5. E \subseteq Nat /\ E # {}
  BY <1>1, <1>4
<1> HIDE DEF E
<1>6. e \in E /\ \A j \in E : e <= j
  BY <1>5, MinFacts
<1> HIDE DEF e
<1>7. QED
  BY <1>1, <1>2, <1>3, <1>4, <1>6 DEF E, S

\* What follows a key of one word is what is behind that word.
LEMMA RestIsBehind ==
  ASSUME NEW l \in Seq(Token), KeyStarts(l) # {}, NEW w, KeyOf(l) = <<w>>
  PROVE  Rest(l) \in Behind(l, w)
<1>1. PICK p, e \in DOMAIN l :
        /\ p < e /\ l[e] = "=" /\ KeyOf(l) = SubSeq(l, p, e - 1)
        /\ Rest(l) = SubSeq(l, e + 1, Len(l))
  BY KeyFacts
<1>2. SubSeq(l, p, e - 1) = <<w>>
  BY <1>1
<1>3. p \in 1 .. Len(l) /\ e \in 1 .. Len(l) /\ Len(l) \in Nat
  OBVIOUS
<1>4. Len(SubSeq(l, p, e - 1)) = e - p /\ SubSeq(l, p, e - 1)[1] = l[p]
  BY <1>1, <1>3
<1>5. e - 1 = p /\ l[p] = w
  <2>1. Len(<<w>>) = 1 /\ <<w>>[1] = w
    OBVIOUS
  <2>2. Len(SubSeq(l, p, e - 1)) = 1 /\ SubSeq(l, p, e - 1)[1] = w
    BY <1>2, <2>1, Zenon
  <2>3. e - p = 1 /\ l[p] = w
    BY <1>4, <2>2, Zenon
  <2>4. QED
    BY <1>3, <2>3
<1>6. e \in 2 .. Len(l) /\ l[e - 1] = w
  BY <1>3, <1>5
<1>7. QED
  BY <1>1, <1>6 DEF Behind

LEMMA KVUnfolded ==
  ASSUME NEW lines
  PROVE  KV(lines) = [k \in {KeyOf(lines[i]) : i \in Found(lines)} |->
                        ValueAt(lines, Max({i \in Found(lines) : KeyOf(lines[i]) = k}))]
BY DEF KV

LEMMA KVFacts ==
  ASSUME NEW lines, NoHeaders(lines), NEW k \in DOMAIN KV(lines)
  PROVE  \E i \in Found(lines) :
           KeyOf(lines[i]) = k /\ KV(lines)[k] = ValueAt(lines, i)
<1> DEFINE S == {i \in Found(lines) : KeyOf(lines[i]) = k}
           last == Max(S)
<1>1. k \in {KeyOf(lines[i]) : i \in Found(lines)} /\ KV(lines)[k] = ValueAt(lines, last)
  BY KVUnfolded
<1>2. Found(lines) \subseteq DOMAIN lines /\ DOMAIN lines = 1 .. Len(lines) /\ Len(lines) \in Nat
  BY DEF Found, NoHeaders
<1>3. last \in S
  <2>1. S # {} /\ S \subseteq 0 .. Len(lines)
    BY <1>1, <1>2
  <2> HIDE DEF S
  <2>2. QED
    BY <1>2, <2>1, MaxFacts
<1> HIDE DEF last
<1>4. QED
  BY <1>1, <1>3

\* A value is the rest of its line, or goes on after a rest that is blank.
LEMMA ValueFacts ==
  ASSUME NEW lines, NoHeaders(lines), NEW i \in Found(lines)
  PROVE  \/ ValueAt(lines, i) = Rest(lines[i])
         \/ /\ Blank(Rest(lines[i]))
            /\ \E n : n \in Nat \ {0} /\ ValueAt(lines, i)[n] = "\n"
                   /\ n \in DOMAIN ValueAt(lines, i)
<1> DEFINE rest == Rest(lines[i])
           next == lines[NextText(lines, i)]
<1>1. SUFFICES ASSUME ValueAt(lines, i) # rest
      PROVE  /\ Blank(rest)
             /\ \E n : n \in Nat \ {0} /\ ValueAt(lines, i)[n] = "\n"
                    /\ n \in DOMAIN ValueAt(lines, i)
  OBVIOUS
<1>2. Blank(rest) /\ NextText(lines, i) # 0 /\ ValueAt(lines, i) = rest \o <<"\n">> \o next
  BY <1>1 DEF ValueAt
<1>3. next \in Seq(Token)
  <2> DEFINE S == {j \in DOMAIN lines : j > i /\ lines[j] # << >>}
  <2>1. S \subseteq Nat
    BY DEF NoHeaders
  <2>2. S # {} /\ NextText(lines, i) = Min(S)
    BY <1>2 DEF NextText
  <2>3. Min(S) \in S
    <3> HIDE DEF S
    <3>1. QED
      BY <2>1, <2>2, MinFacts
  <2>4. QED
    BY <2>2, <2>3 DEF NoHeaders
<1>4. rest \in Seq(Token)
  <2>1. lines[i] \in Seq(Token) /\ KeyStarts(lines[i]) # {}
    BY DEF Found, NoHeaders
  <2>2. PICK e \in DOMAIN lines[i] : rest = SubSeq(lines[i], e + 1, Len(lines[i]))
    BY <2>1, KeyFacts
  <2> HIDE DEF rest
  <2>3. QED
    BY <2>1, <2>2
<1> HIDE DEF rest, next
<1>5. /\ Len(rest) + 1 \in DOMAIN (rest \o <<"\n">> \o next) /\ Len(rest) + 1 \in Nat \ {0}
      /\ (rest \o <<"\n">> \o next)[Len(rest) + 1] = "\n"
  <2> DEFINE T == Token \cup {"\n"}
             begin == rest \o <<"\n">>
  <2>1. rest \in Seq(T) /\ next \in Seq(T) /\ <<"\n">> \in Seq(T)
    BY <1>3, <1>4
  <2> HIDE DEF T
  <2>2. /\ begin \in Seq(T) /\ Len(begin) = Len(rest) + 1
        /\ begin[Len(rest) + 1] = "\n" /\ Len(rest) \in Nat
    BY <2>1
  <2> HIDE DEF begin
  <2>3. /\ Len(rest) + 1 \in DOMAIN (begin \o next)
        /\ (begin \o next)[Len(rest) + 1] = "\n"
    BY <2>1, <2>2
  <2>4. QED
    BY <2>2, <2>3 DEF begin
<1>6. QED
  BY <1>2, <1>5

-----------------------------------------------------------------------------
(* Files that end all of f                                                 *)

\* The result is that of Read(), of the file and the desktops of this call.
ReadOnce ==
  /\ content \in Inputs \cup {Unreadable} /\ desktops \in Desktops
  /\ result # NotRead => result = ReadFile(content, desktops)

LEMMA ReadInvariance == Spec => []ReadOnce
<1>1. Init => ReadOnce
  BY DEF Init, ReadOnce
<1>2. ReadOnce /\ [Next]_vars => ReadOnce'
  BY DEF ReadOnce, Next, Read, vars
<1>3. QED
  BY <1>1, <1>2, PTL DEF Spec

LEMMA OfFacts ==
  ASSUME NEW read, NEW name
  PROVE  Of(read, name).read = read /\ Of(read, name).name = name
BY DEF Of

LEMMA ReadFacts ==
  ASSUME NEW c, NEW ds, c # Unreadable, ~ Lacks(c)
  PROVE  LET d == KV(MainGroup(c.lines)) IN
         /\ ReadFile(c, ds).read = Visible(d, ds)
         /\ Visible(d, ds) \in {"hidden", "panic", "shown"}
         /\ Visible(d, ds) = "shown" => ReadFile(c, ds).name = MustGet(d, <<"Name">>)
         /\ Visible(d, ds) = "panic" =>
              IsApplication(d) /\ (NoBool(d, <<"NoDisplay">>) \/ NoBool(d, <<"Hidden">>))
<1> DEFINE d == KV(MainGroup(c.lines))
<1>1. /\ Visible(d, ds) \in {"hidden", "panic", "shown"}
      /\ Visible(d, ds) = "panic" =>
           IsApplication(d) /\ (NoBool(d, <<"NoDisplay">>) \/ NoBool(d, <<"Hidden">>))
  <2> HIDE DEF d
  <2>1. NoBool(d, <<"NoDisplay">>) <=> GetBool(d, <<"NoDisplay">>) \notin {<<"true">>, <<"false">>}
    BY DEF NoBool
  <2>2. QED
    BY <2>1, Zenon DEF Visible
<1>2. ReadFile(c, ds) = IF Visible(d, ds) = "shown" THEN Of("shown", MustGet(d, <<"Name">>))
                        ELSE Of(Visible(d, ds), << >>)
  BY DEF ReadFile
<1> HIDE DEF d
<1>3. /\ ReadFile(c, ds).read = Visible(d, ds)
      /\ Visible(d, ds) = "shown" => ReadFile(c, ds).name = MustGet(d, <<"Name">>)
  <2>1. CASE Visible(d, ds) = "shown"
    <3>1. ReadFile(c, ds) = Of("shown", MustGet(d, <<"Name">>))
      BY <1>2, <2>1, Zenon
    <3>2. QED
      BY <2>1, <3>1, OfFacts, Zenon
  <2>2. CASE Visible(d, ds) # "shown"
    <3>1. ReadFile(c, ds) = Of(Visible(d, ds), << >>)
      BY <1>2, <2>2, Zenon
    <3>2. QED
      BY <2>2, <3>1, OfFacts, Zenon
  <2>3. QED
    BY <2>1, <2>2, Zenon
<1>4. QED
  BY <1>1, <1>3 DEF d

\* Errors come before any entry is read.
LEMMA ErrorFacts ==
  ASSUME NEW c, NEW ds, c = Unreadable \/ Lacks(c)
  PROVE  ReadFile(c, ds).read = "error"
<1>1. ReadFile(c, ds) = Of("error", << >>)
  BY Zenon DEF ReadFile
<1>2. QED
  BY <1>1, OfFacts, Zenon

LEMMA TrimBlank ==
  ASSUME NEW s, Blank(s)
  PROVE  TrimSpace(s) = << >>
BY DEF TrimSpace, Blank

\* The lines that are cut out have no header, and are lines of the group.
LEMMA CutOfGroup ==
  ASSUME NEW lines \in Seq(Seq(Token)), Matches(lines, IsMainHeader) # {}
  PROVE  LET cut == MainGroup(lines) IN
         /\ NoHeaders(cut)
         /\ \A i \in DOMAIN cut : \E j \in InMain(lines) : lines[j] = cut[i]
<1> DEFINE cut == MainGroup(lines)
<1>1. PICK start \in 1 .. Len(lines) : \E end \in start .. Len(lines) :
        /\ IsMainHeader(lines[start])
        /\ \A i \in start + 1 .. end : ~ IsHeader(lines[i])
        /\ cut = SubSeq(lines, start + 1, end)
  BY MainGroupFacts
<1>2. PICK end \in start .. Len(lines) :
        /\ IsMainHeader(lines[start])
        /\ \A i \in start + 1 .. end : ~ IsHeader(lines[i])
        /\ cut = SubSeq(lines, start + 1, end)
  BY <1>1
<1> HIDE DEF cut
<1>3. /\ NoHeaders(cut)
      /\ \A i \in DOMAIN cut : cut[i] = lines[start + i] /\ start + i \in InMain(lines)
  BY <1>2, CutFacts
<1>4. QED
  BY <1>3 DEF cut

(***************************************************************************)
(* Whatever the lines, Read() returns an error only of a file that cannot  *)
(* be read or lacks the header, and panics only over a group that has both *)
(* "Type=Application" and what passes for a boolean entry without being    *)
(* one (Visible, parseBool).                                               *)
(***************************************************************************)
THEOREM OnlyBadFilesEndF == Spec => []BadFilesOnly
<1>1. ReadOnce => BadFilesOnly
  <2> SUFFICES ASSUME ReadOnce, result # NotRead
               PROVE  BadFilesOnly
    BY DEF BadFilesOnly
  <2>1. result = ReadFile(content, desktops)
    BY DEF ReadOnce
  <2>2. CASE content = Unreadable \/ Lacks(content)
    <3>1. result.read = "error"
      BY <2>1, <2>2, ErrorFacts
    <3>2. QED
      BY <2>2, <3>1 DEF BadFilesOnly
  <2>3. CASE content # Unreadable /\ ~ Lacks(content)
    <3> DEFINE lines == content.lines
               cut == MainGroup(lines)
               d == KV(cut)
    <3>1. lines \in Seq(Seq(Token)) /\ Matches(lines, IsMainHeader) # {}
      BY <2>3, InputsAssumption DEF ReadOnce, Lacks
    <3>2. /\ result.read \in {"hidden", "panic", "shown"}
          /\ result.read = "panic" =>
               IsApplication(d) /\ (NoBool(d, <<"NoDisplay">>) \/ NoBool(d, <<"Hidden">>))
      BY <2>1, <2>3, ReadFacts
    <3>3. /\ NoHeaders(cut)
          /\ \A i \in DOMAIN cut : \E j \in InMain(lines) : lines[j] = cut[i]
      BY <3>1, CutOfGroup
    <3> SUFFICES ASSUME IsApplication(d), NoBool(d, <<"NoDisplay">>) \/ NoBool(d, <<"Hidden">>)
                 PROVE  /\ \E i \in InMain(lines) : <<"Application">> \in Behind(lines[i], "Type")
                        /\ \E i \in InMain(lines) :
                             \E v \in Behind(lines[i], "NoDisplay") \cup Behind(lines[i], "Hidden") :
                               TrimSpace(v) \notin {<<"true">>, <<"false">>}
      BY <3>2 DEF BadFilesOnly
    <3> HIDE DEF cut, lines
    <3>4. ASSUME NEW w, <<w>> \in DOMAIN d
          PROVE  \E j \in InMain(lines) : \E v \in Behind(lines[j], w) :
                   \/ d[<<w>>] = v
                   \/ Blank(v) /\ \E n : n \in Nat \ {0} /\ d[<<w>>][n] = "\n"
                                     /\ n \in DOMAIN d[<<w>>]
      <4>1. PICK i \in Found(cut) : KeyOf(cut[i]) = <<w>> /\ d[<<w>>] = ValueAt(cut, i)
        BY <3>3, <3>4, KVFacts
      <4>2. i \in DOMAIN cut /\ cut[i] \in Seq(Token) /\ KeyStarts(cut[i]) # {}
        BY <3>3 DEF Found, NoHeaders
      <4>3. Rest(cut[i]) \in Behind(cut[i], w)
        BY <4>1, <4>2, RestIsBehind
      <4>4. \/ ValueAt(cut, i) = Rest(cut[i])
            \/ Blank(Rest(cut[i])) /\ \E n : n \in Nat \ {0} /\ ValueAt(cut, i)[n] = "\n"
                                           /\ n \in DOMAIN ValueAt(cut, i)
        BY <3>3, ValueFacts
      <4> HIDE DEF d
      <4>5. QED
        BY <3>3, <4>1, <4>2, <4>3, <4>4
    <3> HIDE DEF d
    <3>5. \E i \in InMain(lines) : <<"Application">> \in Behind(lines[i], "Type")
      <4>1. <<"Type">> \in DOMAIN d /\ d[<<"Type">>] = <<"Application">>
        <5>1. << >> # <<"Application">>
          OBVIOUS
        <5>2. QED
          BY <5>1, Zenon DEF IsApplication, MustGet
      <4>2. ~ \E n : n \in Nat \ {0} /\ n \in DOMAIN <<"Application">> /\ <<"Application">>[n] = "\n"
        OBVIOUS
      <4>3. QED
        BY <3>4, <4>1, <4>2, Zenon
    <3>6. PICK w \in {"NoDisplay", "Hidden"} :
            <<w>> \in DOMAIN d /\ TrimSpace(d[<<w>>]) \notin {<<"true">>, <<"false">>}
      BY DEF NoBool, GetBool
    <3>7. PICK j \in InMain(lines) : \E v \in Behind(lines[j], w) : d[<<w>>] = v \/ Blank(v)
      BY <3>4, <3>6
    <3>8. \E v \in Behind(lines[j], w) : TrimSpace(v) \notin {<<"true">>, <<"false">>}
      <4>1. << >> \notin {<<"true">>, <<"false">>}
        OBVIOUS
      <4>2. QED
        BY <3>6, <3>7, <4>1, TrimBlank, Zenon
    <3>9. QED
      BY <3>5, <3>6, <3>8 DEF lines
  <2>4. QED
    BY <2>2, <2>3
<1>2. QED
  BY <1>1, ReadInvariance, PTL

-----------------------------------------------------------------------------
(* The loop over the desktops                                              *)

\* The first of the desktops from the i-th on that a list names decides.
Decided(only, not, ds, i) ==
  \/ \E j \in i .. Len(ds) :
       ds[j] \in only /\ \A k \in i .. j - 1 : ds[k] \notin only /\ ds[k] \notin not
  \/ only = {} /\ \A j \in i .. Len(ds) : ds[j] \notin not

LEMMA DecidedStep ==
  ASSUME NEW only, NEW not, NEW ds \in Seq(Seq(Token)), NEW i \in 1 .. Len(ds) + 1
  PROVE  /\ Decided(only, not, ds, i) \in BOOLEAN
         /\ i > Len(ds) => (Decided(only, not, ds, i) <=> only = {})
         /\ i <= Len(ds) =>
              /\ ds[i] \in only => Decided(only, not, ds, i)
              /\ ds[i] \in not \ only => ~ Decided(only, not, ds, i)
              /\ ds[i] \notin only /\ ds[i] \notin not =>
                   (Decided(only, not, ds, i) <=> Decided(only, not, ds, i + 1))
<1>1. Len(ds) \in Nat
  OBVIOUS
<1>2. ASSUME i > Len(ds)
      PROVE  Decided(only, not, ds, i) <=> only = {}
  <2>1. i .. Len(ds) = {}
    BY <1>1, <1>2
  <2>2. QED
    BY <2>1 DEF Decided
<1>3. ASSUME i <= Len(ds), ds[i] \in only
      PROVE  Decided(only, not, ds, i)
  <2>1. i \in i .. Len(ds) /\ i .. i - 1 = {}
    BY <1>1, <1>3
  <2>2. QED
    BY <1>3, <2>1 DEF Decided
<1>4. ASSUME i <= Len(ds), ds[i] \in not \ only
      PROVE  ~ Decided(only, not, ds, i)
  <2>1. i \in i .. Len(ds) /\ \A j \in i .. Len(ds) : j # i => i \in i .. j - 1
    BY <1>1, <1>4
  <2>2. QED
    BY <1>4, <2>1 DEF Decided
<1>5. ASSUME i <= Len(ds), ds[i] \notin only, ds[i] \notin not
      PROVE  Decided(only, not, ds, i) <=> Decided(only, not, ds, i + 1)
  <2>1. /\ i .. Len(ds) = {i} \cup (i + 1 .. Len(ds))
        /\ \A j \in i + 1 .. Len(ds) : i .. j - 1 = {i} \cup (i + 1 .. j - 1)
    BY <1>1, <1>5
  <2>2. QED
    BY <1>5, <2>1 DEF Decided
<1>6. Decided(only, not, ds, i) \in BOOLEAN
  BY DEF Decided
<1>7. QED
  BY <1>2, <1>3, <1>4, <1>5, <1>6

\* One turn of the loop, over what the next one yields.
Turn(only, not, ds, i, next) ==
  CASE i > Len(ds) -> only = {}
    [] i <= Len(ds) /\ ds[i] \in only -> TRUE
    [] i <= Len(ds) /\ ds[i] \in not \ only -> FALSE
    [] OTHER -> next

LEMMA DecidedTurn ==
  ASSUME NEW only, NEW not, NEW ds \in Seq(Seq(Token)), NEW i \in 1 .. Len(ds) + 1,
         NEW next, i <= Len(ds) => next = Decided(only, not, ds, i + 1)
  PROVE  Decided(only, not, ds, i) = Turn(only, not, ds, i, next)
<1>1. i > Len(ds) \/ i <= Len(ds)
  OBVIOUS
<1>2. ~ (i > Len(ds) /\ i <= Len(ds))
  OBVIOUS
<1>3. CASE i > Len(ds)
  <2>1. Decided(only, not, ds, i) = (only = {})
    <3>1. Decided(only, not, ds, i) <=> only = {}
      BY <1>3, DecidedStep
    <3>2. QED
      BY <3>1, Zenon DEF Decided
  <2>2. QED
    BY <1>2, <1>3, <2>1, Zenon DEF Turn
<1>4. CASE i <= Len(ds) /\ ds[i] \in only
  <2>1. Decided(only, not, ds, i) = TRUE
    BY <1>4, DecidedStep
  <2>2. QED
    BY <1>2, <1>4, <2>1, Zenon DEF Turn
<1>5. CASE i <= Len(ds) /\ ds[i] \in not \ only
  <2>1. Decided(only, not, ds, i) = FALSE
    BY <1>5, DecidedStep
  <2>2. QED
    BY <1>2, <1>5, <2>1, Zenon DEF Turn
<1>6. CASE i <= Len(ds) /\ ds[i] \notin only /\ ds[i] \notin not
  <2>1. i + 1 \in 1 .. Len(ds) + 1
    BY <1>6
  <2>2. Decided(only, not, ds, i) = Decided(only, not, ds, i + 1)
    <3>1. Decided(only, not, ds, i) <=> Decided(only, not, ds, i + 1)
      BY <1>6, DecidedStep
    <3>2. QED
      BY <3>1, Zenon DEF Decided
  <2>3. QED
    BY <1>2, <1>6, <2>2, Zenon DEF Turn
<1>7. QED
  BY <1>1, <1>3, <1>4, <1>5, <1>6, Zenon

ShowFrom(only, not, ds, from) ==
  from = [i \in 1 .. Len(ds) + 1 |-> Turn(only, not, ds, i, from[i + 1])]

LEMMA ShowOnValue ==
  ASSUME NEW d, NEW ds \in Seq(Seq(Token))
  PROVE  ShowOn(d, ds) = Decided(GetSet(d, <<"OnlyShowIn">>), GetSet(d, <<"NotShowIn">>), ds, 1)
<1> DEFINE only == GetSet(d, <<"OnlyShowIn">>)
           not == GetSet(d, <<"NotShowIn">>)
           w == [i \in 1 .. Len(ds) + 1 |-> Decided(only, not, ds, i)]
<1>1. Len(ds) \in Nat
  OBVIOUS
<1>2. ShowOn(d, ds) = (CHOOSE from : ShowFrom(only, not, ds, from))[1]
  BY DEF ShowOn, ShowFrom, Turn
<1> HIDE DEF only, not
<1>3. ShowFrom(only, not, ds, w)
  <2>1. ASSUME NEW i \in 1 .. Len(ds) + 1
        PROVE  Decided(only, not, ds, i) = Turn(only, not, ds, i, w[i + 1])
    <3>1. i <= Len(ds) => w[i + 1] = Decided(only, not, ds, i + 1)
      BY <1>1
    <3> HIDE DEF w
    <3>2. QED
      BY <3>1, DecidedTurn
  <2>2. w = [i \in 1 .. Len(ds) + 1 |-> Turn(only, not, ds, i, w[i + 1])]
    BY <2>1, Zenon
  <2> HIDE DEF w
  <2>3. QED
    BY <2>2, Zenon DEF ShowFrom
<1>4. PICK from : ShowFrom(only, not, ds, from) /\ ShowOn(d, ds) = from[1]
  <2> HIDE DEF w
  <2>1. QED
    BY <1>2, <1>3
<1>5. ASSUME NEW D, D = {i \in 1 .. Len(ds) + 1 : from[i] # Decided(only, not, ds, i)}, D # {}
      PROVE  FALSE
  <2>1. D \subseteq 0 .. Len(ds) + 1 /\ Len(ds) + 1 \in Nat
    BY <1>1, <1>5
  <2>2. PICK m \in D : \A i \in D : i <= m
    BY <1>5, <2>1, MaxFacts
  <2>3. m \in 1 .. Len(ds) + 1 /\ from[m] # Decided(only, not, ds, m)
    BY <1>5, <2>2
  <2>4. from[m] = Turn(only, not, ds, m, from[m + 1])
    BY <1>4, <2>3, Zenon DEF ShowFrom
  <2>5. m <= Len(ds) => from[m + 1] = Decided(only, not, ds, m + 1)
    <3>1. m <= Len(ds) => m + 1 \in 1 .. Len(ds) + 1 /\ ~ (m + 1 <= m)
      BY <1>1, <2>3
    <3>2. m <= Len(ds) => m + 1 \notin D
      BY <2>2, <3>1
    <3>3. QED
      BY <1>5, <3>1, <3>2
  <2>6. QED
    BY <2>3, <2>4, <2>5, DecidedTurn
<1>6. 1 \in 1 .. Len(ds) + 1
  BY <1>1
<1>7. from[1] = Decided(only, not, ds, 1)
  BY <1>5, <1>6
<1>8. QED
  BY <1>4, <1>7 DEF only, not

-----------------------------------------------------------------------------
(* The entries of a plain file                                             *)

LEMMA TrimWord ==
  ASSUME NEW w, w # "\t", w # "\n"
  PROVE  TrimSpace(<<w>>) = <<w>>
<1> DEFINE s == <<w>>
           text == {i \in DOMAIN s : s[i] \notin {"\t", "\n"}}
<1>1. DOMAIN s = {1} /\ s[1] = w /\ SubSeq(s, 1, 1) = s
  <2>1. s \in Seq({w}) /\ Len(s) = 1 /\ s[1] = w
    OBVIOUS
  <2> HIDE DEF s
  <2>2. SubSeq(s, 1, Len(s)) = s
    BY <2>1, SubSeqFull
  <2>3. QED
    BY <2>1, <2>2
<1>2. TrimSpace(s) = IF text = {} THEN << >> ELSE SubSeq(s, Min(text), Max(text))
  BY DEF TrimSpace
<1> HIDE DEF s
<1>3. text = {1}
  BY <1>1, Zenon
<1>4. Min({1}) = 1 /\ Max({1}) = 1
  <2>1. (CHOOSE x \in {1} : \A y \in {1} : x =< y) = 1 /\ (CHOOSE x \in {1} : \A y \in {1} : x >= y) = 1
    <3>1. \E x \in {1} : \A y \in {1} : x =< y
      OBVIOUS
    <3>2. \E x \in {1} : \A y \in {1} : x >= y
      OBVIOUS
    <3>3. QED
      BY <3>1, <3>2, Zenon
  <2>2. QED
    BY <2>1, Zenon DEF Min, Max
<1> HIDE DEF text
<1>5. QED
  BY <1>1, <1>2, <1>3, <1>4 DEF s

\* What the expression finds in the lines of a plain file.
LEMMA EntryFound ==
  ASSUME NEW l \in Seq(Token), IsEntry(l)
  PROVE  /\ KeyStarts(l) # {} /\ KeyOf(l) = <<l[1]>> /\ Rest(l) = EntryValue(l)
         /\ ~ Blank(Rest(l)) /\ Rest(l) # << >>
<1> DEFINE n == Len(l)
<1>1. /\ n \in Nat /\ n > 2 /\ DOMAIN l = 1 .. n
      /\ l[1] \in Words /\ l[2] = "=" /\ l[3] # "\t" /\ l[1] # "=" /\ l[1] # "\t" /\ l[1] # "\n"
  <2>1. \A w \in Words : w # "=" /\ w # "\t" /\ w # "\n"
    BY InputsAssumption DEF Other
  <2>2. l[1] \in Words /\ l[2] = "=" /\ l[3] # "\t" /\ n > 2
    BY DEF IsEntry
  <2>3. QED
    BY <2>1, <2>2
<1>2. SubSeq(l, 1, 1) = <<l[1]>>
  <2>1. 1 \in 1 .. Len(l)
    BY <1>1
  <2> DEFINE s == SubSeq(l, 1, 1)
             t == <<l[1]>>
  <2>2. s \in Seq(Token) /\ Len(s) = 1 /\ s[1] = l[1]
    BY <2>1
  <2>3. t \in Seq(Token) /\ Len(t) = 1 /\ t[1] = l[1]
    BY <2>1
  <2> HIDE DEF s, t
  <2>4. s = t
    BY <2>2, <2>3, SeqEqual
  <2>5. QED
    BY <2>4 DEF s, t
<1>3. IsKey(<<l[1]>>)
  <2>1. TrimSpace(<<l[1]>>) = <<l[1]>>
    BY <1>1, TrimWord
  <2>2. Len(TrimSpace(<<l[1]>>)) = 1
    BY <2>1
  <2>3. <<l[1]>> # << >> /\ <<l[1]>>[1] \in Words
    BY <1>1
  <2>4. QED
    BY <2>2, <2>3, Zenon DEF IsKey
<1> HIDE DEF n
<1>4. 1 \in KeyStarts(l)
  <2>1. IsKey(SubSeq(l, 1, 2 - 1))
    <3>1. 2 - 1 = 1
      OBVIOUS
    <3>2. QED
      BY <1>2, <1>3, <3>1, Zenon
  <2>2. QED
    BY <1>1, <2>1 DEF KeyStarts
<1>5. PICK p, e \in DOMAIN l :
        /\ p < e /\ l[e] = "="
        /\ \A q \in KeyStarts(l) : p <= q
        /\ \A j \in DOMAIN l : j > p /\ l[j] = "=" => e <= j
        /\ KeyOf(l) = SubSeq(l, p, e - 1) /\ Rest(l) = SubSeq(l, e + 1, Len(l))
  BY <1>4, KeyFacts
<1>6. p = 1 /\ e = 2
  <2>1. p \in 1 .. n /\ e \in 1 .. n /\ 2 \in DOMAIN l
    BY <1>1
  <2>2. p = 1
    BY <1>4, <1>5, <2>1
  <2>3. e <= 2
    <3>1. 2 > p /\ l[2] = "="
      BY <1>1, <2>2
    <3>2. QED
      BY <1>5, <2>1, <3>1, Zenon
  <2>4. QED
    BY <1>5, <2>1, <2>2, <2>3
<1>7. KeyOf(l) = <<l[1]>> /\ Rest(l) = EntryValue(l)
  <2>1. e - 1 = 1 /\ e + 1 = 3
    BY <1>6
  <2>2. QED
    BY <1>2, <1>5, <1>6, <2>1, Zenon DEF EntryValue
<1>8. ~ Blank(EntryValue(l)) /\ EntryValue(l) # << >>
  <2>1. Len(EntryValue(l)) = n - 2 /\ EntryValue(l)[1] = l[3] /\ 1 \in DOMAIN EntryValue(l)
    BY <1>1 DEF EntryValue, n
  <2>2. EntryValue(l) # << >>
    BY <1>1, <2>1
  <2>3. QED
    BY <1>1, <2>1, <2>2 DEF Blank
<1>9. QED
  BY <1>4, <1>7, <1>8

\* What is at a position of a part of a line.
LEMMA PartAt ==
  ASSUME NEW l \in Seq(Token), NEW m \in 1 .. Len(l), NEW n \in m .. Len(l),
         NEW i \in 1 .. n - m + 1
  PROVE  Len(SubSeq(l, m, n)) = n - m + 1 /\ SubSeq(l, m, n)[i] = l[m + i - 1]
OBVIOUS

LEMMA TranslationFound ==
  ASSUME NEW l \in Seq(Token), IsTranslation(l), KeyStarts(l) # {}
  PROVE  ~ Blank(Rest(l)) /\ \A w : w # "]" => KeyOf(l) # <<w>>
<1>1. PICK f \in 2 .. Len(l) - 1 :
        l[f - 1] = "]" /\ l[f] = "=" /\ l[f + 1] # "\t" /\ \A j \in DOMAIN l : l[j] = "=" => j = f
  BY DEF IsTranslation
<1>2. PICK p, e \in DOMAIN l :
        /\ p < e /\ l[e] = "="
        /\ KeyOf(l) = SubSeq(l, p, e - 1) /\ Rest(l) = SubSeq(l, e + 1, Len(l))
  BY KeyFacts
<1> DEFINE n == Len(l)
<1>3. e = f /\ n \in Nat /\ p \in 1 .. n /\ e \in 2 .. n - 1
  <2>1. n \in Nat /\ p \in 1 .. n
    OBVIOUS
  <2>2. e = f
    BY <1>1, <1>2
  <2>3. QED
    BY <2>1, <2>2
<1>4. ~ Blank(Rest(l))
  <2>1. 1 \in DOMAIN Rest(l) /\ Rest(l)[1] = l[f + 1]
    BY <1>2, <1>3
  <2>2. QED
    BY <1>1, <2>1 DEF Blank
<1>5. Len(KeyOf(l)) = e - p /\ KeyOf(l)[e - p] = "]"
  <2>1. p + (e - p) - 1 = f - 1 /\ e - p \in 1 .. e - p /\ e - 1 \in 1 .. n
    BY <1>2, <1>3
  <2>2. Len(SubSeq(l, p, e - 1)) = e - p /\ SubSeq(l, p, e - 1)[e - p] = l[p + (e - p) - 1]
    <3>1. p \in 1 .. Len(l) /\ e - 1 \in p .. Len(l) /\ (e - 1) - p + 1 = e - p
      BY <1>2, <1>3
    <3>2. e - p \in 1 .. (e - 1) - p + 1
      BY <2>1, <3>1
    <3>3. QED
      BY <3>1, <3>2, PartAt
  <2>3. QED
    BY <1>1, <1>2, <2>1, <2>2
<1>6. ASSUME NEW w, KeyOf(l) = <<w>>
      PROVE  w = "]"
  <2>1. Len(<<w>>) = 1 /\ <<w>>[1] = w
    OBVIOUS
  <2>2. Len(KeyOf(l)) = 1 /\ KeyOf(l)[1] = w
    BY <1>6, <2>1, Zenon
  <2>3. QED
    BY <1>5, <2>2
<1>7. QED
  BY <1>4, <1>6

\* Lines of which each entry has a key of its own.
GoodLines(lines) ==
  /\ NoHeaders(lines)
  /\ \A i \in DOMAIN lines : \/ IsEntry(lines[i]) \/ IsTranslation(lines[i])
                             \/ \A j \in DOMAIN lines[i] : lines[i][j] # "="
  /\ \A i, j \in DOMAIN lines :
       IsEntry(lines[i]) /\ IsEntry(lines[j]) /\ lines[i][1] = lines[j][1] => i = j

\* None of them goes on in the next line, and only an entry has a key that
\* may be asked for.
LEMMA GoodFound ==
  ASSUME NEW lines, GoodLines(lines), NEW i \in DOMAIN lines, KeyStarts(lines[i]) # {}
  PROVE  /\ ~ Blank(Rest(lines[i]))
         /\ ~ IsEntry(lines[i]) => \A w : w # "]" => KeyOf(lines[i]) # <<w>>
<1>1. lines[i] \in Seq(Token)
  BY DEF GoodLines, NoHeaders
<1>2. IsEntry(lines[i]) \/ IsTranslation(lines[i])
  BY DEF GoodLines, KeyStarts
<1>3. QED
  BY <1>1, <1>2, EntryFound, TranslationFound

LEMMA PrevFacts ==
  ASSUME NEW lines, NoHeaders(lines), NEW i, PrevText(lines, i) # 0
  PROVE  PrevText(lines, i) \in DOMAIN lines
<1> DEFINE S == {j \in DOMAIN lines : j < i /\ lines[j] # << >>}
<1>1. S \subseteq 0 .. Len(lines) /\ Len(lines) \in Nat
  BY DEF NoHeaders
<1>2. S # {} /\ PrevText(lines, i) = Max(S)
  BY DEF PrevText
<1>3. Max(S) \in S
  <2> HIDE DEF S
  <2>1. QED
    BY <1>1, <1>2, MaxFacts
<1>4. QED
  BY <1>2, <1>3

\* Whether line i is taken, if taken says so of the lines before.
IsTaken(lines, taken, i) ==
  LET p == IF i = 0 THEN 0 ELSE PrevText(lines, i) IN
  /\ p # 0
  /\ lines[i] # << >> /\ KeyStarts(lines[p]) # {} /\ Blank(Rest(lines[p]))
  /\ ~ taken[p]

LEMMA NoneTaken ==
  ASSUME NEW lines, GoodLines(lines), NEW i \in DOMAIN lines
  PROVE  ~ Taken(lines)[i]
<1> DEFINE Satisfies(taken) == taken = [k \in 0 .. Len(lines) |-> IsTaken(lines, taken, k)]
<1>1. Taken(lines) = CHOOSE taken : Satisfies(taken)
  BY DEF Taken, IsTaken
<1>2. ASSUME NEW taken, NEW k
      PROVE  ~ IsTaken(lines, taken, k)
  <2>1. SUFFICES ASSUME IsTaken(lines, taken, k)
                 PROVE  FALSE
    OBVIOUS
  <2> DEFINE p == PrevText(lines, k)
  <2>2. p # 0 /\ KeyStarts(lines[p]) # {} /\ Blank(Rest(lines[p]))
    BY <2>1, Zenon DEF IsTaken
  <2>3. p \in DOMAIN lines
    BY <2>2, PrevFacts DEF GoodLines
  <2> HIDE DEF p
  <2>4. QED
    BY <2>2, <2>3, GoodFound
<1>3. \E taken : Satisfies(taken)
  <2> DEFINE none == [k \in 0 .. Len(lines) |-> FALSE]
  <2>1. \A k : IsTaken(lines, none, k) = FALSE
    <3> HIDE DEF none
    <3>1. QED
      BY <1>2, Zenon DEF IsTaken
  <2>2. none = [k \in 0 .. Len(lines) |-> IsTaken(lines, none, k)]
    BY <2>1, Zenon
  <2> HIDE DEF none
  <2>3. QED
    BY <2>2
<1>4. PICK taken : Satisfies(taken) /\ Taken(lines) = taken
  BY <1>1, <1>3, Zenon
<1>5. i \in 0 .. Len(lines)
  BY DEF GoodLines, NoHeaders
<1>6. taken[i] = IsTaken(lines, taken, i)
  BY <1>4, <1>5, Zenon
<1>7. QED
  BY <1>2, <1>4, <1>6, Zenon

\* The map holds each entry, and no other key that may be asked for.
LEMMA GoodKV ==
  ASSUME NEW lines, GoodLines(lines)
  PROVE  /\ \A i \in DOMAIN lines : IsEntry(lines[i]) =>
              /\ <<lines[i][1]>> \in DOMAIN KV(lines)
              /\ KV(lines)[<<lines[i][1]>>] = EntryValue(lines[i])
         /\ \A w : w # "]" /\ <<w>> \in DOMAIN KV(lines) =>
              \E i \in DOMAIN lines : IsEntry(lines[i]) /\ lines[i][1] = w
<1>1. NoHeaders(lines) /\ \A i \in DOMAIN lines : lines[i] \in Seq(Token)
  BY DEF GoodLines, NoHeaders
<1>2. Found(lines) \subseteq DOMAIN lines /\ \A i \in Found(lines) : KeyStarts(lines[i]) # {}
  BY DEF Found
<1>3. DOMAIN KV(lines) = {KeyOf(lines[i]) : i \in Found(lines)}
  BY KVUnfolded
<1>4. ASSUME NEW i \in DOMAIN lines, IsEntry(lines[i])
      PROVE  i \in Found(lines) /\ KeyOf(lines[i]) = <<lines[i][1]>>
  BY <1>1, <1>4, NoneTaken, EntryFound DEF Found
<1>5. ASSUME NEW w, w # "]", NEW i \in Found(lines), KeyOf(lines[i]) = <<w>>
      PROVE  IsEntry(lines[i]) /\ lines[i][1] = w
  <2>1. IsEntry(lines[i])
    BY <1>2, <1>5, GoodFound
  <2>2. <<w>> = <<lines[i][1]>>
    BY <1>2, <1>4, <1>5, <2>1, Zenon
  <2>3. QED
    BY <2>1, <2>2
<1>6. ASSUME NEW w, w # "]", <<w>> \in DOMAIN KV(lines)
      PROVE  \E i \in Found(lines) : /\ IsEntry(lines[i]) /\ lines[i][1] = w
                                    /\ KV(lines)[<<w>>] = EntryValue(lines[i])
  <2>1. PICK i \in Found(lines) : KeyOf(lines[i]) = <<w>> /\ KV(lines)[<<w>>] = ValueAt(lines, i)
    BY <1>1, <1>6, KVFacts
  <2>2. IsEntry(lines[i]) /\ lines[i][1] = w
    BY <1>5, <1>6, <2>1
  <2>3. ValueAt(lines, i) = EntryValue(lines[i])
    BY <1>1, <1>2, <2>2, EntryFound DEF ValueAt
  <2>4. QED
    BY <2>1, <2>2, <2>3
<1>7. ASSUME NEW i \in DOMAIN lines, IsEntry(lines[i])
      PROVE  /\ <<lines[i][1]>> \in DOMAIN KV(lines)
             /\ KV(lines)[<<lines[i][1]>>] = EntryValue(lines[i])
  <2>1. <<lines[i][1]>> \in DOMAIN KV(lines)
    BY <1>3, <1>4, <1>7, Zenon
  <2>2. lines[i][1] # "]"
    BY <1>7, InputsAssumption DEF IsEntry, Other
  <2>3. PICK j \in Found(lines) : /\ IsEntry(lines[j]) /\ lines[j][1] = lines[i][1]
                                  /\ KV(lines)[<<lines[i][1]>>] = EntryValue(lines[j])
    BY <1>6, <2>1, <2>2
  <2>4. j = i
    BY <1>2, <1>7, <2>3 DEF GoodLines
  <2>5. QED
    BY <2>1, <2>3, <2>4
<1>8. QED
  BY <1>2, <1>6, <1>7

\* With one header of the name, the group is the text that is cut out.
LEMMA CutIsGroup ==
  ASSUME NEW lines \in Seq(Seq(Token)), NEW start \in 1 .. Len(lines),
         NEW end \in start .. Len(lines),
         Matches(lines, IsMainHeader) = {start},
         \A i \in start + 1 .. end : ~ IsHeader(lines[i]),
         end = Len(lines) \/ IsHeader(lines[end + 1])
  PROVE  InMain(lines) = start + 1 .. end
<1> DEFINE n == Len(lines)
<1>1. \A h \in DOMAIN lines : IsMainHeader(lines[h]) <=> h = start
  BY DEF Matches
<1>2. /\ DOMAIN lines = 1 .. n /\ n \in Nat /\ start \in 1 .. n /\ end \in start .. n
      /\ end = n \/ IsHeader(lines[end + 1])
  OBVIOUS
<1> HIDE DEF n
<1>3. ASSUME NEW i \in InMain(lines)
      PROVE  i \in start + 1 .. end
  <2>1. i \in 1 .. n
    <3>1. i \in DOMAIN lines
      BY DEF InMain
    <3>2. QED
      BY <1>2, <3>1
  <2>2. PICK h \in 1 .. i - 1 : IsMainHeader(lines[h]) /\ \A j \in h + 1 .. i : ~ IsHeader(lines[j])
    BY DEF InMain
  <2>3. h = start
    <3>1. h \in 1 .. n
      BY <1>2, <2>1
    <3>2. QED
      BY <1>1, <1>2, <2>2, <3>1
  <2>4. ~ (i > end)
    <3>1. SUFFICES ASSUME i > end
                   PROVE  FALSE
      OBVIOUS
    <3>2. end # n /\ end + 1 \in h + 1 .. i
      BY <1>2, <2>1, <2>3, <3>1
    <3>3. QED
      BY <1>2, <2>2, <3>2
  <2>5. QED
    BY <1>2, <2>1, <2>3, <2>4
<1>4. ASSUME NEW i \in start + 1 .. end
      PROVE  i \in InMain(lines)
  <2>1. i \in 1 .. n /\ start \in 1 .. i - 1
    BY <1>2
  <2>2. \A j \in start + 1 .. i : ~ IsHeader(lines[j])
    OBVIOUS
  <2>3. IsMainHeader(lines[start])
    BY <1>1, <1>2
  <2>4. i \in DOMAIN lines
    BY <1>2, <2>1
  <2>5. QED
    BY <2>1, <2>2, <2>3, <2>4 DEF InMain
<1>5. QED
  BY <1>3, <1>4

LEMMA PlainKV ==
  ASSUME NEW c \in Inputs, Plain(c)
  PROVE  LET d == KV(MainGroup(c.lines)) IN
         /\ \A i \in Entries(c.lines) :
              /\ <<c.lines[i][1]>> \in DOMAIN d
              /\ d[<<c.lines[i][1]>>] = EntryValue(c.lines[i])
         /\ \A w : w # "]" /\ <<w>> \in DOMAIN d => Has(c.lines, w)
<1> DEFINE lines == c.lines
           cut == MainGroup(lines)
           M == Matches(lines, IsMainHeader)
<1>1. lines \in Seq(Seq(Token)) /\ Len(lines) \in Nat
  BY InputsAssumption
<1>2. \E x : M = {x}
  <2>1. IsFiniteSet(M)
    <3>1. 1 \in Int /\ Len(lines) \in Int
      BY <1>1
    <3>2. IsFiniteSet(1 .. Len(lines))
      BY <3>1, FS_Interval
    <3>3. M \subseteq 1 .. Len(lines)
      BY <1>1 DEF Matches
    <3>4. QED
      BY <3>2, <3>3, FS_Subset
  <2>2. Cardinality(M) = 1
    BY DEF Plain
  <2>3. QED
    BY <2>1, <2>2, FS_Singleton
<1>3. /\ \A i \in InMain(lines) :
           \/ IsEntry(lines[i]) \/ IsTranslation(lines[i])
           \/ \A j \in DOMAIN lines[i] : lines[i][j] # "="
      /\ \A i, j \in Entries(lines) : lines[i][1] = lines[j][1] => i = j
  BY DEF Plain
<1> HIDE DEF lines
<1>4. PICK start \in 1 .. Len(lines) : \E end \in start .. Len(lines) :
        /\ IsMainHeader(lines[start])
        /\ \A i \in start + 1 .. end : ~ IsHeader(lines[i])
        /\ end = Len(lines) \/ IsHeader(lines[end + 1])
        /\ cut = SubSeq(lines, start + 1, end)
  <2>1. M # {}
    BY <1>2
  <2>2. QED
    BY <1>1, <2>1, MainGroupFacts
<1>5. PICK end \in start .. Len(lines) :
        /\ IsMainHeader(lines[start])
        /\ \A i \in start + 1 .. end : ~ IsHeader(lines[i])
        /\ end = Len(lines) \/ IsHeader(lines[end + 1])
        /\ cut = SubSeq(lines, start + 1, end)
  BY <1>4
<1>6. M = {start}
  BY <1>1, <1>2, <1>5 DEF Matches
<1> HIDE DEF M, cut
<1>7. InMain(lines) = start + 1 .. end
  BY <1>1, <1>5, <1>6, CutIsGroup DEF M
<1>8. /\ NoHeaders(cut) /\ DOMAIN cut = 1 .. end - start
      /\ \A i \in DOMAIN cut : cut[i] = lines[start + i] /\ start + i \in InMain(lines)
  BY <1>1, <1>5, CutFacts
<1>9. \A j \in InMain(lines) : j - start \in DOMAIN cut /\ cut[j - start] = lines[j]
  BY <1>7, <1>8
<1>10. GoodLines(cut)
  <2>1. \A i \in DOMAIN cut : IsEntry(cut[i]) => start + i \in Entries(lines)
    BY <1>8 DEF Entries
  <2>2. \A i, j \in DOMAIN cut : start + i = start + j => i = j
    BY <1>8
  <2>3. \A i \in DOMAIN cut : \/ IsEntry(cut[i]) \/ IsTranslation(cut[i])
                              \/ \A j \in DOMAIN cut[i] : cut[i][j] # "="
    BY <1>3, <1>8
  <2>4. ASSUME NEW i \in DOMAIN cut, NEW j \in DOMAIN cut,
               IsEntry(cut[i]), IsEntry(cut[j]), cut[i][1] = cut[j][1]
        PROVE  i = j
    <3>1. lines[start + i][1] = lines[start + j][1]
      BY <1>8, <2>4
    <3>2. start + i = start + j
      BY <1>3, <2>1, <2>4, <3>1
    <3>3. QED
      BY <2>2, <3>2
  <2>5. QED
    BY <1>8, <2>3, <2>4 DEF GoodLines
<1>11. /\ \A i \in DOMAIN cut : IsEntry(cut[i]) =>
            <<cut[i][1]>> \in DOMAIN KV(cut) /\ KV(cut)[<<cut[i][1]>>] = EntryValue(cut[i])
       /\ \A w : w # "]" /\ <<w>> \in DOMAIN KV(cut) =>
            \E i \in DOMAIN cut : IsEntry(cut[i]) /\ cut[i][1] = w
  BY <1>10, GoodKV
<1>12. ASSUME NEW i \in Entries(lines)
       PROVE  <<lines[i][1]>> \in DOMAIN KV(cut) /\ KV(cut)[<<lines[i][1]>>] = EntryValue(lines[i])
  <2>1. i \in InMain(lines) /\ IsEntry(lines[i])
    BY DEF Entries
  <2>2. i - start \in DOMAIN cut /\ cut[i - start] = lines[i]
    BY <1>9, <2>1
  <2>3. QED
    BY <1>11, <2>1, <2>2
<1>13. \A w : w # "]" /\ <<w>> \in DOMAIN KV(cut) => Has(lines, w)
  BY <1>8, <1>11 DEF Has, Entries
<1>14. QED
  BY <1>12, <1>13 DEF cut, lines

LEMMA SplitOne ==
  ASSUME NEW s \in Seq(Token), NEW separator, \A i \in DOMAIN s : s[i] # separator
  PROVE  Split(s, separator) = {s}
<1> DEFINE end == Len(s) + 1
           ends == {0, end} \cup {i \in DOMAIN s : s[i] = separator}
           next(i) == Min({j \in ends : j > i})
<1>1. end \in Nat /\ end > 0
  OBVIOUS
<1>2. ends = {0, end}
  OBVIOUS
<1>3. next(0) = end
  <2>1. {j \in ends : j > 0} = {end}
    BY <1>1, <1>2
  <2>2. Min({end}) = end
    <3> HIDE DEF end
    <3>1. QED
      BY <1>1 DEF Min
  <2>3. QED
    BY <2>1, <2>2
<1>4. ends \ {end} = {0}
  BY <1>1, <1>2
<1>5. Split(s, separator) = {SubSeq(s, i + 1, next(i) - 1) : i \in ends \ {end}}
  BY DEF Split
<1>6. SubSeq(s, 0 + 1, next(0) - 1) = s
  <2>1. 0 + 1 = 1 /\ next(0) - 1 = Len(s)
    BY <1>3
  <2>2. SubSeq(s, 1, Len(s)) = s
    OBVIOUS
  <2>3. QED
    BY <2>1, <2>2
<1>7. QED
  <2>1. {SubSeq(s, i + 1, next(i) - 1) : i \in {0}} = {SubSeq(s, 0 + 1, next(0) - 1)}
    BY Zenon
  <2> HIDE DEF ends, next, end
  <2>2. QED
    BY <1>4, <1>5, <1>6, <2>1, Zenon

\* What the entries of a plain file say is what the map yields.
LEMMA EntriesSay ==
  ASSUME NEW c \in Inputs, Plain(c)
  PROVE  LET d == KV(MainGroup(c.lines)) IN
         /\ \A w : w # "]" => (Has(c.lines, w) <=> <<w>> \in DOMAIN d)
         /\ \A w, v : w # "]" =>
              (Says(c.lines, w, v) <=> <<w>> \in DOMAIN d /\ d[<<w>>] = v)
         /\ \A w \in {"OnlyShowIn", "NotShowIn"} :
              /\ \A v : Says(c.lines, w, v) <=> v \in GetSet(d, <<w>>)
              /\ Has(c.lines, w) <=> GetSet(d, <<w>>) # {}
         /\ \A w \in {"NoDisplay", "Hidden"} :
              /\ GetBool(d, <<w>>) \in {<<"true">>, <<"false">>}
              /\ GetBool(d, <<w>>) = <<"true">> <=> Says(c.lines, w, <<"true">>)
<1> DEFINE lines == c.lines
           d == KV(MainGroup(lines))
<1>1. \A i \in Entries(lines) :
        <<lines[i][1]>> \in DOMAIN d /\ d[<<lines[i][1]>>] = EntryValue(lines[i])
  BY PlainKV
<1>2. \A w : w # "]" /\ <<w>> \in DOMAIN d => Has(lines, w)
  BY PlainKV
<1>3. /\ \A i \in Entries(lines) : lines[i] \in Seq(Token) /\ Len(lines[i]) > 2
      /\ \A i \in Entries(lines) : lines[i][1] \in {"NoDisplay", "Hidden"} =>
           EntryValue(lines[i]) \in {<<"true">>, <<"false">>}
      /\ \A i \in Entries(lines) : lines[i][1] \in {"OnlyShowIn", "NotShowIn"} =>
           \A j \in DOMAIN lines[i] : lines[i][j] # ":"
  <2>1. lines \in Seq(Seq(Token))
    BY InputsAssumption
  <2>2. ASSUME NEW i \in Entries(lines)
        PROVE  lines[i] \in Seq(Token) /\ Len(lines[i]) > 2
    <3>1. i \in DOMAIN lines /\ IsEntry(lines[i])
      BY DEF Entries, InMain
    <3>2. QED
      BY <2>1, <3>1 DEF IsEntry
  <2>3. QED
    BY <2>2 DEF Plain
<1> HIDE DEF d, lines
<1>4. \A w : w # "]" => (Has(lines, w) <=> <<w>> \in DOMAIN d)
  BY <1>1, <1>2 DEF Has
<1>5. \A w, v : w # "]" => (Says(lines, w, v) <=> <<w>> \in DOMAIN d /\ d[<<w>>] = v)
  BY <1>1, <1>2 DEF Says, Has
<1>6. ASSUME NEW w \in {"OnlyShowIn", "NotShowIn"}
      PROVE  /\ \A v : Says(lines, w, v) <=> v \in GetSet(d, <<w>>)
             /\ Has(lines, w) <=> GetSet(d, <<w>>) # {}
  <2>1. CASE <<w>> \notin DOMAIN d
    BY <1>4, <1>5, <2>1 DEF GetSet
  <2>2. CASE <<w>> \in DOMAIN d
    <3>1. PICK i \in Entries(lines) : lines[i][1] = w
      BY <1>2, <2>2 DEF Has
    <3>2. d[<<w>>] = EntryValue(lines[i])
      BY <1>1, <3>1
    <3>3. /\ EntryValue(lines[i]) \in Seq(Token)
          /\ \A j \in DOMAIN EntryValue(lines[i]) : EntryValue(lines[i])[j] # ":"
      <4> DEFINE l == lines[i]
      <4>1. l \in Seq(Token) /\ Len(l) > 2 /\ Len(l) \in Nat /\ \A j \in 1 .. Len(l) : l[j] # ":"
        BY <1>3, <3>1
      <4> HIDE DEF l
      <4>2. /\ SubSeq(l, 3, Len(l)) \in Seq(Token) /\ Len(SubSeq(l, 3, Len(l))) = Len(l) - 2
            /\ \A j \in 1 .. Len(l) - 2 : SubSeq(l, 3, Len(l))[j] = l[j + 2]
        BY <4>1
      <4>3. QED
        BY <4>1, <4>2 DEF EntryValue, l
    <3>4. GetSet(d, <<w>>) = {d[<<w>>]}
      BY <2>2, <3>2, <3>3, SplitOne DEF GetSet
    <3>5. QED
      BY <1>4, <1>5, <2>2, <3>4
  <2>3. QED
    BY <2>1, <2>2
<1>7. ASSUME NEW w \in {"NoDisplay", "Hidden"}
      PROVE  /\ GetBool(d, <<w>>) \in {<<"true">>, <<"false">>}
             /\ GetBool(d, <<w>>) = <<"true">> <=> Says(lines, w, <<"true">>)
  <2>1. <<"true">> # <<"false">>
    OBVIOUS
  <2>2. TrimSpace(<<"true">>) = <<"true">> /\ TrimSpace(<<"false">>) = <<"false">>
    BY TrimWord
  <2>3. CASE <<w>> \notin DOMAIN d
    BY <1>5, <2>1, <2>3, Zenon DEF GetBool
  <2>4. CASE <<w>> \in DOMAIN d
    <3>1. d[<<w>>] \in {<<"true">>, <<"false">>}
      BY <1>1, <1>2, <1>3, <2>4 DEF Has
    <3>2. GetBool(d, <<w>>) = d[<<w>>]
      BY <2>2, <2>4, <3>1, Zenon DEF GetBool
    <3>3. QED
      BY <1>5, <2>1, <2>4, <3>1, <3>2
  <2>5. QED
    BY <2>3, <2>4
<1>8. QED
  BY <1>4, <1>5, <1>6, <1>7 DEF d, lines

\* The order of the conditions of Visible() does not matter where there is
\* nothing to panic about.
LEMMA VisibleValue ==
  ASSUME NEW d, NEW ds,
         \A k \in {"NoDisplay", "Hidden"} : GetBool(d, <<k>>) \in {<<"true">>, <<"false">>}
  PROVE  Visible(d, ds) =
           IF /\ IsApplication(d) /\ GetBool(d, <<"NoDisplay">>) # <<"true">>
              /\ GetBool(d, <<"Hidden">>) # <<"true">> /\ ShowOn(d, ds)
           THEN "shown" ELSE "hidden"
<1>1. <<"true">> # <<"false">>
  OBVIOUS
<1>2. ~ NoBool(d, <<"NoDisplay">>) /\ ~ NoBool(d, <<"Hidden">>)
  BY DEF NoBool
<1>3. GetBool(d, <<"NoDisplay">>) = <<"true">> \/ GetBool(d, <<"NoDisplay">>) = <<"false">>
  OBVIOUS
<1>4. GetBool(d, <<"Hidden">>) = <<"true">> \/ GetBool(d, <<"Hidden">>) = <<"false">>
  OBVIOUS
<1>5. CASE ~ IsApplication(d)
  BY <1>2, <1>5, Zenon DEF Visible
<1>6. CASE IsApplication(d) /\ GetBool(d, <<"NoDisplay">>) = <<"true">>
  BY <1>1, <1>2, <1>6, Zenon DEF Visible
<1>7. CASE IsApplication(d) /\ GetBool(d, <<"NoDisplay">>) = <<"false">>
  BY <1>1, <1>2, <1>4, <1>7, Zenon DEF Visible
<1>8. QED
  BY <1>3, <1>5, <1>6, <1>7, Zenon

(***************************************************************************)
(* Of a plain file, whatever its words and however long it is, and in      *)
(* whatever desktops, an application is shown unless it is hidden, or the  *)
(* desktops decide against it, under the name it has (readKV, Visible).    *)
(***************************************************************************)
THEOREM ShownIffEntered == Spec => []ShownAsEntered
<1>1. ReadOnce => ShownAsEntered
  <2> SUFFICES ASSUME ReadOnce, result # NotRead, Plain(content)
               PROVE  ShownAsEntered
    BY DEF ShownAsEntered
  <2> DEFINE lines == content.lines
             d == KV(MainGroup(lines))
             only == GetSet(d, <<"OnlyShowIn">>)
             not == GetSet(d, <<"NotShowIn">>)
             first(i) == \A j \in 1 .. i - 1 : /\ ~ Says(lines, "OnlyShowIn", desktops[j])
                                              /\ ~ Says(lines, "NotShowIn", desktops[j])
             here ==
               \/ \E i \in DOMAIN desktops : first(i) /\ Says(lines, "OnlyShowIn", desktops[i])
               \/ /\ ~ Has(lines, "OnlyShowIn")
                  /\ \A i \in DOMAIN desktops : ~ Says(lines, "NotShowIn", desktops[i])
             shown ==
               /\ Says(lines, "Type", <<"Application">>)
               /\ ~ Says(lines, "NoDisplay", <<"true">>) /\ ~ Says(lines, "Hidden", <<"true">>)
               /\ here
  <2>1. /\ content \in Inputs /\ content # Unreadable
        /\ desktops \in Seq(Seq(Token)) /\ result = ReadFile(content, desktops)
    <3>1. content \in Inputs /\ content # Unreadable /\ desktops \in Desktops
      BY DEF ReadOnce, Plain
    <3>2. desktops \in Seq(Seq(Token \ {":"}))
      BY <3>1, InputsAssumption
    <3>3. desktops \in Seq(Seq(Token))
      <4>1. Token \ {":"} \subseteq Token
        OBVIOUS
      <4>2. Seq(Token \ {":"}) \subseteq Seq(Token)
        BY <4>1, SeqMonotonic
      <4>3. QED
        BY <3>2, <4>2, SeqMonotonic
    <3>4. QED
      BY <3>1, <3>3 DEF ReadOnce
  <2>2. /\ \A w : w # "]" => (Has(lines, w) <=> <<w>> \in DOMAIN d)
        /\ \A w, v : w # "]" =>
             (Says(lines, w, v) <=> <<w>> \in DOMAIN d /\ d[<<w>>] = v)
        /\ \A w \in {"OnlyShowIn", "NotShowIn"} :
             /\ \A v : Says(lines, w, v) <=> v \in GetSet(d, <<w>>)
             /\ Has(lines, w) <=> GetSet(d, <<w>>) # {}
        /\ \A w \in {"NoDisplay", "Hidden"} :
             /\ GetBool(d, <<w>>) \in {<<"true">>, <<"false">>}
             /\ GetBool(d, <<w>>) = <<"true">> <=> Says(lines, w, <<"true">>)
    BY <2>1, EntriesSay
  <2>3. ~ Lacks(content) /\ Has(lines, "Name")
    <3>1. IsFiniteSet({}) /\ Cardinality({}) = 0
      BY FS_EmptySet
    <3>2. /\ ~ content.crlf /\ Cardinality(Matches(lines, IsMainHeader)) = 1
          /\ Has(lines, "Name")
      BY DEF Plain
    <3>3. Matches(lines, IsMainHeader) # {}
      BY <3>1, <3>2
    <3>4. QED
      BY <3>2, <3>3 DEF Lacks
  <2>4. /\ result.read = Visible(d, desktops)
        /\ Visible(d, desktops) = "shown" => result.name = MustGet(d, <<"Name">>)
    BY <2>1, <2>3, ReadFacts
  <2> HIDE DEF d, lines
  <2>5. ShowOn(d, desktops) <=> here
    <3>1. ShowOn(d, desktops) = Decided(only, not, desktops, 1)
      BY <2>1, ShowOnValue
    <3>2. DOMAIN desktops = 1 .. Len(desktops) /\ Len(desktops) \in Nat
      BY <2>1
    <3>3. /\ \A v : Says(lines, "OnlyShowIn", v) <=> v \in only
          /\ \A v : Says(lines, "NotShowIn", v) <=> v \in not
          /\ Has(lines, "OnlyShowIn") <=> only # {}
      BY <2>2
    <3> HIDE DEF only, not
    <3>4. QED
      BY <3>1, <3>2, <3>3 DEF Decided
  <2> HIDE DEF here
  <2>6. IsApplication(d) <=> Says(lines, "Type", <<"Application">>)
    <3>1. Says(lines, "Type", <<"Application">>) <=>
            <<"Type">> \in DOMAIN d /\ d[<<"Type">>] = <<"Application">>
      BY <2>2
    <3>2. << >> # <<"Application">>
      OBVIOUS
    <3>3. QED
      BY <3>1, <3>2, Zenon DEF IsApplication, MustGet
  <2>7. Visible(d, desktops) = IF shown THEN "shown" ELSE "hidden"
    <3>1. Visible(d, desktops) =
            IF /\ IsApplication(d) /\ GetBool(d, <<"NoDisplay">>) # <<"true">>
               /\ GetBool(d, <<"Hidden">>) # <<"true">> /\ ShowOn(d, desktops)
            THEN "shown" ELSE "hidden"
      BY <2>2, VisibleValue
    <3>2. /\ GetBool(d, <<"NoDisplay">>) = <<"true">> <=> Says(lines, "NoDisplay", <<"true">>)
          /\ GetBool(d, <<"Hidden">>) = <<"true">> <=> Says(lines, "Hidden", <<"true">>)
      BY <2>2
    <3>3. (/\ IsApplication(d) /\ GetBool(d, <<"NoDisplay">>) # <<"true">>
           /\ GetBool(d, <<"Hidden">>) # <<"true">> /\ ShowOn(d, desktops)) <=> shown
      BY <2>5, <2>6, <3>2
    <3> HIDE DEF shown
    <3>4. QED
      BY <3>1, <3>3
  <2>8. shown => Says(lines, "Name", result.name)
    <3>1. SUFFICES ASSUME shown
                   PROVE  Says(lines, "Name", result.name)
      OBVIOUS
    <3>2. result.name = MustGet(d, <<"Name">>)
      BY <2>4, <2>7, <3>1
    <3>3. <<"Name">> \in DOMAIN d
      BY <2>2, <2>3
    <3>4. d[<<"Name">>] = result.name
      BY <3>2, <3>3, Zenon DEF MustGet
    <3>5. QED
      BY <2>2, <3>3, <3>4
  <2>9. result.read = IF shown THEN "shown" ELSE "hidden"
    BY <2>4, <2>7
  <2>10. QED
    BY <2>8, <2>9 DEF ShownAsEntered, here, lines
<1>2. QED
  BY <1>1, ReadInvariance, PTL
=============================================================================
