---------------------------- MODULE DesktopFiles -----------------------------
(***************************************************************************)
(* entry/desktopfile_provider.go: what the three ways of scanning for      *)
(* .desktop files share.  A file is reduced to what Read() makes of it, a  *)
(* directory to what opening and listing it yields.                        *)
(***************************************************************************)
EXTENDS Naturals, Sequences, FiniteSets

CONSTANTS
  Names,      \* DesktopFile.Name, what the user selects
  Ids,        \* DesktopFile.Identifier: the base name of the file
  Blacklist,  \* identifiers the settings hide
  Inputs,     \* the lists of directories that are scanned
  NoRet       \* the scan has not returned

\* Read(): an error, a file that is not to be shown, or a DesktopFile.
File == [name : Names, id : Ids, read : {"shown", "hidden", "error"}]

\* A candidate directory that does not exist, one that is not a directory or
\* cannot be opened, and one with the files that Glob lists in it.
Directory ==
  [kind : {"absent", "bad"}, files : {<< >>}] \cup
  [kind : {"dir"}, files : Seq(File)]

ASSUME InputsAssumption == Inputs \subseteq Seq(Directory)

\* Results: map[string]DesktopFile, as a function from names to identifiers.
Maps == UNION {[S -> Ids] : S \in SUBSET Names}

NoFiles == [n \in {} |-> n]

Success(m) == [ok |-> TRUE, files |-> m]

Failure == [ok |-> FALSE, files |-> NoFiles]

Results == [ok : BOOLEAN, files : Maps]

ASSUME NoRetAssumption == NoRet \notin Results

\* maps.Copy(dst, src)
Copy(dst, src) ==
  [n \in DOMAIN dst \cup DOMAIN src |-> IF n \in DOMAIN src THEN src[n] ELSE dst[n]]

-----------------------------------------------------------------------------

\* The files that are offered to the user.
Kept(f) == f.read = "shown" /\ f.id \notin Blacklist

KeptIn(fs) == {k \in DOMAIN fs : Kept(fs[k])}

\* Opening, listing or reading something in the directory is an error.
Fails(dir) ==
  \/ dir.kind = "bad"
  \/ \E k \in DOMAIN dir.files : dir.files[k].read = "error"

\* ScanDirectory(): of files with the same name, the last one listed.
Scan(dir) ==
  LET fs == dir.files
      last(n) == CHOOSE k \in KeptIn(fs) :
                   /\ fs[k].name = n
                   /\ \A j \in KeptIn(fs) : fs[j].name = n => j <= k
  IN [n \in {fs[k].name : k \in KeptIn(fs)} |-> fs[last(n)].id]

\* scanMultipleST(): one directory after the other.
ScanST(dirs) ==
  LET upTo[k \in 0 .. Len(dirs)] ==
        IF k = 0 THEN NoFiles ELSE Copy(upTo[k - 1], Scan(dirs[k]))
  IN IF \E k \in DOMAIN dirs : Fails(dirs[k])
     THEN Failure
     ELSE Success(upTo[Len(dirs)])

\* Name n is the name of a file that is offered, found in some directory.
Offered(dirs, n) ==
  \E k \in DOMAIN dirs : \E j \in KeptIn(dirs[k].files) : dirs[k].files[j].name = n

\* ... under identifier i.
OfferedAs(dirs, n, i) ==
  \E k \in DOMAIN dirs : \E j \in KeptIn(dirs[k].files) :
    dirs[k].files[j].name = n /\ dirs[k].files[j].id = i

\* No two files that are offered under one name differ.
NoClash(dirs) ==
  \A n \in Names : \A i, j \in Ids :
    OfferedAs(dirs, n, i) /\ OfferedAs(dirs, n, j) => i = j
=============================================================================
