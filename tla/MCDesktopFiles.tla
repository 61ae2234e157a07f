--------------------------- MODULE MCDesktopFiles ----------------------------
(* Directories for TLC to scan: two names, two identifiers, one of which may *)
(* be blacklisted.  The files of a directory have different identifiers.     *)
EXTENDS DesktopFiles

CONSTANTS n1, n2, i1, i2, i3

FilesAs(i) ==
  {[name |-> n, id |-> i, read |-> "shown"] : n \in {n1, n2}} \cup
  {[name |-> n1, id |-> i, read |-> r] : r \in {"hidden", "error"}}

Dir(fs) == [kind |-> "dir", files |-> fs]

NoDirs == {[kind |-> k, files |-> << >>] : k \in {"absent", "bad"}}

\* No file, one file, or two files of which the first is shown or an error.
Dirs ==
  NoDirs \cup {Dir(<< >>)}
  \cup {Dir(<<f>>) : f \in FilesAs(i1) \cup FilesAs(i2) \cup FilesAs(i3)}
  \cup {Dir(<<f, g>>) : f \in {h \in FilesAs(i1) : h.read # "hidden"},
                        g \in FilesAs(i2)}

\* Up to two directories, i3 being blacklisted.
TwoDirs == {<< >>} \cup {<<a>> : a \in Dirs} \cup {<<a, b>> : a, b \in Dirs}

\* Three directories with at most one file each.
OneFileDirs ==
  NoDirs \cup {Dir(<<[name |-> n, id |-> i, read |-> r]>>) :
                 n \in {n1, n2}, i \in {i1}, r \in {"shown", "error"}}
         \cup {Dir(<<[name |-> n1, id |-> i, read |-> "shown"]>>) : i \in {i2, i3}}

ThreeDirs == {<<a, b, c>> : a, b, c \in OneFileDirs}
=============================================================================
