------------------------------ MODULE MCScanMT -------------------------------
(* Instances of ScanMT for TLC. *)
EXTENDS ScanMT, MCDesktopFiles

\* Two directories of up to two files, or three of up to one.
SomeDirs == TwoDirs \cup ThreeDirs
=============================================================================
