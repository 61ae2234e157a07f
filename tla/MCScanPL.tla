------------------------------ MODULE MCScanPL -------------------------------
(* Instances of ScanPL for TLC. *)
EXTENDS ScanPL, MCDesktopFiles
=============================================================================
