----------------------------- MODULE DesktopScan -----------------------------
(***************************************************************************)
(* What ScanMulti promises to the desktop file provider, whichever of the  *)
(* three scans runs underneath: it returns once, an error if anything in   *)
(* any directory could not be read, and otherwise every name that is       *)
(* offered, each with the identifier of a file of that name.               *)
(*                                                                         *)
(* ScanPL.tla and ScanMT.tla implement this specification.                 *)
(***************************************************************************)
EXTENDS DesktopFiles

VARIABLES
  dirs,   \* the directories
  ret     \* what the scan returned

vars == <<dirs, ret>>

Promised(ds, r) ==
  IF \E k \in DOMAIN ds : Fails(ds[k])
  THEN r = Failure
  ELSE /\ r.ok
       /\ DOMAIN r.files = {n \in Names : Offered(ds, n)}
       /\ \A n \in DOMAIN r.files : OfferedAs(ds, n, r.files[n])

Init == dirs \in Inputs /\ ret = NoRet

Return ==
  /\ ret = NoRet
  /\ ret' \in Results
  /\ Promised(dirs, ret')
  /\ UNCHANGED dirs

Spec == Init /\ [][Return]_vars
=============================================================================
