------------------------------ MODULE MCRemote ------------------------------
(***************************************************************************)
(* Instances of Remote: all processes are of one build, except for the     *)
(* second server perhaps.                                                  *)
(***************************************************************************)
EXTENDS Remote

CONSTANTS s1, s2

BuildsWith(v) ==
  [p \in Servers \cup Fs |->
     [version |-> IF p = s2 THEN v ELSE "v1", types |-> Types]]

MCBuilds == {BuildsWith(v) : v \in Versions}
=============================================================================
