---------------------------- MODULE RemoteService ----------------------------
(***************************************************************************)
(* What a Remote promises to f (remote/remote_api.go): an entry that is    *)
(* handed over is launched at most once, before the call returns, and was  *)
(* launched if the call returns nil.  An error says nothing about it.      *)
(*                                                                         *)
(* Remote.tla implements this specification, over HTTP and over RPC.       *)
(***************************************************************************)
EXTENDS Naturals

CONSTANT Clients

VARIABLES
  handle,   \* handle[c]: the call HandleEntry of c
  launches  \* launches[c]: how often its entry was launched

vars == <<handle, launches>>

Init ==
  /\ handle = [c \in Clients |-> "none"]
  /\ launches = [c \in Clients |-> 0]

HandleEntry(c) ==
  /\ handle[c] = "none"
  /\ handle' = [handle EXCEPT ![c] = "open"]
  /\ UNCHANGED launches

Launch(c) ==
  /\ handle[c] = "open" /\ launches[c] = 0
  /\ launches' = [launches EXCEPT ![c] = 1]
  /\ UNCHANGED handle

Succeed(c) ==
  /\ handle[c] = "open" /\ launches[c] = 1
  /\ handle' = [handle EXCEPT ![c] = "ok"]
  /\ UNCHANGED launches

Fail(c) ==
  /\ handle[c] \in {"none", "open"}
  /\ handle' = [handle EXCEPT ![c] = "error"]
  /\ UNCHANGED launches

Next == \E c \in Clients : HandleEntry(c) \/ Launch(c) \/ Succeed(c) \/ Fail(c)

Spec == Init /\ [][Next]_vars
=============================================================================
