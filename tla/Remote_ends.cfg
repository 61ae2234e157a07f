SPECIFICATION FairSpec
CONSTANTS
  s1 = s1
  s2 = s2
  Servers = {s1}
  Killers = {k1, k2}
  Fs = {f1}
  NoServer = NoServer
  NoMessage = NoMessage
  Kinds = {"http", "rpc"}
  Types = {"path"}
  Versions = {"v1"}
  Data = {"dir"}
  Options = {"", "ctrl-n", "ctrl-a"}
  Exits = {0, 1, 4}
  Builds <- MCBuilds
PROPERTIES
  HandleReturns
  CloseEnds
  InterruptEnds
CHECK_DEADLOCK FALSE
