SPECIFICATION Spec
CONSTANTS
  s1 = s1
  s2 = s2
  Servers = {s1, s2}
  Killers = {k1}
  Fs = {f1}
  NoServer = NoServer
  NoMessage = NoMessage
  Kinds = {"http", "rpc"}
  Types = {"path"}
  Versions = {"v1", "v2"}
  Data = {"dir"}
  Options = {"", "ctrl-n"}
  Exits = {0, 4}
  Builds <- MCBuilds
INVARIANTS
  IInv
  NoForeignLaunch
  OkMeansOpened
PROPERTIES
  RemoteSpec
CHECK_DEADLOCK FALSE
