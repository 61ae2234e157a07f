SPECIFICATION SpecU
CONSTANTS
  Procs = {p1}
  Inodes = {i1, i2, i3, i4}
  Items = {s1, s2}
  Missing = Missing
  Empty = Empty
  Broken = Broken
  NoConf = NoConf
  NoInode = NoInode
  NoFile = NoFile
  NoProc = NoProc
  UserFiles <- AnyEdit
  MaxEdits = 2
INVARIANTS
  SavedSettingsStay
PROPERTIES
  SuccessLeavesConfig
  LoadKeepsValidFile
