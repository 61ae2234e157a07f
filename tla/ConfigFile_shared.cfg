SPECIFICATION Spec
CONSTANTS
  Procs = {p1, p2}
  Inodes = {i1, i2, i3, i4}
  Items = {s1, s2}
  Missing = Missing
  Empty = Empty
  Broken = Broken
  NoConf = NoConf
  NoInode = NoInode
  NoFile = NoFile
  NoProc = NoProc
SYMMETRY Symmetry
INVARIANTS
  TypeOK
  NeverBroken
  IInv
PROPERTIES
  DefaultsOnlyReplaceEmpty
  StoreSpec
