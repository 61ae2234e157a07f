SPECIFICATION FairSpecU
CONSTANTS
  Procs = {p1, p2}
  Inodes = {i1, i2, i3, i4}
  Items = {s1}
  Missing = Missing
  Empty = Empty
  Broken = Broken
  NoConf = NoConf
  NoInode = NoInode
  NoFile = NoFile
  NoProc = NoProc
  UserFiles <- InPlaceEdits
  MaxEdits = 1
PROPERTIES
  BrokenFileKept
  CallsReturn
