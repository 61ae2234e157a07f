SPECIFICATION FairSpec
CONSTANTS
  n1 = n1
  n2 = n2
  i1 = i1
  i2 = i2
  i3 = i3
  Names = {n1, n2}
  Ids = {i1, i2, i3}
  Blacklist = {i3}
  NoRet = NoRet
  Inputs <- SomeDirs
  NoMap = NoMap
INVARIANTS
  IInv
  ResultReady
  AgreesWithST
PROPERTIES
  ScanSpec
  EveryoneEnds
