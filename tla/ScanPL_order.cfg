SPECIFICATION Spec
CONSTANTS
  n1 = n1
  n2 = n2
  i1 = i1
  i2 = i2
  i3 = i3
  Names = {n1, n2}
  Ids = {i1, i2, i3}
  Blacklist = {i3}
  Inputs <- TwoDirs
  Digesters = {d1, d2}
  NoJob = NoJob
  NoRet = NoRet
INVARIANTS
  SameAsST
