SPECIFICATION FairSpec
CONSTANTS
  Fs = {f1}
  Clis = {c1}
  Names = {"x", "y", "bad", "< x"}
  BadUrls = {"bad"}
  Files = {"x", "< x"}
  Folders = {}
  Apps = {"app"}
  Extras = {"extra"}
  Ids = {"app.desktop"}
  IdOf <- MCIdOf
  Absent = Absent
  Garbled = Garbled
  FirstConfigs <- MCFirstConfigs
  Flags <- MCFlags
  UserKeys = {"", "ctrl-d", "ctrl-t", "line"}
  NewShortcuts = {"y"}
  NewCommands = {"y"}
INVARIANTS
  IInv
  HiddenStays
  AddedIsStored
PROPERTIES
  LossesAreStale
  NeverBricked
  SelectedIsHandled
  SelectionEnds
CHECK_DEADLOCK FALSE
