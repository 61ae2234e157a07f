SPECIFICATION Spec
CONSTANTS
  Fs = {f1}
  Clis = {}
  Names = {"x", "y", "bad", "< x"}
  BadUrls = {"bad"}
  Files = {"x", "< x"}
  Folders = {}
  Apps = {"app"}
  Extras = {"extra"}
  Ids = {"app.desktop"}
  IdOf <- MCIdOf
  Absent = Absent
  Garbled = Garbled
  FirstConfigs <- MCFirstConfigs
  Flags <- MCFlags
  UserKeys = {"", "ctrl-d", "ctrl-t", "line"}
  NewShortcuts = {"y"}
  NewCommands = {"y"}
INVARIANT DefaultsAreStored
CHECK_DEADLOCK FALSE
