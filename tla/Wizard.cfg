SPECIFICATION FairSpec
CONSTANTS
  Sections <- MCSections
  FolderSets = {{}, {"disk"}}
  MountPoint = "mnt"
  MaxInstalls = 2
  MaxExtras = 1
  UserMounts = {FALSE}
INVARIANTS ClaimIsTrue DoneByThisInstall ConsoleIsThere
PROPERTY DaemonRestarted
CHECK_DEADLOCK FALSE
