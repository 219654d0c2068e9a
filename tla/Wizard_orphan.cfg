SPECIFICATION Spec
CONSTANTS
  Sections <- MCSections
  FolderSets = {{}, {"disk"}}
  MountPoint = "mnt"
  MaxInstalls = 2
  MaxExtras = 1
  UserMounts = {FALSE}
INVARIANT NoBuildDuringRemoval
CHECK_DEADLOCK FALSE
