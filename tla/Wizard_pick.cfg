SPECIFICATION FairSpec
CONSTANTS
  Sections <- MCSections
  FolderSets = {{}}
  MountPoint = "mnt"
  MaxInstalls = 1
  MaxExtras = 1
  UserMounts = {FALSE}

PROPERTY SelectionLocked
CHECK_DEADLOCK FALSE
