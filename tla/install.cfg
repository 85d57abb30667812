SPECIFICATION Spec
CONSTANTS
  Path <- Names
  Device <- Disks
  Holds <- Stored
  Mount <- Mounts
INVARIANTS
  TypeOK
  DoneIsWhole
PROPERTIES
  MountedIsSpared
  InstallEnds
