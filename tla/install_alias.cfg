SPECIFICATION Spec
CONSTANTS
  Path <- Linked
  Device <- Linked
  Holds <- Stored
  Mount <- Mounts
PROPERTIES
  MountedIsSpared
