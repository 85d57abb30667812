SPECIFICATION Spec
CONSTANT Nested <- Places
INVARIANTS
  TypeOK
  DeletionIsWhole
