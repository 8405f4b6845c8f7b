SPECIFICATION Spec
CONSTANTS
  Subs = {s1, s2}
  Intervals = {1, 2}
  Window = 1
  LastTime = 3
  MaxLog = 3
  Copies = 1
  Kinds <- AllKinds
  Replayed = {0, 1, 2}
SYMMETRY SubSymmetry
INVARIANTS
  TypeOK
  KeptIffScheduled
  OnSchedule
  WaitsForTheEarliest
  NothingMissed
CHECK_DEADLOCK FALSE
