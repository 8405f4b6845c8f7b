SPECIFICATION Spec
CONSTANTS
  Subs = {s1}
  Intervals = {1, 2}
  Window = 1
  LastTime = 4
  MaxLog = 3
  Copies = 1
  Kinds <- AllKinds
  Replayed = {0}
INVARIANT
  NobodyPanics
CHECK_DEADLOCK FALSE
