SPECIFICATION Spec
CONSTANTS
  Thread = {t1, t2}
  Block = {b1, b2, b3}
  Source = {s1}
  Name = {n1, n2}
  None = None
  Unset = Unset
  Load <- Loads
  Loop <- Loops
  MaxQueue = 2
SYMMETRY Symmetry
INVARIANTS
  TypeOK
  QueuedValid
  NothingLost
  WritesInside
PROPERTIES
  UnchangedWhileQueued
