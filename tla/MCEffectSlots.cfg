SPECIFICATION Spec
CONSTANTS
  Thread = {t1, t2}
  Slot = {x1, x2}
  Name = {n1, n2}
  Source = {s1}
  None = None
  MAX_SENDS = 1
  Counts = {1, 2}
SYMMETRY Symmetry
CONSTRAINT Whole
INVARIANTS
  TypeOK
  RefsExact
  SlotsLive
PROPERTIES
  MixesLiveSlots
