SPECIFICATION Spec
CONSTANTS
  full = full
  empty = empty
  NoBuffer = NoBuffer
  Buffer = {full}
  Size <- MCSize
  LoopStart <- MCLoopStart
  LoopEnd <- MCLoopEnd
  Source = {s1, s2}
  NoSource = NoSource
  Thread = {t1, t2}
  Batches = {}
  MaxQueue = 1
  Loopings = {}
  Offsets = {}
  SamplesToDo = 1
  Advances = {2}
  InitialCapacity = 1
SYMMETRY Symmetry
INVARIANTS
  ListMatches
PROPERTIES
  OverrunNeedsDeferral
