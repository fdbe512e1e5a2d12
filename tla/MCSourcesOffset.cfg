SPECIFICATION Spec
CONSTANTS
  full = full
  empty = empty
  NoBuffer = NoBuffer
  Buffer = {full}
  Size <- MCSize
  LoopStart <- MCLoopStart
  LoopEnd <- MCLoopEnd
  Source = {s1}
  NoSource = NoSource
  Thread = {t1}
  Batches <- PlainBatches
  MaxQueue = 2
  Loopings = {}
  Offsets = {2}
  SamplesToDo = 1
  Advances = {2}
  InitialCapacity = 1
INVARIANTS
  InitialUnprocessed
