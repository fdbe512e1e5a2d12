SPECIFICATION FairSpec
CONSTANTS
  full = full
  empty = empty
  NoBuffer = NoBuffer
  Buffer = {full, empty}
  Size <- MCSize
  LoopStart <- MCLoopStart
  LoopEnd <- MCLoopEnd
  Source = {s1}
  NoSource = NoSource
  Thread = {t1}
  Batches <- MCBatches
  MaxQueue = 2
  Loopings = {TRUE, FALSE}
  Offsets = {1, 2}
  SamplesToDo = 2
  Advances = {0, 1, 3}
  InitialCapacity = 1
INVARIANTS
  TypeOK
  QueueConsistent
  RefsExact
PROPERTIES
  MixerReturns
