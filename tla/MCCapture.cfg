SPECIFICATION FairSpec
CONSTANTS
  a = a
  b = b
  Frame = {a, b}
  Silence = a
  Capacity = 2
  Thread = {t1, t2}
  Block <- MCBlock
  Null = Null
INVARIANTS
  TypeOK
  CountedStillThere
  DeviceOutlivesCalls
PROPERTIES
  ImplementsFifo
  CloseEnds
CHECK_DEADLOCK FALSE
