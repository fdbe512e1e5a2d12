SPECIFICATION Spec
CONSTANTS
  t1 = t1
  t2 = t2
  Thread = {t1, t2}
  AL_NONE = AL_NONE
  Buffer = {A, B, AL_NONE}
  Playable = {A, B}
  Converted = {B}
  Asks <- MCAsks
  Offsets = {1}
  MaxQueue = 2
  MaxMessages = 2
INVARIANTS
  TypeOK
  Exclusion
  QueueAsSeen
  ConnectedWhilePlaying
PROPERTIES
  StopEnds
