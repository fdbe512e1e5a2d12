SPECIFICATION FairLockSpec
CONSTANTS
  Caller = {t1, t2, t3, t4}
INVARIANTS
  LockTypeOK
PROPERTIES
  ImplementsReadersWriters
  WriterPreference
  SomeoneEnters
