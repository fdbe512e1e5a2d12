SPECIFICATION Spec
CONSTANTS
  Thread = {t1, t2}
  Device = {d1}
  Context = {c1}
  Null = Null
INVARIANTS
  ReferenceIsLive
