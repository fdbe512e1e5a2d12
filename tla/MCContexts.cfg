SPECIFICATION Spec
CONSTANTS
  Thread = {t1, t2, t3}
  Device = {d1}
  Context = {c1, c2}
  Null = Null
SYMMETRY Symmetry
INVARIANTS
  TypeOK
  RefsExact
  FreedUnused
  PlaybackMatches
