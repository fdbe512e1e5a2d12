SPECIFICATION FairSpec
CONSTANTS
  Thread = {t1, t2}
  Key = {1, 2, 3, 4, 5}
  Value = {v1, v2}
  NoValue = NoValue
  limit = 5
INVARIANTS
  TypeOK
PROPERTIES
  ImplementsMap
  SearchEnds
