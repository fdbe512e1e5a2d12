SPECIFICATION Spec
CONSTANTS
  Thread = {t1, t2, t3}
  MaxSize = 4
SYMMETRY Symmetry
INVARIANTS
  TypeOK
  UniqueUnlessRaced
  IndexInBounds
PROPERTIES
  ArrayMovesUnread
