CONSTANTS
  ExtraSize = 4
  DefSize = 4
  Lens = {0, 1, 4, 5, 9}
  MaxSize = 40
SPECIFICATION Spec
INVARIANTS
  NulInBounds
