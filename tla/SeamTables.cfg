CONSTANTS
  t1 = t1
  t2 = t2
  None = None
  Tasks = {t1, t2}
  Slots = {0, 1}
  MaxGen = 2
  Raw <- RawFromOne
  ItemSizes = {0, 2, 4}
  MAX_ITEM_BYTES = 3
  QueueLength = 2
  Values <- OfTwo
  SET_ITEM_BYTES = 3
  DeletesSets = FALSE
SPECIFICATION Spec
SYMMETRY Either
INVARIANTS
  TypeOK
  ItemsComeBackWhole
