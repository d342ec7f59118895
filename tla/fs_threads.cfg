SPECIFICATION Spec
CONSTANTS
  Thread = {t1, t2}
  Dir = {d1, d2}
  File = {f1, f2}
  Byte = {x, y}
  BLOCKS = 6
  MAX_DIRS_IN_ROOT = 2
  MAX_FILES_IN_DIR = 2
  MAX_DATA_IN_BLOCK = 2
  MaxSize = 4
  MaxWrites = 0
  MaxCrashes = 0
INVARIANT FreshBlock
CHECK_DEADLOCK FALSE
SYMMETRY Symmetry
