SPECIFICATION Spec
CONSTANTS
  Thread = {t1}
  Dir = {d1}
  File = {f1, f2}
  Byte = {x, y}
  BLOCKS = 5
  MAX_DIRS_IN_ROOT = 1
  MAX_FILES_IN_DIR = 2
  MAX_DATA_IN_BLOCK = 2
  MaxSize = 6
  MaxWrites = 4
  MaxCrashes = 0
INVARIANT WritesIntoFile
CHECK_DEADLOCK FALSE
SYMMETRY Symmetry
