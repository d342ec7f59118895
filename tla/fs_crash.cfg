SPECIFICATION Spec
CONSTANTS
  Thread = {t1}
  Dir = {d1}
  File = {f1, f2}
  Byte = {x, y}
  BLOCKS = 6
  MAX_DIRS_IN_ROOT = 1
  MAX_FILES_IN_DIR = 2
  MAX_DATA_IN_BLOCK = 2
  MaxSize = 4
  MaxWrites = 4
  MaxCrashes = 2
INVARIANTS TypeOK BlocksDisjoint  
CHECK_DEADLOCK FALSE
SYMMETRY Symmetry
