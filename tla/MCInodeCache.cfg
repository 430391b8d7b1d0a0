CONSTANTS
  Tasks = {t1, t2}
  Inums = {0, 1}
  Stamps = {s1, s2}
  NR_INODES = 2
  MaxRefs = 2
  LinkWidth = 3
  Starved = {1}
SYMMETRY Symmetry
SPECIFICATION Spec
INVARIANTS InodesSound
PROPERTIES InodesKept
VIEW View
