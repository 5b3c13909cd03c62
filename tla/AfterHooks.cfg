SPECIFICATION Spec
CONSTANTS
  t1 = t1
  t2 = t2
  old = old
  new = new
  Tasks <- MCTasks
  Rows <- MCRows
  Initial <- MCInitial
  Configs <- MCConfigs
  MaxDepth = 2
  MaxWrites = 3
CHECK_DEADLOCK FALSE
SYMMETRY MCSymmetry
INVARIANTS
  TypeOK
  CommitsAreAnnouncedOnce
