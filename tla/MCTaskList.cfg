SPECIFICATION TaskSpec
CONSTANTS
  NoTask = NoTask
  Tasks = {t1, t2, t3, t4}
SYMMETRY Renamings
INVARIANTS
  ListIsLive
  CurrentIsLive
  PrevIsPrevious
