SPECIFICATION Spec
CONSTANTS
  a = a  b = b
  NoTask = NoTask  NoLine = NoLine
  Tasks = {t1}
  Cells = {a, b}
  LineIds = {i1, i2}
  Workers = {w1, w2}
  Rows <- MCRows
  InitStock <- MCInitStock
  Shelf <- MCShelf
  Batches <- MCBatches
  Targets <- MCTargets
  Changes <- MCChanges
  MaxQty = 1
  MaxLog = 0
INVARIANTS TypeOK StockIsExplained
PROPERTIES CountIsFinal 
CONSTRAINT FewDisturbed
SYMMETRY MCSymmetry
CHECK_DEADLOCK FALSE
