SPECIFICATION MCSpec
CONSTANTS
  o1 = o1  o2 = o2  t1 = t1  t2 = t2  t3 = t3  a = a  b1 = b1  b2 = b2  A = A  B = B  C = C
  NoTask = NoTask
  Orders = {o1, o2}
  Lines = {A, B, C}
  Lots = {a, b1, b2}
  Tasks = {t1, t2, t3}
  LinesOf <- MCLinesOf
  LotsOf <- MCLotsOf
  Requested <- MCRequested
  Stock <- MCStock
  Workers = {w1, w2}
  TaskOrder <- MCTaskOrder
  Confirms <- MCConfirms
INVARIANTS TypeOK NothingVanishes PicksAreTraced PicksWithinTask SerialPicks
PROPERTY EveryRequestReturns
CHECK_DEADLOCK FALSE
