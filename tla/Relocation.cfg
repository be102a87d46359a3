SPECIFICATION Spec
CONSTANTS
  pa = pa  pb = pb  l1 = l1  l2 = l2  i1 = i1  i2 = i2  i3 = i3  i4 = i4  i5 = i5
  NoLoc = NoLoc  NoId = NoId  NoOrder = NoOrder  NoRec = NoRec
  Products = {pa, pb}
  Locs = {l1, l2}
  Ids = {i1, i2, i3, i4, i5}
  Workers = {w1, w2}
  Recs = {r1}
  Sugs = {s1}
  Orders = {o1, o2, o3}
  InitRows <- MCInitRows
  Asks <- MCAsks
  MinQty <- MCMinQty
  MaxQty <- MCMaxQty
  Limit = 1
  MaxMoved = 2
INVARIANTS TypeOK StockIsMovements OverrunIsBounded
PROPERTIES NothingIsLost
CONSTRAINT Few
SYMMETRY MCSymmetry
CHECK_DEADLOCK FALSE
