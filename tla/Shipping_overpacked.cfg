SPECIFICATION MCSpec
CONSTANTS
  o1 = o1  o2 = o2  A = A  B = B  C = C  u1 = u1  u2 = u2  s1 = s1  s2 = s2
  NoUnit = NoUnit  NoShip = NoShip
  Orders = {o1, o2}
  Lines = {A, B, C}
  Units = {u1, u2}
  Ships = {s1, s2}
  Workers = {w1, w2}
  OrderOf <- MCOrderOf
  Requested <- MCRequested
  Packs <- MCPacks
  Loads <- MCLoads
  MaxLinks = 2
  MaxShipped = 2
INVARIANTS PackedWithinPicked
CHECK_DEADLOCK FALSE
