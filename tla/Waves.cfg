SPECIFICATION MCSpec
CONSTANTS
  o1 = o1  o2 = o2  o3 = o3  p = p  q = q  l1 = l1  l2 = l2  l3 = l3
  a = a  b = b  c = c  d = d  w1 = w1  w2 = w2  Start = Start
  OutboundOrders = {o1, o2, o3}
  Products = {p, q}
  Rows = {a, b, c, d}
  Locs = {l1, l2, l3}
  Handlers = {w1, w2}
  KeyOf <- MCKeyOf
  LinesOf <- MCLinesOf
  ProductOf <- MCProductOf
  LocOf <- MCLocOf
  Reserved <- MCReserved
  Tagged = {a, b, d}
  Dist <- MCDist
  Sizes = {0, 1}
  MaxWaves = 4
  MaxTasks = 1
  MaxMarked = 1
  MaxQueue = 1
INVARIANTS WaveTypeOK GenerationsPartition TasksAskForReservations PathsAreGreedyTours
PROPERTIES EveryOrderGetsAWave
CHECK_DEADLOCK FALSE
