SPECIFICATION MCSpec
CONSTANTS
  r = r  o1 = o1  o2 = o2  c1 = c1  c2 = c2  b1 = b1
  RLines <- MCRLines
  OLines <- MCOLines
  Receipts = {r}
  Orders = {o1, o2}
  Customers = {c1, c2}
  CustomerOf <- MCCustomerOf
  Units = {u1}
  Ships = {s1}
  Batches = {b1, b2}
  NoBatch = NoBatch
  Workers = {w1}
  NoAsk = NoAsk
  TTL = 120
  Dates = {1}
  Skip = 0
  Take = 3
  MaxPicks = 1
  MaxPacked = 2
INVARIANTS BatchTraceFindsReceipts
CHECK_DEADLOCK FALSE
