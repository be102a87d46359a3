SPECIFICATION FairSpec
CONSTANTS
  o1 = o1  o2 = o2  o3 = o3  a = a  b1 = b1  b2 = b2
  ra = ra  rb = rb  rc = rc  rd = rd
  A1 = A1  B1 = B1  A2 = A2  B2 = B2  B3 = B3
  NoOrder = NoOrder
  Orders = {o1, o2, o3}
  Lines = {A1, B1, A2, B2, B3}
  Lots = {a, b1, b2}
  Rows = {ra, rb, rc, rd}
  LotOf <- MCLotOf
  Workers = {w1, w2}
  OrderLines <- MCOrderLines
  Candidates <- MCCandidates
  Requested <- MCRequested
  Initial <- MCInitial
INVARIANTS TypeOK OneReservedRow StockNeverLost StatusAgreesWithLines AllocationWithinRule
PROPERTIES SerialReleaseIsAtomic EveryReleaseReturns
CHECK_DEADLOCK FALSE
