SPECIFICATION Spec
CONSTANTS
  r1 = r1  r2 = r2  A = A  B = B  C = C  p = p
  NoReceipt = NoReceipt
  Receipts = {r1, r2}
  Lines = {A, B, C}
  Products = {p}
  Locs = {l1}
  Workers = {w1, w2}
  ReceiptOf <- MCReceiptOf
  ProductOf <- MCProductOf
  Expected <- MCExpected
  Over <- MCOver
  Under <- MCUnder
  Asks <- MCAsks
  MaxMoved = 3
INVARIANTS TypeOK WithinTolerance StockIsBacked QuietReceiptsBalance StockIsMovements
SYMMETRY MCSymmetry
CHECK_DEADLOCK FALSE
