CONSTANTS
  User = {u1}
  Track = {t1}
  Album = {}
  Intent = {i1, i2}
  Cents = {99, 150}
  Commission = 15
  Worker = {w1, w2}
  MaxCrashes = 1
  MaxChanges = 2
  NoOrder = NoOrder
SPECIFICATION FairSpec
INVARIANTS TypeOK PurchaseIsPaid NoPaymentForgotten
PROPERTIES LedgerSpec PaidIsEventuallyOwned
CHECK_DEADLOCK FALSE
