SPECIFICATION RFairSpec
CONSTANTS
  c1 = c1  b1 = b1  o1 = o1  o2 = o2  p1 = p1  x1 = x1
  NoCode = NoCode  NoOrder = NoOrder  NoBuyer = NoBuyer
  Code <- OneCode
  Buyer <- OneBuyer
  Denied <- Nobody
  Order <- TwoOrders
  Caller <- OneCaller
  Expirer <- OneExpirer
  Shares <- EvenFunders
  Whole = 2
  Discount <- HalfOff
  BasisPoints = 10
  Subtotals <- OddCart
  MaxSpend = 10
  MaxUses = 2
  PerBuyerMaxUses = 2
  MaxFaults = 1
INVARIANTS BooksAgree HoldsCloseWithOrder EveryPartSettles SettledIsCaptured
PROPERTIES EndsOnce AbandonedCartsEnd
CHECK_DEADLOCK FALSE
