SPECIFICATION Spec
CONSTANTS
  c1 = c1  b1 = b1  b2 = b2  o1 = o1  o2 = o2  o3 = o3  p1 = p1  p2 = p2  x1 = x1  x2 = x2
  NoCode = NoCode  NoOrder = NoOrder  NoBuyer = NoBuyer
  Code <- OneCode
  Buyer <- TwoBuyers
  Denied <- Nobody
  Order <- ThreeOrders
  Caller <- TwoCallers
  Expirer <- Nobody
  Shares <- OneFunder
  Whole = 1
  Discount <- HalfOff
  BasisPoints = 10
  Subtotals <- SmallCart
  MaxSpend = 3
  MaxUses = 2
  PerBuyerMaxUses = 1
  MaxFaults = 0
SYMMETRY OrderCallerSymmetry
INVARIANTS UsesKept SpendKept
CHECK_DEADLOCK FALSE
