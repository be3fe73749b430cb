SPECIFICATION FairSpec
CONSTANTS
  r1 = r1
  r2 = r2
  r3 = r3
  r4 = r4
  r5 = r5
  r6 = r6
  p1 = p1
  p2 = p2
  None = None
  Requests = {r1, r2, r3, r4, r5, r6}
  Products = {p1, p2}
  Keys = {"k1", "k2"}
  Key <- OrderKeys
  Items <- OrderItems
  Declined = {r2}
  Malformed = {r6}
  Price <- OrderPrices
  StartStock <- OrderStocks
  IntHalf = 8
  Faulty = {r3}
INVARIANTS
  TypeOK
  AtMostOneOrderPerKey
  KeysLeadToOrders
  AnswersAgree
  OrdersAreWhole
  PaidRequestsHaveOrders
  StockConserved
  TotalsExact
PROPERTIES
  ImplementsShop
  EveryRequestAnswered
CHECK_DEADLOCK FALSE
