\* Each of the pages of customers and drivers on its own: two calls, attempts, tabs or
\* requests at a time, two sessions.
CONSTANTS
  NoData = NoData
  None = None
  DONE = DONE
  FAILED = FAILED
  Empty = Empty
  NoDriver = NoDriver
  NoTxn = NoTxn
  NoOrder = NoOrder
  Two = {x1, x2}
  Session = {s1, s2}
  Slot = {"meal"}
  price <- PriceOfItem
  Amount = {1}
  MaxSize = 2
  MinTotal = 500
  MaxTotal = 20000
  Discount = 20
  MaxOrders = 2
  Given = {6, 5}
  PageSize = 2
  MaxReviews = 3
SPECIFICATION Spec
SYMMETRY Symmetry
INVARIANTS
  TypeOK
  UndisturbedTabAgrees
  OrderedAsTold
  ToldHolds
  OneSessionPerAttempt
  CookieIsGood
PROPERTIES
  ShownNeverGoesBack
  OwnReviewKept
\* Customers may leave, and every id may be used.
CHECK_DEADLOCK FALSE
