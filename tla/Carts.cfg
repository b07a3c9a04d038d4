\* Items of two restaurants that may leave their menu, two amounts, two racing upserts of
\* a user without a cart, an unknown coupon, and two checkouts at once that may be retried.
CONSTANTS
  a = a
  b = b
  i1 = i1
  User = {u1}
  Item = {i1, i2}
  Restaurant = {a, b}
  Amount = {1, 2}
  CartItemId = {x1, x2}
  Coupon = {}
  BadCoupon = {k1}
  Checkout = {r1, r2}
  MaxCarts = 2
  restaurantOf <- RestaurantOfItem
  NoUser = NoUser
  NoRestaurant = NoRestaurant
  NoCoupon = NoCoupon
SPECIFICATION Spec
SYMMETRY Symmetry
INVARIANTS
  TypeOK
  ItemInOnePlace
  OrdersAreSellable
PROPERTY ImplementsLedger
\* Every item may be ordered and every request answered.
CHECK_DEADLOCK FALSE
