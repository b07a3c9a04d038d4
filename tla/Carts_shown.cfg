\* One user, nothing bought.
CONSTANTS
  a = a
  b = b
  i1 = i1
  User = {u1}
  Item = {i1}
  Restaurant = {a, b}
  Amount = {1}
  CartItemId = {x1, x2}
  Coupon = {}
  BadCoupon = {}
  Checkout = {r1}
  MaxCarts = 2
  restaurantOf <- RestaurantOfItem
  NoUser = NoUser
  NoRestaurant = NoRestaurant
  NoCoupon = NoCoupon
SPECIFICATION Spec
SYMMETRY Symmetry
INVARIANT CartShowsAllItems
CHECK_DEADLOCK FALSE
