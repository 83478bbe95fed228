SPECIFICATION LimitsSpec
CONSTANTS
  owner = owner
  p1 = p1
  p2 = p2
  p3 = p3
  i1 = i1
  i2 = i2
  j1 = j1
  j2 = j2
  b1 = b1
  b2 = b2
  f1 = f1
  f2 = f2
  k1 = k1
  k2 = k2
  n1 = n1
  n2 = n2
  t1 = t1
  t2 = t2
  Persons = {owner, p1, p2, p3}
  Owner = owner
  TeamInvites = {i1, i2}
  MaxUses <- Uses21
  Joiners = {j1, j2}
  MaxSeats = 2
  JoinBound = 5
  NoOne = NoOne
  Buyers = {b1, b2}
  Coupon = coupon
  Prices <- PriceList
  Terms <- TermList
  Rates = {1950}
  Caps = {1, 2}
  SellTime = 1
  EditBound = 1
  CheckoutBound = 3
  People = {f1, f2, k1}
  Founders = {f1, f2}
  AdminInvites = {n1, n2}
  Invitee <- Invitees
  AdminTasks = {t1, t2}
  MaxPending = 1
  AdminBound = 6
  Nil = Nil
  Attempts = {t1, t2}
  Address = address
  MaxFailed = 2
  LockTime = 2
  HourBound = 6
  RateWindow = 4
  Second = 2
  MaxRequests = 3
  MomentBound = 10
SYMMETRY Symmetry
INVARIANTS LimitsTypeOK EveryUseCounted InvoiceAddsUp InviteMakesOne WindowHolds RetryIsClose
PROPERTIES SeatsImplement CouponImplements AdminsImplement GuessesImplement
CHECK_DEADLOCK FALSE
