SPECIFICATION PlatformSpec
CONSTANTS
  Users = {u1}
  Codes = {c1}
  Adjustments = {n1}
  Orders = {j1}
  Quantity = 2
  Worth = 2
  Urls = {url1}
  Models = {m1}
  Prices = {1}
  Syncs = {s1}
  MaxRevision = 4
INVARIANTS
  BooksBalance
  OffersReported
  ChoicesStand
  RunsAsCharged
