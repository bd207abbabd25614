SPECIFICATION LinkSpec
CONSTANTS
  Emails = {e1}
  Customers = {x1, x2}
  PerEmail = 2
  MaxRequests = 3
  MaxOpen = 3
  MaxCrashes = 1
INVARIANTS
  RedeemedOnce
  FewLinks
CHECK_DEADLOCK FALSE
