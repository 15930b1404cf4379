SPECIFICATION Spec
CONSTANTS
  At = {1, 2, 3, 4, 5}
  MaxN = 3
  Requests = {0, 1, 2, 9}
  DefaultLimit = 2
  MaxLimit = 3
INVARIANTS TypeOK NoSkip QuietListingIsExact
