\* Three payments over two clock ticks, pages of one, two or three rows.
CONSTANTS
  Unset = Unset
  Payments <- MCPayments
  Mode <- MCMode
  Trip <- MCTrip
  RawLimits <- MCRawLimits
  RawDays <- MCRawDays
  MaxClock = 2
  DefaultLimit = 2
  MaxLimit = 3
  DefaultDays = 1
  MaxDays = 1
  BucketSizes = {1, 2}
SPECIFICATION Spec
INVARIANTS
  TypeOK
  NewestFirst
  ListingComplete
  AnswerHasItsTransaction
  DashboardConsistent
CHECK_DEADLOCK FALSE
