SPECIFICATION FairSpec
CONSTANTS
  e1 = e1
  e2 = e2
  e3 = e3
  r1 = r1
  r2 = r2
  Events = {e1, e2, e3}
  Refunds = {r1, r2}
  Scenarios <- PaymentScenarios
  Deliveries = {d1, d2}
  MaxFailures = 1
INVARIANTS
  AckedWasHandled
  PaymentFollowsStripe
PROPERTIES
  MoneyEventsAreHandled
CHECK_DEADLOCK FALSE
