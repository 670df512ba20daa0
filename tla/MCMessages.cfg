SPECIFICATION Spec
CONSTANTS
  Users = {a, b, c}
  Movers = {c}
  MessageUids = {m1}
  NoRow = NoRow
  Requests = {r1, r2, r3}
  MaxFailures = 1
SYMMETRY MessageSymmetry
INVARIANTS
  StatusFollowsReceipts
  MembersGetReceipts
  SomeoneLearns
CHECK_DEADLOCK FALSE
