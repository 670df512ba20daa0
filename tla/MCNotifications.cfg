SPECIFICATION NotifySpec
CONSTANTS
  Recipients = {u, v}
  Sockets = {s1, s2}
  Tokens = {t1, t2}
  NoUser = NoUser
  Events = {e1}
  AlertFailures = 1
SYMMETRY DeliverySymmetry
INVARIANTS
  TrackedAreOpen
  EveryRecipientIsReached
CHECK_DEADLOCK FALSE
