SPECIFICATION Spec
CONSTANTS
  c = c
  u1 = u1
  u2 = u2
  Users = {c, u1, u2}
  Creator = c
  Teams = {A}
  NoTeam = NoTeam
  Limits = {2}
  Visibility = {TRUE, FALSE}
  Fans = {u1}
  Requests = {r1, r2}
  BlockPairs <- GuestBlocks
  SingleFlight = FALSE
  MaxFailures = 1
SYMMETRY RequestSymmetry
INVARIANTS
  TypeOK
  NoStandingObjection
CHECK_DEADLOCK FALSE
