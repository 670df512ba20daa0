SPECIFICATION FairSpec
CONSTANTS
  c = c
  u1 = u1
  u2 = u2
  Users = {c, u1, u2}
  Creator = c
  Teams = {A, B}
  NoTeam = NoTeam
  Limits = {2}
  Visibility = {FALSE}
  Fans = {}
  Requests = {r1, r2}
  BlockPairs <- NoBlocks
  SingleFlight = TRUE
  MaxFailures = 0
INVARIANTS
  RosterMatchesChat
PROPERTIES
  ImplementsAtomicRoster
  SeatLeadsToChat
CHECK_DEADLOCK FALSE
