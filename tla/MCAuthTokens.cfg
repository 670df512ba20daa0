SPECIFICATION PartsSpec
CONSTANTS
  Users = {u1, u2}
  AccessUids = {a1, a2}
  RefreshUids = {x1, x2, x3}
  Spellings = {"small", "capitals"}
  Small = "small"
  Elsewhere = "elsewhere"
  NoRow = NoRow
  Gone = Gone
  CodeUids = {c1, c2}
  Resets = 2
  Requests = {r1, r2}
  MaxFailures = 1
SYMMETRY UidSymmetry
INVARIANTS
  OneAccount
  OneTokenPerSignIn
  EndedIsOver
  CodesDie
PROPERTIES
  RefreshKeepsSignIn
CHECK_DEADLOCK FALSE
