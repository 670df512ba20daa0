SPECIFICATION PartsSpec
CONSTANTS
  Fields = {F}
  Private = {F}
  Offered = {F}
  SlotUids = {s1, s2}
  SessionUids = {x1, x2}
  NoRow = NoRow
  Times = {1, 2, 3}
  Moves = {x1}
  Requests = {r1, r2}
  MaxFailures = 1
  Addresses = {"home", "park"}
  Spots = {"p", "q", "r"}
  Geo <- TheGeo
  Details <- TheDetails
  Given = {"q"}
  SportSets = {{x}}
  Objects = {o1, o2}
  MaxImages = 2
  FieldFailures = 1
  Accounts = {1, 2, 3}
  MaxEvents = 2
  PartnerFailures = 1
  Parts = {"booking", "partner"}
SYMMETRY UidSymmetry
INVARIANTS
  BookingsAreSound
  RowNamesTheAccount
  StatusFollowsStripe
PROPERTIES
  ImplementsSlotLedger
CHECK_DEADLOCK FALSE
