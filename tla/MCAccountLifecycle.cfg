SPECIFICATION PartsSpec
CONSTANTS
  ana = ana
  bob = bob
  x = x
  y = y
  m = m
  n = n
  Requests = {r1, r2}
  Sports = {x, y}
  GameModes = {m, n}
  SportLists <- Lists
  Days = {"mon"}
  Dates = {"d1"}
  DayOf <- IsMonday
  HourLists <- ShortLists
  PreferenceFailures = 1
  Users = {ana, bob}
  AppleUsers = {bob}
  PayerSets <- NoneOrAna
  Grace = 2
  Retention = 1
  None = None
  Gone = Gone
  MaxFailures = 2
  Raters = {ana, bob}
  Notes = {"good", "bad"}
  NoNote = "none"
  RatingLists <- ListsOfRatings
  RatingFailures = 1
INVARIANTS
  AnonymizedIsRevoked
PROPERTIES
  OnlyDueIsAnonymized
  DeletionHappens
  AnonymizedIsPurged
  ListsStayWhole
  RatingsAreEarned
CHECK_DEADLOCK FALSE
