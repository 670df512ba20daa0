SPECIFICATION PartsSpec
CONSTANTS
  ana = ana
  bob = bob
  lea = lea
  max = max
  Users = {ana, bob, carl}
  Movers = {bob}
  Answers = {"ACCEPTED", "REJECTED", "CANCELED"}
  Lists = {{ana, bob}}
  Teams = {A, B}
  SessionUid = theSession
  Requests = {r1, r2}
  BlockPairs <- OneBlock
  Writers = {lea, max, zoe}
  Players = {zoe}
  Quarrels <- OneQuarrel
  ConversationUids = {c1, c2}
  NoRow = NoRow
  MaxFailures = 1
SYMMETRY RequestSymmetry
INVARIANTS
  InvitationsAreSound
  PrivateIsAPair
  KnownPairIsReused
  MessagesGoWhereTheyMay
PROPERTIES
  OnlyOwnRoleWrites
CHECK_DEADLOCK FALSE
