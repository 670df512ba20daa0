SPECIFICATION PartsSpec
CONSTANTS
  ana = ana
  bob = bob
  lea = lea
  max = max
  Users = {ana, bob}
  Movers = {bob}
  Answers = {"PENDING", "ACCEPTED", "REJECTED", "CANCELED"}
  Lists = {{bob}}
  Teams = {A, B}
  SessionUid = theSession
  Requests = {r1}
  BlockPairs <- OneBlock
  Writers = {}
  Players = {}
  Quarrels = {}
  ConversationUids = {}
  NoRow = NoRow
  MaxFailures = 0
PROPERTIES
  AcceptAddsPlayer
CHECK_DEADLOCK FALSE
