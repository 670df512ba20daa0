SPECIFICATION FriendsSpec
CONSTANTS
  Users = {u1, u2}
  Requests = {r1, r2, r3}
  Ops = {"create", "update", "remove", "block", "unblock"}
  MaxFailures = 1
  MaxRow = 4
  Limits = {1, 2}
  DefaultLimit = 2
  MaxChanges = 2
  MaxInvitations = 2
  RoomUsers = {v1, v2}
  RoomSockets = {s1, s2}
  RoomOwner <- SocketForEach
  Groups = {"session"}
  Privates = {"private"}
SYMMETRY FriendSymmetry
INVARIANTS
  RequestsAreSound
  NoRowIsLeftOver
  PagesShowRowsOnce
  
PROPERTIES
  OnlyReceiverAccepts
CHECK_DEADLOCK FALSE
