-------------------------------- MODULE MCPages --------------------------------
(***************************************************************************)
(* Small instances of Pages and ChatRooms for TLC: how one client reads a  *)
(* collection and how two sockets follow a conversation while others       *)
(* change it.  Neither reads a row the other writes, so each behaviour     *)
(* moves one of the two, or of another module, and leaves the rest as it   *)
(* begins.                                                                 *)
(***************************************************************************)
EXTENDS Naturals, TLC

CONSTANTS
  MaxRow, Limits, DefaultLimit, MaxChanges, MaxInvitations,
  RoomUsers, RoomSockets, RoomOwner, Groups, Privates

VARIABLES
  part,
  place, state, copies, scored, reader, shown, turns, steady, jumped, changes,
  member, connecting, userUid, rooms, sending, been, found, excused

pageVars == <<place, state, copies, scored, reader, shown, turns, steady, jumped, changes>>
roomVars == <<member, connecting, userUid, rooms, sending, been, found, excused>>

Paging == INSTANCE Pages

Chat == INSTANCE ChatRooms WITH
  Users <- RoomUsers, Sockets <- RoomSockets, Owner <- RoomOwner

\* Whose token a socket carries: every user has one.
SocketForEach ==
  CHOOSE owner \in [RoomSockets -> RoomUsers] :
    \A u \in RoomUsers : \E s \in RoomSockets : owner[s] = u

\* While another part moves the reader stays at the first of its lists.
ReadsInit ==
  /\ Paging!Init
  /\ Chat!Init
  /\ part # "pages" =>
       reader.list = "users" /\ reader.limit = 1 /\ \A x \in 1 .. MaxRow : state[x] = "listed"

ReadsNext ==
  \/ part = "pages" /\ Paging!Next /\ UNCHANGED <<part, roomVars>>
  \/ part = "rooms" /\ Chat!Next /\ UNCHANGED <<part, pageVars>>

\* A reader is shown every row on one page, but for the losses and repeats its
\* way of paging is known for (the services' cursors and offsets).
PagesShowRowsOnce == Paging!PagesShowRowsOnce

\* A socket misses a room of its user only if it left it or came before its
\* user, and is in a stranger's only if that was handed to it as it connected
\* (handleConnection, handleSendMessage, handleJoinConversation).
RoomsAreExplained == Chat!RoomsAreExplained

\* What the modules take for granted of these instances.
ASSUME PagesAndRoomsAssumption == Paging!PagesAssumption /\ Chat!RoomsAssumption
==============================================================================
