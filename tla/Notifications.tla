----------------------------- MODULE Notifications -----------------------------
(***************************************************************************)
(* Delivery of notifications (NotificationsGateway, NotificationsService,  *)
(* DevicesService): an event is delivered to one recipient after another,  *)
(* each time with a row of Notifications and then over the socket if the   *)
(* user is connected, and by a push to the user's devices if not.          *)
(*                                                                         *)
(* Who is connected is a map in memory, kept by the handlers of connection *)
(* and disconnection.  The first one authenticates the socket before it    *)
(* tracks it, and the socket may be closed by then.  Joining a room and    *)
(* tracking are one step: with the adapter in memory nothing comes between. *)
(***************************************************************************)
EXTENDS Naturals, FiniteSets

CONSTANTS
  Users,        \* those who are notified
  Sockets,      \* the sockets that may be opened, each once
  Tokens,       \* the FCM tokens of devices
  NoUser,       \* "there is no such row", and "not connected yet"
  Events,       \* the events that may be under way
  MaxFailures   \* how many awaits may fail

NotificationsAssumption ==
  /\ NoUser \notin Users
  /\ MaxFailures \in Nat

VARIABLES
  socket,     \* the user, the step of handleConnection and whether it is up
  connected,  \* connectedUsers; a user without sockets has the empty set
  device,     \* Devices: the user and isActive by fcmToken
  event,      \* what the listener of each event is doing
  result,     \* how far the notification of each recipient has come
  ghosts,     \* history: who has had a socket closed before it was tracked
  failures    \* how many awaits have failed

vars == <<socket, connected, device, event, result, ghosts, failures>>

-----------------------------------------------------------------------------
\* "message" is handleNewMessage, which counts unread messages; "members" is
\* handleMessageDeleted; "given" are the listeners that are told the recipients,
\* of a type that is pushed or of one that is not.
Kinds == {"message", "members", "given", "givenSilent"}

Socket == [user : Users, step : {"auth", "count", "done"}, up : BOOLEAN]

Steps == {"receivers", "next", "count", "row", "tokens", "send", "mark", "over"}

Idle == [pc |-> "idle"]

\* left are the recipients still to come, user the one at hand, tokens the
\* devices to push to, and steady those that have been the user's ever since
\* his row is there.
Event ==
  [kind : Kinds, pc : Steps, recipients : SUBSET Users, left : SUBSET Users,
   user : Users \cup {NoUser}, tokens : SUBSET Tokens, steady : SUBSET Tokens]

\* none: not reached; lost: its insert failed; cut: the listener gave up
\* before; row: it is stored; socket: emitted to an open socket; nobody:
\* emitted to none; push: accepted by Firebase; recorded: and sentViaPush set;
\* gone: deleted by the user meanwhile.
Results == {"none", "lost", "cut", "row", "socket", "nobody", "push", "recorded", "gone"}

NotConnected == [user |-> NoUser, step |-> "auth", up |-> FALSE]

At(e, pc) == event[e].pc = pc
TokensOf(u) == {t \in Tokens : device[t].user = u /\ device[t].isActive}
Room(u) == {s \in Sockets : socket[s].user = u /\ socket[s].up /\ socket[s].step # "auth"}

Init ==
  /\ socket = [s \in Sockets |-> NotConnected]
  /\ connected = [u \in Users |-> {}]
  /\ device = [t \in Tokens |-> [user |-> NoUser, isActive |-> FALSE]]
  /\ event = [e \in Events |-> Idle]
  /\ result = [e \in Events |-> [u \in Users |-> "none"]]
  /\ ghosts = {}
  /\ failures = 0

-----------------------------------------------------------------------------
(* handleConnection and handleDisconnect.                                  *)

delivery == <<device, event, result>>

\* The handler starts by authenticating the socket.
Connect(s, u) ==
  /\ socket[s].user = NoUser
  /\ socket' = [socket EXCEPT ![s] = [user |-> u, step |-> "auth", up |-> TRUE]]
  /\ UNCHANGED <<connected, delivery, ghosts, failures>>

\* Mutant: the connection replaces the sockets of the user.
TrackOnly(s) ==
  LET u == socket[s].user IN
  /\ u # NoUser /\ socket[s].step = "auth"
  /\ socket' = [socket EXCEPT ![s].step = "count"]
  /\ connected' = [connected EXCEPT ![u] = {s}]
  /\ ghosts' = IF socket[s].up THEN ghosts ELSE ghosts \cup {u}
  /\ UNCHANGED <<delivery, failures>>

\* The token is good: join the room and track the socket, open or not.
Track(s) ==
  LET u == socket[s].user IN
  /\ u # NoUser /\ socket[s].step = "auth"
  /\ socket' = [socket EXCEPT ![s].step = "count"]
  /\ connected' = [connected EXCEPT ![u] = @ \cup {s}]
  /\ ghosts' = IF socket[s].up THEN ghosts ELSE ghosts \cup {u}
  /\ UNCHANGED <<delivery, failures>>

\* The token is not good: the handler disconnects the socket and returns.
RefuseSocket(s) ==
  /\ socket[s].user # NoUser /\ socket[s].step = "auth"
  /\ socket' = [socket EXCEPT ![s].step = "done", ![s].up = FALSE]
  /\ UNCHANGED <<connected, delivery, ghosts, failures>>

SendUnreadCount(s) ==
  /\ socket[s].step = "count"
  /\ socket' = [socket EXCEPT ![s].step = "done"]
  /\ UNCHANGED <<connected, delivery, ghosts, failures>>

\* Before it is authenticated a socket has no userUid to be looked up by.
Close(s) ==
  LET u == socket[s].user IN
  /\ socket[s].up
  /\ socket' = [socket EXCEPT ![s].up = FALSE]
  /\ connected' = IF socket[s].step = "auth" THEN connected
                  ELSE [connected EXCEPT ![u] = @ \ {s}]
  /\ UNCHANGED <<delivery, ghosts, failures>>

\* The count of unread notifications fails: the handler disconnects the socket,
\* and handleDisconnect runs if it was still up.
CountFails(s) ==
  LET u == socket[s].user IN
  /\ socket[s].step = "count"
  /\ failures < MaxFailures
  /\ failures' = failures + 1
  /\ socket' = [socket EXCEPT ![s].step = "done", ![s].up = FALSE]
  /\ connected' = IF socket[s].up THEN [connected EXCEPT ![u] = @ \ {s}] ELSE connected
  /\ UNCHANGED <<delivery, ghosts>>

-----------------------------------------------------------------------------
(* DevicesService.                                                         *)

sockets == <<socket, connected, ghosts>>

\* A token that has changed hands is nobody's steady token any more.
Unsteady(t, u) ==
  event' = [e \in Events |->
    IF event[e] # Idle /\ event[e].user # u
    THEN [event[e] EXCEPT !.steady = @ \ {t}] ELSE event[e]]

\* Once Firebase knows the token, which is asked before anything is read: the
\* row of the token gets the user and is active, whoever it was before.
RegisterDevice(u, t) ==
  /\ device' = [device EXCEPT ![t] = [user |-> u, isActive |-> TRUE]]
  /\ Unsteady(t, u)
  /\ UNCHANGED <<sockets, result, failures>>

\* By token, whoever has it now.
UnregisterDevice(t) ==
  /\ device[t].user # NoUser
  /\ device' = [device EXCEPT ![t].isActive = FALSE]
  /\ Unsteady(t, NoUser)
  /\ UNCHANGED <<sockets, result, failures>>

-----------------------------------------------------------------------------
(* The listeners, and sendNotification for one recipient.                  *)

Become(e, q) == event' = [event EXCEPT ![e] = q]
Goto(e, pc) == event' = [event EXCEPT ![e].pc = pc]
Note(e, x) == result' = [result EXCEPT ![e][event[e].user] = x]

\* On to the next recipient, after the one at hand.
Done(e) ==
  Become(e, [event[e] EXCEPT !.pc = "next", !.user = NoUser, !.tokens = {}, !.steady = {}])

EventArrives(e, k, S) ==
  /\ event[e] = Idle \/ At(e, "over")
  /\ Become(e, [kind |-> k, pc |-> IF k \in {"message", "members"} THEN "receivers" ELSE "next",
                recipients |-> S, left |-> S, user |-> NoUser, tokens |-> {}, steady |-> {}])
  /\ result' = [result EXCEPT ![e] = [u \in Users |-> "none"]]
  /\ UNCHANGED <<sockets, device, failures>>

\* getReceiverUids.
ReadReceivers(e) ==
  /\ At(e, "receivers")
  /\ Goto(e, "next")
  /\ UNCHANGED <<sockets, device, result, failures>>

\* The loop takes the next recipient or ends.
NextRecipient(e) ==
  LET q == event[e] IN
  /\ At(e, "next")
  /\ \/ q.left = {} /\ Goto(e, "over")
     \/ \E u \in q.left :
          Become(e, [q EXCEPT !.user = u, !.left = @ \ {u},
                              !.pc = IF q.kind = "message" THEN "count" ELSE "row"])
  /\ UNCHANGED <<sockets, device, result, failures>>

\* getUnreadMessagesCount.
CountUnread(e) ==
  /\ At(e, "count")
  /\ Goto(e, "row")
  /\ UNCHANGED <<sockets, device, result, failures>>

\* Mutant: whoever has ever been connected counts as connected.
DeliverIfRoom(e) ==
  LET q == event[e] IN
  /\ At(e, "row")
  /\ IF \E s \in Sockets : socket[s].user = q.user
     THEN Note(e, IF Room(q.user) # {} THEN "socket" ELSE "nobody") /\ Done(e)
     ELSE /\ Note(e, "row")
          /\ IF q.kind = "givenSilent" THEN Done(e)
             ELSE Become(e, [q EXCEPT !.pc = "tokens", !.steady = TokensOf(q.user)])
  /\ UNCHANGED <<sockets, device, failures>>

\* The row is stored; without another await the map decides on the way.
CreateNotification(e) ==
  LET q == event[e] IN
  /\ At(e, "row")
  /\ IF connected[q.user] # {}
     THEN Note(e, IF Room(q.user) # {} THEN "socket" ELSE "nobody") /\ Done(e)
     ELSE /\ Note(e, "row")
          /\ IF q.kind = "givenSilent" THEN Done(e)
             ELSE Become(e, [q EXCEPT !.pc = "tokens", !.steady = TokensOf(q.user)])
  /\ UNCHANGED <<sockets, device, failures>>

\* Mutant: findFirst in the place of findMany.
FindOneToken(e) ==
  LET q == event[e] IN
  /\ At(e, "tokens")
  /\ \/ TokensOf(q.user) = {} /\ Done(e)
     \/ \E t \in TokensOf(q.user) : Become(e, [q EXCEPT !.pc = "send", !.tokens = {t}])
  /\ UNCHANGED <<sockets, device, result, failures>>

\* getUserFcmTokens.
FindTokens(e) ==
  LET q == event[e] IN
  /\ At(e, "tokens")
  /\ IF TokensOf(q.user) = {} THEN Done(e)
     ELSE Become(e, [q EXCEPT !.pc = "send", !.tokens = TokensOf(q.user)])
  /\ UNCHANGED <<sockets, device, result, failures>>

\* Firebase takes the call, for all tokens at once.
SendToTokens(e) ==
  /\ At(e, "send")
  /\ Note(e, IF result[e][event[e].user] = "gone" THEN "gone" ELSE "push")
  /\ Goto(e, "mark")
  /\ UNCHANGED <<sockets, device, failures>>

\* sentViaPush; the update throws when the row is gone, which is logged.
MarkSent(e) ==
  /\ At(e, "mark")
  /\ Note(e, IF result[e][event[e].user] = "gone" THEN "gone" ELSE "recorded")
  /\ Done(e)
  /\ UNCHANGED <<sockets, device, failures>>

\* NotificationsService.delete, of the user's own notification.
DeleteNotification(e, u) ==
  /\ result[e][u] \notin {"none", "lost", "cut", "gone"}
  /\ result' = [result EXCEPT ![e][u] = "gone"]
  /\ UNCHANGED <<sockets, device, event, failures>>

\* Mutant: sendNotification passes the error on.
FailsThrough(e) ==
  LET q == event[e] IN
  /\ q # Idle /\ q.pc \notin {"next", "over"}
  /\ failures < MaxFailures
  /\ failures' = failures + 1
  /\ Become(e, [q EXCEPT !.pc = "over", !.user = NoUser, !.tokens = {}, !.steady = {}])
  /\ result' = [result EXCEPT ![e] = [u \in Users |->
       IF q.pc \in {"receivers", "count"} /\ u \in q.left \cup {q.user}
       THEN "cut" ELSE result[e][u]]]
  /\ UNCHANGED <<sockets, device>>

\* An await of the listener rejects.  sendNotification and
\* sendPushNotification catch their own; the reads of the loop end it.
AwaitFails(e) ==
  LET q == event[e] IN
  /\ q # Idle /\ q.pc \notin {"next", "over"}
  /\ failures < MaxFailures
  /\ failures' = failures + 1
  /\ IF q.pc \in {"receivers", "count"}
     THEN /\ Become(e, [q EXCEPT !.pc = "over", !.user = NoUser, !.left = {}])
          /\ result' = [result EXCEPT ![e] = [u \in Users |->
               IF u \in q.left \cup {q.user} THEN "cut" ELSE result[e][u]]]
     ELSE /\ Done(e)
          /\ IF q.pc = "row" THEN Note(e, "lost") ELSE UNCHANGED result
  /\ UNCHANGED <<sockets, device>>

Next ==
  \/ \E s \in Sockets :
       \/ \E u \in Users : Connect(s, u)
       \/ Track(s) \/ RefuseSocket(s) \/ SendUnreadCount(s) \/ Close(s) \/ CountFails(s)
  \/ \E t \in Tokens : UnregisterDevice(t) \/ \E u \in Users : RegisterDevice(u, t)
  \/ \E e \in Events :
       \/ \E k \in Kinds, S \in SUBSET Users : EventArrives(e, k, S)
       \/ ReadReceivers(e) \/ NextRecipient(e) \/ CountUnread(e) \/ CreateNotification(e)
       \/ FindTokens(e) \/ SendToTokens(e) \/ MarkSent(e) \/ AwaitFails(e)
       \/ \E u \in Users : DeleteNotification(e, u)

Spec == Init /\ [][Next]_vars

-----------------------------------------------------------------------------
(* Properties.                                                             *)

\* Every socket, row, listener and history keeps its type; a push is on its way
\* only to devices.
TypeOK ==
  /\ socket \in [Sockets -> Socket \cup {NotConnected} \cup
                   [user : Users, step : {"done"}, up : {FALSE}]]
  /\ connected \in [Users -> SUBSET Sockets]
  /\ device \in [Tokens -> [user : Users \cup {NoUser}, isActive : BOOLEAN]]
  /\ \A e \in Events : event[e] = Idle \/
       (event[e] \in Event /\ (event[e].pc \in {"send", "mark"} => event[e].tokens # {}))
  /\ result \in [Events -> [Users -> Results]]
  /\ ghosts \subseteq Users
  /\ failures \in 0..MaxFailures

\* The map agrees with the sockets: an open socket of a connection that has
\* been accepted is tracked, however many others of the user come and go, and
\* a tracked socket is open unless one of the user was closed while it was
\* being authenticated (handleConnection, handleDisconnect).
TrackedAreOpen ==
  \A u \in Users :
    /\ Room(u) \subseteq connected[u]
    /\ u \notin ghosts => connected[u] = Room(u)

\* "If user disconnected: send via Firebase Push": a notification is not
\* emitted to an empty room, as long as no socket of the user was closed while
\* it was being authenticated.  From then on every notification of that user is.
EmittedIsReceived ==
  \A e \in Events, u \in Users : result[e][u] = "nobody" => u \in ghosts

\* One recipient's failure is not another's: when the listener is over, a
\* recipient without a row has lost it to the failure of its own insert or to
\* one of the two reads the loop does not survive (handleNewMessage,
\* handleMessageDeleted, handleNotificationSendToMultiple).
NobodyIsForgotten ==
  \A e \in Events : event[e] # Idle =>
    \A u \in event[e].recipients :
      \/ result[e][u] # "none"
      \/ ~At(e, "over") /\ u \in event[e].left \cup {event[e].user}

\* A push goes to every device that has been the user's from the moment his
\* notification was stored until Firebase takes the call, whatever other
\* devices come and go and change hands (getUserFcmTokens).
PushReachesSteadyDevices ==
  \A e \in Events : At(e, "mark") => event[e].steady \subseteq event[e].tokens

\* Every recipient is reached on his own, by a socket or by all his devices.
EveryRecipientIsReached == NobodyIsForgotten /\ EmittedIsReceived /\ PushReachesSteadyDevices
=============================================================================
