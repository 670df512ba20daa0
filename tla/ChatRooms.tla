------------------------------- MODULE ChatRooms -------------------------------
(***************************************************************************)
(* The rooms of the chat (ChatGateway): what is said in a conversation is  *)
(* told to the sockets in its room, while its members are rows of          *)
(* Conversation_members.  A socket enters rooms when it connects, when a   *)
(* message to a recipient is sent and when it asks to; it leaves them when *)
(* it asks to and when it closes.  Nothing else keeps the two together.    *)
(*                                                                         *)
(* The server runs one callback at a time, so a handler is interrupted at  *)
(* its database calls only; the rooms are in memory.  How a conversation   *)
(* is found for a message is in Conversations.                             *)
(***************************************************************************)
EXTENDS FiniteSets

CONSTANTS
  Users,          \* the users
  Sockets,        \* the sockets that may be open at one time
  Owner,          \* whose token a socket carries
  Groups,         \* the conversations of sessions
  Privates        \* the uids of private conversations that may be made

RoomsAssumption ==
  /\ Owner \in [Sockets -> Users]
  /\ Groups \cap Privates = {}

VARIABLES
  member,     \* Conversation_members: the users by conversation
  connecting, \* how far handleConnection has come, by socket
  userUid,    \* the sockets with client.data.userUid
  rooms,      \* the conversations whose rooms a socket is in
  sending,    \* the sendMessage of each socket, which outlives it
  been,       \* history: everyone a conversation has ever had
  found,      \* history: the conversations handed to a socket as it connected
  excused     \* history: rooms a socket has left, and those of conversations its
              \* user was added to when its memberships had been read

hist == <<been, found, excused>>
vars == <<member, connecting, userUid, rooms, sending, hist>>

-----------------------------------------------------------------------------
Conversations == Groups \cup Privates
NotSending == [to |-> {}, conversation |-> {}]

\* A message goes to a recipient, or to a conversation (no recipient); once it
\* is stored it has its conversation.
Sending == [to : SUBSET Users, conversation : SUBSET Conversations]

Open(s) == connecting[s] # "closed"
Exists(c) == member[c] # {}

Init ==
  /\ member = [c \in Conversations |-> {}]
  /\ connecting = [s \in Sockets |-> "closed"]
  /\ userUid = {}
  /\ rooms = [s \in Sockets |-> {}]
  /\ sending = [s \in Sockets |-> NotSending]
  /\ been = [c \in Conversations |-> {}]
  /\ found = [s \in Sockets |-> {}]
  /\ excused = [s \in Sockets |-> {}]

-----------------------------------------------------------------------------
(* Connecting.                                                             *)

\* handleConnection begins.  Guards do not run for it, so client.data.userUid
\* is not there yet.
Connect(s) ==
  /\ ~Open(s)
  /\ connecting' = [connecting EXCEPT ![s] = "finding"]
  /\ UNCHANGED <<member, userUid, rooms, sending, hist>>

\* The memberships of the user who is not known, which to Prisma is no
\* condition at all: every conversation with a member.
FindMemberships(s) ==
  /\ connecting[s] = "finding"
  /\ connecting' = [connecting EXCEPT ![s] = "joining"]
  /\ found' = [found EXCEPT ![s] = {c \in Conversations : Exists(c)}]
  /\ UNCHANGED <<member, userUid, rooms, sending, been, excused>>

\* Mutant: only the conversations of sessions have rooms.
JoinFoundGroups(s) ==
  /\ connecting[s] = "joining"
  /\ connecting' = [connecting EXCEPT ![s] = "connected"]
  /\ rooms' = [rooms EXCEPT ![s] = @ \cup (found[s] \cap Groups)]
  /\ excused' = [excused EXCEPT ![s] = @ \ found[s]]
  /\ UNCHANGED <<member, userUid, sending, been, found>>

JoinFound(s) ==
  /\ connecting[s] = "joining"
  /\ connecting' = [connecting EXCEPT ![s] = "connected"]
  /\ rooms' = [rooms EXCEPT ![s] = @ \cup found[s]]
  /\ excused' = [excused EXCEPT ![s] = @ \ found[s]]
  /\ UNCHANGED <<member, userUid, sending, been, found>>

\* The socket goes away, or it is disconnected: by either gateway when its
\* query or the authentication fails.  Its rooms go with it; the handler of its
\* message goes on.
Close(s) ==
  /\ Open(s)
  /\ connecting' = [connecting EXCEPT ![s] = "closed"]
  /\ userUid' = userUid \ {s}
  /\ rooms' = [rooms EXCEPT ![s] = {}]
  /\ found' = [found EXCEPT ![s] = {}]
  /\ excused' = [excused EXCEPT ![s] = {}]
  /\ UNCHANGED <<member, sending, been>>

\* authenticateSocket, by the notifications gateway as the socket connects or
\* by the guard of the first thing it says.
Authenticate(s) ==
  /\ Open(s)
  /\ userUid' = userUid \cup {s}
  /\ UNCHANGED <<member, connecting, rooms, sending, hist>>

-----------------------------------------------------------------------------
(* Members.                                                                *)

\* The users us are members of c from now on; a socket that has seen its
\* conversations has not seen this one.
AddMembers(c, us) ==
  /\ member' = [member EXCEPT ![c] = @ \cup us]
  /\ been' = [been EXCEPT ![c] = @ \cup us]
  /\ excused' = [s \in Sockets |->
       IF /\ connecting[s] \in {"joining", "connected"}
          /\ Owner[s] \in us \ member[c] /\ c \notin rooms[s] \cup found[s]
       THEN excused[s] \cup {c} ELSE excused[s]]
  /\ UNCHANGED found

\* The creator's session, or a player who joins it.
PlayerJoins(c, u) ==
  /\ u \notin member[c]
  /\ AddMembers(c, {u})
  /\ UNCHANGED <<connecting, userUid, rooms, sending>>

\* The player leaves the session; the sockets stay in the room.
PlayerLeaves(c, u) ==
  /\ u \in member[c]
  /\ member' = [member EXCEPT ![c] = @ \ {u}]
  /\ UNCHANGED <<connecting, userUid, rooms, sending, hist>>

-----------------------------------------------------------------------------
(* sendMessage, from the message that is stored to the broadcast.          *)

\* createMessage of a message to one's recipient: into their conversation, or
\* into a new one with both as members.
StoreToRecipient(s, v) ==
  LET u == Owner[s]
      theirs == {c \in Privates : {u, v} \subseteq member[c]} IN
  /\ s \in userUid
  /\ sending[s] = NotSending
  /\ \E c \in (IF theirs # {} THEN theirs ELSE {p \in Privates : ~Exists(p)}) :
       /\ sending' = [sending EXCEPT ![s] = [to |-> {v}, conversation |-> {c}]]
       /\ IF c \in theirs THEN UNCHANGED <<member, hist>> ELSE AddMembers(c, {u, v})
  /\ UNCHANGED <<connecting, userUid, rooms>>

\* The rest of the handler: with a recipient, every socket known to be one of
\* the two enters the room, those that have left it too; then the room is told.
Broadcast(s) ==
  LET entering == {t \in userUid :
                     sending[s].to # {} /\ Owner[t] \in {Owner[s]} \cup sending[s].to}
      into == sending[s].conversation IN
  /\ sending[s] # NotSending
  /\ rooms' = [t \in Sockets |-> IF t \in entering THEN rooms[t] \cup into ELSE rooms[t]]
  /\ sending' = [sending EXCEPT ![s] = NotSending]
  /\ excused' = [t \in Sockets |-> IF t \in entering THEN excused[t] \ into ELSE excused[t]]
  /\ UNCHANGED <<member, connecting, userUid, been, found>>

-----------------------------------------------------------------------------
(* joinConversation and leaveConversation.                                 *)

Enter(s, c) ==
  /\ rooms' = [rooms EXCEPT ![s] = @ \cup {c}]
  /\ excused' = [excused EXCEPT ![s] = @ \ {c}]
  /\ UNCHANGED <<member, connecting, userUid, sending, been, found>>

\* The membership is asked for and the room entered with nothing in between
\* that would tell.  Mutant: any conversation will do.
JoinConversationOfOthers(s, c) == s \in userUid /\ Exists(c) /\ Enter(s, c)

JoinConversation(s, c) == s \in userUid /\ Owner[s] \in member[c] /\ Enter(s, c)

LeaveConversation(s, c) ==
  /\ s \in userUid
  /\ c \in rooms[s]
  /\ rooms' = [rooms EXCEPT ![s] = @ \ {c}]
  /\ excused' = [excused EXCEPT ![s] = @ \cup {c}]
  /\ UNCHANGED <<member, connecting, userUid, sending, been, found>>

Next ==
  \/ \E s \in Sockets :
       \/ Connect(s) \/ FindMemberships(s) \/ JoinFound(s) \/ Close(s)
       \/ Authenticate(s) \/ Broadcast(s)
       \/ \E v \in Users \ {Owner[s]} : StoreToRecipient(s, v)
       \/ \E c \in Conversations : JoinConversation(s, c) \/ LeaveConversation(s, c)
  \/ \E c \in Groups, u \in Users : PlayerJoins(c, u) \/ PlayerLeaves(c, u)

Spec == Init /\ [][Next]_vars

-----------------------------------------------------------------------------
(* Properties.                                                             *)

\* Sockets, rooms and messages keep their types; what is sent belongs to two
\* members; a closed socket is nowhere.
TypeOK ==
  /\ member \in [Conversations -> SUBSET Users]
  /\ connecting \in [Sockets -> {"closed", "finding", "joining", "connected"}]
  /\ userUid \subseteq {s \in Sockets : Open(s)}
  /\ rooms \in [Sockets -> SUBSET Conversations]
  /\ sending \in [Sockets -> Sending]
  /\ \A s \in Sockets :
       /\ ~Open(s) => rooms[s] = {}
       /\ \A c \in sending[s].conversation \cap Privates :
            {Owner[s]} \cup sending[s].to \subseteq member[c]
  /\ been \in [Conversations -> SUBSET Users]
  /\ \A c \in Conversations : member[c] \subseteq been[c]
  /\ found \in [Sockets -> SUBSET Conversations]
  /\ excused \in [Sockets -> SUBSET Conversations]

\* A connected socket is in the room of each conversation of its user, but for
\* rooms it has left and for conversations the user was added to since the
\* memberships were read, by a session or by a message whose sender has not
\* brought the socket in.  So who connects as a member hears what is said.
MembersHear ==
  \A s \in Sockets, c \in Conversations :
    connecting[s] = "connected" /\ Owner[s] \in member[c]
      => c \in rooms[s] \cup excused[s]

\* A socket is in the room of a conversation its user never was in only because
\* that was among the memberships handed to it as it connected, which are those
\* of all users: who asks to join, and who is brought in by a message, is a
\* member or has been one.
StrangersWereHanded ==
  \A s \in Sockets : \A c \in rooms[s] : Owner[s] \in been[c] \/ c \in found[s]

\* For every room a socket is in, and every one it should be in and is not,
\* there is one of these reasons.
RoomsAreExplained == MembersHear /\ StrangersWereHanded
=============================================================================
