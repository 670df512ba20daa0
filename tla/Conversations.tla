----------------------------- MODULE Conversations -----------------------------
(***************************************************************************)
(* Which conversation a message goes to (ConversationsService): a message  *)
(* names a session, a recipient or a conversation, or several of them, and *)
(* the first message to a recipient makes their private conversation.      *)
(*                                                                         *)
(* Nothing of this is in a transaction: the conversation and its members   *)
(* are inserted one after the other, and blocks come and go between the    *)
(* check and the message.  What becomes of the message itself is in        *)
(* Messages.                                                               *)
(***************************************************************************)
EXTENDS Naturals

CONSTANTS
  Users,             \* the users who write to each other
  Players,           \* those of them who may be in the session
  Quarrels,          \* the pairs one of whom may block the other; one may block himself
  ConversationUids,  \* the uids Conversations may come to hold
  NoRow,             \* "there is no such row", and "the field is not given"
  Requests,          \* the requests the server may be working on at one time
  MaxFailures        \* how many awaits may fail

ConversationsAssumption ==
  /\ NoRow \notin Users \cup ConversationUids \cup {"PRIVATE", "SESSION"}
  /\ Players \subseteq Users
  /\ Quarrels \subseteq {{u, v} : u, v \in Users}
  /\ MaxFailures \in Nat

VARIABLES
  type,      \* Conversations: the type by uid
  member,    \* Conversation_members: the users by conversation
  block,     \* User_blocks, as the pairs one of whom blocks the other
  request,   \* what each request in flight is doing
  pair,      \* history: whom each private conversation was made for
  failures   \* how many awaits have failed

vars == <<type, member, block, request, pair, failures>>

-----------------------------------------------------------------------------
Pairs == {{u, v} : u, v \in Users}

\* createMessage and, from "touch" on, createTextMessage; the settings of a
\* member are in no question asked here.
Steps == {"session", "block", "find", "create", "join", "type", "other", "block2", "touch", "insert"}

Idle == [pc |-> "idle"]

\* session and to are fields of the message, session saying whether it names
\* the session; conversation is the one it names or that is found for it, uid
\* the one being made, other the other member.  stood are the other users blocked from
\* the sender, or the other way round, ever since the request is there; known
\* says whether the two had a private conversation when it came.
Request ==
  [pc : Steps, from : Users, session : BOOLEAN, to : Users \cup {NoRow},
   uid : ConversationUids \cup {NoRow}, conversation : ConversationUids \cup {NoRow},
   other : Users \cup {NoRow}, stood : SUBSET Users, known : BOOLEAN]

At(r, pc) == request[r].pc = pc
Conversations == {c \in ConversationUids : type[c] # NoRow}
PrivateOf(u, v) == {c \in Conversations : type[c] = "PRIVATE" /\ {u, v} \subseteq member[c]}
Blocked(u) == {v \in Users : {u, v} \in block}

Init ==
  /\ type = [c \in ConversationUids |-> NoRow]
  /\ member = [c \in ConversationUids |-> {}]
  /\ block = {}
  /\ request = [r \in Requests |-> Idle]
  /\ pair = [c \in ConversationUids |-> {}]
  /\ failures = 0

-----------------------------------------------------------------------------
table == <<type, member, block>>

Become(r, q) == request' = [request EXCEPT ![r] = q]
Goto(r, pc) == request' = [request EXCEPT ![r].pc = pc]
Refuse(r) == Become(r, Idle) /\ UNCHANGED <<table, pair, failures>>

\* What follows the conversation of the session.
AfterSession(to) == IF to # NoRow THEN "block" ELSE "type"

\* A message over the socket may be addressed to its own sender; the HTTP
\* endpoint refuses it.  The fields may be given in any combination; nobody
\* has heard of a conversation that never had members.
MessageArrives(r, from, session, to, uid) ==
  /\ At(r, "idle")
  /\ uid \in {NoRow} \cup {c \in Conversations : type[c] = "SESSION" \/ member[c] # {}}
  /\ Become(r, [pc |-> IF session THEN "session" ELSE AfterSession(to),
                from |-> from, session |-> session, to |-> to, uid |-> NoRow,
                conversation |-> IF to = NoRow /\ ~session THEN uid ELSE NoRow, other |-> NoRow,
                stood |-> Blocked(from) \ {from}, known |-> to # NoRow /\ PrivateOf(from, to) # {}])
  /\ UNCHANGED <<table, pair, failures>>

-----------------------------------------------------------------------------
(* createMessage.                                                          *)

FindSessionConversation(r) ==
  LET q == request[r] IN
  /\ At(r, "session")
  /\ IF \E c \in Conversations : type[c] = "SESSION"
     THEN /\ \E c \in Conversations : type[c] = "SESSION" /\
               Become(r, [q EXCEPT !.pc = AfterSession(q.to), !.conversation = c])
          /\ UNCHANGED <<table, pair, failures>>
     ELSE Refuse(r)

\* Either way round.
CheckBlock(r) ==
  LET q == request[r] IN
  /\ At(r, "block")
  /\ IF q.to \in Blocked(q.from)
     THEN Refuse(r)
     ELSE Goto(r, "find") /\ UNCHANGED <<table, pair, failures>>

\* The conversation of a session wins over the private one, which is looked
\* for and made all the same.
Found(q, c) == IF q.session THEN q.conversation ELSE c

\* Mutant: the one private conversation of the sender is compared afterwards.
FindPrivateOfSender(r) ==
  LET q == request[r] IN
  /\ At(r, "find")
  /\ IF \E c \in PrivateOf(q.from, q.from) : q.to \notin member[c]
     THEN Goto(r, "create")
     ELSE \/ PrivateOf(q.from, q.from) = {} /\ Goto(r, "create")
          \/ \E c \in PrivateOf(q.from, q.from) :
               Become(r, [q EXCEPT !.pc = "type", !.conversation = Found(q, c)])
  /\ UNCHANGED <<table, pair, failures>>

\* findFirst: any of them, if there are several.
FindPrivate(r) ==
  LET q == request[r] IN
  /\ At(r, "find")
  /\ IF PrivateOf(q.from, q.to) = {}
     THEN Goto(r, "create")
     ELSE \E c \in PrivateOf(q.from, q.to) :
            Become(r, [q EXCEPT !.pc = "type", !.conversation = Found(q, c)])
  /\ UNCHANGED <<table, pair, failures>>

\* createPrivateConversation: the conversation first.
CreatePrivate(r) ==
  LET q == request[r] IN
  /\ At(r, "create")
  /\ \E c \in ConversationUids \ Conversations :
       /\ type' = [type EXCEPT ![c] = "PRIVATE"]
       /\ pair' = [pair EXCEPT ![c] = {q.from, q.to}]
       /\ Become(r, [q EXCEPT !.pc = "join", !.uid = c])
  /\ UNCHANGED <<member, block, failures>>

\* Mutant: the members are inserted one by one, the sender first.
CreateFirstMember(r) ==
  LET q == request[r] IN
  /\ At(r, "join")
  /\ IF q.from \notin member[q.uid]
     THEN member' = [member EXCEPT ![q.uid] = {q.from}] /\ UNCHANGED request
     ELSE /\ member' = [member EXCEPT ![q.uid] = @ \cup {q.to}]
          /\ Become(r, [q EXCEPT !.pc = "type", !.conversation = Found(q, q.uid)])
  /\ UNCHANGED <<type, block, pair, failures>>

\* createMany inserts both or none: the key refuses one user twice.
CreateMembers(r) ==
  LET q == request[r] IN
  /\ At(r, "join")
  /\ IF q.to = q.from THEN Refuse(r)
     ELSE /\ member' = [member EXCEPT ![q.uid] = {q.from, q.to}]
          /\ Become(r, [q EXCEPT !.pc = "type", !.conversation = Found(q, q.uid)])
          /\ UNCHANGED <<type, block, pair, failures>>

\* The conversation may be one that is not there; only a private one that was
\* not found by its recipient is asked for blocks.
FindConversation(r) ==
  LET q == request[r] IN
  /\ At(r, "type")
  /\ Goto(r, IF q.to = NoRow /\ q.conversation # NoRow /\ type[q.conversation] = "PRIVATE"
             THEN "other" ELSE "touch")
  /\ UNCHANGED <<table, pair, failures>>

FindOtherMember(r) ==
  LET q == request[r]
      others == member[q.conversation] \ {q.from}
  IN
  /\ At(r, "other")
  /\ \/ others = {} /\ Goto(r, "touch")
     \/ \E u \in others : Become(r, [q EXCEPT !.pc = "block2", !.other = u])
  /\ UNCHANGED <<table, pair, failures>>

\* Mutant: only the blocks of the sender are looked for, and there are none.
CheckNoBlockOfOther(r) ==
  /\ At(r, "block2")
  /\ Goto(r, "touch")
  /\ UNCHANGED <<table, pair, failures>>

CheckBlockOfOther(r) ==
  LET q == request[r] IN
  /\ At(r, "block2")
  /\ IF q.other \in Blocked(q.from)
     THEN Refuse(r)
     ELSE Goto(r, "touch") /\ UNCHANGED <<table, pair, failures>>

\* Mutant: the membership of the sender is not required.
TouchAnyone(r) ==
  /\ At(r, "touch")
  /\ IF request[r].conversation \in Conversations
     THEN Goto(r, "insert") /\ UNCHANGED <<table, pair, failures>>
     ELSE Refuse(r)

\* markMessagesAsRead opens with an update of the membership, which throws
\* when there is none.
TouchMember(r) ==
  LET q == request[r] IN
  /\ At(r, "touch")
  /\ IF q.conversation # NoRow /\ q.from \in member[q.conversation]
     THEN Goto(r, "insert") /\ UNCHANGED <<table, pair, failures>>
     ELSE Refuse(r)

\* What the message does to the conversation is in Messages.
InsertMessage(r) ==
  /\ At(r, "insert")
  /\ Refuse(r)

-----------------------------------------------------------------------------
(* What the rest of the system does meanwhile.                             *)

\* createSessionConversation, in the transaction that creates the session.
CreateSessionConversation(u) ==
  /\ \A c \in Conversations : type[c] # "SESSION"
  /\ \E c \in ConversationUids \ Conversations :
       /\ type' = [type EXCEPT ![c] = "SESSION"]
       /\ member' = [member EXCEPT ![c] = {u}]
  /\ UNCHANGED <<block, request, pair, failures>>

\* SessionPlayersService adds and removes the members of a session.
SessionMemberMoves(c, u) ==
  /\ type[c] = "SESSION"
  /\ member' = [member EXCEPT ![c] = IF u \in @ THEN @ \ {u} ELSE @ \cup {u}]
  /\ UNCHANGED <<type, block, request, pair, failures>>

Block(p) ==
  /\ p \notin block
  /\ block' = block \cup {p}
  /\ UNCHANGED <<type, member, request, pair, failures>>

Unblock(p) ==
  /\ p \in block
  /\ block' = block \ {p}
  /\ request' = [r \in Requests |->
       IF request[r] # Idle /\ request[r].from \in p
       THEN [request[r] EXCEPT !.stood = @ \ p] ELSE request[r]]
  /\ UNCHANGED <<type, member, pair, failures>>

\* An await of the request rejects.
AwaitFails(r) ==
  /\ ~At(r, "idle")
  /\ failures < MaxFailures
  /\ failures' = failures + 1
  /\ Become(r, Idle)
  /\ UNCHANGED <<table, pair>>

\* The next database call of the request r.
Work(r) ==
  \/ FindSessionConversation(r) \/ CheckBlock(r) \/ FindPrivate(r)
  \/ CreatePrivate(r) \/ CreateMembers(r) \/ FindConversation(r)
  \/ FindOtherMember(r) \/ CheckBlockOfOther(r) \/ TouchMember(r) \/ InsertMessage(r)

Next ==
  \/ \E r \in Requests :
       \/ \E from \in Users, session \in BOOLEAN, to \in Users \cup {NoRow},
             uid \in ConversationUids \cup {NoRow} : MessageArrives(r, from, session, to, uid)
       \/ Work(r) \/ AwaitFails(r)
  \/ \E u \in Players : CreateSessionConversation(u)
  \/ \E c \in ConversationUids, u \in Players : SessionMemberMoves(c, u)
  \/ \E p \in Quarrels : Block(p) \/ Unblock(p)

Spec == Init /\ [][Next]_vars

-----------------------------------------------------------------------------
(* Properties.                                                             *)

\* Every row, request and history keeps its type; a message about to be
\* inserted has a conversation that is there.
TypeOK ==
  /\ type \in [ConversationUids -> {"PRIVATE", "SESSION", NoRow}]
  /\ member \in [ConversationUids -> SUBSET Users]
  /\ block \subseteq Pairs
  /\ \A r \in Requests : request[r] = Idle \/
       /\ request[r] \in Request
       /\ request[r].pc \in {"other", "block2", "insert"} =>
            request[r].conversation \in Conversations
  /\ pair \in [ConversationUids -> SUBSET Users]
  /\ failures \in 0..MaxFailures

\* A private conversation has the two members it was made for.  It is without
\* members only while its request is between the two inserts, when that
\* request has failed there, or when somebody wrote to himself
\* (createPrivateConversation is in no transaction).
PrivateIsAPair ==
  \A c \in Conversations : type[c] = "PRIVATE" =>
    \/ member[c] = pair[c]
    \/ /\ member[c] = {}
       /\ \/ failures > 0
          \/ \E u \in Users : pair[c] = {u}
          \/ \E r \in Requests : At(r, "join") /\ request[r].uid = c

\* Two users who have a private conversation when a message comes do not get
\* another one by it, whatever else is under way: a second conversation of the
\* two takes messages that overlap before there is one (createMessage looks
\* for it and creates it in two steps).
KnownPairIsReused ==
  \A r \in Requests : request[r].pc \in {"create", "join"} => ~request[r].known

\* A message goes into a private conversation its sender is a member of, and in
\* the one of the sender and the recipient if it names a recipient and no
\* session, whatever the other fields say.
PostedWhereAddressed ==
  \A r \in Requests :
    LET q == request[r] IN
    At(r, "insert") /\ type[q.conversation] = "PRIVATE" =>
      /\ q.from \in member[q.conversation]
      /\ q.to \notin {NoRow, q.from} => member[q.conversation] = {q.from, q.to}

\* While one of two users blocks the other, no message that comes goes into a
\* private conversation of the two, by recipient or by conversation: a block
\* that has stood ever since the message came has been seen.  Only a message
\* addressed to its own sender escapes the check.
BlockStopsMessages ==
  \A r \in Requests :
    /\ At(r, "insert")
    /\ type[request[r].conversation] = "PRIVATE"
    /\ request[r].to # request[r].from
    => member[request[r].conversation] \cap request[r].stood = {}

\* A message goes to whom it names and past no block it could have met.
MessagesGoWhereTheyMay == PostedWhereAddressed /\ BlockStopsMessages
===============================================================================
