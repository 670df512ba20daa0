-------------------------------- MODULE Messages --------------------------------
(***************************************************************************)
(* The messages of one conversation and their receipts (MessagesService):  *)
(* sending a message, reading those of the others, deleting one's own.     *)
(*                                                                         *)
(* A message carries a status for all, a receipt one for each user.  The   *)
(* handlers write them in separate statements and in no transaction, so    *)
(* sends, reads and deletes interleave between any two of them, and an     *)
(* await that fails leaves the rest of its handler undone.                 *)
(***************************************************************************)
EXTENDS Naturals, FiniteSets

CONSTANTS
  Users,        \* the users who write and read
  Movers,       \* those who may join and leave the conversation meanwhile
  MessageUids,  \* the uids Messages may come to hold
  NoRow,        \* "there is no such row"
  Requests,     \* the requests the server may be working on at one time
  MaxFailures   \* how many awaits may fail

ASSUME MessagesAssumption ==
  /\ Movers \subseteq Users
  /\ NoRow \notin MessageUids
  /\ MaxFailures \in Nat

VARIABLES
  members,   \* Conversation_members of the conversation
  message,   \* Messages: sender and globalStatus by uid
  receipt,   \* Message_receipts: the status by message and user
  request,   \* what each request in flight is doing
  audience,  \* history: who has been a member ever since the message is there
  learned,   \* history: the messages some call has found read by everyone
  failures   \* how many awaits have failed

vars == <<members, message, receipt, request, audience, learned, failures>>

-----------------------------------------------------------------------------
Ops == {"send", "read", "delete"}

MarkSteps   == {"touch", "unread", "messages", "receipts", "list"}
SendSteps   == MarkSteps \cup {"create", "members", "others", "own"}
DeleteSteps == {"find", "delete"}

Steps == [send |-> SendSteps, read |-> MarkSteps, delete |-> DeleteSteps]

Row == [sender : Users, status : {"SENT", "READ", "DELETED"}]

ASSUME RowAssumption == NoRow \notin Row

ReceiptStatus == {"none", "SENT", "DELIVERED", "READ"}

Idle == [op |-> "idle", pc |-> "idle", uids |-> {}]

\* uids are the messages a read has found unread, uid the message of a send or
\* a delete, others the users a send makes receipts for.
Request ==
  [op : Ops, pc : SendSteps \cup DeleteSteps, user : Users, uids : SUBSET MessageUids,
   uid : MessageUids \cup {NoRow}, others : SUBSET Users]

InFlight(r) == request[r].op # "idle"
At(r, pc) == request[r].pc = pc
Messages == {m \in MessageUids : message[m] # NoRow}
Holders(m) == {u \in Users : receipt[m][u] # "none"}
Recipients(m) == Holders(m) \ {message[m].sender}
Readers(m) == {u \in Recipients(m) : receipt[m][u] = "READ"}

\* hasEveryoneRead, as markMessagesAsRead works it out.
ReadByAll(m) == Recipients(m) # {} /\ Readers(m) = Recipients(m)

Init ==
  /\ members = Users
  /\ message = [m \in MessageUids |-> NoRow]
  /\ receipt = [m \in MessageUids |-> [u \in Users |-> "none"]]
  /\ request = [r \in Requests |-> Idle]
  /\ audience = [m \in MessageUids |-> {}]
  /\ learned = {}
  /\ failures = 0

-----------------------------------------------------------------------------
table == <<members, message, receipt, audience>>

Become(r, q) == request' = [request EXCEPT ![r] = q]
Goto(r, pc) == request' = [request EXCEPT ![r].pc = pc]
Refuse(r) == Become(r, Idle) /\ UNCHANGED <<table, learned, failures>>

\* A request arrives; a delete names the message.
Arrive(r, o, pc, u, m) ==
  /\ ~InFlight(r)
  /\ Become(r, [op |-> o, pc |-> pc, user |-> u, uids |-> {}, uid |-> m, others |-> {}])
  /\ UNCHANGED <<table, learned, failures>>

\* No more is sent than MessageUids, which bounds the messages, leaves room for.
SendArrives(r, u) == Messages # MessageUids /\ Arrive(r, "send", "touch", u, NoRow)

\* MARK_MESSAGES_AS_READ, which getMessages emits with each page.
ReadArrives(r, u) == Arrive(r, "read", "touch", u, NoRow)

DeleteArrives(r, u, m) == Arrive(r, "delete", "find", u, m)

-----------------------------------------------------------------------------
(* markMessagesAsRead, of a read and at the beginning of a send.           *)

\* The membership is updated first; when it is gone, the update throws.
TouchMember(r) ==
  /\ At(r, "touch")
  /\ IF request[r].user \in members
     THEN Goto(r, "unread") /\ UNCHANGED <<table, learned, failures>>
     ELSE Refuse(r)

\* Mutant: only the receipts are updated.
FindUnreadReceipts(r) ==
  LET q == request[r] IN
  /\ At(r, "unread")
  /\ Become(r, [q EXCEPT !.pc = "receipts",
       !.uids = {m \in Messages : /\ message[m].sender # q.user
                                  /\ receipt[m][q.user] \notin {"none", "READ"}}])
  /\ UNCHANGED <<table, learned, failures>>

FindUnread(r) ==
  LET q == request[r] IN
  /\ At(r, "unread")
  /\ Become(r, [q EXCEPT !.pc = "messages",
       !.uids = {m \in Messages : /\ message[m].sender # q.user
                                  /\ receipt[m][q.user] \notin {"none", "READ"}}])
  /\ UNCHANGED <<table, learned, failures>>

\* Mutant: every message of the conversation is updated.
MarkMessagesAll(r) ==
  /\ At(r, "messages")
  /\ message' = [m \in MessageUids |->
       IF m \in Messages THEN [message[m] EXCEPT !.status = "READ"] ELSE message[m]]
  /\ Goto(r, "receipts")
  /\ UNCHANGED <<members, receipt, audience, learned, failures>>

\* READ, whatever the status of the message is by now.
MarkMessages(r) ==
  /\ At(r, "messages")
  /\ message' = [m \in MessageUids |->
       IF m \in request[r].uids THEN [message[m] EXCEPT !.status = "READ"] ELSE message[m]]
  /\ Goto(r, "receipts")
  /\ UNCHANGED <<members, receipt, audience, learned, failures>>

MarkReceipts(r) ==
  LET q == request[r] IN
  /\ At(r, "receipts")
  /\ receipt' = [m \in MessageUids |->
       IF m \in q.uids THEN [receipt[m] EXCEPT ![q.user] = "READ"] ELSE receipt[m]]
  /\ Goto(r, "list")
  /\ UNCHANGED <<members, message, audience, learned, failures>>

\* What follows the result: a read is over, a send goes on to its message.
Marked(r) ==
  LET q == request[r] IN
  IF q.op = "send" THEN Become(r, [q EXCEPT !.pc = "create", !.uids = {}]) ELSE Become(r, Idle)

\* Mutant: the receipt of the sender counts as one of a recipient.
ListMarkedWithSender(r) ==
  /\ At(r, "list")
  /\ learned' = learned \cup
       {m \in request[r].uids : \A u \in Holders(m) : receipt[m][u] = "READ"}
  /\ Marked(r)
  /\ UNCHANGED <<table, failures>>

ListMarked(r) ==
  /\ At(r, "list")
  /\ learned' = learned \cup {m \in request[r].uids : ReadByAll(m)}
  /\ Marked(r)
  /\ UNCHANGED <<table, failures>>

-----------------------------------------------------------------------------
(* createTextMessage and createMediaMessage, after the marking.            *)

\* The sender may have left the conversation by now.
CreateMessage(r) ==
  LET q == request[r] IN
  /\ At(r, "create")
  /\ \E m \in MessageUids \ Messages :
       /\ message' = [message EXCEPT ![m] = [sender |-> q.user, status |-> "SENT"]]
       /\ audience' = [audience EXCEPT ![m] = members \ {q.user}]
       /\ Become(r, [q EXCEPT !.pc = "members", !.uid = m])
  /\ UNCHANGED <<members, receipt, learned, failures>>

\* Mutant: findFirst in the place of findMany.
ReadMembersFirst(r) ==
  LET q == request[r] IN
  /\ At(r, "members")
  /\ \/ members \ {q.user} = {} /\ Become(r, [q EXCEPT !.pc = "others"])
     \/ \E u \in members \ {q.user} : Become(r, [q EXCEPT !.pc = "others", !.others = {u}])
  /\ UNCHANGED <<table, learned, failures>>

\* getOtherMembersUids.
ReadMembers(r) ==
  LET q == request[r] IN
  /\ At(r, "members")
  /\ Become(r, [q EXCEPT !.pc = "others", !.others = members \ {q.user}])
  /\ UNCHANGED <<table, learned, failures>>

\* createMessageReceipt: one insert for the others, then one for the sender.
InsertReceipts(r) ==
  LET q == request[r] IN
  /\ At(r, "others")
  /\ receipt' = [receipt EXCEPT ![q.uid] =
       [u \in Users |-> IF u \in q.others THEN "DELIVERED" ELSE receipt[q.uid][u]]]
  /\ Goto(r, "own")
  /\ UNCHANGED <<members, message, audience, learned, failures>>

InsertOwnReceipt(r) ==
  LET q == request[r] IN
  /\ At(r, "own")
  /\ receipt' = [receipt EXCEPT ![q.uid][q.user] = "SENT"]
  /\ Become(r, Idle)
  /\ UNCHANGED <<members, message, audience, learned, failures>>

-----------------------------------------------------------------------------
(* delete.                                                                 *)

\* One's own message, and not one that is deleted already.
FindMessage(r) ==
  LET q == request[r] IN
  /\ At(r, "find")
  /\ IF /\ q.uid \in Messages
        /\ message[q.uid].sender = q.user
        /\ message[q.uid].status # "DELETED"
     THEN Goto(r, "delete") /\ UNCHANGED <<table, learned, failures>>
     ELSE Refuse(r)

DeleteMessage(r) ==
  LET q == request[r] IN
  /\ At(r, "delete")
  /\ message' = [message EXCEPT ![q.uid].status = "DELETED"]
  /\ Become(r, Idle)
  /\ UNCHANGED <<members, receipt, audience, learned, failures>>

-----------------------------------------------------------------------------
(* What the rest of the system does meanwhile.                             *)

\* SessionPlayersService adds and removes members.
MemberJoins(u) ==
  /\ u \notin members
  /\ members' = members \cup {u}
  /\ UNCHANGED <<message, receipt, audience, request, learned, failures>>

MemberLeaves(u) ==
  /\ u \in members
  /\ members' = members \ {u}
  /\ audience' = [m \in MessageUids |-> audience[m] \ {u}]
  /\ UNCHANGED <<message, receipt, request, learned, failures>>

\* An await of the request rejects, or the upload of a medium does.
AwaitFails(r) ==
  /\ InFlight(r)
  /\ failures < MaxFailures
  /\ failures' = failures + 1
  /\ Become(r, Idle)
  /\ UNCHANGED <<table, learned>>

\* The next database call of the request r.
Work(r) ==
  \/ TouchMember(r) \/ FindUnread(r) \/ MarkMessages(r) \/ MarkReceipts(r) \/ ListMarked(r)
  \/ CreateMessage(r) \/ ReadMembers(r) \/ InsertReceipts(r) \/ InsertOwnReceipt(r)
  \/ FindMessage(r) \/ DeleteMessage(r)

Next ==
  \/ \E r \in Requests, u \in Users :
       \/ SendArrives(r, u) \/ ReadArrives(r, u)
       \/ \E m \in MessageUids : DeleteArrives(r, u, m)
  \/ \E r \in Requests : Work(r) \/ AwaitFails(r)
  \/ \E u \in Movers : MemberJoins(u) \/ MemberLeaves(u)

Spec == Init /\ [][Next]_vars

-----------------------------------------------------------------------------
(* Properties.                                                             *)

\* Every row, request and history keeps its type; a request about to delete
\* has a message of its own user at hand.
TypeOK ==
  /\ members \subseteq Users
  /\ message \in [MessageUids -> Row \cup {NoRow}]
  /\ receipt \in [MessageUids -> [Users -> ReceiptStatus]]
  /\ request \in [Requests -> Request \cup {Idle}]
  /\ \A r \in Requests :
       /\ InFlight(r) => request[r].pc \in Steps[request[r].op]
       /\ request[r].pc \in {"members", "others", "own", "delete"} =>
            request[r].uid \in Messages /\ message[request[r].uid].sender = request[r].user
  /\ audience \in [MessageUids -> SUBSET Users]
  /\ learned \subseteq MessageUids
  /\ failures \in 0..MaxFailures

\* A message someone has read is not shown as SENT: the status of the message
\* is written before the receipt, and no later step takes it back, wherever
\* the calls fail (markMessagesAsRead, delete).
ReadReceiptShows ==
  \A m \in Messages : Readers(m) # {} => message[m].status # "SENT"

\* A message shown as READ has been read by a recipient, or a read is about to
\* say so, as long as no await has failed (the two updates of
\* markMessagesAsRead).
ReadHasReader ==
  \A m \in Messages : message[m].status = "READ" =>
    \/ failures > 0
    \/ Readers(m) # {}
    \/ \E r \in Requests : At(r, "receipts") /\ m \in request[r].uids

\* Status and receipts of a message agree, as far as two updates that are in no
\* transaction can make them.
StatusFollowsReceipts == ReadReceiptShows /\ ReadHasReader

\* Whoever has been a member ever since the message is there has a receipt of
\* it when the send is over, whoever joins and leaves between the insert of
\* the message and the read of the members, as long as no await has failed
\* (createTextMessage, getOtherMembersUids, createMessageReceipt).
MembersGetReceipts ==
  \A m \in Messages :
    (failures = 0 /\ \A r \in Requests : request[r].op = "send" => request[r].uid # m)
      => audience[m] \subseteq Holders(m)

\* Of the readers of a message one learns that everybody has read it, however
\* their calls of markMessagesAsRead interleave and as long as no await has
\* failed: each lists the receipts after it has written its own, so the last
\* one to write sees them all.
SomeoneLearns ==
  \A m \in Messages :
    ReadByAll(m) => \/ failures > 0
                    \/ m \in learned
                    \/ \E r \in Requests : At(r, "list") /\ m \in request[r].uids

=============================================================================
