---------------------------- MODULE Messages_proofs ----------------------------
(***************************************************************************)
(* Proofs about Messages, for any users, movers, messages, requests and    *)
(* failures, about ChatRooms, for any users, sockets and conversations,    *)
(* and about Pages, for any number of rows and changes and any limits.     *)
(***************************************************************************)
EXTENDS Messages, MCPages, FiniteSetTheorems, TLAPS

-----------------------------------------------------------------------------
(* What a request has in hand.                                             *)

AllSteps == {"touch", "unread", "messages", "receipts", "list", "create", "members", "others",
             "own", "find", "delete"}

\* An idle request is at no step, and a request at a step is a Request.
LEMMA AtStep ==
  ASSUME TypeOK, NEW r \in Requests, NEW pc \in AllSteps, At(r, pc)
  PROVE  /\ InFlight(r) /\ request[r] \in Request
         /\ request[r].pc \in Steps[request[r].op]
         /\ pc \in {"create", "members", "others", "own"} => request[r].op = "send"
         /\ pc \in {"find", "delete"} => request[r].op = "delete"
         /\ pc \notin {"find", "delete"} => request[r].op \in {"send", "read"}
<1>1. InFlight(r) /\ request[r] \in Request /\ request[r].pc \in Steps[request[r].op]
  <2>1. request[r] # Idle
    BY DEF At, Idle, AllSteps
  <2>2. request[r] \in Request
    BY <2>1 DEF TypeOK
  <2>3. InFlight(r)
    BY <2>2 DEF InFlight, Request, Ops
  <2> QED
    BY <2>2, <2>3 DEF TypeOK
<1>2. request[r].op \in {"send", "read", "delete"}
  BY <1>1 DEF Request, Ops
<1>3. CASE request[r].op = "send"
  BY <1>1, <1>3 DEF At, Steps, SendSteps, MarkSteps
<1>4. CASE request[r].op = "read"
  BY <1>1, <1>4 DEF At, Steps, MarkSteps
<1>5. CASE request[r].op = "delete"
  BY <1>1, <1>5 DEF At, Steps, DeleteSteps
<1> QED
  BY <1>1, <1>2, <1>3, <1>4, <1>5

\* What a step leaves in the hands of a request: itself or an idle one.
WellFormed(q, rows, table1) ==
  \/ q = Idle
  \/ /\ q \in Request
     /\ q.pc \in Steps[q.op]
     /\ q.pc \in {"members", "others", "own", "delete"} =>
          q.uid \in rows /\ table1[q.uid].sender = q.user

\* Messages stay and keep their senders.
RowsStay == Messages \subseteq Messages' /\ \A m \in Messages : message'[m].sender = message[m].sender

\* One request changes to a well-formed one, and the tables keep their types.
LEMMA ChangeKeepsType ==
  ASSUME TypeOK, NEW r \in Requests, NEW q, WellFormed(q, Messages', message'),
         request' = [request EXCEPT ![r] = q], RowsStay,
         members' \subseteq Users,
         message' \in [MessageUids -> Row \cup {NoRow}],
         receipt' \in [MessageUids -> [Users -> ReceiptStatus]],
         audience' \in [MessageUids -> SUBSET Users],
         learned' \subseteq MessageUids, failures' \in 0..MaxFailures
  PROVE  TypeOK'
<1>1. request' \in [Requests -> Request \cup {Idle}]
  BY DEF TypeOK, WellFormed
<1>2. \A p \in Requests :
        /\ request'[p] # Idle => request'[p].pc \in Steps[request'[p].op]
        /\ request'[p].pc \in {"members", "others", "own", "delete"} =>
             /\ request'[p].uid \in Messages'
             /\ message'[request'[p].uid].sender = request'[p].user
  <2> SUFFICES ASSUME NEW p \in Requests
               PROVE  /\ request'[p] # Idle => request'[p].pc \in Steps[request'[p].op]
                      /\ request'[p].pc \in {"members", "others", "own", "delete"} =>
                           /\ request'[p].uid \in Messages'
                           /\ message'[request'[p].uid].sender = request'[p].user
    OBVIOUS
  <2>1. CASE p = r
    BY <2>1 DEF TypeOK, WellFormed, Idle
  <2>2. CASE p # r
    <3>1. request[p] # Idle => InFlight(p)
      BY DEF TypeOK, InFlight, Request, Ops
    <3> QED
      BY <2>2, <3>1 DEF TypeOK, RowsStay
  <2> QED
    BY <2>1, <2>2
<1>3. \A p \in Requests : InFlight(p)' => request'[p] # Idle
  BY DEF InFlight, Idle
<1> QED
  BY <1>1, <1>2, <1>3 DEF TypeOK

\* A step of a request within its handler.
LEMMA StepKeepsForm ==
  ASSUME TypeOK, NEW r \in Requests, request[r] \in Request,
         NEW pc, pc \in Steps[request[r].op], pc \in AllSteps,
         pc \in {"members", "others", "own", "delete"} =>
           /\ request[r].uid \in Messages
           /\ message[request[r].uid].sender = request[r].user
  PROVE  WellFormed([request[r] EXCEPT !.pc = pc], Messages, message)
BY DEF WellFormed, Request, AllSteps, SendSteps, MarkSteps, DeleteSteps

\* A step that changes its request only.
LEMMA BecomeKeepsType ==
  ASSUME TypeOK, NEW r \in Requests, NEW q, WellFormed(q, Messages, message),
         Become(r, q), UNCHANGED table,
         learned' \subseteq MessageUids, failures' \in 0..MaxFailures
  PROVE  TypeOK'
BY ChangeKeepsType DEF Become, table, RowsStay, TypeOK, Messages

\* Requests arrive.
LEMMA ArrivalKeepsType ==
  ASSUME TypeOK, NEW r \in Requests, NEW u \in Users,
         SendArrives(r, u) \/ ReadArrives(r, u) \/ \E m \in MessageUids : DeleteArrives(r, u, m)
  PROVE  TypeOK'
<1>1. ASSUME NEW o \in Ops, NEW pc \in {"touch", "find"}, pc \in Steps[o],
             NEW m \in MessageUids \cup {NoRow}, Arrive(r, o, pc, u, m)
      PROVE  TypeOK'
  <2>1. WellFormed([op |-> o, pc |-> pc, user |-> u, uids |-> {}, uid |-> m, others |-> {}],
                   Messages, message)
    BY <1>1 DEF WellFormed, Request, SendSteps, MarkSteps, DeleteSteps
  <2> QED
    BY <1>1, <2>1, BecomeKeepsType DEF Arrive, TypeOK
<1>2. "touch" \in Steps["send"] /\ "touch" \in Steps["read"] /\ "find" \in Steps["delete"]
  BY DEF Steps, SendSteps, MarkSteps, DeleteSteps
<1> QED
  BY <1>1, <1>2 DEF SendArrives, ReadArrives, DeleteArrives, Ops

\* What a read has found is there.
UnreadIsThere ==
  \A r \in Requests : At(r, "messages") \/ At(r, "receipts") =>
    \A m \in request[r].uids :
      /\ m \in Messages
      /\ message[m].sender # request[r].user
      /\ receipt[m][request[r].user] # "none"

TypeInv == TypeOK /\ UnreadIsThere

\* The steps of markMessagesAsRead.
LEMMA MarkKeepsType ==
  ASSUME TypeInv, NEW r \in Requests,
         \/ TouchMember(r) \/ FindUnread(r) \/ MarkMessages(r)
         \/ MarkReceipts(r) \/ ListMarked(r)
  PROVE  TypeOK'
<1> DEFINE q == request[r]
<1>1. /\ q \in Request /\ q.op \in {"send", "read"}
      /\ \A pc \in MarkSteps : pc \in Steps[q.op] /\ pc \in AllSteps
  <2>1. \E pc \in MarkSteps : At(r, pc)
    BY DEF TouchMember, FindUnread, MarkMessages, MarkReceipts, ListMarked, MarkSteps
  <2>2. q \in Request /\ q.op \in {"send", "read"}
    BY <2>1, AtStep DEF TypeInv, MarkSteps, AllSteps
  <2> QED
    BY <2>2 DEF Steps, SendSteps, MarkSteps, AllSteps
<1>2. WellFormed(Idle, Messages, message)
  BY DEF WellFormed
<1>3. CASE TouchMember(r)
  <2>1. WellFormed([q EXCEPT !.pc = "unread"], Messages, message)
    BY <1>1, StepKeepsForm DEF TypeInv, MarkSteps
  <2> QED
    BY <1>2, <1>3, <2>1, BecomeKeepsType DEF TouchMember, Goto, Become, Refuse, TypeInv, TypeOK
<1>4. CASE FindUnread(r)
  <2> DEFINE uids == {m \in Messages : /\ message[m].sender # q.user
                                       /\ receipt[m][q.user] \notin {"none", "READ"}}
  <2>1. uids \subseteq MessageUids
    BY DEF Messages
  <2> HIDE DEF uids
  <2>2. [q EXCEPT !.pc = "messages", !.uids = uids] \in Request
    BY <1>1, <2>1 DEF Request, SendSteps, MarkSteps
  <2>3. WellFormed([q EXCEPT !.pc = "messages", !.uids = uids], Messages, message)
    BY <1>1, <2>2 DEF WellFormed, Request, MarkSteps
  <2> QED
    BY <1>4, <2>3, BecomeKeepsType DEF FindUnread, uids, TypeInv, TypeOK
<1>5. CASE MarkMessages(r)
  <2>1. /\ At(r, "messages") /\ request' = [request EXCEPT ![r].pc = "receipts"]
        /\ message' = [m \in MessageUids |->
             IF m \in q.uids THEN [message[m] EXCEPT !.status = "READ"] ELSE message[m]]
    BY <1>5 DEF MarkMessages, Goto
  <2>2. \A m \in q.uids : m \in Messages /\ message[m] \in Row
    BY <2>1 DEF TypeInv, UnreadIsThere, TypeOK, Messages
  <2>3. message' \in [MessageUids -> Row \cup {NoRow}]
    BY <2>1, <2>2 DEF TypeInv, TypeOK, Row
  <2>4. \A m \in q.uids : [message[m] EXCEPT !.status = "READ"] \in Row
                          /\ [message[m] EXCEPT !.status = "READ"].sender = message[m].sender
    BY <2>2 DEF Row
  <2>5. RowsStay /\ Messages' = Messages
    BY <2>1, <2>2, <2>4, RowAssumption DEF RowsStay, Messages, TypeInv, TypeOK
  <2>6. WellFormed([q EXCEPT !.pc = "receipts"], Messages', message')
    BY <1>1 DEF WellFormed, Request, SendSteps, MarkSteps
  <2> QED
    BY <1>5, <2>1, <2>3, <2>5, <2>6, ChangeKeepsType DEF MarkMessages, TypeInv, TypeOK
<1>6. CASE MarkReceipts(r)
  <2>1. WellFormed([q EXCEPT !.pc = "list"], Messages, message)
    BY <1>1, StepKeepsForm DEF TypeInv, MarkSteps
  <2>2. q.user \in Users
    BY <1>1 DEF Request
  <2>3. receipt' \in [MessageUids -> [Users -> ReceiptStatus]]
    BY <1>6, <2>2 DEF MarkReceipts, TypeInv, TypeOK, ReceiptStatus
  <2> QED
    BY <1>6, <2>1, <2>3, ChangeKeepsType
       DEF MarkReceipts, Goto, RowsStay, Messages, TypeInv, TypeOK
<1>7. CASE ListMarked(r)
  <2>1. WellFormed([q EXCEPT !.pc = "create", !.uids = {}], Messages, message) \/ q.op # "send"
    <3> DEFINE q1 == [q EXCEPT !.pc = "create", !.uids = {}]
    <3>1. q1 \in Request /\ q1.pc = "create" /\ q1.op = q.op
      BY <1>1 DEF Request, SendSteps
    <3>2. "create" \in Steps["send"]
      BY DEF Steps, SendSteps
    <3> HIDE DEF q1
    <3>3. q.op = "send" => WellFormed(q1, Messages, message)
      BY <3>1, <3>2 DEF WellFormed
    <3> QED
      BY <3>3 DEF q1
  <2>2. learned' \subseteq MessageUids /\ UNCHANGED <<table, failures>>
    BY <1>1, <1>7 DEF ListMarked, TypeInv, TypeOK, Request
  <2> QED
    BY <1>2, <1>7, <2>1, <2>2, BecomeKeepsType DEF ListMarked, Marked, TypeInv, TypeOK
<1> QED
  BY <1>3, <1>4, <1>5, <1>6, <1>7

\* The steps of a send after the marking, and of a delete.
LEMMA SendKeepsType ==
  ASSUME TypeInv, NEW r \in Requests,
         \/ CreateMessage(r) \/ ReadMembers(r) \/ InsertReceipts(r) \/ InsertOwnReceipt(r)
         \/ FindMessage(r) \/ DeleteMessage(r)
  PROVE  TypeOK'
<1> DEFINE q == request[r]
<1>1. q \in Request /\ q.pc \in Steps[q.op] /\ q.user \in Users /\ q.others \subseteq Users
  <2>1. \E pc \in AllSteps : At(r, pc)
    BY DEF CreateMessage, ReadMembers, InsertReceipts, InsertOwnReceipt, FindMessage,
           DeleteMessage, AllSteps
  <2> QED
    BY <2>1, AtStep DEF TypeInv, Request
<1>2. /\ \A pc \in {"members", "others", "own"} : pc \in AllSteps /\ pc \in Steps["send"]
      /\ "delete" \in AllSteps /\ "delete" \in Steps["delete"]
  BY DEF AllSteps, Steps, SendSteps, DeleteSteps
<1>3. WellFormed(Idle, Messages', message')
  BY DEF WellFormed
<1>4. CASE CreateMessage(r)
  <2>1. At(r, "create") /\ q.op = "send"
    BY <1>4, AtStep DEF CreateMessage, TypeInv, AllSteps
  <2>2. PICK m \in MessageUids \ Messages :
          /\ message' = [message EXCEPT ![m] = [sender |-> q.user, status |-> "SENT"]]
          /\ audience' = [audience EXCEPT ![m] = members \ {q.user}]
          /\ Become(r, [q EXCEPT !.pc = "members", !.uid = m])
    BY <1>4 DEF CreateMessage
  <2>3. [sender |-> q.user, status |-> "SENT"] \in Row
    BY <1>1 DEF Row
  <2>4. message' \in [MessageUids -> Row \cup {NoRow}] /\ RowsStay /\ m \in Messages'
        /\ message'[m].sender = q.user
    BY <2>2, <2>3, RowAssumption DEF RowsStay, Messages, TypeInv, TypeOK
  <2> DEFINE q1 == [q EXCEPT !.pc = "members", !.uid = m]
  <2>5. q1 \in Request /\ q1.pc = "members" /\ q1.uid = m /\ q1.op = q.op /\ q1.user = q.user
    BY <1>1 DEF Request, SendSteps
  <2> HIDE DEF q1
  <2>6. WellFormed(q1, Messages', message')
    BY <1>2, <2>1, <2>4, <2>5 DEF WellFormed
  <2>7. request' = [request EXCEPT ![r] = q1]
    BY <2>2 DEF Become, q1
  <2>8. audience' \in [MessageUids -> SUBSET Users]
    BY <2>2 DEF TypeInv, TypeOK
  <2> QED
    BY <1>4, <2>4, <2>6, <2>7, <2>8, ChangeKeepsType DEF CreateMessage, TypeInv, TypeOK
<1>5. CASE ReadMembers(r)
  <2>1. /\ At(r, "members") /\ q.op = "send"
        /\ q.uid \in Messages /\ message[q.uid].sender = q.user
    BY <1>5, AtStep DEF ReadMembers, At, TypeInv, TypeOK, AllSteps
  <2> DEFINE q1 == [q EXCEPT !.pc = "others", !.others = members \ {q.user}]
  <2>2. q1 \in Request /\ q1.pc = "others" /\ q1.uid = q.uid /\ q1.op = q.op /\ q1.user = q.user
    BY <1>1 DEF Request, SendSteps, TypeInv, TypeOK
  <2> HIDE DEF q1
  <2>3. WellFormed(q1, Messages, message)
    BY <1>2, <2>1, <2>2 DEF WellFormed
  <2> QED
    BY <1>5, <2>3, BecomeKeepsType DEF ReadMembers, q1, TypeInv, TypeOK
<1>6. CASE InsertReceipts(r)
  <2>1. /\ At(r, "others") /\ q.op = "send"
        /\ q.uid \in Messages /\ message[q.uid].sender = q.user
    BY <1>6, AtStep DEF InsertReceipts, At, TypeInv, TypeOK, AllSteps
  <2>2. WellFormed([q EXCEPT !.pc = "own"], Messages, message)
    BY <1>1, <1>2, <2>1, StepKeepsForm DEF TypeInv
  <2>3. receipt' \in [MessageUids -> [Users -> ReceiptStatus]]
    BY <1>6, <2>1 DEF InsertReceipts, TypeInv, TypeOK, ReceiptStatus, Messages
  <2> QED
    BY <1>6, <2>2, <2>3, ChangeKeepsType
       DEF InsertReceipts, Goto, RowsStay, Messages, TypeInv, TypeOK
<1>7. CASE InsertOwnReceipt(r)
  <2>1. receipt' \in [MessageUids -> [Users -> ReceiptStatus]]
    BY <1>7 DEF InsertOwnReceipt, TypeInv, TypeOK, ReceiptStatus
  <2> QED
    BY <1>3, <1>7, <2>1, ChangeKeepsType
       DEF InsertOwnReceipt, Become, RowsStay, Messages, TypeInv, TypeOK
<1>8. CASE FindMessage(r)
  <2>1. At(r, "find") /\ q.op = "delete"
    BY <1>8, AtStep DEF FindMessage, TypeInv, AllSteps
  <2>2. CASE Refuse(r)
    BY <1>3, <2>2, ChangeKeepsType
       DEF Refuse, Become, table, RowsStay, Messages, TypeInv, TypeOK
  <2>3. CASE ~Refuse(r)
    <3>1. q.uid \in Messages /\ message[q.uid].sender = q.user
      BY <1>8, <2>3 DEF FindMessage
    <3>2. WellFormed([q EXCEPT !.pc = "delete"], Messages, message)
      BY <1>1, <1>2, <2>1, <3>1, StepKeepsForm DEF TypeInv
    <3> QED
      BY <1>8, <2>3, <3>2, BecomeKeepsType DEF FindMessage, Goto, Become, TypeInv, TypeOK
  <2> QED
    BY <2>2, <2>3
<1>9. CASE DeleteMessage(r)
  <2>1. q.uid \in Messages /\ message[q.uid] \in Row
    BY <1>9 DEF DeleteMessage, At, TypeInv, TypeOK, Messages
  <2>2. [message[q.uid] EXCEPT !.status = "DELETED"] \in Row
        /\ [message[q.uid] EXCEPT !.status = "DELETED"].sender = message[q.uid].sender
    BY <2>1 DEF Row
  <2>3. message' = [message EXCEPT ![q.uid] = [message[q.uid] EXCEPT !.status = "DELETED"]]
    BY <1>9 DEF DeleteMessage
  <2>4. message' \in [MessageUids -> Row \cup {NoRow}] /\ RowsStay
    BY <2>1, <2>2, <2>3, RowAssumption DEF RowsStay, Messages, TypeInv, TypeOK
  <2> QED
    BY <1>3, <1>9, <2>4, ChangeKeepsType DEF DeleteMessage, Become, TypeInv, TypeOK
<1> QED
  BY <1>4, <1>5, <1>6, <1>7, <1>8, <1>9

\* No step leaves the types.
LEMMA NextKeepsType ==
  ASSUME TypeInv, [Next]_vars
  PROVE  TypeOK'
<1>1. ASSUME NEW r \in Requests, NEW u \in Users,
             \/ SendArrives(r, u) \/ ReadArrives(r, u)
             \/ \E m \in MessageUids : DeleteArrives(r, u, m)
      PROVE  TypeOK'
  BY <1>1, ArrivalKeepsType DEF TypeInv
<1>2. ASSUME NEW r \in Requests, Work(r)
      PROVE  TypeOK'
  BY <1>2, MarkKeepsType, SendKeepsType DEF Work
<1>3. ASSUME NEW r \in Requests, AwaitFails(r)
      PROVE  TypeOK'
  <2>1. WellFormed(Idle, Messages, message) /\ failures' \in 0..MaxFailures
    BY <1>3, MessagesAssumption DEF WellFormed, AwaitFails, TypeInv, TypeOK
  <2> QED
    BY <1>3, <2>1, BecomeKeepsType DEF AwaitFails, TypeInv, TypeOK
<1>4. ASSUME NEW u \in Movers, MemberJoins(u) \/ MemberLeaves(u)
      PROVE  TypeOK'
  <2>1. members' \subseteq Users /\ audience' \in [MessageUids -> SUBSET Users]
    BY <1>4, MessagesAssumption DEF MemberJoins, MemberLeaves, TypeInv, TypeOK
  <2> QED
    BY <1>4, <2>1 DEF MemberJoins, MemberLeaves, TypeInv, TypeOK, InFlight, Messages
<1>5. CASE UNCHANGED vars
  BY <1>5 DEF vars, TypeInv, TypeOK, InFlight, Messages
<1> QED
  BY <1>1, <1>2, <1>3, <1>4, <1>5 DEF Next

-----------------------------------------------------------------------------
(* How the tables and the requests change.                                 *)

\* A receipt that is there stays.
ReceiptsStay ==
  \A m \in MessageUids, u \in Users : receipt[m][u] # "none" => receipt'[m][u] # "none"

\* No step takes a message or a receipt away.
LEMMA TablesGrow ==
  ASSUME TypeInv, [Next]_vars
  PROVE  RowsStay /\ ReceiptsStay
<1>1. CASE UNCHANGED <<message, receipt>>
  BY <1>1 DEF RowsStay, ReceiptsStay, Messages
<1>2. ASSUME NEW r \in Requests, MarkMessages(r)
      PROVE  RowsStay /\ ReceiptsStay
  <2> DEFINE q == request[r]
  <2>1. /\ At(r, "messages") /\ UNCHANGED receipt
        /\ message' = [m \in MessageUids |->
             IF m \in q.uids THEN [message[m] EXCEPT !.status = "READ"] ELSE message[m]]
    BY <1>2 DEF MarkMessages
  <2>2. \A m \in q.uids : m \in Messages /\ message[m] \in Row
    BY <2>1 DEF TypeInv, UnreadIsThere, TypeOK, Messages
  <2>3. \A m \in q.uids : /\ [message[m] EXCEPT !.status = "READ"] \in Row
                          /\ [message[m] EXCEPT !.status = "READ"].sender = message[m].sender
    BY <2>2 DEF Row
  <2>4. RowsStay
    BY <2>1, <2>2, <2>3, RowAssumption DEF RowsStay, Messages, TypeInv, TypeOK
  <2> QED
    BY <2>1, <2>4 DEF ReceiptsStay
<1>3. ASSUME NEW r \in Requests, CreateMessage(r)
      PROVE  RowsStay /\ ReceiptsStay
  <2>1. PICK m \in MessageUids \ Messages :
          message' = [message EXCEPT ![m] = [sender |-> request[r].user, status |-> "SENT"]]
    BY <1>3 DEF CreateMessage
  <2>2. RowsStay
    BY <2>1 DEF RowsStay, Messages, TypeInv, TypeOK
  <2> QED
    BY <1>3, <2>2 DEF CreateMessage, ReceiptsStay
<1>4. ASSUME NEW r \in Requests, DeleteMessage(r)
      PROVE  RowsStay /\ ReceiptsStay
  <2> DEFINE m == request[r].uid
  <2>1. m \in Messages /\ message[m] \in Row
    BY <1>4 DEF DeleteMessage, At, TypeInv, TypeOK, Messages
  <2>2. /\ [message[m] EXCEPT !.status = "DELETED"] \in Row
        /\ [message[m] EXCEPT !.status = "DELETED"].sender = message[m].sender
    BY <2>1 DEF Row
  <2>3. message' = [message EXCEPT ![m] = [message[m] EXCEPT !.status = "DELETED"]]
    BY <1>4 DEF DeleteMessage
  <2>4. RowsStay
    BY <2>1, <2>2, <2>3, RowAssumption DEF RowsStay, Messages, TypeInv, TypeOK
  <2> QED
    BY <1>4, <2>4 DEF DeleteMessage, ReceiptsStay
<1>5. ASSUME NEW r \in Requests,
             MarkReceipts(r) \/ InsertReceipts(r) \/ InsertOwnReceipt(r)
      PROVE  RowsStay /\ ReceiptsStay
  <2>1. RowsStay
    BY <1>5 DEF MarkReceipts, InsertReceipts, InsertOwnReceipt, RowsStay, Messages
  <2>2. ReceiptsStay
    BY <1>5 DEF MarkReceipts, InsertReceipts, InsertOwnReceipt, ReceiptsStay, TypeInv, TypeOK
  <2> QED
    BY <2>1, <2>2
<1> QED
  BY <1>1, <1>2, <1>3, <1>4, <1>5
     DEF Next, vars, Work, SendArrives, ReadArrives, DeleteArrives, Arrive, TouchMember,
         FindUnread, ListMarked, ReadMembers, FindMessage, Refuse, Become, Goto, Marked, table,
         AwaitFails, MemberJoins, MemberLeaves

\* The steps that lead to a write, and what they pass on to it.
LEMMA WhereTo ==
  ASSUME TypeInv, [Next]_vars, NEW r \in Requests, request'[r] # request[r]
  PROVE  /\ \A p \in Requests \ {r} : request'[p] = request[p]
         /\ At(r, "messages")' => FindUnread(r)
         /\ At(r, "receipts")' => MarkMessages(r)
         /\ At(r, "list")' => MarkReceipts(r)
         /\ At(r, "members")' => CreateMessage(r)
         /\ At(r, "others")' => ReadMembers(r)
         /\ At(r, "own")' => InsertReceipts(r)
<1> DEFINE Goal(p) == /\ \A s \in Requests \ {p} : request'[s] = request[s]
                      /\ At(p, "messages")' => FindUnread(p)
                      /\ At(p, "receipts")' => MarkMessages(p)
                      /\ At(p, "list")' => MarkReceipts(p)
                      /\ At(p, "members")' => CreateMessage(p)
                      /\ At(p, "others")' => ReadMembers(p)
                      /\ At(p, "own")' => InsertReceipts(p)
<1>1. ASSUME NEW p \in Requests, NEW q, Become(p, q),
             q.pc \notin {"messages", "receipts", "list", "members", "others", "own"}
      PROVE  Goal(p)
  BY <1>1 DEF Become, At, TypeInv, TypeOK
<1>2. ASSUME NEW p \in Requests, NEW pc \in AllSteps, Goto(p, pc), request[p] \in Request,
             \/ pc \in {"touch", "unread", "create", "find", "delete"}
             \/ pc = "receipts" /\ MarkMessages(p)
             \/ pc = "list" /\ MarkReceipts(p)
             \/ pc = "own" /\ InsertReceipts(p)
      PROVE  Goal(p)
  <2>1. request'[p].pc = pc
    BY <1>2 DEF Goto, Request, TypeInv, TypeOK
  <2>2. \A s \in Requests \ {p} : request'[s] = request[s]
    BY <1>2 DEF Goto, TypeInv, TypeOK
  <2> QED
    BY <1>2, <2>1, <2>2 DEF At
<1>3. ASSUME NEW p \in Requests, FindUnread(p) \/ ReadMembers(p) \/ CreateMessage(p)
      PROVE  Goal(p)
  <2>1. request[p] \in Request
    BY <1>3, AtStep DEF FindUnread, ReadMembers, CreateMessage, TypeInv, AllSteps
  <2>2. \/ FindUnread(p) /\ request'[p].pc = "messages"
        \/ ReadMembers(p) /\ request'[p].pc = "others"
        \/ CreateMessage(p) /\ request'[p].pc = "members"
    <3>1. CASE FindUnread(p)
      BY <2>1, <3>1 DEF FindUnread, Become, Request, TypeInv, TypeOK
    <3>2. CASE ReadMembers(p)
      BY <2>1, <3>2 DEF ReadMembers, Become, Request, TypeInv, TypeOK
    <3>3. CASE CreateMessage(p)
      <4>1. PICK m : Become(p, [request[p] EXCEPT !.pc = "members", !.uid = m])
        BY <3>3 DEF CreateMessage
      <4>2. [request[p] EXCEPT !.pc = "members", !.uid = m].pc = "members"
        BY <2>1 DEF Request
      <4> QED
        BY <3>3, <4>1, <4>2 DEF Become, TypeInv, TypeOK
    <3> QED
      BY <1>3, <3>1, <3>2, <3>3
  <2>3. \A s \in Requests \ {p} : request'[s] = request[s]
    BY <1>3 DEF FindUnread, ReadMembers, CreateMessage, Become, TypeInv, TypeOK
  <2> QED
    BY <2>2, <2>3 DEF At
<1>4. Idle.pc = "idle"
  BY DEF Idle
<1>5. ASSUME NEW p \in Requests, Work(p)
      PROVE  Goal(p)
  <2>1. \E pc \in AllSteps : At(p, pc)
    BY <1>5 DEF Work, TouchMember, FindUnread, MarkMessages, MarkReceipts, ListMarked,
         CreateMessage, ReadMembers, InsertReceipts, InsertOwnReceipt, FindMessage,
         DeleteMessage, AllSteps
  <2>2. request[p] \in Request
    BY <2>1, AtStep DEF TypeInv
  <2>3. CASE TouchMember(p)
    BY <1>1, <1>2, <1>4, <2>2, <2>3 DEF TouchMember, Refuse, AllSteps
  <2>4. CASE MarkMessages(p)
    BY <1>2, <2>2, <2>4 DEF MarkMessages, AllSteps
  <2>5. CASE MarkReceipts(p)
    BY <1>2, <2>2, <2>5 DEF MarkReceipts, AllSteps
  <2>6. CASE ListMarked(p)
    <3>1. [request[p] EXCEPT !.pc = "create", !.uids = {}].pc = "create"
      BY <2>2 DEF Request
    <3> QED
      BY <1>1, <1>4, <2>6, <3>1 DEF ListMarked, Marked
  <2>7. CASE InsertReceipts(p)
    BY <1>2, <2>2, <2>7 DEF InsertReceipts, AllSteps
  <2>8. CASE InsertOwnReceipt(p) \/ DeleteMessage(p)
    BY <1>1, <1>4, <2>8 DEF InsertOwnReceipt, DeleteMessage
  <2>9. CASE FindMessage(p)
    BY <1>1, <1>2, <1>4, <2>2, <2>9 DEF FindMessage, Refuse, AllSteps
  <2> QED
    BY <1>3, <1>5, <2>3, <2>4, <2>5, <2>6, <2>7, <2>8, <2>9 DEF Work
<1>6. ASSUME NEW p \in Requests, AwaitFails(p)
      PROVE  Goal(p)
  BY <1>1, <1>4, <1>6 DEF AwaitFails
<1>7. ASSUME NEW p \in Requests, NEW u \in Users,
             \/ SendArrives(p, u) \/ ReadArrives(p, u)
             \/ \E m \in MessageUids : DeleteArrives(p, u, m)
      PROVE  Goal(p)
  <2>1. PICK o \in Ops, pc \in {"touch", "find"}, m \in MessageUids \cup {NoRow} :
              Arrive(p, o, pc, u, m)
    BY <1>7 DEF SendArrives, ReadArrives, DeleteArrives, Ops
  <2> DEFINE q == [op |-> o, pc |-> pc, user |-> u, uids |-> {}, uid |-> m, others |-> {}]
  <2>2. Become(p, q) /\ q.pc \in {"touch", "find"}
    BY <2>1 DEF Arrive
  <2> QED
    BY <1>1, <2>2
<1>8. \E p \in Requests : Goal(p) /\ request'[p] # request[p]
  <2>1. CASE \E u \in Movers : MemberJoins(u) \/ MemberLeaves(u)
    BY <2>1 DEF MemberJoins, MemberLeaves
  <2>2. CASE UNCHANGED vars
    BY <2>2 DEF vars
  <2>3. PICK p \in Requests : Goal(p)
    BY <1>5, <1>6, <1>7, <2>1, <2>2 DEF Next
  <2> QED
    BY <2>3
<1> QED
  BY <1>8

\* What a step passes on to the next one of its handler.
LEMMA PassedOn ==
  ASSUME TypeInv, NEW r \in Requests
  PROVE  /\ MarkMessages(r) \/ MarkReceipts(r) =>
              request'[r].uids = request[r].uids /\ request'[r].user = request[r].user
         /\ ReadMembers(r) => /\ request'[r].uid = request[r].uid
                              /\ request'[r].others = members \ {request[r].user}
         /\ InsertReceipts(r) => request'[r].uid = request[r].uid
<1>1. CASE MarkMessages(r) \/ MarkReceipts(r) \/ ReadMembers(r) \/ InsertReceipts(r)
  <2>1. request[r] \in Request
    BY <1>1, AtStep DEF MarkMessages, MarkReceipts, ReadMembers, InsertReceipts, TypeInv, AllSteps
  <2>2. MarkMessages(r) \/ MarkReceipts(r) =>
          request'[r].uids = request[r].uids /\ request'[r].user = request[r].user
    BY <2>1 DEF MarkMessages, MarkReceipts, Goto, Request, TypeInv, TypeOK
  <2>3. ReadMembers(r) => /\ request'[r].uid = request[r].uid
                          /\ request'[r].others = members \ {request[r].user}
    BY <2>1 DEF ReadMembers, Become, Request, TypeInv, TypeOK
  <2>4. InsertReceipts(r) => request'[r].uid = request[r].uid
    BY <2>1 DEF InsertReceipts, Goto, Request, TypeInv, TypeOK
  <2> QED
    BY <2>2, <2>3, <2>4
<1> QED
  BY <1>1

\* A step keeps what the reads have found unread.
LEMMA UnreadStays ==
  ASSUME TypeInv, [Next]_vars
  PROVE  UnreadIsThere'
<1> SUFFICES ASSUME NEW r \in Requests, At(r, "messages")' \/ At(r, "receipts")',
                    NEW m \in request'[r].uids
             PROVE  /\ m \in Messages'
                    /\ message'[m].sender # request'[r].user
                    /\ receipt'[m][request'[r].user] # "none"
  BY DEF UnreadIsThere
<1>1. RowsStay /\ ReceiptsStay /\ Messages \subseteq MessageUids
  BY TablesGrow DEF Messages
<1>2. ASSUME At(r, "messages") \/ At(r, "receipts"), m \in request[r].uids,
             request'[r].user = request[r].user
      PROVE  /\ m \in Messages'
             /\ message'[m].sender # request'[r].user
             /\ receipt'[m][request'[r].user] # "none"
  <2>1. request[r].user \in Users
    BY <1>2, AtStep DEF AllSteps, TypeInv, Request
  <2> QED
    BY <1>1, <1>2, <2>1 DEF TypeInv, UnreadIsThere, RowsStay, ReceiptsStay
<1>3. CASE request'[r] = request[r]
  BY <1>2, <1>3 DEF At
<1>4. CASE MarkMessages(r)
  BY <1>2, <1>4, PassedOn DEF MarkMessages
<1>5. CASE FindUnread(r)
  <2>1. request[r] \in Request
    BY <1>5, AtStep DEF FindUnread, TypeInv, AllSteps
  <2>2. /\ request'[r].user = request[r].user
        /\ m \in Messages
        /\ message[m].sender # request[r].user
        /\ receipt[m][request[r].user] \notin {"none", "READ"}
    BY <1>5, <2>1 DEF FindUnread, Become, Request, TypeInv, TypeOK
  <2> QED
    BY <1>1, <2>1, <2>2 DEF RowsStay, ReceiptsStay, Request
<1> QED
  BY <1>3, <1>4, <1>5, WhereTo

\* Requests, tables and histories keep their types in every behaviour, and what
\* a read has found unread is there and was written by someone else.
THEOREM TypeCorrect == Spec => []TypeInv
<1>1. Init => TypeInv
  BY MessagesAssumption
     DEF Init, TypeInv, TypeOK, UnreadIsThere, InFlight, At, Idle, Messages, ReceiptStatus
<1>2. TypeInv /\ [Next]_vars => TypeInv'
  BY NextKeepsType, UnreadStays DEF TypeInv
<1> QED
  BY <1>1, <1>2, PTL DEF Spec

-----------------------------------------------------------------------------
(* The receipts of a message that is being sent.                           *)

Sending(r) == request[r].pc \in {"members", "others", "own"}

\* A message is sent by one request.
SendsApart ==
  \A r, p \in Requests :
    Sending(r) /\ Sending(p) /\ request[r].uid = request[p].uid => r = p

\* Before its receipts are inserted, a message has none.
NoReceiptYet ==
  /\ \A m \in MessageUids \ Messages : audience[m] = {} /\ \A u \in Users : receipt[m][u] = "none"
  /\ \A r \in Requests : At(r, "members") \/ At(r, "others") =>
       \A u \in Users : receipt[request[r].uid][u] = "none"

SendInv == SendsApart /\ NoReceiptYet

\* A request that sends has a message, and came to it by a step of a send.
LEMMA SendingHas ==
  ASSUME TypeInv, NEW r \in Requests, Sending(r)
  PROVE  /\ request[r].uid \in Messages
         /\ message[request[r].uid].sender = request[r].user
         /\ request[r].op = "send" /\ request[r] \in Request
<1>1. PICK pc \in {"members", "others", "own"} : At(r, pc)
  BY DEF Sending, At
<1> QED
  BY <1>1, AtStep DEF AllSteps, TypeInv, TypeOK, At

\* A request that sends after a step has sent before it, or takes a new message.
LEMMA SendingBefore ==
  ASSUME TypeInv, [Next]_vars, NEW r \in Requests, Sending(r)'
  PROVE  \/ Sending(r) /\ request'[r].uid = request[r].uid
         \/ CreateMessage(r) /\ request'[r].uid \in Messages' \ Messages
<1>1. CASE request'[r] = request[r]
  BY <1>1 DEF Sending
<1>2. CASE request'[r] # request[r]
  <2>1. CreateMessage(r) \/ ReadMembers(r) \/ InsertReceipts(r)
    BY <1>2, WhereTo DEF Sending, At
  <2>2. CASE ReadMembers(r) \/ InsertReceipts(r)
    BY <2>2, PassedOn DEF Sending, At, ReadMembers, InsertReceipts
  <2>3. CASE CreateMessage(r)
    <3>1. request[r] \in Request
      BY <2>3, AtStep DEF CreateMessage, TypeInv, AllSteps
    <3>2. PICK m \in MessageUids \ Messages :
            /\ message' = [message EXCEPT ![m] = [sender |-> request[r].user, status |-> "SENT"]]
            /\ Become(r, [request[r] EXCEPT !.pc = "members", !.uid = m])
      BY <2>3 DEF CreateMessage
    <3>3. [sender |-> request[r].user, status |-> "SENT"] \in Row
      BY <3>1 DEF Request, Row
    <3>4. m \in Messages'
      BY <3>2, <3>3, RowAssumption DEF Messages, TypeInv, TypeOK
    <3>5. request'[r].uid = m
      BY <3>1, <3>2 DEF Become, Request, TypeInv, TypeOK
    <3> QED
      BY <2>3, <3>2, <3>4, <3>5
  <2> QED
    BY <2>1, <2>2, <2>3
<1> QED
  BY <1>1, <1>2

\* No two sends make the same message.
LEMMA SendsStayApart ==
  ASSUME TypeInv, SendInv, [Next]_vars
  PROVE  SendsApart'
<1> SUFFICES ASSUME NEW r \in Requests, NEW p \in Requests, Sending(r)', Sending(p)',
                    request'[r].uid = request'[p].uid, r # p
             PROVE  FALSE
  BY DEF SendsApart
<1>1. request'[r] = request[r] \/ request'[p] = request[p]
  BY WhereTo
<1>2. ASSUME NEW q \in Requests, CreateMessage(q), request'[q] = request[q]
      PROVE  FALSE
  <2>1. request[q] \in Request /\ request[q].pc = "create"
    BY <1>2, AtStep DEF CreateMessage, At, TypeInv, AllSteps
  <2>2. request'[q].pc = "members"
    <3>1. PICK m : Become(q, [request[q] EXCEPT !.pc = "members", !.uid = m])
      BY <1>2 DEF CreateMessage
    <3>2. [request[q] EXCEPT !.pc = "members", !.uid = m].pc = "members"
      BY <2>1 DEF Request
    <3> QED
      BY <3>1, <3>2 DEF Become, TypeInv, TypeOK
  <2> QED
    BY <1>2, <2>1, <2>2
<1>3. ASSUME NEW q \in Requests, NEW s \in Requests, Sending(q), request'[q].uid = request[q].uid,
             request'[s].uid \in Messages' \ Messages
      PROVE  request'[q].uid # request'[s].uid
  BY <1>3, SendingHas
<1> QED
  BY <1>1, <1>2, <1>3, SendingBefore DEF SendInv, SendsApart

\* A first receipt is inserted by the request that sends the message.
LEMMA ReceiptsAppear ==
  ASSUME TypeInv, [Next]_vars, NEW m \in MessageUids, NEW u \in Users,
         receipt[m][u] = "none", receipt'[m][u] # "none"
  PROVE  \E r \in Requests : /\ InsertReceipts(r) \/ InsertOwnReceipt(r)
                             /\ Sending(r) /\ request[r].uid = m
<1>1. ASSUME NEW r \in Requests, MarkReceipts(r)
      PROVE  FALSE
  BY <1>1 DEF MarkReceipts, TypeInv, UnreadIsThere, TypeOK
<1>2. ASSUME NEW r \in Requests, InsertReceipts(r) \/ InsertOwnReceipt(r)
      PROVE  Sending(r) /\ request[r].uid = m
  <2>1. Sending(r)
    BY <1>2 DEF InsertReceipts, InsertOwnReceipt, Sending, At
  <2>2. request[r].uid = m
    BY <1>2 DEF InsertReceipts, InsertOwnReceipt, TypeInv, TypeOK
  <2> QED
    BY <2>1, <2>2
<1>3. CASE UNCHANGED receipt
  BY <1>3
<1> QED
  BY <1>1, <1>2, <1>3
     DEF Next, vars, Work, SendArrives, ReadArrives, DeleteArrives, Arrive, TouchMember,
         FindUnread, MarkMessages, ListMarked, CreateMessage, ReadMembers, FindMessage,
         DeleteMessage, Refuse, table, AwaitFails, MemberJoins, MemberLeaves

\* Nobody is added to the audience of a message that is there already, or that
\* is not there yet.
LEMMA AudienceShrinks ==
  ASSUME TypeInv, [Next]_vars, NEW m \in MessageUids, m \in Messages \/ m \notin Messages'
  PROVE  audience'[m] \subseteq audience[m]
<1>1. ASSUME NEW r \in Requests, CreateMessage(r)
      PROVE  audience'[m] = audience[m]
  <2>1. PICK n \in MessageUids \ Messages :
          /\ message' = [message EXCEPT ![n] = [sender |-> request[r].user, status |-> "SENT"]]
          /\ audience' = [audience EXCEPT ![n] = members \ {request[r].user}]
    BY <1>1 DEF CreateMessage
  <2>2. request[r].user \in Users
    BY <1>1, AtStep DEF CreateMessage, TypeInv, AllSteps, Request
  <2>3. [sender |-> request[r].user, status |-> "SENT"] \in Row
    BY <2>2 DEF Row
  <2>4. n \in Messages'
    BY <2>1, <2>3, RowAssumption DEF Messages, TypeInv, TypeOK
  <2>5. n # m
    BY <2>1, <2>4
  <2> QED
    BY <2>1, <2>5 DEF TypeInv, TypeOK
<1>2. ASSUME NEW u \in Movers, MemberLeaves(u)
      PROVE  audience'[m] \subseteq audience[m]
  BY <1>2 DEF MemberLeaves
<1>3. CASE UNCHANGED audience
  BY <1>3
<1> QED
  BY <1>1, <1>2, <1>3
     DEF Next, vars, Work, SendArrives, ReadArrives, DeleteArrives, Arrive, TouchMember,
         FindUnread, MarkMessages, MarkReceipts, ListMarked, ReadMembers, InsertReceipts,
         InsertOwnReceipt, FindMessage, DeleteMessage, Refuse, table, AwaitFails, MemberJoins

\* No other request inserts the receipts of a message that is being sent.
LEMMA NoReceiptAppears ==
  ASSUME TypeInv, SendInv, [Next]_vars
  PROVE  NoReceiptYet'
<1>1. ASSUME NEW m \in MessageUids, m \notin Messages'
      PROVE  audience'[m] = {} /\ \A u \in Users : receipt'[m][u] = "none"
  <2>1. m \notin Messages
    BY <1>1, TablesGrow DEF RowsStay
  <2>2. audience'[m] = {}
    BY <1>1, <2>1, AudienceShrinks DEF SendInv, NoReceiptYet
  <2>3. \A u \in Users : receipt'[m][u] = "none"
    BY <2>1, ReceiptsAppear, SendingHas DEF SendInv, NoReceiptYet
  <2> QED
    BY <2>2, <2>3
<1>2. ASSUME NEW r \in Requests, At(r, "members")' \/ At(r, "others")', NEW u \in Users,
             receipt'[request'[r].uid][u] # "none"
      PROVE  FALSE
  <2> DEFINE m == request'[r].uid
  <2>1. CASE CreateMessage(r) /\ m \in Messages' \ Messages
    <3>1. m \in MessageUids /\ receipt' = receipt
      BY <2>1 DEF Messages, CreateMessage
    <3> QED
      BY <1>2, <2>1, <3>1 DEF SendInv, NoReceiptYet
  <2>2. CASE Sending(r) /\ m = request[r].uid
    <3>1. At(r, "members") \/ At(r, "others")
      BY <1>2, <2>2, WhereTo DEF At, Sending, CreateMessage, ReadMembers
    <3>2. m \in MessageUids /\ receipt[m][u] = "none"
      BY <2>2, <3>1, SendingHas DEF SendInv, NoReceiptYet, Messages
    <3> HIDE DEF m
    <3>3. PICK p \in Requests : /\ InsertReceipts(p) \/ InsertOwnReceipt(p)
                                /\ Sending(p) /\ request[p].uid = m
      BY <1>2, <3>2, ReceiptsAppear DEF m
    <3>4. p = r
      BY <2>2, <3>3 DEF SendInv, SendsApart
    <3>5. InsertReceipts(r)
      BY <3>1, <3>3, <3>4 DEF InsertOwnReceipt, At
    <3>6. request[r] \in Request
      BY <2>2, SendingHas
    <3>7. request'[r].pc = "own"
      BY <3>5, <3>6 DEF InsertReceipts, Goto, Request, TypeInv, TypeOK
    <3> QED
      BY <1>2, <3>7 DEF At
  <2>3. Sending(r)'
    BY <1>2 DEF At, Sending
  <2> QED
    BY <2>1, <2>2, <2>3, SendingBefore
<1> QED
  BY <1>1, <1>2 DEF NoReceiptYet

-----------------------------------------------------------------------------
(* What a step does to the status of a message and to its receipts.        *)

\* A step writes READ or DELETED to the status of a message that is there, or
\* SENT to that of a new one.
LEMMA StatusMoves ==
  ASSUME TypeInv, [Next]_vars, NEW m \in Messages'
  PROVE  \/ m \in Messages /\ message'[m] = message[m]
         \/ m \in Messages /\ \E r \in Requests : MarkMessages(r) /\ m \in request[r].uids
                                                  /\ message'[m].status = "READ"
         \/ m \in Messages /\ message'[m].status = "DELETED"
         \/ /\ m \notin Messages /\ message'[m].status = "SENT"
            /\ \E r \in Requests : CreateMessage(r) /\ At(r, "members")' /\ request'[r].uid = m
                 /\ audience'[m] = members \ {request'[r].user} /\ members' = members
<1>1. ASSUME NEW r \in Requests, MarkMessages(r)
      PROVE  \/ m \in Messages /\ message'[m] = message[m]
             \/ m \in Messages /\ m \in request[r].uids /\ message'[m].status = "READ"
  <2>1. m \in MessageUids /\ message'[m] # NoRow
    BY DEF Messages
  <2>2. CASE m \in request[r].uids
    <3>1. m \in Messages /\ message[m] \in Row
      BY <1>1, <2>2 DEF MarkMessages, TypeInv, UnreadIsThere, TypeOK, Messages
    <3>2. message'[m] = [message[m] EXCEPT !.status = "READ"]
      BY <1>1, <2>1, <2>2 DEF MarkMessages
    <3> QED
      BY <2>2, <3>1, <3>2 DEF Row
  <2>3. CASE m \notin request[r].uids
    BY <1>1, <2>1, <2>3 DEF MarkMessages, Messages
  <2> QED
    BY <2>2, <2>3
<1>2. ASSUME NEW r \in Requests, DeleteMessage(r)
      PROVE  m \in Messages /\ (message'[m] = message[m] \/ message'[m].status = "DELETED")
  <2> DEFINE n == request[r].uid
  <2>1. n \in Messages /\ message[n] \in Row
    BY <1>2 DEF DeleteMessage, At, TypeInv, TypeOK, Messages
  <2>2. message' = [message EXCEPT ![n] = [message[n] EXCEPT !.status = "DELETED"]]
    BY <1>2 DEF DeleteMessage
  <2>3. [message[n] EXCEPT !.status = "DELETED"].status = "DELETED"
    BY <2>1 DEF Row
  <2> QED
    BY <2>1, <2>2, <2>3 DEF Messages, TypeInv, TypeOK
<1>3. ASSUME NEW r \in Requests, CreateMessage(r)
      PROVE  \/ m \in Messages /\ message'[m] = message[m]
             \/ /\ m \notin Messages /\ message'[m].status = "SENT"
                /\ At(r, "members")' /\ request'[r].uid = m
                /\ audience'[m] = members \ {request'[r].user} /\ members' = members
  <2>1. PICK n \in MessageUids \ Messages :
          /\ message' = [message EXCEPT ![n] = [sender |-> request[r].user, status |-> "SENT"]]
          /\ audience' = [audience EXCEPT ![n] = members \ {request[r].user}]
          /\ Become(r, [request[r] EXCEPT !.pc = "members", !.uid = n])
    BY <1>3 DEF CreateMessage
  <2>2. request[r] \in Request
    BY <1>3, AtStep DEF CreateMessage, TypeInv, AllSteps
  <2> DEFINE q == [request[r] EXCEPT !.pc = "members", !.uid = n]
  <2>3. q.pc = "members" /\ q.uid = n /\ q.user = request[r].user
    BY <2>2 DEF Request
  <2> HIDE DEF q
  <2>4. request'[r] = q
    BY <2>1 DEF Become, TypeInv, TypeOK, q
  <2>5. CASE m = n
    <3>1. message'[m].status = "SENT" /\ audience'[m] = members \ {request[r].user}
      BY <2>1, <2>5 DEF TypeInv, TypeOK
    <3> QED
      BY <1>3, <2>1, <2>3, <2>4, <2>5, <3>1 DEF At, CreateMessage
  <2>6. CASE m # n
    BY <2>1, <2>6 DEF Messages, TypeInv, TypeOK
  <2> QED
    BY <2>5, <2>6
<1>4. CASE UNCHANGED message
  BY <1>4 DEF Messages
<1> QED
  BY <1>1, <1>2, <1>3, <1>4
     DEF Next, vars, Work, SendArrives, ReadArrives, DeleteArrives, Arrive, TouchMember,
         FindUnread, MarkReceipts, ListMarked, ReadMembers, InsertReceipts, InsertOwnReceipt,
         FindMessage, Refuse, table, AwaitFails, MemberJoins, MemberLeaves

\* A receipt is READ by markMessagesAsRead of its user.
LEMMA ReadAppears ==
  ASSUME TypeInv, [Next]_vars, NEW m \in MessageUids, NEW u \in Users,
         receipt[m][u] # "READ", receipt'[m][u] = "READ"
  PROVE  \E r \in Requests : MarkReceipts(r) /\ m \in request[r].uids /\ request[r].user = u
<1>1. ASSUME NEW r \in Requests, MarkReceipts(r)
      PROVE  m \in request[r].uids /\ request[r].user = u
  BY <1>1 DEF MarkReceipts, TypeInv, TypeOK
<1>2. ASSUME NEW r \in Requests, InsertReceipts(r) \/ InsertOwnReceipt(r)
      PROVE  FALSE
  BY <1>2 DEF InsertReceipts, InsertOwnReceipt, TypeInv, TypeOK
<1>3. CASE UNCHANGED receipt
  BY <1>3
<1> QED
  BY <1>1, <1>2, <1>3
     DEF Next, vars, Work, SendArrives, ReadArrives, DeleteArrives, Arrive, TouchMember,
         FindUnread, MarkMessages, ListMarked, CreateMessage, ReadMembers, FindMessage,
         DeleteMessage, Refuse, table, AwaitFails, MemberJoins, MemberLeaves

\* A recipient who has read a message has read it for ever: the inserts of a
\* send find no receipt of a recipient, and its last one is the sender's own.
LEMMA ReadersStay ==
  ASSUME TypeInv, SendInv, [Next]_vars, NEW m \in Messages, NEW u \in Users,
         receipt[m][u] = "READ", u # message[m].sender
  PROVE  receipt'[m][u] = "READ"
<1>1. m \in MessageUids
  BY DEF Messages
<1>2. ASSUME NEW r \in Requests, MarkReceipts(r)
      PROVE  receipt'[m][u] = "READ"
  BY <1>1, <1>2 DEF MarkReceipts, TypeInv, TypeOK
<1>3. ASSUME NEW r \in Requests, InsertReceipts(r)
      PROVE  receipt'[m][u] = "READ"
  <2>1. m # request[r].uid
    BY <1>3 DEF InsertReceipts, SendInv, NoReceiptYet
  <2> QED
    BY <1>1, <1>3, <2>1 DEF InsertReceipts, TypeInv, TypeOK
<1>4. ASSUME NEW r \in Requests, InsertOwnReceipt(r)
      PROVE  receipt'[m][u] = "READ"
  <2>1. m # request[r].uid \/ u # request[r].user
    BY <1>4, SendingHas DEF InsertOwnReceipt, At, Sending
  <2> QED
    BY <1>1, <1>4, <2>1 DEF InsertOwnReceipt, TypeInv, TypeOK
<1>5. CASE UNCHANGED receipt
  BY <1>5
<1> QED
  BY <1>2, <1>3, <1>4, <1>5
     DEF Next, vars, Work, SendArrives, ReadArrives, DeleteArrives, Arrive, TouchMember,
         FindUnread, MarkMessages, ListMarked, CreateMessage, ReadMembers, FindMessage,
         DeleteMessage, Refuse, table, AwaitFails, MemberJoins, MemberLeaves

\* A request leaves a step by the work it has to do there, unless an await fails.
LEMMA LeavesByWork ==
  ASSUME TypeInv, [Next]_vars, NEW r \in Requests, InFlight(r), request'[r] # request[r]
  PROVE  Work(r) \/ failures' > 0
<1>1. ASSUME NEW p \in Requests, p # r, Work(p) \/ AwaitFails(p)
      PROVE  FALSE
  BY <1>1
     DEF Work, TouchMember, FindUnread, MarkMessages, MarkReceipts, ListMarked, CreateMessage,
         ReadMembers, InsertReceipts, InsertOwnReceipt, FindMessage, DeleteMessage, AwaitFails,
         Refuse, Marked, Goto, Become, TypeInv, TypeOK
<1>2. ASSUME NEW p \in Requests, NEW u \in Users,
             \/ SendArrives(p, u) \/ ReadArrives(p, u)
             \/ \E m \in MessageUids : DeleteArrives(p, u, m)
      PROVE  FALSE
  <2>1. p # r
    BY <1>2 DEF SendArrives, ReadArrives, DeleteArrives, Arrive
  <2> QED
    BY <1>2, <2>1 DEF SendArrives, ReadArrives, DeleteArrives, Arrive, Become, TypeInv, TypeOK
<1>3. AwaitFails(r) => failures' > 0
  BY MessagesAssumption DEF AwaitFails, TypeInv, TypeOK
<1> QED
  BY <1>1, <1>2, <1>3 DEF Next, vars, MemberJoins, MemberLeaves

\* Failures are not forgotten, and neither is what a call has learned.
LEMMA HistoriesGrow ==
  ASSUME TypeInv, [Next]_vars
  PROVE  /\ failures \in Nat /\ failures' \in Nat /\ failures <= failures'
         /\ learned \subseteq learned'
<1>1. failures \in Nat /\ failures + 1 \in Nat
  BY MessagesAssumption DEF TypeInv, TypeOK
<1>2. failures' \in {failures, failures + 1} /\ learned \subseteq learned'
  BY DEF Next, vars, Work, SendArrives, ReadArrives, DeleteArrives, Arrive, TouchMember,
         FindUnread, MarkMessages, MarkReceipts, ListMarked, CreateMessage, ReadMembers,
         InsertReceipts, InsertOwnReceipt, FindMessage, DeleteMessage, Refuse, table,
         AwaitFails, MemberJoins, MemberLeaves
<1> QED
  BY <1>1, <1>2

-----------------------------------------------------------------------------
(* Status and receipts agree.                                              *)

\* A request about to mark receipts has marked the messages they are of.
StatusInHand ==
  \A r \in Requests : At(r, "receipts") =>
    \A m \in request[r].uids : message[m].status # "SENT"

StatusInv == ReadReceiptShows /\ StatusInHand /\ ReadHasReader

\* What is no longer SENT does not become SENT again.
LEMMA StatusStays ==
  ASSUME TypeInv, [Next]_vars, NEW m \in Messages, message[m].status # "SENT"
  PROVE  m \in Messages' /\ message'[m].status # "SENT"
BY StatusMoves, TablesGrow DEF RowsStay

\* A step keeps ReadReceiptShows: the status is written before the receipts.
LEMMA NextKeepsShows ==
  ASSUME TypeInv, SendInv, StatusInv, [Next]_vars
  PROVE  ReadReceiptShows'
<1> SUFFICES ASSUME NEW m \in Messages', NEW u \in Users,
                    receipt'[m][u] = "READ", u # message'[m].sender
             PROVE  message'[m].status # "SENT"
  BY DEF ReadReceiptShows, Readers, Recipients, Holders
<1>1. m \in MessageUids
  BY DEF Messages
<1>2. CASE receipt[m][u] = "READ"
  <2>1. m \in Messages
    BY <1>1, <1>2 DEF SendInv, NoReceiptYet
  <2>2. u # message[m].sender
    BY <2>1, TablesGrow DEF RowsStay
  <2>3. u \in Readers(m)
    BY <1>2, <2>2 DEF Readers, Recipients, Holders
  <2> QED
    BY <2>1, <2>3, StatusStays DEF StatusInv, ReadReceiptShows
<1>3. CASE receipt[m][u] # "READ"
  <2>1. PICK r \in Requests : MarkReceipts(r) /\ m \in request[r].uids
    BY <1>1, <1>3, ReadAppears
  <2>2. At(r, "receipts")
    BY <2>1 DEF MarkReceipts
  <2>3. m \in Messages /\ message[m].status # "SENT"
    BY <2>1, <2>2 DEF TypeInv, UnreadIsThere, StatusInv, StatusInHand
  <2> QED
    BY <2>3, StatusStays
<1> QED
  BY <1>2, <1>3

\* A step keeps StatusInHand.
LEMMA NextKeepsInHand ==
  ASSUME TypeInv, StatusInv, [Next]_vars
  PROVE  StatusInHand'
<1> SUFFICES ASSUME NEW r \in Requests, At(r, "receipts")', NEW m \in request'[r].uids
             PROVE  message'[m].status # "SENT"
  BY DEF StatusInHand
<1>1. CASE request'[r] = request[r]
  <2>1. At(r, "receipts") /\ m \in request[r].uids
    BY <1>1 DEF At
  <2>2. m \in Messages /\ message[m].status # "SENT"
    BY <2>1 DEF TypeInv, UnreadIsThere, StatusInv, StatusInHand
  <2> QED
    BY <2>2, StatusStays
<1>2. CASE MarkMessages(r)
  <2>1. m \in request[r].uids
    BY <1>2, PassedOn
  <2>2. m \in MessageUids /\ message[m] \in Row
    BY <1>2, <2>1 DEF MarkMessages, TypeInv, UnreadIsThere, TypeOK, Messages
  <2>3. message'[m] = [message[m] EXCEPT !.status = "READ"]
    BY <1>2, <2>1, <2>2 DEF MarkMessages
  <2> QED
    BY <2>2, <2>3 DEF Row
<1> QED
  BY <1>1, <1>2, WhereTo

\* A step keeps ReadHasReader.
LEMMA NextKeepsReader ==
  ASSUME TypeInv, SendInv, StatusInv, [Next]_vars
  PROVE  ReadHasReader'
<1> SUFFICES ASSUME NEW m \in Messages', message'[m].status = "READ", failures' = 0
             PROVE  \/ \E u \in Users : receipt'[m][u] = "READ" /\ u # message'[m].sender
                    \/ \E r \in Requests : At(r, "receipts")' /\ m \in request'[r].uids
  BY HistoriesGrow DEF ReadHasReader, Readers, Recipients, Holders
<1>1. failures = 0 /\ ~(failures > 0) /\ ~(failures' > 0)
  BY HistoriesGrow
<1>2. ASSUME NEW r \in Requests, MarkMessages(r), m \in request[r].uids
      PROVE  At(r, "receipts")' /\ m \in request'[r].uids
  <2>1. request[r] \in Request
    BY <1>2, AtStep DEF MarkMessages, TypeInv, AllSteps
  <2> QED
    BY <1>2, <2>1, PassedOn DEF MarkMessages, Goto, At, Request, TypeInv, TypeOK
<1>3. ASSUME m \in Messages, message[m].status = "READ"
      PROVE  \/ \E u \in Users : receipt'[m][u] = "READ" /\ u # message'[m].sender
             \/ \E r \in Requests : At(r, "receipts")' /\ m \in request'[r].uids
  <2>1. message'[m].sender = message[m].sender
    BY <1>3, TablesGrow DEF RowsStay
  <2>2. CASE Readers(m) # {}
    <3>1. PICK u \in Users : receipt[m][u] = "READ" /\ u # message[m].sender
      BY <2>2 DEF Readers, Recipients, Holders
    <3> QED
      BY <1>3, <2>1, <3>1, ReadersStay
  <2>3. ASSUME NEW r \in Requests, At(r, "receipts"), m \in request[r].uids
        PROVE  \/ \E u \in Users : receipt'[m][u] = "READ" /\ u # message'[m].sender
               \/ At(r, "receipts")' /\ m \in request'[r].uids
    <3>1. CASE request'[r] = request[r]
      BY <2>3, <3>1 DEF At
    <3>2. CASE request'[r] # request[r]
      <4>1. InFlight(r) /\ request[r].user \in Users
        BY <2>3, AtStep DEF TypeInv, AllSteps, Request
      <4>2. Work(r)
        BY <1>1, <3>2, <4>1, LeavesByWork
      <4>3. MarkReceipts(r)
        BY <2>3, <4>2 DEF At, Work, TouchMember, FindUnread, MarkMessages, ListMarked,
             CreateMessage, ReadMembers, InsertReceipts, InsertOwnReceipt, FindMessage,
             DeleteMessage
      <4>4. message[m].sender # request[r].user
        BY <2>3 DEF TypeInv, UnreadIsThere
      <4>5. m \in MessageUids
        BY DEF Messages
      <4>6. receipt'[m][request[r].user] = "READ"
        BY <2>3, <4>1, <4>3, <4>5 DEF MarkReceipts, TypeInv, TypeOK
      <4> QED
        BY <2>1, <4>1, <4>4, <4>6
    <3> QED
      BY <3>1, <3>2
  <2> QED
    BY <1>1, <1>3, <2>2, <2>3 DEF StatusInv, ReadHasReader
<1> QED
  BY <1>2, <1>3, StatusMoves

\* The status of a message and its receipts agree, as far as two updates in no
\* transaction can make them (markMessagesAsRead, createMessageReceipt, delete):
\* what has been read is not shown as SENT, whatever fails, and what is shown
\* as READ has a reader or is about to have one, while nothing has failed.
THEOREM StatusFollows == Spec => []StatusFollowsReceipts
<1>1. Init => SendInv /\ StatusInv
  BY DEF Init, SendInv, SendsApart, NoReceiptYet, Sending, StatusInv, ReadReceiptShows,
         StatusInHand, ReadHasReader, At, Idle, Messages
<1>2. TypeInv /\ SendInv /\ StatusInv /\ [Next]_vars => (SendInv /\ StatusInv)'
  BY SendsStayApart, NoReceiptAppears, NextKeepsShows, NextKeepsInHand, NextKeepsReader
     DEF SendInv, StatusInv
<1>3. StatusInv => StatusFollowsReceipts
  BY DEF StatusInv, StatusFollowsReceipts
<1> QED
  BY <1>1, <1>2, <1>3, TypeCorrect, PTL DEF Spec

-----------------------------------------------------------------------------
(* Receipts reach the members.                                             *)

\* The audience of a message has its receipts, or is among the members its send
\* will read, or among those it has read.
AudienceReached(m) ==
  \/ audience[m] \subseteq Holders(m)
  \/ \E r \in Requests : /\ At(r, "members") /\ request[r].uid = m
                         /\ audience[m] \subseteq members \ {request[r].user}
  \/ \E r \in Requests : /\ At(r, "others") /\ request[r].uid = m
                         /\ audience[m] \subseteq request[r].others

AudienceInv == failures = 0 => \A m \in Messages : AudienceReached(m)

\* Who leaves the conversation leaves the audience of its messages.
LEMMA LeaversLeave ==
  ASSUME TypeInv, [Next]_vars, NEW m \in Messages, NEW u, audience[m] \subseteq members \ {u}
  PROVE  audience'[m] \subseteq members' \ {u}
<1>1. audience'[m] \subseteq audience[m]
  BY AudienceShrinks DEF Messages
<1>2. CASE members \subseteq members'
  BY <1>1, <1>2
<1>3. ASSUME NEW v \in Movers, MemberLeaves(v)
      PROVE  audience'[m] \subseteq members' \ {u}
  BY <1>3 DEF MemberLeaves, Messages
<1> QED
  BY <1>2, <1>3
     DEF Next, vars, Work, SendArrives, ReadArrives, DeleteArrives, Arrive, TouchMember,
         FindUnread, MarkMessages, MarkReceipts, ListMarked, CreateMessage, ReadMembers,
         InsertReceipts, InsertOwnReceipt, FindMessage, DeleteMessage, Refuse, table,
         AwaitFails, MemberJoins

\* A step keeps AudienceInv: who has stayed a member is in the list of a send.
LEMMA NextKeepsAudience ==
  ASSUME TypeInv, AudienceInv, [Next]_vars
  PROVE  AudienceInv'
<1> SUFFICES ASSUME failures' = 0, NEW m \in Messages'
             PROVE  AudienceReached(m)'
  BY DEF AudienceInv
<1> DEFINE Goal ==
      \/ \A u \in audience'[m] : receipt'[m][u] # "none"
      \/ \E r \in Requests : /\ At(r, "members")' /\ request'[r].uid = m
                             /\ audience'[m] \subseteq members' \ {request'[r].user}
      \/ \E r \in Requests : /\ At(r, "others")' /\ request'[r].uid = m
                             /\ audience'[m] \subseteq request'[r].others
<1>1. failures = 0 /\ ~(failures' > 0) /\ m \in MessageUids
  BY HistoriesGrow DEF Messages
<1>2. SUFFICES Goal
  <2>1. audience'[m] \subseteq Users
    BY <1>1, NextKeepsType DEF TypeOK
  <2> QED
    BY <2>1 DEF AudienceReached, Holders
<1>3. CASE m \notin Messages
  BY <1>3, StatusMoves
<1>4. CASE m \in Messages
  <2>1. audience'[m] \subseteq audience[m] /\ audience[m] \subseteq Users
    BY <1>1, <1>4, AudienceShrinks DEF TypeInv, TypeOK
  <2>2. CASE audience[m] \subseteq Holders(m)
    BY <1>1, <2>1, <2>2, TablesGrow DEF ReceiptsStay, Holders
  <2>3. ASSUME NEW r \in Requests, At(r, "members"), request[r].uid = m,
               audience[m] \subseteq members \ {request[r].user}
        PROVE  Goal
    <3>1. CASE request'[r] = request[r]
      BY <1>4, <2>3, <3>1, LeaversLeave DEF At
    <3>2. CASE request'[r] # request[r]
      <4>1. InFlight(r) /\ request[r] \in Request
        BY <2>3, AtStep DEF TypeInv, AllSteps
      <4>2. Work(r)
        BY <1>1, <3>2, <4>1, LeavesByWork
      <4>3. ReadMembers(r)
        BY <2>3, <4>2 DEF At, Work, TouchMember, FindUnread, MarkMessages, MarkReceipts,
             ListMarked, CreateMessage, InsertReceipts, InsertOwnReceipt, FindMessage,
             DeleteMessage
      <4>4. request'[r].pc = "others"
        BY <4>1, <4>3 DEF ReadMembers, Become, Request, TypeInv, TypeOK
      <4> QED
        BY <2>1, <2>3, <4>3, <4>4, PassedOn DEF At
    <3> QED
      BY <3>1, <3>2
  <2>4. ASSUME NEW r \in Requests, At(r, "others"), request[r].uid = m,
               audience[m] \subseteq request[r].others
        PROVE  Goal
    <3>1. CASE request'[r] = request[r]
      BY <2>1, <2>4, <3>1 DEF At
    <3>2. CASE request'[r] # request[r]
      <4>1. InFlight(r)
        BY <2>4, AtStep DEF TypeInv, AllSteps
      <4>2. Work(r)
        BY <1>1, <3>2, <4>1, LeavesByWork
      <4>3. InsertReceipts(r)
        BY <2>4, <4>2 DEF At, Work, TouchMember, FindUnread, MarkMessages, MarkReceipts,
             ListMarked, CreateMessage, ReadMembers, InsertOwnReceipt, FindMessage,
             DeleteMessage
      <4>4. \A u \in audience[m] : receipt'[m][u] = "DELIVERED"
        BY <1>1, <2>1, <2>4, <4>3 DEF InsertReceipts, TypeInv, TypeOK
      <4> QED
        BY <2>1, <4>4
    <3> QED
      BY <3>1, <3>2
  <2> QED
    BY <1>1, <1>4, <2>2, <2>3, <2>4 DEF AudienceInv, AudienceReached
<1> QED
  BY <1>3, <1>4

\* When a send is over, whoever has been a member since its message is there
\* has a receipt of it (createTextMessage, getOtherMembersUids,
\* createMessageReceipt), however many join, leave, send and read meanwhile.
THEOREM MembersReached == Spec => []MembersGetReceipts
<1>1. Init => AudienceInv
  BY DEF Init, AudienceInv, Messages
<1>2. TypeInv /\ AudienceInv => MembersGetReceipts
  <2> SUFFICES ASSUME TypeInv, AudienceInv, NEW m \in Messages, failures = 0,
                      \A r \in Requests : request[r].op = "send" => request[r].uid # m
               PROVE  audience[m] \subseteq Holders(m)
    BY DEF MembersGetReceipts
  <2>1. \A r \in Requests : At(r, "members") \/ At(r, "others") => request[r].op = "send"
    BY AtStep DEF TypeInv, AllSteps
  <2> QED
    BY <2>1 DEF AudienceInv, AudienceReached
<1>3. TypeInv /\ AudienceInv /\ [Next]_vars => AudienceInv'
  BY NextKeepsAudience
<1> QED
  BY <1>1, <1>2, <1>3, TypeCorrect, PTL DEF Spec

-----------------------------------------------------------------------------
(* Someone learns that everybody has read a message.                       *)

\* The step after which everybody has read a message is one of a reader who has
\* yet to list the receipts.
LEMMA LastReaderLists ==
  ASSUME TypeInv, SendInv, [Next]_vars, NEW m \in Messages', ReadByAll(m)', ~ReadByAll(m)
  PROVE  \E r \in Requests : At(r, "list")' /\ m \in request'[r].uids
<1>1. m \in MessageUids
  BY DEF Messages
<1>2. ASSUME NEW r \in Requests, MarkReceipts(r), m \in request[r].uids
      PROVE  At(r, "list")' /\ m \in request'[r].uids
  <2>1. request[r] \in Request
    BY <1>2, AtStep DEF MarkReceipts, TypeInv, AllSteps
  <2> QED
    BY <1>2, <2>1, PassedOn DEF MarkReceipts, Goto, At, Request, TypeInv, TypeOK
<1>3. ASSUME \A r \in Requests : MarkReceipts(r) => m \notin request[r].uids
      PROVE  FALSE
  <2> DEFINE s == message'[m].sender
  <2>1. /\ \A u \in Users : receipt'[m][u] # "none" /\ u # s => receipt'[m][u] = "READ"
        /\ \E u \in Users : receipt'[m][u] # "none" /\ u # s
    BY DEF ReadByAll, Recipients, Readers, Holders
  <2>2. \A u \in Users : receipt'[m][u] = "READ" => receipt[m][u] = "READ"
    BY <1>1, <1>3, ReadAppears
  <2>3. \A u \in Users : receipt[m][u] # "none" => receipt'[m][u] # "none"
    BY <1>1, TablesGrow DEF ReceiptsStay
  <2>4. PICK v \in Users : receipt[m][v] = "READ" /\ v # s
    BY <2>1, <2>2
  <2>5. m \in Messages /\ message[m].sender = s
    BY <1>1, <2>4, TablesGrow DEF SendInv, NoReceiptYet, RowsStay
  <2>6. \A u \in Users : receipt[m][u] # "none" /\ u # s => receipt[m][u] = "READ"
    BY <2>1, <2>2, <2>3
  <2> QED
    BY <2>4, <2>5, <2>6 DEF ReadByAll, Recipients, Readers, Holders
<1> QED
  BY <1>2, <1>3

\* A step keeps SomeoneLearns: the last receipt to become READ has a call behind it.
LEMMA NextKeepsLearning ==
  ASSUME TypeInv, SendInv, SomeoneLearns, [Next]_vars
  PROVE  SomeoneLearns'
<1> SUFFICES ASSUME NEW m \in Messages', ReadByAll(m)', failures' = 0, m \notin learned'
             PROVE  \E r \in Requests : At(r, "list")' /\ m \in request'[r].uids
  BY HistoriesGrow DEF SomeoneLearns
<1>1. ~(failures > 0) /\ ~(failures' > 0) /\ m \notin learned
  BY HistoriesGrow
<1>2. CASE ReadByAll(m)
  <2>1. m \in Messages
    BY <1>2 DEF SendInv, NoReceiptYet, ReadByAll, Recipients, Holders, Messages
  <2>2. PICK r \in Requests : At(r, "list") /\ m \in request[r].uids
    BY <1>1, <1>2, <2>1 DEF SomeoneLearns
  <2>3. CASE request'[r] = request[r]
    BY <2>2, <2>3 DEF At
  <2>4. CASE request'[r] # request[r]
    <3>1. InFlight(r)
      BY <2>2, AtStep DEF TypeInv, AllSteps
    <3>2. Work(r)
      BY <1>1, <2>4, <3>1, LeavesByWork
    <3>3. ListMarked(r)
      BY <2>2, <3>2 DEF At, Work, TouchMember, FindUnread, MarkMessages, MarkReceipts,
           CreateMessage, ReadMembers, InsertReceipts, InsertOwnReceipt, FindMessage,
           DeleteMessage
    <3>4. m \in learned'
      BY <1>2, <2>2, <3>3 DEF ListMarked
    <3> QED
      BY <3>4
  <2> QED
    BY <2>3, <2>4
<1>3. CASE ~ReadByAll(m)
  BY <1>3, LastReaderLists
<1> QED
  BY <1>2, <1>3

\* When everybody has read a message, some call of markMessagesAsRead has found
\* so or is about to list the receipts, however the calls interleave and as long
\* as no await has failed.
THEOREM SomeoneIsTold == Spec => []SomeoneLearns
<1>1. Init => SendInv /\ SomeoneLearns
  BY DEF Init, SendInv, SendsApart, NoReceiptYet, Sending, SomeoneLearns, At, Idle, Messages
<1>2. TypeInv /\ SendInv /\ [Next]_vars => SendInv'
  BY SendsStayApart, NoReceiptAppears DEF SendInv
<1>3. TypeInv /\ SendInv /\ SomeoneLearns /\ [Next]_vars => SomeoneLearns'
  BY NextKeepsLearning
<1> QED
  BY <1>1, <1>2, <1>3, TypeCorrect, PTL DEF Spec

-----------------------------------------------------------------------------
(* The rooms of the chat (ChatRooms), whose instance is in MCPages.        *)

\* A message has its conversation only with a recipient, and that is a private one.
SendsArePrivate == \A s \in RoomSockets : sending[s].conversation \subseteq Privates

\* The users us become members of c.
LEMMA AddingKeepsTypes ==
  ASSUME Chat!TypeOK, NEW c \in Chat!Conversations, NEW us \in SUBSET RoomUsers,
         Chat!AddMembers(c, us)
  PROVE  /\ member' \in [Chat!Conversations -> SUBSET RoomUsers]
         /\ been' \in [Chat!Conversations -> SUBSET RoomUsers]
         /\ \A d \in Chat!Conversations :
              member[d] \subseteq member'[d] /\ member'[d] \subseteq been'[d]
         /\ us \subseteq member'[c]
         /\ been' = [been EXCEPT ![c] = @ \cup us] /\ found' = found
         /\ excused' \in [RoomSockets -> SUBSET Chat!Conversations]
         /\ \A s \in RoomSockets : excused[s] \subseteq excused'[s]
BY DEF Chat!TypeOK, Chat!AddMembers

\* A step but for the rooms of one socket, by one who is a member.
LEMMA RoomTypes ==
  ASSUME Chat!TypeOK, SendsArePrivate, [Chat!Next]_(Chat!vars)
  PROVE  Chat!TypeOK' /\ SendsArePrivate'
<1> USE PagesAndRoomsAssumption DEF Chat!RoomsAssumption
<1> USE DEF SendsArePrivate, Chat!TypeOK, Chat!Open
<1>1. ASSUME NEW s \in RoomSockets, Chat!Connect(s)  PROVE  Chat!TypeOK' /\ SendsArePrivate'
  BY <1>1 DEF Chat!Connect, Chat!hist
<1>2. ASSUME NEW s \in RoomSockets, Chat!FindMemberships(s)
      PROVE  Chat!TypeOK' /\ SendsArePrivate'
  BY <1>2 DEF Chat!FindMemberships
<1>3. ASSUME NEW s \in RoomSockets, Chat!JoinFound(s)
      PROVE  Chat!TypeOK' /\ SendsArePrivate'
  BY <1>3 DEF Chat!JoinFound
<1>4. ASSUME NEW s \in RoomSockets, Chat!Close(s)  PROVE  Chat!TypeOK' /\ SendsArePrivate'
  BY <1>4 DEF Chat!Close
<1>5. ASSUME NEW s \in RoomSockets, Chat!Authenticate(s)
      PROVE  Chat!TypeOK' /\ SendsArePrivate'
  BY <1>5 DEF Chat!Authenticate, Chat!hist
<1>6. ASSUME NEW s \in RoomSockets, Chat!Broadcast(s)
      PROVE  Chat!TypeOK' /\ SendsArePrivate'
  BY <1>6 DEF Chat!Broadcast, Chat!NotSending, Chat!Sending
<1>7. ASSUME NEW s \in RoomSockets, NEW v \in RoomUsers, Chat!StoreToRecipient(s, v)
      PROVE  Chat!TypeOK' /\ SendsArePrivate'
  <2>1. PICK c \in Privates :
          /\ sending' = [sending EXCEPT ![s] = [to |-> {v}, conversation |-> {c}]]
          /\ \/ {RoomOwner[s], v} \subseteq member[c] /\ UNCHANGED <<member, been, found, excused>>
             \/ Chat!AddMembers(c, {RoomOwner[s], v})
    BY <1>7 DEF Chat!StoreToRecipient, Chat!hist
  <2>2. UNCHANGED <<connecting, userUid, rooms>> /\ s \in userUid
    BY <1>7 DEF Chat!StoreToRecipient
  <2>3. c \in Chat!Conversations /\ {RoomOwner[s], v} \subseteq RoomUsers
    BY DEF Chat!Conversations
  <2>4. sending' \in [RoomSockets -> Chat!Sending]
    BY <2>1, <2>3 DEF Chat!Sending
  <2>5. /\ member' \in [Chat!Conversations -> SUBSET RoomUsers]
        /\ \A d \in Chat!Conversations :
             member[d] \subseteq member'[d] /\ member'[d] \subseteq been'[d]
        /\ {RoomOwner[s], v} \subseteq member'[c]
        /\ been' \in [Chat!Conversations -> SUBSET RoomUsers]
        /\ found' = found /\ excused' \in [RoomSockets -> SUBSET Chat!Conversations]
    BY <2>1, <2>3, AddingKeepsTypes
  <2>6. \A t \in RoomSockets \ {s} : sending'[t] = sending[t]
    BY <2>1
  <2>7. sending'[s].conversation = {c} /\ sending'[s].to = {v}
    BY <2>1
  <2>8. \A t \in RoomSockets : \A d \in sending'[t].conversation \cap Privates :
          {RoomOwner[t]} \cup sending'[t].to \subseteq member'[d]
    BY <2>5, <2>6, <2>7 DEF Chat!Conversations
  <2>9. SendsArePrivate'
    BY <2>6, <2>7
  <2> QED
    BY <2>2, <2>4, <2>5, <2>6, <2>8, <2>9
<1>8. ASSUME NEW s \in RoomSockets, NEW c \in Chat!Conversations,
             Chat!JoinConversation(s, c) \/ Chat!LeaveConversation(s, c)
      PROVE  Chat!TypeOK' /\ SendsArePrivate'
  BY <1>8 DEF Chat!JoinConversation, Chat!LeaveConversation, Chat!Enter, Chat!hist
<1>9. ASSUME NEW c \in Groups, NEW u \in RoomUsers, Chat!PlayerJoins(c, u)
      PROVE  Chat!TypeOK' /\ SendsArePrivate'
  <2>1. c \in Chat!Conversations /\ Chat!AddMembers(c, {u}) /\ UNCHANGED <<connecting, userUid, rooms, sending>>
    BY <1>9 DEF Chat!PlayerJoins, Chat!Conversations
  <2>2. /\ member' \in [Chat!Conversations -> SUBSET RoomUsers]
        /\ \A d \in Chat!Conversations :
             member[d] \subseteq member'[d] /\ member'[d] \subseteq been'[d]
        /\ been' \in [Chat!Conversations -> SUBSET RoomUsers]
        /\ found' = found /\ excused' \in [RoomSockets -> SUBSET Chat!Conversations]
    BY <2>1, AddingKeepsTypes
  <2> QED
    BY <2>1, <2>2 DEF Chat!Conversations
<1>10. ASSUME NEW c \in Groups, NEW u \in RoomUsers, Chat!PlayerLeaves(c, u)
       PROVE  Chat!TypeOK' /\ SendsArePrivate'
  BY <1>10 DEF Chat!PlayerLeaves, Chat!Conversations, Chat!hist
<1>11. CASE UNCHANGED Chat!vars
  BY <1>11 DEF Chat!vars, Chat!hist
<1> QED
  BY <1>1, <1>2, <1>3, <1>4, <1>5, <1>6, <1>7, <1>8, <1>9, <1>10, <1>11 DEF Chat!Next

\* What holds of a socket and a conversation at every step.
RoomAgrees(t, c) ==
  /\ connecting[t] \in {"closed", "finding"} => c \notin found[t]
  /\ connecting[t] = "connected" /\ c \in found[t] => c \in rooms[t] \cup excused[t]
  /\ connecting[t] \in {"joining", "connected"} /\ RoomOwner[t] \in member[c]
       => c \in rooms[t] \cup found[t] \cup excused[t]
  /\ c \in rooms[t] => RoomOwner[t] \in been[c] \/ c \in found[t]

\* What a change of the members does to a socket: it is excused from a
\* conversation it has not been handed.
LEMMA AddingKeepsRooms ==
  ASSUME Chat!TypeOK, NEW c \in Chat!Conversations, NEW us \in SUBSET RoomUsers,
         Chat!AddMembers(c, us), UNCHANGED <<connecting, rooms>>,
         NEW t \in RoomSockets, NEW d \in Chat!Conversations, RoomAgrees(t, d)
  PROVE  RoomAgrees(t, d)'
<1>1. /\ member' = [member EXCEPT ![c] = @ \cup us]
      /\ been' = [been EXCEPT ![c] = @ \cup us]
      /\ found' = found
      /\ excused[t] \subseteq excused'[t]
      /\ connecting[t] \in {"joining", "connected"} /\ RoomOwner[t] \in us \ member[c]
           => c \in rooms[t] \cup found[t] \cup excused'[t]
  BY DEF Chat!AddMembers
<1>2. CASE d = c
  BY <1>1, <1>2 DEF RoomAgrees, Chat!TypeOK
<1>3. CASE d # c
  BY <1>1, <1>3 DEF RoomAgrees, Chat!TypeOK
<1> QED
  BY <1>2, <1>3

\* Whoever a message brings into a room is a member.
LEMMA StepKeepsRooms ==
  ASSUME Chat!TypeOK, SendsArePrivate, [Chat!Next]_(Chat!vars),
         NEW t \in RoomSockets, NEW d \in Chat!Conversations, RoomAgrees(t, d)
  PROVE  RoomAgrees(t, d)'
<1> USE DEF Chat!TypeOK
<1>1. ASSUME NEW s \in RoomSockets, Chat!Connect(s)  PROVE  RoomAgrees(t, d)'
  BY <1>1 DEF Chat!Connect, Chat!hist, Chat!Open, RoomAgrees
<1>2. ASSUME NEW s \in RoomSockets, Chat!FindMemberships(s)  PROVE  RoomAgrees(t, d)'
  BY <1>2 DEF Chat!FindMemberships, Chat!Exists, RoomAgrees
<1>3. ASSUME NEW s \in RoomSockets, Chat!JoinFound(s)  PROVE  RoomAgrees(t, d)'
  BY <1>3 DEF Chat!JoinFound, RoomAgrees
<1>4. ASSUME NEW s \in RoomSockets, Chat!Close(s)  PROVE  RoomAgrees(t, d)'
  BY <1>4 DEF Chat!Close, RoomAgrees
<1>5. ASSUME NEW s \in RoomSockets, Chat!Authenticate(s)  PROVE  RoomAgrees(t, d)'
  BY <1>5 DEF Chat!Authenticate, Chat!hist, RoomAgrees
<1>6. ASSUME NEW s \in RoomSockets, Chat!Broadcast(s)  PROVE  RoomAgrees(t, d)'
  <2> DEFINE enters == sending[s].to # {} /\ RoomOwner[t] \in {RoomOwner[s]} \cup sending[s].to
  <2>1. enters /\ d \in sending[s].conversation => RoomOwner[t] \in been[d]
    BY DEF SendsArePrivate
  <2>2. \/ UNCHANGED <<rooms[t], excused[t]>>
        \/ /\ enters
           /\ rooms'[t] = rooms[t] \cup sending[s].conversation
           /\ excused'[t] = excused[t] \ sending[s].conversation
    BY <1>6 DEF Chat!Broadcast
  <2>3. UNCHANGED <<member, connecting, been, found>>
    BY <1>6 DEF Chat!Broadcast
  <2> HIDE DEF enters
  <2> QED
    BY <2>1, <2>2, <2>3 DEF RoomAgrees
<1>7. ASSUME NEW s \in RoomSockets, NEW v \in RoomUsers, Chat!StoreToRecipient(s, v)
      PROVE  RoomAgrees(t, d)'
  <2>1. UNCHANGED <<connecting, rooms>>
    BY <1>7 DEF Chat!StoreToRecipient
  <2>2. PICK c \in Privates : \/ UNCHANGED <<member, been, found, excused>>
                              \/ Chat!AddMembers(c, {RoomOwner[s], v})
    BY <1>7 DEF Chat!StoreToRecipient, Chat!hist
  <2>3. c \in Chat!Conversations /\ {RoomOwner[s], v} \in SUBSET RoomUsers
    BY PagesAndRoomsAssumption DEF Chat!Conversations, Chat!RoomsAssumption
  <2>4. CASE UNCHANGED <<member, been, found, excused>>
    BY <2>1, <2>4 DEF RoomAgrees
  <2>5. CASE Chat!AddMembers(c, {RoomOwner[s], v})
    BY <2>1, <2>3, <2>5, AddingKeepsRooms
  <2> QED
    BY <2>2, <2>4, <2>5
<1>8. ASSUME NEW s \in RoomSockets, NEW c \in Chat!Conversations, Chat!JoinConversation(s, c)
      PROVE  RoomAgrees(t, d)'
  BY <1>8 DEF Chat!JoinConversation, Chat!Enter, RoomAgrees
<1>9. ASSUME NEW s \in RoomSockets, NEW c \in Chat!Conversations, Chat!LeaveConversation(s, c)
      PROVE  RoomAgrees(t, d)'
  BY <1>9 DEF Chat!LeaveConversation, RoomAgrees
<1>10. ASSUME NEW c \in Groups, NEW u \in RoomUsers, Chat!PlayerJoins(c, u)
       PROVE  RoomAgrees(t, d)'
  <2>1. c \in Chat!Conversations /\ Chat!AddMembers(c, {u}) /\ UNCHANGED <<connecting, rooms>>
    BY <1>10 DEF Chat!PlayerJoins, Chat!Conversations
  <2> QED
    BY <2>1, AddingKeepsRooms
<1>11. ASSUME NEW c \in Groups, NEW u \in RoomUsers, Chat!PlayerLeaves(c, u)
       PROVE  RoomAgrees(t, d)'
  BY <1>11 DEF Chat!PlayerLeaves, Chat!hist, RoomAgrees
<1>12. CASE UNCHANGED Chat!vars
  BY <1>12 DEF Chat!vars, Chat!hist, RoomAgrees
<1> QED
  BY <1>1, <1>2, <1>3, <1>4, <1>5, <1>6, <1>7, <1>8, <1>9, <1>10, <1>11, <1>12 DEF Chat!Next

\* However sockets connect and close while members come and go: a connected
\* socket misses the room of a conversation of its user only if it has left it
\* or the user was added after its memberships were read, and it is in the room
\* of a conversation its user never was in only if that was handed to it as it
\* connected (handleConnection, handleSendMessage, handleJoinConversation).
THEOREM RoomsStayExplained == Chat!Spec => []RoomsAreExplained
<1> DEFINE Agrees == \A t \in RoomSockets, d \in Chat!Conversations : RoomAgrees(t, d)
<1>1. Chat!Init => Chat!TypeOK /\ SendsArePrivate /\ Agrees
  BY DEF Chat!Init, Chat!TypeOK, SendsArePrivate, RoomAgrees, Chat!NotSending, Chat!Sending, Chat!Open
<1>2. Chat!TypeOK /\ SendsArePrivate /\ [Chat!Next]_(Chat!vars)
        => Chat!TypeOK' /\ SendsArePrivate'
  BY RoomTypes
<1>3. Chat!TypeOK /\ SendsArePrivate /\ Agrees /\ [Chat!Next]_(Chat!vars) => Agrees'
  BY StepKeepsRooms
<1>4. Chat!TypeOK /\ Agrees => RoomsAreExplained
  BY DEF RoomAgrees, Chat!TypeOK, RoomsAreExplained, Chat!RoomsAreExplained, Chat!MembersHear,
       Chat!StrangersWereHanded
<1> HIDE DEF Agrees
<1> QED
  BY <1>1, <1>2, <1>3, <1>4, PTL DEF Chat!Spec

-----------------------------------------------------------------------------
(* Pages, whose instance is in MCPages: rows, their places and numbers.   *)

\* What the constants of the pages are.
LEMMA PageConstants ==
  /\ MaxRow \in Nat \ {0} /\ Limits \subseteq Nat \ {0}
  /\ DefaultLimit \in Nat \ {0} /\ MaxChanges \in Nat
  /\ MaxInvitations \in Nat \ {0}
  BY PagesAndRoomsAssumption DEF Paging!PagesAssumption

\* A place for each row, and none for two.
Orders == {p \in [Paging!Rows -> Paging!Rows] : \A x, y \in Paging!Rows : p[x] = p[y] => x = y}

\* A place is a number from one to the last.
LEMMA PlacesAreNumbers ==
  \A p \in Orders : \A x \in Paging!Rows : p[x] \in Nat /\ 1 <= p[x] /\ p[x] <= MaxRow
  BY PageConstants DEF Orders, Paging!Rows

\* How many of the rows S stand before x.
Number(p, S, x) == Cardinality({y \in S : p[y] < p[x]})

\* The rows, and any of them, can be counted.
LEMMA RowsAreFinite ==
  ASSUME NEW S \in SUBSET Paging!Rows
  PROVE  IsFiniteSet(S) /\ Cardinality(S) \in Nat
<1>1. IsFiniteSet(1 .. MaxRow)
  BY PageConstants, FS_Interval
<1>2. IsFiniteSet(S)
  BY <1>1, FS_Subset DEF Paging!Rows
<1> QED
  BY <1>2, FS_CardinalityType

\* Of two rows the later has more before it, and each fewer than there are rows.
LEMMA NumbersFollowPlaces ==
  ASSUME NEW p \in Orders, NEW S \in SUBSET Paging!Rows, NEW x \in S
  PROVE  /\ Number(p, S, x) \in 0 .. Cardinality(S) - 1
         /\ \A y \in S : p[x] < p[y] <=> Number(p, S, x) < Number(p, S, y)
         /\ \A y \in S : Number(p, S, x) = Number(p, S, y) => x = y
<1> DEFINE Head(z) == {y \in S : p[y] < p[z]}
<1>1. \A z \in S : p[z] \in Nat
  BY PlacesAreNumbers
<1>2. \A z \in Paging!Rows : Number(p, S, z) = Cardinality(Head(z)) /\ Number(p, S, z) \in Nat
  BY RowsAreFinite DEF Number
<1>3. Number(p, S, x) < Cardinality(S)
  <2>1. Head(x) \subseteq S \ {x}
    BY <1>1
  <2>2. Cardinality(S \ {x}) = Cardinality(S) - 1 /\ IsFiniteSet(S \ {x})
    BY RowsAreFinite, FS_RemoveElement
  <2>3. Cardinality(Head(x)) <= Cardinality(S \ {x})
    BY <2>1, <2>2, FS_Subset
  <2> QED
    BY <2>2, <2>3, <1>2, RowsAreFinite
<1>4. ASSUME NEW y \in S, NEW z \in S, p[y] < p[z]
      PROVE  Number(p, S, y) < Number(p, S, z)
  <2>1. Head(y) \subseteq Head(z) \ {y} /\ y \in Head(z)
    BY <1>1, <1>4
  <2>2. Cardinality(Head(z) \ {y}) = Cardinality(Head(z)) - 1 /\ IsFiniteSet(Head(z) \ {y})
    <3>1. IsFiniteSet(Head(z))
      BY RowsAreFinite
    <3> QED
      BY <2>1, <3>1, FS_RemoveElement
  <2>3. Cardinality(Head(y)) <= Cardinality(Head(z) \ {y})
    BY <2>1, <2>2, FS_Subset
  <2> QED
    BY <2>2, <2>3, <1>2
<1>5. \A y \in S : p[x] = p[y] => x = y
  BY DEF Orders
<1>6. \A y \in S : p[x] < p[y] \/ p[y] < p[x] \/ p[x] = p[y]
  BY <1>1
<1> HIDE DEF Head
<1> QED
  BY <1>1, <1>2, <1>3, <1>4, <1>5, <1>6, RowsAreFinite

\* No number is left out.
LEMMA EveryNumberIsGiven ==
  ASSUME NEW p \in Orders, NEW S \in SUBSET Paging!Rows, NEW n \in Nat, n < Cardinality(S)
  PROVE  \E x \in S : Number(p, S, x) = n
<1> DEFINE f == [x \in S |-> Number(p, S, x)]
<1> DEFINE T == 0 .. Cardinality(S) - 1
<1>1. f \in Injection(S, T)
  BY NumbersFollowPlaces DEF Injection, IsInjective
<1>2. IsFiniteSet(T) /\ Cardinality(T) = Cardinality(S)
  <2>1. \A m \in Nat : IsFiniteSet(0 .. m - 1) /\ Cardinality(0 .. m - 1) = m
    BY FS_Interval
  <2> QED
    BY <2>1, RowsAreFinite
<1>3. f \in Surjection(S, T)
  BY <1>1, <1>2, FS_Injection
<1>4. n \in T
  BY RowsAreFinite
<1>5. \E x \in S : f[x] = n
  BY <1>3, <1>4 DEF Surjection
<1> QED
  BY <1>5

\* What is cut out of a collection is as long as was asked for, unless the
\* collection ends before.
LEMMA CutIsAsLong ==
  ASSUME NEW p \in Orders, NEW S \in SUBSET Paging!Rows, NEW k \in Nat, NEW n \in Nat
  PROVE  LET cut == {x \in S : Number(p, S, x) \in k .. k + n - 1} IN
         /\ Cardinality(cut) <= n
         /\ k + n <= Cardinality(S) => Cardinality(cut) = n
<1> DEFINE cut == {x \in S : Number(p, S, x) \in k .. k + n - 1}
<1> DEFINE f == [x \in cut |-> Number(p, S, x)]
<1> DEFINE T == k .. k + n - 1
<1>1. f \in Injection(cut, T)
  BY NumbersFollowPlaces DEF Injection, IsInjective
<1>2. IsFiniteSet(T) /\ Cardinality(T) = n
  BY FS_Interval
<1>3. ASSUME k + n <= Cardinality(S)
      PROVE  f \in Surjection(cut, T)
  <2>1. \A m \in T : \E x \in S : Number(p, S, x) = m
    BY <1>3, EveryNumberIsGiven, RowsAreFinite
  <2>2. \A m \in T : \E x \in cut : f[x] = m
    BY <2>1
  <2>3. f \in [cut -> T]
    OBVIOUS
  <2> QED
    BY <2>2, <2>3 DEF Surjection
<1> HIDE DEF f, T
<1>4. Cardinality(cut) <= n /\ (f \in Surjection(cut, T) => Cardinality(cut) = n)
  BY <1>1, <1>2, FS_Injection
<1> QED
  BY <1>3, <1>4

\* The instance has a Cardinality of its own.
LEMMA PagingCardinality ==
  ASSUME NEW S
  PROVE  Paging!Cardinality(S) = Cardinality(S)
  BY DEF Paging!Cardinality, Cardinality

\* The number of a row is what the module counts before it.
LEMMA BeforeIsNumber ==
  ASSUME NEW x, NEW S
  PROVE  Paging!Before(x, S) = Number(place, S, x)
  BY PagingCardinality DEF Paging!Before, Number

\* Putting x elsewhere keeps the order of all others.
SameButFor(p, q, x) ==
  \A y, z \in Paging!Rows \ {x} : q[y] < q[z] <=> p[y] < p[z]

\* To move a row leaves a place for each row and the order of the others.
LEMMA MovingKeepsOrder ==
  ASSUME place \in Orders, NEW x \in Paging!Rows, NEW i \in Paging!Rows
  PROVE  /\ Paging!MoveTo(x, i) \in Orders
         /\ SameButFor(place, Paging!MoveTo(x, i), x)
         /\ Paging!MoveTo(x, i)[x] = i
<1> DEFINE closed == [y \in Paging!Rows |-> IF place[y] > place[x] THEN place[y] - 1 ELSE place[y]]
<1> DEFINE q == Paging!MoveTo(x, i)
<1>1. \A y \in Paging!Rows : q[y] = IF y = x THEN i ELSE IF closed[y] >= i THEN closed[y] + 1 ELSE closed[y]
  BY DEF Paging!MoveTo
<1>2. DOMAIN q = Paging!Rows
  BY DEF Paging!MoveTo
<1>3. \A y \in Paging!Rows : place[y] \in 1 .. MaxRow
  BY DEF Orders, Paging!Rows
<1>4. \A y \in Paging!Rows \ {x} : closed[y] \in 1 .. MaxRow - 1
  BY <1>3, PageConstants DEF Orders
<1>5. \A y, z \in Paging!Rows \ {x} : closed[y] < closed[z] <=> place[y] < place[z]
  BY <1>3, PageConstants DEF Orders
<1>6. \A y, z \in Paging!Rows \ {x} : closed[y] = closed[z] => y = z
  BY <1>3, PageConstants DEF Orders
<1> HIDE DEF closed, q
<1>7. i \in 1 .. MaxRow
  BY DEF Paging!Rows
<1>8. \A y \in Paging!Rows : q[y] \in 1 .. MaxRow
  BY <1>1, <1>4, <1>7, PageConstants
<1>9. \A y, z \in Paging!Rows : q[y] = q[z] => y = z
  BY <1>1, <1>4, <1>6, <1>7, PageConstants
<1>10. q \in [Paging!Rows -> Paging!Rows]
  <2>1. q = [y \in Paging!Rows |-> q[y]]
    BY <1>1 DEF q, Paging!MoveTo
  <2> QED
    BY <2>1, <1>8 DEF Paging!Rows
<1>11. SameButFor(place, q, x)
  BY <1>1, <1>4, <1>5, <1>7, PageConstants DEF SameButFor
<1> QED
  BY <1>1, <1>9, <1>10, <1>11 DEF Orders, q

\* Where the collections S and T, sorted by p and by q, differ in the row x and
\* nowhere else, the number of another row differs by one at most.
LEMMA NumbersDriftByOne ==
  ASSUME NEW p \in Orders, NEW q \in Orders, NEW x, SameButFor(p, q, x),
         NEW S \in SUBSET Paging!Rows, NEW T \in SUBSET Paging!Rows, S \ {x} = T \ {x},
         NEW y \in S \ {x}
  PROVE  /\ Number(p, S, y) \in Nat /\ Number(q, T, y) \in Nat
         /\ Number(q, T, y) <= Number(p, S, y) + 1
         /\ Number(p, S, y) <= Number(q, T, y) + 1
         /\ x \notin S => Number(p, S, y) <= Number(q, T, y)
         /\ x \notin T => Number(q, T, y) <= Number(p, S, y)
<1> DEFINE A == {z \in S : p[z] < p[y]}
<1> DEFINE B == {z \in T : q[z] < q[y]}
<1>1. A \ {x} = B \ {x}
  BY DEF SameButFor
<1>2. A \subseteq S /\ B \subseteq T
  OBVIOUS
<1>3. Number(p, S, y) = Cardinality(A) /\ Number(q, T, y) = Cardinality(B)
  BY DEF Number
<1> HIDE DEF A, B
<1>4. IsFiniteSet(A) /\ IsFiniteSet(B) /\ Cardinality(A) \in Nat /\ Cardinality(B) \in Nat
  BY <1>2, RowsAreFinite
<1>5. /\ Cardinality(A \ {x}) = IF x \in A THEN Cardinality(A) - 1 ELSE Cardinality(A)
      /\ Cardinality(B \ {x}) = IF x \in B THEN Cardinality(B) - 1 ELSE Cardinality(B)
  BY <1>4, FS_RemoveElement
<1>6. x \notin S => x \notin A
  BY <1>2
<1>7. x \notin T => x \notin B
  BY <1>2
<1>8. Cardinality(A \ {x}) = Cardinality(B \ {x})
  BY <1>1
<1> QED
  BY <1>3, <1>4, <1>5, <1>6, <1>7, <1>8

\* A set that gains one row at most.
LEMMA GrowsByOne ==
  ASSUME NEW S \in SUBSET Paging!Rows, NEW T \in SUBSET Paging!Rows,
         \A x, y \in T \ S : x = y
  PROVE  Cardinality(T) <= Cardinality(S) + 1
<1>1. CASE T \subseteq S
  BY <1>1, RowsAreFinite, FS_Subset
<1>2. CASE ~(T \subseteq S)
  <2>1. PICK x \in T \ S : TRUE
    BY <1>2
  <2>2. T \subseteq S \cup {x}
    BY <2>1
  <2>3. IsFiniteSet(S \cup {x}) /\ Cardinality(S \cup {x}) = Cardinality(S) + 1
    BY <2>1, RowsAreFinite, FS_AddElement
  <2> QED
    BY <2>2, <2>3, FS_Subset
<1> QED
  BY <1>1, <1>2

-----------------------------------------------------------------------------
(* What a query cuts out of the rows.                                      *)

\* What a page of n rows holds after some have been skipped, and what the row
\* read beyond it and the last row of it say of the rest.
CutSays(S, k, n, skipped) ==
  LET items == Paging!Cut(S, k, n)
      next == Paging!RowAt(S, k + n)
      last == Paging!RowAt(S, k + n - 1)
  IN
  /\ items \subseteq S
  /\ \A x \in items, y \in skipped : place[y] < place[x]
  /\ k = 0 => skipped = {}
  /\ k = 1 => \A x, y \in skipped : x = y
  /\ k = 1 /\ items # {} => skipped # {}
  /\ Cardinality(S) <= k + n => S \ items \subseteq skipped
  /\ Cardinality(S) > k + n =>
       /\ next \in S /\ last \in items
       /\ \A x \in items : place[x] < place[next] /\ place[x] <= place[last]
       /\ \A x \in S \ items :
            x \in skipped \/ (place[x] >= place[next] /\ place[x] > place[last])

\* Every cut is of that kind: skipped are the rows with too low a number.
LEMMA WhatIsCut ==
  ASSUME place \in Orders, NEW S \in SUBSET Paging!Rows, NEW k \in Nat, NEW n \in Nat \ {0}
  PROVE  \E skipped \in SUBSET S : CutSays(S, k, n, skipped)
<1> DEFINE items == Paging!Cut(S, k, n)
<1> DEFINE skipped == {x \in S : Number(place, S, x) < k}
<1> DEFINE N(x) == Number(place, S, x)
<1>1. items = {x \in S : N(x) \in k .. k + n - 1}
  BY BeforeIsNumber DEF Paging!Cut
<1>2. \A x \in S : N(x) \in 0 .. Cardinality(S) - 1
  BY NumbersFollowPlaces
<1>3. \A x, y \in S : place[x] < place[y] <=> N(x) < N(y)
  BY NumbersFollowPlaces
<1>4. \A x, y \in S : N(x) = N(y) => x = y
  BY NumbersFollowPlaces
<1>5. Cardinality(S) \in Nat
  BY RowsAreFinite
<1>6. \A m \in Nat : m < Cardinality(S) =>
        Paging!RowAt(S, m) \in S /\ N(Paging!RowAt(S, m)) = m
  <2> SUFFICES ASSUME NEW m \in Nat, m < Cardinality(S)
               PROVE  Paging!RowAt(S, m) \in S /\ N(Paging!RowAt(S, m)) = m
    OBVIOUS
  <2>1. \E x \in S : N(x) = m
    BY EveryNumberIsGiven
  <2>2. Paging!RowAt(S, m) = CHOOSE x \in S : N(x) = m
    BY BeforeIsNumber DEF Paging!RowAt
  <2> QED
    BY <2>1, <2>2
<1>7. \A x \in S : place[x] \in Nat
  BY PlacesAreNumbers
<1>8. \A m \in Nat : m < Cardinality(S) => \E x \in S : N(x) = m
  BY EveryNumberIsGiven
<1>9. skipped = {x \in S : N(x) < k} /\ skipped \in SUBSET S
  OBVIOUS
<1> HIDE DEF N, items, skipped
<1>10. k = 1 /\ items # {} => skipped # {}
  BY <1>1, <1>2, <1>5, <1>8, <1>9
<1>11. \A x \in items, y \in skipped : place[y] < place[x]
  BY <1>1, <1>2, <1>3, <1>5, <1>9
<1>12. k = 0 => skipped = {}
  BY <1>2, <1>5, <1>9
<1>13. k = 1 => \A x, y \in skipped : x = y
  BY <1>2, <1>4, <1>5, <1>9
<1>14. Cardinality(S) <= k + n => S \ items \subseteq skipped
  BY <1>1, <1>2, <1>5, <1>9
<1>15. ASSUME Cardinality(S) > k + n
       PROVE  LET next == Paging!RowAt(S, k + n)
                  last == Paging!RowAt(S, k + n - 1)
              IN
              /\ next \in S /\ last \in items
              /\ \A x \in items : place[x] < place[next] /\ place[x] <= place[last]
              /\ \A x \in S \ items :
                   x \in skipped \/ (place[x] >= place[next] /\ place[x] > place[last])
  <2> DEFINE next == Paging!RowAt(S, k + n)
  <2> DEFINE last == Paging!RowAt(S, k + n - 1)
  <2>1. next \in S /\ N(next) = k + n /\ last \in S /\ N(last) = k + n - 1
    BY <1>5, <1>6, <1>15
  <2> HIDE DEF next, last
  <2>2. last \in items
    BY <1>1, <2>1
  <2>3. \A x \in items : place[x] < place[next]
    BY <1>1, <1>2, <1>3, <1>5, <2>1
  <2>4. \A x \in items : ~(place[last] < place[x])
    BY <1>1, <1>2, <1>3, <1>5, <2>1
  <2>5. \A x \in S \ items : x \in skipped \/ N(x) >= k + n
    BY <1>1, <1>2, <1>5, <1>9
  <2>6. \A x \in S : N(x) >= k + n => ~(place[x] < place[next]) /\ place[last] < place[x]
    BY <1>2, <1>3, <1>5, <2>1
  <2> QED
    BY <1>1, <1>7, <2>1, <2>2, <2>3, <2>4, <2>5, <2>6 DEF next, last
<1>16. items \subseteq S
  BY <1>1
<1> QED
  BY <1>9, <1>10, <1>11, <1>12, <1>13, <1>14, <1>15, <1>16 DEF items, CutSays

\* A cut that skips nothing.
LEMMA CutFromStart ==
  ASSUME place \in Orders, NEW S \in SUBSET Paging!Rows, NEW n \in Nat \ {0}
  PROVE  LET items == Paging!Cut(S, 0, n)
             next == Paging!RowAt(S, n)
             last == Paging!RowAt(S, n - 1)
         IN
         /\ items \subseteq S
         /\ Cardinality(S) <= n => S \subseteq items
         /\ Cardinality(S) > n =>
              /\ next \in S /\ last \in items
              /\ \A x \in items : place[x] < place[next] /\ place[x] <= place[last]
              /\ \A x \in S \ items : place[x] >= place[next] /\ place[x] > place[last]
<1>1. PICK skipped \in SUBSET S : CutSays(S, 0, n, skipped)
  <2>1. 0 \in Nat
    OBVIOUS
  <2> QED
    BY <2>1, WhatIsCut
<1>2. 0 + n = n /\ 0 + n - 1 = n - 1
  OBVIOUS
<1> QED
  BY <1>1, <1>2 DEF CutSays

\* A cut that skips one row, as those from the row of a cursor do.
LEMMA CutAfterFirst ==
  ASSUME place \in Orders, NEW S \in SUBSET Paging!Rows, NEW n \in Nat \ {0}
  PROVE  LET items == Paging!Cut(S, 1, n)
             next == Paging!RowAt(S, 1 + n)
         IN
         \E skipped \in SUBSET S :
           /\ items \subseteq S
           /\ \A x \in items, y \in skipped : place[y] < place[x]
           /\ \A x, y \in skipped : x = y
           /\ items # {} => skipped # {}
           /\ Cardinality(S) <= 1 + n => S \ items \subseteq skipped
           /\ Cardinality(S) > 1 + n =>
                /\ next \in S
                /\ \A x \in items : place[x] < place[next]
                /\ \A x \in S \ items : x \in skipped \/ place[x] >= place[next]
<1>1. 1 \in Nat
  OBVIOUS
<1>2. PICK skipped \in SUBSET S : CutSays(S, 1, n, skipped)
  BY <1>1, WhatIsCut
<1> QED
  BY <1>2 DEF CutSays

-----------------------------------------------------------------------------
(* What holds at every step of a reader, whatever it pages through.        *)

\* A ranking in hand: the page, and the row beyond it if there is one.
RankingFits ==
  /\ reader.page \cap reader.beyond = {}
  /\ \/ reader.beyond = {} /\ Cardinality(reader.page) <= reader.limit
     \/ /\ \E x \in Paging!Rows : reader.beyond = {x}
        /\ Cardinality(reader.page) = reader.limit

\* What a request may look like, list by list.
ReaderFits ==
  /\ reader.limit = Paging!None => reader.list = "conversations"
  /\ reader.list \notin Paging!Ranked =>
       reader.cursor \in Paging!Rows \cup {Paging!None} /\ reader.pc # "hydrate"
  /\ reader.list \in Paging!OnePage => reader.cursor = Paging!None
  /\ reader.pc # "done" => \A x \in Paging!Rows : shown[x] <= turns
  /\ reader.cursor = Paging!None => turns = 0
  /\ reader.list \notin Paging!Deletable => \A x \in Paging!Rows : state[x] # "gone"
  /\ IF reader.pc = "hydrate" THEN RankingFits ELSE reader.page = {}

\* Unchanged messages have been shown up to the cursor, each once, and no further.
MessagesBehind ==
  reader.list = "messages" =>
    /\ reader.cursor # Paging!None => state[reader.cursor] = "listed"
    /\ reader.pc = "ask" =>
         \A x \in steady :
           shown[x] = IF reader.cursor # Paging!None /\ place[x] <= place[reader.cursor] THEN 1 ELSE 0
    /\ reader.pc = "done" => \A x \in steady : shown[x] = 1

\* The rows behind the cursor that have not been shown and never will be.
LostBehind ==
  {x \in steady : shown[x] = 0 /\ place[x] < place[reader.cursor]}

\* There are fewer of them than pages turned, and no more at the end.
TurnsPayLosses ==
  reader.list \in Paging!Popped /\ reader.limit # Paging!None /\ changes.moved = 0 =>
    /\ reader.pc = "ask" /\ reader.cursor # Paging!None => Cardinality(LostBehind) + 1 <= turns
    /\ reader.pc = "done" => Cardinality(Paging!Missed) <= turns

\* Until a cursor is moved, what has been shown is behind it.
ShownBehind ==
  reader.list \notin Paging!Ranked /\ ~jumped =>
    \A x \in steady :
      /\ shown[x] <= 1
      /\ reader.pc = "ask" /\ shown[x] = 1 /\ reader.cursor # Paging!None => place[x] <= place[reader.cursor]

\* The offset, or the one after the rows in hand, is beyond the row.
Reached(x) ==
  LET rank == Paging!Before(x, Paging!Listed) IN
  CASE reader.pc = "ask" -> rank < reader.cursor
    [] reader.pc = "hydrate" /\ reader.beyond # {} -> rank < reader.cursor + reader.limit
    [] OTHER -> TRUE

\* How often a row has been shown, the rows in hand counted.
Times(x) == shown[x] + IF x \in reader.page THEN 1 ELSE 0

\* What changes have taken behind the offset, and what they have pushed before it.
LostByOffset == {x \in steady : Reached(x) /\ Times(x) = 0}
RepeatedByOffset == {x \in steady : Times(x) > 1 \/ (Times(x) = 1 /\ ~Reached(x))}

\* Both are as few as the changes that could do so.
OffsetInv ==
  reader.list \in Paging!Ranked /\ scored =>
    /\ Cardinality(LostByOffset) <= changes.left + changes.moved
    /\ Cardinality(RepeatedByOffset) <= changes.came + changes.moved

\* The inductive invariant.
PageInv == Paging!TypeOK /\ ReaderFits /\ MessagesBehind /\ TurnsPayLosses /\ ShownBehind /\ OffsetInv

-----------------------------------------------------------------------------
(* Between two pages one row changes.                                      *)

\* What others may do to the row x and to no other.
Touches(x) ==
  /\ place' \in Orders /\ SameButFor(place, place', x)
  /\ state' \in [Paging!Rows -> {"listed", "unlisted", "gone"}]
  /\ \A y \in Paging!Rows \ {x} : state'[y] = state[y]
  /\ steady' = steady \ {x}
  /\ jumped' \in BOOLEAN /\ (jumped' <=> jumped \/ (x = reader.cursor /\ place' # place))
  /\ UNCHANGED <<copies, scored, reader, shown, turns>>

\* A row comes, to the head of some lists.
Comes(x) ==
  /\ Touches(x)
  /\ state[x] = "unlisted" /\ state'[x] = "listed"
  /\ IF reader.list \in Paging!NewestFirst THEN place'[x] = 1 ELSE place' = place
  /\ changes' = [changes EXCEPT !.came = @ + 1]

\* A row leaves, and keeps its place.
Leaves(x) ==
  /\ Touches(x)
  /\ state[x] = "listed" /\ state'[x] # "listed"
  /\ reader.list # "messages"
  /\ reader.list \notin Paging!Deletable => state'[x] # "gone"
  /\ place' = place
  /\ changes' = [changes EXCEPT !.left = @ + 1]

\* A row moves.
Moves(x) ==
  /\ Touches(x)
  /\ state' = state /\ state[x] = "listed"
  /\ reader.list \in Paging!Movable
  /\ changes' = [changes EXCEPT !.moved = @ + 1]

\* The steps of others that change rows.
Changes == Paging!RowComes \/ Paging!RowLeaves \/ Paging!RowMoves

\* The places of the module are such an order.
LEMMA OrderIsOne ==
  ASSUME Paging!TypeOK
  PROVE  place \in Orders
  BY DEF Paging!TypeOK, Orders

\* What the fields of a reader are.
LEMMA ReaderTypes ==
  ASSUME Paging!TypeOK
  PROVE  /\ reader.cursor \in Nat /\ reader.limit \in Nat
         /\ reader.list \in Paging!Lists
         /\ reader.pc \in {"ask", "hydrate", "done", "failed"}
         /\ reader.page \in SUBSET Paging!Rows /\ reader.beyond \in SUBSET Paging!Rows
<1>1. reader \in Paging!Reader
  BY DEF Paging!TypeOK
<1>2. reader.limit \in Limits \cup {Paging!None}
  BY <1>1 DEF Paging!Reader
<1>3. reader.limit \in Nat
  <2>1. Limits \subseteq Nat /\ Paging!None \in Nat
    BY PageConstants DEF Paging!None
  <2> QED
    BY <1>2, <2>1
<1> QED
  BY <1>1, <1>3 DEF Paging!Reader

\* Whatever others do, one row comes, leaves or moves, and the client has not finished.
LEMMA ChangesTouchOne ==
  ASSUME Paging!TypeOK, Changes
  PROVE  /\ Paging!Reading
         /\ \E x \in Paging!Rows : Comes(x) \/ Leaves(x) \/ Moves(x)
         /\ changes' \in [came : Paging!Counter, left : Paging!Counter, moved : Paging!Counter]
<1>1. place \in Orders /\ \A x : SameButFor(place, place, x)
  BY OrderIsOne DEF SameButFor
<1>2. /\ state \in [Paging!Rows -> {"listed", "unlisted", "gone"}]
      /\ jumped \in BOOLEAN
      /\ changes \in [came : Paging!Counter, left : Paging!Counter, moved : Paging!Counter]
  BY DEF Paging!TypeOK
<1>3. 1 \in Paging!Rows
  BY PageConstants DEF Paging!Rows
<1>4. Paging!Reading
  BY DEF Changes, Paging!RowComes, Paging!RowLeaves, Paging!RowMoves, Paging!MayChange
<1>5. ASSUME Paging!MayChange
      PROVE  /\ changes.came + 1 \in Paging!Counter
             /\ changes.left + 1 \in Paging!Counter
             /\ changes.moved + 1 \in Paging!Counter
  BY <1>2, <1>5, PageConstants DEF Paging!MayChange, Paging!Counter
<1>6. CASE Paging!RowComes
  <2>1. PICK x \in Paging!Rows :
          /\ state[x] = "unlisted"
          /\ state' = [state EXCEPT ![x] = "listed"]
          /\ place' = IF reader.list \in Paging!NewestFirst THEN Paging!MoveTo(x, 1) ELSE place
          /\ steady' = steady \ {x}
          /\ jumped' = (jumped \/ (x = reader.cursor /\ place' # place))
    BY <1>6 DEF Paging!RowComes
  <2>2. /\ changes' = [changes EXCEPT !.came = @ + 1]
        /\ UNCHANGED <<copies, scored, reader, shown, turns>>
        /\ Paging!MayChange
    BY <1>6 DEF Paging!RowComes
  <2>3. /\ place' \in Orders /\ SameButFor(place, place', x)
        /\ IF reader.list \in Paging!NewestFirst THEN place'[x] = 1 ELSE place' = place
    BY <1>1, <1>3, <2>1, MovingKeepsOrder
  <2>4. Touches(x) /\ Comes(x)
    BY <1>2, <2>1, <2>2, <2>3 DEF Touches, Comes
  <2> QED
    BY <1>2, <1>4, <1>5, <2>2, <2>4
<1>7. CASE Paging!RowLeaves
  <2>1. PICK x \in Paging!Rows :
          /\ state[x] = "listed"
          /\ \E s \in {"unlisted"} \cup (IF reader.list \in Paging!Deletable THEN {"gone"} ELSE {}) :
               state' = [state EXCEPT ![x] = s]
          /\ steady' = steady \ {x}
    BY <1>7 DEF Paging!RowLeaves
  <2>2. /\ changes' = [changes EXCEPT !.left = @ + 1]
        /\ UNCHANGED <<place, copies, scored, reader, shown, turns, jumped>>
        /\ Paging!MayChange /\ reader.list # "messages"
    BY <1>7 DEF Paging!RowLeaves
  <2>3. /\ state' \in [Paging!Rows -> {"listed", "unlisted", "gone"}]
        /\ \A y \in Paging!Rows \ {x} : state'[y] = state[y]
        /\ state'[x] # "listed"
        /\ reader.list \notin Paging!Deletable => state'[x] # "gone"
    BY <1>2, <2>1
  <2>4. Touches(x) /\ Leaves(x)
    BY <1>1, <1>2, <2>1, <2>2, <2>3 DEF Touches, Leaves
  <2> QED
    BY <1>2, <1>4, <1>5, <2>2, <2>4
<1>8. CASE Paging!RowMoves
  <2>1. PICK x \in Paging!Rows :
          /\ state[x] = "listed"
          /\ \E i \in IF reader.list = "conversations" THEN {1} ELSE Paging!Rows :
               place' = Paging!MoveTo(x, i)
          /\ place' # place
          /\ steady' = steady \ {x}
          /\ jumped' = (jumped \/ x = reader.cursor)
    BY <1>8 DEF Paging!RowMoves
  <2>2. /\ changes' = [changes EXCEPT !.moved = @ + 1]
        /\ UNCHANGED <<state, copies, scored, reader, shown, turns>>
        /\ Paging!MayChange /\ reader.list \in Paging!Movable
    BY <1>8 DEF Paging!RowMoves
  <2>3. place' \in Orders /\ SameButFor(place, place', x)
    BY <1>1, <1>3, <2>1, MovingKeepsOrder
  <2>4. Touches(x) /\ Moves(x)
    BY <1>2, <2>1, <2>2, <2>3 DEF Touches, Moves
  <2> QED
    BY <1>2, <1>4, <1>5, <2>2, <2>4
<1> QED
  BY <1>6, <1>7, <1>8 DEF Changes

\* The types survive what others do.
LEMMA ChangesKeepTypes ==
  ASSUME Paging!TypeOK, ReaderFits, Changes
  PROVE  Paging!TypeOK' /\ ReaderFits'
<1>1. PICK x \in Paging!Rows : Comes(x) \/ Leaves(x) \/ Moves(x)
  BY ChangesTouchOne
<1>2. Touches(x)
  BY <1>1 DEF Comes, Leaves, Moves
<1>3. changes' \in [came : Paging!Counter, left : Paging!Counter, moved : Paging!Counter]
  BY ChangesTouchOne
<1>4. steady' \in SUBSET {y \in Paging!Rows : state'[y] = "listed"}
  BY <1>2 DEF Touches, Paging!TypeOK
<1>5. Paging!TypeOK'
  BY <1>2, <1>3, <1>4 DEF Touches, Orders, Paging!TypeOK
<1>6. reader.list \notin Paging!Deletable => \A y \in Paging!Rows : state'[y] # "gone"
  BY <1>1, <1>2 DEF Touches, Comes, Leaves, Moves, ReaderFits
<1> QED
  BY <1>2, <1>5, <1>6 DEF Touches, ReaderFits, RankingFits

\* A new message goes to the head, before the cursor and all that was shown.
LEMMA ChangesKeepMessages ==
  ASSUME Paging!TypeOK, ReaderFits, MessagesBehind, Changes
  PROVE  MessagesBehind'
<1> SUFFICES ASSUME reader'.list = "messages"
             PROVE  MessagesBehind'
  BY DEF MessagesBehind
<1>1. PICK x \in Paging!Rows : Comes(x) \/ Leaves(x) \/ Moves(x)
  BY ChangesTouchOne
<1>2. Touches(x)
  BY <1>1 DEF Comes, Leaves, Moves
<1>3. reader' = reader /\ shown' = shown /\ steady' = steady \ {x}
  BY <1>2 DEF Touches
<1>4. Comes(x) /\ place'[x] = 1
  BY <1>1, <1>3 DEF Comes, Leaves, Moves, Paging!Movable, Paging!Ranked, Paging!NewestFirst
<1>5. reader.cursor # Paging!None =>
        /\ reader.cursor \in Paging!Rows /\ reader.cursor # x
        /\ state'[reader.cursor] = "listed"
  BY <1>2, <1>3, <1>4 DEF Comes, Touches, MessagesBehind, ReaderFits, Paging!Ranked
<1>6. \A y \in steady' : reader.cursor # Paging!None =>
        (place'[y] <= place'[reader.cursor] <=> place[y] <= place[reader.cursor])
  <2> SUFFICES ASSUME NEW y \in steady', reader.cursor # Paging!None
               PROVE  place'[y] <= place'[reader.cursor] <=> place[y] <= place[reader.cursor]
    OBVIOUS
  <2>1. y \in Paging!Rows \ {x} /\ reader.cursor \in Paging!Rows \ {x}
    BY <1>3, <1>5 DEF Paging!TypeOK
  <2>2. place'[reader.cursor] < place'[y] <=> place[reader.cursor] < place[y]
    BY <1>2, <2>1 DEF Touches, SameButFor
  <2>3. /\ place[y] \in Nat /\ place[reader.cursor] \in Nat
        /\ place'[y] \in Nat /\ place'[reader.cursor] \in Nat
    BY <1>2, <2>1, OrderIsOne, PlacesAreNumbers DEF Touches
  <2> QED
    BY <2>2, <2>3
<1> QED
  BY <1>3, <1>5, <1>6 DEF MessagesBehind

\* A row and a cursor that stay keep their order.
LEMMA ChangesKeepOrderOfShown ==
  ASSUME Paging!TypeOK, ReaderFits, ShownBehind, Changes
  PROVE  ShownBehind'
<1> SUFFICES ASSUME reader'.list \notin Paging!Ranked, ~jumped', NEW y \in steady'
             PROVE  /\ shown'[y] <= 1
                    /\ reader'.pc = "ask" /\ shown'[y] = 1 /\ reader'.cursor # Paging!None
                         => place'[y] <= place'[reader'.cursor]
  BY DEF ShownBehind
<1>1. PICK x \in Paging!Rows : Comes(x) \/ Leaves(x) \/ Moves(x)
  BY ChangesTouchOne
<1>2. Touches(x)
  BY <1>1 DEF Comes, Leaves, Moves
<1>3. /\ reader' = reader /\ shown' = shown /\ ~jumped
      /\ y \in steady /\ y # x
      /\ x = reader.cursor => place' = place
  BY <1>2 DEF Touches
<1>4. y \in Paging!Rows
  BY <1>3 DEF Paging!TypeOK
<1>5. ASSUME reader.cursor # Paging!None
      PROVE  place'[y] <= place'[reader.cursor] <=> place[y] <= place[reader.cursor]
  <2>1. reader.cursor \in Paging!Rows
    BY <1>3, <1>5 DEF ReaderFits
  <2>2. /\ place[y] \in Nat /\ place[reader.cursor] \in Nat
        /\ place'[y] \in Nat /\ place'[reader.cursor] \in Nat
    BY <1>2, <1>4, <2>1, OrderIsOne, PlacesAreNumbers DEF Touches
  <2>3. CASE x = reader.cursor
    BY <1>3, <2>3
  <2>4. CASE x # reader.cursor
    <3>1. place'[reader.cursor] < place'[y] <=> place[reader.cursor] < place[y]
      BY <1>2, <1>3, <1>4, <2>1, <2>4 DEF Touches, SameButFor
    <3> QED
      BY <2>2, <3>1
  <2> QED
    BY <2>3, <2>4
<1> QED
  BY <1>3, <1>5 DEF ShownBehind

\* Unless rows move, no unchanged row falls behind the cursor.
LEMMA ChangesKeepLosses ==
  ASSUME Paging!TypeOK, ReaderFits, TurnsPayLosses, Changes
  PROVE  TurnsPayLosses'
<1> SUFFICES ASSUME reader'.list \in Paging!Popped, reader'.limit # Paging!None, changes'.moved = 0
             PROVE  TurnsPayLosses'
  BY DEF TurnsPayLosses
<1>1. PICK x \in Paging!Rows : Comes(x) \/ Leaves(x) \/ Moves(x)
  BY ChangesTouchOne
<1>2. Touches(x)
  BY <1>1 DEF Comes, Leaves, Moves
<1>3. /\ reader' = reader /\ shown' = shown /\ turns' = turns /\ steady' = steady \ {x}
      /\ steady \subseteq Paging!Rows
  BY <1>2 DEF Touches, Paging!TypeOK
<1>4. /\ changes.moved = 0 /\ (Comes(x) \/ Leaves(x))
      /\ reader.pc # "done" /\ turns \in Nat
  <2>1. /\ changes \in [came : Paging!Counter, left : Paging!Counter, moved : Paging!Counter]
        /\ turns \in Nat
    BY DEF Paging!TypeOK
  <2>2. changes.moved + 1 # 0 /\ changes.moved \in Nat
    BY <2>1, PageConstants DEF Paging!Counter
  <2>3. Moves(x) => changes'.moved = changes.moved + 1
    BY <2>1 DEF Moves
  <2>4. Comes(x) \/ Leaves(x) => changes'.moved = changes.moved
    BY <2>1 DEF Comes, Leaves
  <2>5. reader.pc # "done"
    BY ChangesTouchOne DEF Paging!Reading
  <2> QED
    BY <1>1, <2>1, <2>2, <2>3, <2>4, <2>5
<1> SUFFICES ASSUME reader.pc = "ask", reader.cursor # Paging!None
             PROVE  Cardinality(LostBehind') + 1 <= turns
  BY <1>3, <1>4 DEF TurnsPayLosses
<1>5. Cardinality(LostBehind) + 1 <= turns /\ reader.cursor \in Paging!Rows
  BY <1>3, <1>4 DEF TurnsPayLosses, ReaderFits, Paging!Popped, Paging!Ranked
<1>6. LostBehind' \subseteq LostBehind
  <2> SUFFICES ASSUME NEW y \in LostBehind'
               PROVE  y \in LostBehind
    OBVIOUS
  <2>1. y \in steady /\ y # x /\ shown[y] = 0 /\ place'[y] < place'[reader.cursor]
    BY <1>3 DEF LostBehind
  <2>2. y \in Paging!Rows
    BY <1>3, <2>1
  <2>3. CASE x # reader.cursor \/ place' = place
    <3>1. place[y] < place[reader.cursor]
      BY <1>2, <1>5, <2>1, <2>2, <2>3 DEF Touches, SameButFor
    <3> QED
      BY <2>1, <3>1 DEF LostBehind
  <2>4. CASE x = reader.cursor /\ place' # place
    <3>1. place'[reader.cursor] = 1
      BY <1>4, <2>4 DEF Comes, Leaves
    <3>2. place'[y] \in Nat /\ place'[y] >= 1
      BY <1>2, <2>2, PlacesAreNumbers DEF Touches
    <3> QED
      BY <2>1, <3>1, <3>2
  <2> QED
    BY <2>3, <2>4
<1>7. LostBehind \in SUBSET Paging!Rows
  BY <1>3 DEF LostBehind
<1> HIDE DEF LostBehind
<1>8. Cardinality(LostBehind') <= Cardinality(LostBehind)
  BY <1>6, <1>7, RowsAreFinite, FS_Subset
<1>9. Cardinality(LostBehind') \in Nat /\ Cardinality(LostBehind) \in Nat
  BY <1>6, <1>7, RowsAreFinite
<1> QED
  BY <1>4, <1>5, <1>8, <1>9

\* A row has been reached when it stands before the offset the client has come to.
LEMMA ReachedByNumber ==
  ASSUME Paging!TypeOK, UNCHANGED reader
  PROVE  \/ \A y : Reached(y) /\ Reached(y)'
         \/ \E k \in Nat : \A y :
              /\ Reached(y) <=> Number(place, Paging!Listed, y) < k
              /\ Reached(y)' <=> Number(place', Paging!Listed', y) < k
<1>1. \A y : /\ Paging!Before(y, Paging!Listed) = Number(place, Paging!Listed, y)
             /\ Paging!Before(y, Paging!Listed)' = Number(place', Paging!Listed', y)
  BY PagingCardinality DEF Paging!Before, Number
<1>2. reader.cursor \in Nat /\ reader.limit \in Nat
  BY ReaderTypes
<1>3. CASE reader.pc = "ask"
  BY <1>1, <1>2, <1>3 DEF Reached
<1>4. CASE reader.pc = "hydrate" /\ reader.beyond # {}
  <2>1. reader.cursor + reader.limit \in Nat
    BY <1>2
  <2> QED
    BY <1>1, <1>4, <2>1 DEF Reached
<1>5. CASE reader.pc # "ask" /\ ~(reader.pc = "hydrate" /\ reader.beyond # {})
  BY <1>5 DEF Reached
<1> QED
  BY <1>3, <1>4, <1>5

\* One change takes one unchanged row at most across the offset, and only one way.
LEMMA ChangesKeepOffset ==
  ASSUME Paging!TypeOK, ReaderFits, OffsetInv, Changes
  PROVE  OffsetInv'
<1> SUFFICES ASSUME reader'.list \in Paging!Ranked, scored'
             PROVE  /\ Cardinality(LostByOffset') <= changes'.left + changes'.moved
                    /\ Cardinality(RepeatedByOffset') <= changes'.came + changes'.moved
  BY DEF OffsetInv
<1>1. PICK x \in Paging!Rows : Comes(x) \/ Leaves(x) \/ Moves(x)
  BY ChangesTouchOne
<1>2. Touches(x)
  BY <1>1 DEF Comes, Leaves, Moves
<1>3. /\ UNCHANGED <<reader, shown, scored>> /\ steady' = steady \ {x}
      /\ place \in Orders /\ place' \in Orders /\ SameButFor(place, place', x)
  BY <1>2, OrderIsOne DEF Touches
<1>4. /\ Paging!Listed \in SUBSET Paging!Rows /\ Paging!Listed' \in SUBSET Paging!Rows
      /\ Paging!Listed \ {x} = Paging!Listed' \ {x}
      /\ Comes(x) => x \notin Paging!Listed
      /\ Leaves(x) => x \notin Paging!Listed'
  BY <1>2 DEF Touches, Comes, Leaves, Paging!Listed, Paging!IsListed
<1>5. steady \subseteq Paging!Listed /\ steady \in SUBSET Paging!Rows
  BY DEF Paging!TypeOK, Paging!Listed, Paging!IsListed
<1> DEFINE n(y) == Number(place, Paging!Listed, y)
<1> DEFINE m(y) == Number(place', Paging!Listed', y)
<1>6. \A y \in steady' :
        /\ n(y) \in Nat /\ m(y) \in Nat /\ m(y) <= n(y) + 1 /\ n(y) <= m(y) + 1
        /\ Comes(x) => n(y) <= m(y)
        /\ Leaves(x) => m(y) <= n(y)
  <2> SUFFICES ASSUME NEW y \in steady'
               PROVE  /\ n(y) \in Nat /\ m(y) \in Nat /\ m(y) <= n(y) + 1 /\ n(y) <= m(y) + 1
                      /\ Comes(x) => n(y) <= m(y)
                      /\ Leaves(x) => m(y) <= n(y)
    OBVIOUS
  <2>1. y \in Paging!Listed \ {x}
    BY <1>3, <1>5
  <2> QED
    BY <1>3, <1>4, <2>1, NumbersDriftByOne
<1>7. \A y, z \in steady' : n(y) = n(z) => y = z
  BY <1>3, <1>4, <1>5, NumbersFollowPlaces
<1>8. \/ \A y : Reached(y) /\ Reached(y)'
      \/ \E k \in Nat : \A y : (Reached(y) <=> n(y) < k) /\ (Reached(y)' <=> m(y) < k)
  BY <1>3, ReachedByNumber
<1> HIDE DEF n, m
<1>9. \A y : Times(y)' = Times(y)
  BY <1>3 DEF Times
<1>10. /\ \A y, z \in LostByOffset' \ LostByOffset : y = z
       /\ Comes(x) => LostByOffset' \subseteq LostByOffset
  <2>1. \A y \in LostByOffset' \ LostByOffset : y \in steady' /\ Reached(y)' /\ ~Reached(y)
    BY <1>3, <1>9 DEF LostByOffset
  <2>2. CASE \A y : Reached(y) /\ Reached(y)'
    BY <2>1, <2>2
  <2>3. ASSUME NEW k \in Nat, \A y : (Reached(y) <=> n(y) < k) /\ (Reached(y)' <=> m(y) < k)
        PROVE  /\ \A y, z \in LostByOffset' \ LostByOffset : y = z
               /\ Comes(x) => LostByOffset' \subseteq LostByOffset
    <3>1. \A y \in LostByOffset' \ LostByOffset : y \in steady' /\ m(y) < k /\ ~(n(y) < k)
      BY <2>1, <2>3
    <3>2. \A y \in LostByOffset' \ LostByOffset : n(y) = k /\ ~Comes(x)
      BY <1>6, <3>1
    <3> QED
      BY <1>7, <3>1, <3>2
  <2> QED
    BY <1>8, <2>2, <2>3
<1>11. /\ \A y, z \in RepeatedByOffset' \ RepeatedByOffset : y = z
       /\ Leaves(x) => RepeatedByOffset' \subseteq RepeatedByOffset
  <2>1. \A y \in RepeatedByOffset' \ RepeatedByOffset : y \in steady' /\ ~Reached(y)' /\ Reached(y)
    BY <1>3, <1>9 DEF RepeatedByOffset
  <2>2. CASE \A y : Reached(y) /\ Reached(y)'
    BY <2>1, <2>2
  <2>3. ASSUME NEW k \in Nat, \A y : (Reached(y) <=> n(y) < k) /\ (Reached(y)' <=> m(y) < k)
        PROVE  /\ \A y, z \in RepeatedByOffset' \ RepeatedByOffset : y = z
               /\ Leaves(x) => RepeatedByOffset' \subseteq RepeatedByOffset
    <3>1. \A y \in RepeatedByOffset' \ RepeatedByOffset : y \in steady' /\ ~(m(y) < k) /\ n(y) < k
      BY <2>1, <2>3
    <3>2. \A y \in RepeatedByOffset' \ RepeatedByOffset : n(y) = k - 1 /\ ~Leaves(x)
      BY <1>6, <3>1
    <3> QED
      BY <1>7, <3>1, <3>2
  <2> QED
    BY <1>8, <2>2, <2>3
<1>12. /\ LostByOffset \in SUBSET Paging!Rows /\ LostByOffset' \in SUBSET Paging!Rows
       /\ RepeatedByOffset \in SUBSET Paging!Rows /\ RepeatedByOffset' \in SUBSET Paging!Rows
  BY <1>3, <1>5 DEF LostByOffset, RepeatedByOffset
<1>13. /\ Cardinality(LostByOffset) <= changes.left + changes.moved
       /\ Cardinality(RepeatedByOffset) <= changes.came + changes.moved
  BY <1>3 DEF OffsetInv
<1> HIDE DEF LostByOffset, RepeatedByOffset
<1>14. /\ Cardinality(LostByOffset) \in Nat /\ Cardinality(LostByOffset') \in Nat
       /\ Cardinality(RepeatedByOffset) \in Nat /\ Cardinality(RepeatedByOffset') \in Nat
  BY <1>12, RowsAreFinite
<1>15. /\ Cardinality(LostByOffset') <= Cardinality(LostByOffset) + 1
       /\ Cardinality(RepeatedByOffset') <= Cardinality(RepeatedByOffset) + 1
  BY <1>10, <1>11, <1>12, GrowsByOne
<1>16. /\ Comes(x) => Cardinality(LostByOffset') <= Cardinality(LostByOffset)
       /\ Leaves(x) => Cardinality(RepeatedByOffset') <= Cardinality(RepeatedByOffset)
  BY <1>10, <1>11, <1>12, RowsAreFinite, FS_Subset
<1>17. changes \in [came : Nat, left : Nat, moved : Nat]
  BY PageConstants DEF Paging!TypeOK, Paging!Counter
<1>18. CASE Comes(x)
  <2>1. /\ changes'.came = changes.came + 1 /\ changes'.left = changes.left
        /\ changes'.moved = changes.moved
    BY <1>17, <1>18 DEF Comes
  <2> QED
    BY <1>13, <1>14, <1>15, <1>16, <1>17, <1>18, <2>1
<1>19. CASE Leaves(x)
  <2>1. /\ changes'.came = changes.came /\ changes'.left = changes.left + 1
        /\ changes'.moved = changes.moved
    BY <1>17, <1>19 DEF Leaves
  <2> QED
    BY <1>13, <1>14, <1>15, <1>16, <1>17, <1>19, <2>1
<1>20. CASE Moves(x)
  <2>1. /\ changes'.came = changes.came /\ changes'.left = changes.left
        /\ changes'.moved = changes.moved + 1
    BY <1>17, <1>20 DEF Moves
  <2> QED
    BY <1>13, <1>14, <1>15, <1>17, <2>1
<1> QED
  BY <1>1, <1>18, <1>19, <1>20

-----------------------------------------------------------------------------
(* Pages cut by a key or a uid.                                            *)

\* The rows between the cursor and the next one that the page leaves out.
PassedOver(items, next) ==
  {x \in Paging!Listed \ items :
     /\ reader.cursor # Paging!None => place[x] >= place[reader.cursor]
     /\ next # Paging!None => place[x] < place[next]}

\* A page of a list that is cut by a key or a uid: the rows stand beyond the
\* cursor and not beyond the next one, and few are passed over.
CutByKey(items, next) ==
  /\ reader.pc = "ask" /\ reader.list \notin Paging!Ranked
  /\ Paging!Show(items, next)
  /\ items \in SUBSET Paging!Listed
  /\ next \in Paging!Rows \cup {Paging!None}
  /\ reader.list \in Paging!OnePage => next = Paging!None
  /\ next # Paging!None => \A x \in items : place[x] <= place[next]
  /\ reader.cursor # Paging!None =>
       /\ \A x \in items : place[reader.cursor] < place[x]
       /\ next # Paging!None => place[reader.cursor] <= place[next]
  /\ reader.list = "messages" =>
       /\ next # Paging!None => next \in items
       /\ \A x \in Paging!Listed \ items :
            \/ reader.cursor # Paging!None /\ place[x] <= place[reader.cursor]
            \/ next # Paging!None /\ place[x] > place[next]
  /\ reader.list \in Paging!Popped /\ reader.limit # Paging!None =>
       /\ \A x, y \in PassedOver(items, next) : x = y
       /\ reader.cursor = Paging!None => PassedOver(items, next) = {}

\* The pages that are not suggestions.
KeyedPage ==
  \/ Paging!MessagesPage \/ Paging!ConversationsPage \/ Paging!MySessionsPage
  \/ Paging!PublicFieldsPage \/ Paging!MyFieldsPage \/ Paging!FriendsPage
  \/ Paging!FriendRequestsPage \/ Paging!PartnerFieldsPage
  \/ Paging!NotificationsPage \/ Paging!InvitationsPage

\* The three collections a keyed page is cut from.
LEMMA WhereItIsCut ==
  ASSUME Paging!TypeOK, ReaderFits, reader.list \notin Paging!Ranked
  PROVE  /\ Paging!Listed \in SUBSET Paging!Rows
         /\ reader.cursor # Paging!None =>
              /\ reader.cursor \in Paging!Rows
              /\ Paging!From(reader.cursor) \in SUBSET Paging!Listed
              /\ Paging!After(reader.cursor) \in SUBSET Paging!Listed
              /\ \A x \in Paging!Listed :
                   /\ place[x] >= place[reader.cursor] <=> x \in Paging!From(reader.cursor)
                   /\ place[x] > place[reader.cursor] <=> x \in Paging!After(reader.cursor)
  BY DEF Paging!Listed, Paging!From, Paging!After, ReaderFits

\* The messages older than the last one shown.
LEMMA MessagesAreCut ==
  ASSUME Paging!TypeOK, ReaderFits, Paging!MessagesPage
  PROVE  \E items, next : CutByKey(items, next)
<1> DEFINE rows == IF reader.cursor = Paging!None THEN Paging!Listed
                   ELSE Paging!After(reader.cursor)
<1> DEFINE items == Paging!Cut(rows, 0, reader.limit)
<1> DEFINE last == Paging!RowAt(rows, reader.limit - 1)
<1> DEFINE next == IF Cardinality(rows) > reader.limit THEN last ELSE Paging!None
<1>1. /\ reader.pc = "ask" /\ reader.list = "messages"
      /\ Paging!Show(items, next)
  BY PagingCardinality DEF Paging!MessagesPage, Paging!Asks
<1>2. /\ reader.list \notin Paging!Ranked /\ reader.list \notin Paging!Popped
      /\ reader.list \notin Paging!OnePage
      /\ reader.limit \in Nat \ {0}
  BY <1>1, ReaderTypes DEF Paging!Ranked, Paging!Popped, Paging!OnePage, ReaderFits, Paging!None
<1>3. /\ rows \in SUBSET Paging!Listed /\ rows \in SUBSET Paging!Rows
      /\ reader.cursor # Paging!None => reader.cursor \in Paging!Rows
      /\ \A x \in Paging!Listed \ rows :
           reader.cursor # Paging!None /\ ~(place[x] > place[reader.cursor])
      /\ \A x \in rows : reader.cursor # Paging!None => place[x] > place[reader.cursor]
  BY <1>2, WhereItIsCut
<1>4. place \in Orders /\ \A x \in Paging!Rows : place[x] \in Nat
  BY OrderIsOne, PlacesAreNumbers
<1> HIDE DEF rows
<1>5. /\ items \subseteq rows
      /\ Cardinality(rows) <= reader.limit => rows \subseteq items
      /\ Cardinality(rows) > reader.limit =>
           /\ last \in items
           /\ \A x \in items : place[x] <= place[last]
           /\ \A x \in rows \ items : place[x] > place[last]
  BY <1>2, <1>3, <1>4, CutFromStart
<1>6. Cardinality(rows) \in Nat
  BY <1>3, RowsAreFinite
<1>7. /\ next = Paging!None => rows \subseteq items
      /\ next # Paging!None => /\ next = last /\ Cardinality(rows) > reader.limit
  <2>1. last \in Paging!Rows => last # Paging!None
    BY PageConstants DEF Paging!Rows, Paging!None
  <2> QED
    BY <1>2, <1>3, <1>5, <1>6, <2>1
<1> HIDE DEF items, last, next
<1>8. /\ items \in SUBSET Paging!Listed
      /\ next \in Paging!Rows \cup {Paging!None}
      /\ next # Paging!None => next \in items /\ \A x \in items : place[x] <= place[next]
  BY <1>3, <1>5, <1>7
<1>9. reader.cursor # Paging!None =>
        /\ \A x \in items : place[reader.cursor] < place[x]
        /\ next # Paging!None => place[reader.cursor] <= place[next]
  BY <1>3, <1>4, <1>5, <1>8
<1>10. \A x \in Paging!Listed \ items :
         \/ reader.cursor # Paging!None /\ place[x] <= place[reader.cursor]
         \/ next # Paging!None /\ place[x] > place[next]
  <2>1. Paging!Listed \subseteq Paging!Rows
    BY DEF Paging!Listed
  <2> QED
    BY <1>3, <1>4, <1>5, <1>7, <2>1
<1>11. CutByKey(items, next)
  BY <1>1, <1>2, <1>8, <1>9, <1>10 DEF CutByKey
<1> QED
  BY <1>11

\* A page of the rows after the cursor, of which the next cursor is the first
\* that is left out, or one that is on the page and has more to it.
LEMMA FromStartIsCut ==
  ASSUME Paging!TypeOK, ReaderFits, reader.pc = "ask", reader.limit # Paging!None,
         reader.list \notin Paging!Ranked \cup Paging!OnePage \cup {"messages"},
         NEW rows, rows = (IF reader.cursor = Paging!None THEN Paging!Listed
                           ELSE Paging!After(reader.cursor)),
         NEW items \in SUBSET rows, NEW next \in rows \cup {Paging!None},
         Paging!Show(items, next),
         next = Paging!None => rows \subseteq items,
         next # Paging!None =>
           /\ \A x \in items : place[x] <= place[next]
           /\ \A x \in rows \ items : place[x] >= place[next]
  PROVE  CutByKey(items, next)
<1>1. /\ rows \in SUBSET Paging!Listed /\ rows \in SUBSET Paging!Rows
      /\ reader.cursor # Paging!None => reader.cursor \in Paging!Rows
      /\ \A x \in Paging!Listed \ rows :
           reader.cursor # Paging!None /\ ~(place[x] > place[reader.cursor])
      /\ \A x \in rows : reader.cursor # Paging!None => place[x] > place[reader.cursor]
  BY WhereItIsCut
<1>2. /\ place \in Orders /\ \A x \in Paging!Rows : place[x] \in Nat
      /\ \A x, y \in Paging!Rows : place[x] = place[y] => x = y
      /\ Paging!Listed \subseteq Paging!Rows
  BY OrderIsOne, PlacesAreNumbers DEF Orders, Paging!Listed
<1>3. /\ items \in SUBSET Paging!Listed
      /\ next \in Paging!Rows \cup {Paging!None}
      /\ next # Paging!None => next \in rows /\ \A x \in items : place[x] <= place[next]
  BY <1>1
<1>4. reader.cursor # Paging!None =>
        /\ \A x \in items : place[reader.cursor] < place[x]
        /\ next # Paging!None => place[reader.cursor] <= place[next]
  BY <1>1, <1>2, <1>3
<1>5. \A x \in PassedOver(items, next) : reader.cursor # Paging!None /\ x = reader.cursor
  <2>1. \A x \in rows \ items : next # Paging!None /\ ~(place[x] < place[next])
    BY <1>1, <1>2, <1>3
  <2> QED
    BY <1>1, <1>2, <2>1 DEF PassedOver
<1> QED
  BY <1>3, <1>4, <1>5 DEF CutByKey

\* A page, and the row read beyond it.
LEMMA PoppedFromStart ==
  ASSUME Paging!TypeOK, ReaderFits, reader.pc = "ask", reader.limit # Paging!None,
         reader.list \notin Paging!Ranked \cup Paging!OnePage \cup {"messages"},
         Paging!PoppedPage(IF reader.cursor = Paging!None THEN Paging!Listed
                           ELSE Paging!After(reader.cursor), 0)
  PROVE  \E items, next : CutByKey(items, next)
<1> DEFINE rows == IF reader.cursor = Paging!None THEN Paging!Listed
                   ELSE Paging!After(reader.cursor)
<1> DEFINE items == Paging!Cut(rows, 0, reader.limit)
<1> DEFINE beyond == Paging!RowAt(rows, reader.limit)
<1> DEFINE next == IF Cardinality(rows) > reader.limit THEN beyond ELSE Paging!None
<1>1. reader.limit \in Nat \ {0} /\ 0 + reader.limit = reader.limit
  BY ReaderTypes DEF Paging!None
<1>2. Paging!Show(items, next)
  BY <1>1, PagingCardinality DEF Paging!PoppedPage
<1>3. rows \in SUBSET Paging!Rows
  BY WhereItIsCut
<1>4. /\ items \subseteq rows
      /\ Cardinality(rows) <= reader.limit => rows \subseteq items
      /\ Cardinality(rows) > reader.limit =>
           /\ beyond \in rows
           /\ \A x \in items : place[x] < place[beyond]
           /\ \A x \in rows \ items : place[x] >= place[beyond]
  <2> HIDE DEF rows
  <2> QED
    BY <1>1, <1>3, OrderIsOne, CutFromStart
<1>5. /\ next = Paging!None => rows \subseteq items
      /\ next # Paging!None => next = beyond /\ Cardinality(rows) > reader.limit
  <2> HIDE DEF rows, items, beyond
  <2>1. Cardinality(rows) \in Nat
    BY <1>3, RowsAreFinite
  <2>2. beyond \in Paging!Rows => beyond # Paging!None
    BY PageConstants DEF Paging!Rows, Paging!None
  <2> QED
    BY <1>1, <1>3, <1>4, <2>1, <2>2
<1>6. \A x \in rows : place[x] \in Nat
  BY <1>3, OrderIsOne, PlacesAreNumbers
<1> HIDE DEF items, beyond, next
<1>7. /\ next \in rows \cup {Paging!None}
      /\ next # Paging!None =>
           /\ \A x \in items : place[x] <= place[next]
           /\ \A x \in rows \ items : place[x] >= place[next]
  BY <1>4, <1>5, <1>6
<1>8. CutByKey(items, next)
  BY <1>2, <1>4, <1>5, <1>7, FromStartIsCut
<1> QED
  BY <1>8

\* The rows of a join can be counted, and stand in the order of their friends.
LEMMA JoinedAreOrdered ==
  ASSUME Paging!TypeOK, NEW S \in SUBSET Paging!Rows
  PROVE  /\ IsFiniteSet(Paging!Joined(S)) /\ Cardinality(Paging!Joined(S)) \in Nat
         /\ \A c \in Paging!Joined(S) : c[1] \in S /\ c[2] \in 1 .. MaxInvitations
         /\ \A x \in S : <<x, 1>> \in Paging!Joined(S)
         /\ \A c, d \in Paging!Joined(S) :
              Paging!Precedes(c, d) \/ Paging!Precedes(d, c) \/ c = d
         /\ \A c, d, e \in Paging!Joined(S) :
              Paging!Precedes(c, d) /\ Paging!Precedes(d, e) => Paging!Precedes(c, e)
         /\ \A c \in Paging!Joined(S) : ~Paging!Precedes(c, c)
<1> DEFINE pairs == S \X (1 .. MaxInvitations)
<1>1. IsFiniteSet(pairs)
  <2>1. IsFiniteSet(S) /\ IsFiniteSet(1 .. MaxInvitations)
    BY RowsAreFinite, PageConstants, FS_Interval
  <2> QED
    BY <2>1, FS_Product
<1>2. Paging!Joined(S) \subseteq pairs
  BY DEF Paging!Joined
<1>3. IsFiniteSet(Paging!Joined(S)) /\ Cardinality(Paging!Joined(S)) \in Nat
  BY <1>1, <1>2, FS_Subset, FS_CardinalityType
<1>4. \A c \in Paging!Joined(S) :
        /\ c[1] \in S /\ c[2] \in 1 .. MaxInvitations /\ c = <<c[1], c[2]>>
        /\ place[c[1]] \in Nat
  BY <1>2, OrderIsOne, PlacesAreNumbers
<1>5. \A x \in S : <<x, 1>> \in Paging!Joined(S)
  <2>1. \A x \in S : copies[x] \in 1 .. MaxInvitations
    BY DEF Paging!TypeOK
  <2> QED
    BY <2>1, PageConstants DEF Paging!Joined
<1>6. \A x, y \in S : place[x] = place[y] => x = y
  BY OrderIsOne DEF Orders
<1>7. \A c, d \in Paging!Joined(S) :
        Paging!Precedes(c, d) \/ Paging!Precedes(d, c) \/ (c[1] = d[1] /\ c[2] = d[2])
  BY <1>4, <1>6 DEF Paging!Precedes
<1> QED
  BY <1>3, <1>4, <1>5, <1>7 DEF Paging!Precedes

\* Of two rows of a join the later has more ahead of it, and no number is left out.
LEMMA AheadIsNumber ==
  ASSUME Paging!TypeOK, NEW S \in SUBSET Paging!Rows
  PROVE  LET joined == Paging!Joined(S) IN
         /\ \A c \in joined : Paging!Ahead(c, joined) \in 0 .. Cardinality(joined) - 1
         /\ \A c, d \in joined :
              Paging!Precedes(c, d) => Paging!Ahead(c, joined) < Paging!Ahead(d, joined)
         /\ \A n \in Nat : n < Cardinality(joined) =>
              \E c \in joined : Paging!Ahead(c, joined) = n
<1> DEFINE joined == Paging!Joined(S)
<1> DEFINE Head(c) == {d \in joined : Paging!Precedes(d, c)}
<1> DEFINE f == [c \in joined |-> Cardinality(Head(c))]
<1> DEFINE T == 0 .. Cardinality(joined) - 1
<1>1. \A c : Paging!Ahead(c, joined) = Cardinality(Head(c))
  BY PagingCardinality DEF Paging!Ahead
<1>2. /\ IsFiniteSet(joined) /\ Cardinality(joined) \in Nat
      /\ \A c, d \in joined : Paging!Precedes(c, d) \/ Paging!Precedes(d, c) \/ c = d
      /\ \A c, d, e \in joined :
           Paging!Precedes(c, d) /\ Paging!Precedes(d, e) => Paging!Precedes(c, e)
      /\ \A c \in joined : ~Paging!Precedes(c, c)
  BY JoinedAreOrdered
<1> HIDE DEF joined
<1>3. \A c : IsFiniteSet(Head(c)) /\ Cardinality(Head(c)) \in Nat
  <2> SUFFICES ASSUME NEW c
               PROVE  IsFiniteSet(Head(c)) /\ Cardinality(Head(c)) \in Nat
    OBVIOUS
  <2>1. Head(c) \subseteq joined
    OBVIOUS
  <2> QED
    BY <1>2, <2>1, FS_Subset, FS_CardinalityType
<1>4. /\ \A c : Head(c) \subseteq joined
      /\ \A c, d \in joined : d \in Head(c) <=> Paging!Precedes(d, c)
  OBVIOUS
<1> HIDE DEF Head
<1>5. ASSUME NEW c \in joined
      PROVE  Cardinality(Head(c)) < Cardinality(joined)
  <2>1. Head(c) \subseteq joined \ {c}
    BY <1>2, <1>4
  <2>2. Cardinality(joined \ {c}) = Cardinality(joined) - 1 /\ IsFiniteSet(joined \ {c})
    BY <1>2, FS_RemoveElement
  <2>3. Cardinality(Head(c)) <= Cardinality(joined \ {c})
    BY <2>1, <2>2, FS_Subset
  <2> QED
    BY <1>2, <1>3, <2>2, <2>3
<1>6. ASSUME NEW c \in joined, NEW d \in joined, Paging!Precedes(c, d)
      PROVE  Cardinality(Head(c)) < Cardinality(Head(d))
  <2>1. Head(c) \subseteq Head(d) \ {c} /\ c \in Head(d)
    BY <1>2, <1>6, <1>4
  <2>2. Cardinality(Head(d) \ {c}) = Cardinality(Head(d)) - 1 /\ IsFiniteSet(Head(d) \ {c})
    BY <1>3, <2>1, FS_RemoveElement
  <2>3. Cardinality(Head(c)) <= Cardinality(Head(d) \ {c})
    BY <2>1, <2>2, FS_Subset
  <2> QED
    BY <1>3, <2>2, <2>3
<1>7. \A c, d \in joined : f[c] = f[d] => c = d
  BY <1>2, <1>3, <1>6
<1>8. \A c \in joined : f[c] \in T
  BY <1>2, <1>3, <1>5
<1>9. f \in Injection(joined, T)
  BY <1>7, <1>8 DEF Injection, IsInjective
<1>10. IsFiniteSet(T) /\ Cardinality(T) = Cardinality(joined)
  <2>1. \A m \in Nat : IsFiniteSet(0 .. m - 1) /\ Cardinality(0 .. m - 1) = m
    BY FS_Interval
  <2> QED
    BY <1>2, <2>1
<1>11. f \in Surjection(joined, T)
  BY <1>2, <1>9, <1>10, FS_Injection
<1>12. ASSUME NEW n \in Nat, n < Cardinality(joined)
       PROVE  \E c \in joined : Cardinality(Head(c)) = n
  <2>1. n \in T
    BY <1>2, <1>12
  <2>2. \E c \in joined : f[c] = n
    BY <1>11, <2>1 DEF Surjection
  <2> QED
    BY <2>2
<1> QED
  BY <1>1, <1>2, <1>3, <1>5, <1>6, <1>12 DEF joined

\* A page of the friends, cut out of a join: the next cursor is a friend the
\* page leaves out, or one it shows whose last rows it has not come to.
LEMMA JoinedFromStart ==
  ASSUME Paging!TypeOK, ReaderFits, reader.pc = "ask", reader.limit # Paging!None,
         reader.list \notin Paging!Ranked \cup Paging!OnePage \cup {"messages"},
         Paging!JoinedPage(IF reader.cursor = Paging!None THEN Paging!Listed
                           ELSE Paging!After(reader.cursor))
  PROVE  \E items, next : CutByKey(items, next)
<1> DEFINE rows == IF reader.cursor = Paging!None THEN Paging!Listed
                   ELSE Paging!After(reader.cursor)
<1> DEFINE joined == Paging!Joined(rows)
<1> DEFINE N(c) == Paging!Ahead(c, joined)
<1> DEFINE items == {c[1] : c \in {c \in joined : N(c) < reader.limit}}
<1> DEFINE first == CHOOSE c \in joined : N(c) = reader.limit
<1> DEFINE next == IF Cardinality(joined) > reader.limit THEN first[1] ELSE Paging!None
<1>1. reader.limit \in Nat \ {0}
  BY ReaderTypes DEF Paging!None
<1>2. Paging!Show(items, next)
  BY PagingCardinality DEF Paging!JoinedPage
<1>3. rows \in SUBSET Paging!Rows
  BY WhereItIsCut
<1>4. /\ \A c \in joined : c[1] \in rows
      /\ \A x \in rows : <<x, 1>> \in joined
      /\ Cardinality(joined) \in Nat
  BY <1>3, JoinedAreOrdered
<1>5. /\ \A c \in joined : N(c) \in 0 .. Cardinality(joined) - 1
      /\ \A c, d \in joined : Paging!Precedes(c, d) => N(c) < N(d)
      /\ \A n \in Nat : n < Cardinality(joined) => \E c \in joined : N(c) = n
  BY <1>3, AheadIsNumber
<1>6. \A x \in rows : place[x] \in Nat /\ x # Paging!None
  BY <1>3, OrderIsOne, PlacesAreNumbers, PageConstants DEF Paging!Rows, Paging!None
<1> HIDE DEF rows, joined, N
<1>7. items \in SUBSET rows
  BY <1>4
<1>8. ASSUME Cardinality(joined) > reader.limit
      PROVE  first \in joined /\ N(first) = reader.limit
  BY <1>1, <1>5, <1>8
<1>9. next \in rows \cup {Paging!None}
  BY <1>4, <1>8
<1>10. \A x \in rows \ items : <<x, 1>> \in joined /\ ~(N(<<x, 1>>) < reader.limit)
  <2> SUFFICES ASSUME NEW x \in rows, N(<<x, 1>>) < reader.limit
               PROVE  x \in items
    BY <1>4
  <2>1. <<x, 1>> \in joined /\ <<x, 1>>[1] = x
    BY <1>4
  <2> QED
    BY <2>1
<1>11. next = Paging!None => rows \subseteq items
  <2> SUFFICES ASSUME next = Paging!None, NEW x \in rows, x \notin items
               PROVE  FALSE
    OBVIOUS
  <2>1. ~(Cardinality(joined) > reader.limit)
    BY <1>4, <1>6, <1>8
  <2>2. N(<<x, 1>>) \in 0 .. Cardinality(joined) - 1 /\ ~(N(<<x, 1>>) < reader.limit)
    BY <1>5, <1>10
  <2> QED
    BY <1>1, <1>4, <2>1, <2>2
<1>12. ASSUME next # Paging!None
       PROVE  /\ \A x \in items : place[x] <= place[next]
              /\ \A x \in rows \ items : place[x] >= place[next]
  <2>1. /\ first \in joined /\ N(first) = reader.limit /\ next = first[1] /\ next \in rows
    BY <1>4, <1>8, <1>12
  <2>2. ASSUME NEW c \in joined, N(c) < reader.limit
        PROVE  place[c[1]] <= place[next]
    <3>1. ~Paging!Precedes(first, c)
      BY <1>1, <1>5, <2>1, <2>2
    <3> QED
      BY <1>4, <1>6, <2>1, <3>1 DEF Paging!Precedes
  <2>3. ASSUME NEW x \in rows \ items
        PROVE  place[x] >= place[next]
    <3>1. <<x, 1>> \in joined /\ ~Paging!Precedes(<<x, 1>>, first)
      BY <1>1, <1>5, <1>10, <2>1
    <3> QED
      BY <1>6, <2>1, <3>1 DEF Paging!Precedes
  <2> QED
    BY <2>2, <2>3
<1> HIDE DEF items, next
<1>13. CutByKey(items, next)
  BY <1>2, <1>7, <1>9, <1>11, <1>12, FromStartIsCut DEF rows
<1> QED
  BY <1>13

\* The row of the cursor is skipped, or the first one after it if that has left.
LEMMA PoppedFromCursor ==
  ASSUME Paging!TypeOK, ReaderFits, reader.pc = "ask", reader.limit # Paging!None,
         reader.list \notin Paging!Ranked \cup Paging!OnePage \cup {"messages"},
         reader.cursor # Paging!None, Paging!PoppedPage(Paging!From(reader.cursor), 1)
  PROVE  \E items, next : CutByKey(items, next)
<1> DEFINE rows == Paging!From(reader.cursor)
<1> DEFINE items == Paging!Cut(rows, 1, reader.limit)
<1> DEFINE beyond == Paging!RowAt(rows, 1 + reader.limit)
<1> DEFINE next == IF Cardinality(rows) > 1 + reader.limit THEN beyond ELSE Paging!None
<1>1. reader.limit \in Nat \ {0}
  BY ReaderTypes DEF Paging!None
<1>2. Paging!Show(items, next)
  BY PagingCardinality DEF Paging!PoppedPage
<1>3. /\ rows \in SUBSET Paging!Listed /\ rows \in SUBSET Paging!Rows
      /\ reader.cursor \in Paging!Rows
      /\ \A x \in Paging!Listed : place[x] >= place[reader.cursor] <=> x \in rows
  BY WhereItIsCut
<1>4. /\ place \in Orders /\ \A x \in Paging!Rows : place[x] \in Nat
      /\ Paging!Listed \subseteq Paging!Rows
  BY OrderIsOne, PlacesAreNumbers DEF Paging!Listed
<1> HIDE DEF rows
<1>5. PICK skipped \in SUBSET rows :
        /\ items \subseteq rows
        /\ \A x \in items, y \in skipped : place[y] < place[x]
        /\ \A x, y \in skipped : x = y
        /\ items # {} => skipped # {}
        /\ Cardinality(rows) <= 1 + reader.limit => rows \ items \subseteq skipped
        /\ Cardinality(rows) > 1 + reader.limit =>
             /\ beyond \in rows
             /\ \A x \in items : place[x] < place[beyond]
             /\ \A x \in rows \ items : x \in skipped \/ place[x] >= place[beyond]
  BY <1>1, <1>3, <1>4, CutAfterFirst
<1>6. /\ next = Paging!None => rows \ items \subseteq skipped
      /\ next # Paging!None => next = beyond /\ Cardinality(rows) > 1 + reader.limit
  <2>1. Cardinality(rows) \in Nat
    BY <1>3, RowsAreFinite
  <2>2. beyond \in Paging!Rows => beyond # Paging!None
    BY PageConstants DEF Paging!Rows, Paging!None
  <2> QED
    BY <1>1, <1>3, <1>5, <2>1, <2>2
<1> HIDE DEF items, beyond, next
<1>7. /\ items \in SUBSET Paging!Listed
      /\ next \in Paging!Rows \cup {Paging!None}
      /\ next # Paging!None => next \in rows /\ \A x \in items : place[x] <= place[next]
  BY <1>3, <1>4, <1>5, <1>6
<1>8. /\ \A x \in items : place[reader.cursor] < place[x]
      /\ next # Paging!None => place[reader.cursor] <= place[next]
  BY <1>3, <1>4, <1>5, <1>7
<1>9. \A x, y \in PassedOver(items, next) : x = y
  <2>1. \A x \in rows \ items : x \in skipped \/ (next # Paging!None /\ ~(place[x] < place[next]))
    BY <1>3, <1>4, <1>5, <1>6
  <2> QED
    BY <1>3, <1>5, <2>1 DEF PassedOver
<1>10. CutByKey(items, next)
  BY <1>2, <1>7, <1>8, <1>9 DEF CutByKey
<1> QED
  BY <1>10

\* A page without a cursor for a next one.
LEMMA LastPage ==
  ASSUME reader.pc = "ask", NEW items \in SUBSET Paging!Listed, Paging!Show(items, Paging!None),
         reader.list \notin Paging!Ranked \cup {"messages"},
         reader.list \in Paging!Popped => reader.limit = Paging!None,
         reader.cursor # Paging!None => \A x \in items : place[reader.cursor] < place[x]
  PROVE  \E its, next : CutByKey(its, next)
<1>1. CutByKey(items, Paging!None)
  BY DEF CutByKey
<1> QED
  BY <1>1

\* A page of the conversations without a limit.
LEMMA DefaultsAreCut ==
  ASSUME Paging!TypeOK, ReaderFits, reader.pc = "ask", reader.list = "conversations",
         reader.limit = Paging!None,
         Paging!Show(IF reader.cursor = Paging!None THEN Paging!Cut(Paging!Listed, 0, DefaultLimit)
                     ELSE Paging!Cut(Paging!From(reader.cursor), 1, DefaultLimit), Paging!None)
  PROVE  \E items, next : CutByKey(items, next)
<1>1. reader.list \notin Paging!Ranked \cup {"messages"}
  BY DEF Paging!Ranked
<1>2. /\ place \in Orders /\ \A x \in Paging!Rows : place[x] \in Nat
      /\ DefaultLimit \in Nat \ {0}
  BY OrderIsOne, PlacesAreNumbers, PageConstants
<1>3. CASE reader.cursor = Paging!None
  BY <1>1, <1>3, LastPage DEF Paging!Cut
<1>4. CASE reader.cursor # Paging!None
  <2> DEFINE rows == Paging!From(reader.cursor)
  <2> DEFINE items == Paging!Cut(rows, 1, DefaultLimit)
  <2>1. /\ rows \in SUBSET Paging!Listed /\ rows \in SUBSET Paging!Rows
        /\ reader.cursor \in Paging!Rows
        /\ \A x \in rows : place[x] >= place[reader.cursor]
    BY <1>1, <1>4, WhereItIsCut
  <2> HIDE DEF rows
  <2>2. PICK skipped \in SUBSET rows :
          /\ items \subseteq rows
          /\ \A x \in items, y \in skipped : place[y] < place[x]
          /\ items # {} => skipped # {}
    BY <1>2, <2>1, CutAfterFirst
  <2>3. items \in SUBSET Paging!Listed /\ \A x \in items : place[reader.cursor] < place[x]
    BY <1>2, <2>1, <2>2
  <2>4. Paging!Show(items, Paging!None)
    BY <1>4 DEF rows
  <2> HIDE DEF items
  <2> QED
    BY <1>1, <2>3, <2>4, LastPage
<1> QED
  BY <1>3, <1>4

\* All pages but those of the suggestions are of that kind, or refused.
LEMMA PagesAreCutByKey ==
  ASSUME Paging!TypeOK, ReaderFits, KeyedPage
  PROVE  \/ /\ Paging!Refuse
            /\ reader.list \notin Paging!Ranked \cup Paging!Popped \cup {"messages"}
         \/ \E items, next : CutByKey(items, next)
<1> USE DEF Paging!Asks
<1>1. ASSUME reader.pc = "ask", reader.limit # Paging!None, Paging!UidPage,
             reader.list \notin Paging!Ranked \cup Paging!OnePage \cup {"messages"}
      PROVE  \E items, next : CutByKey(items, next)
  BY <1>1, PoppedFromStart, PoppedFromCursor DEF Paging!UidPage
<1>2. CASE Paging!MessagesPage
  BY <1>2, MessagesAreCut
<1>3. CASE Paging!ConversationsPage
  <2>1. reader.list = "conversations" /\ reader.pc = "ask"
    BY <1>3 DEF Paging!ConversationsPage
  <2>2. reader.list \notin Paging!Ranked \cup Paging!OnePage \cup {"messages"}
    BY <2>1 DEF Paging!Ranked, Paging!OnePage
  <2> QED
    BY <1>1, <1>3, <2>1, <2>2, DefaultsAreCut DEF Paging!ConversationsPage
<1>4. CASE Paging!MySessionsPage \/ Paging!PublicFieldsPage \/ Paging!MyFieldsPage
  <2>1. /\ reader.list \in {"mySessions", "publicFields", "myFields"} /\ reader.pc = "ask"
        /\ Paging!UidPage
    BY <1>4 DEF Paging!MySessionsPage, Paging!PublicFieldsPage, Paging!MyFieldsPage
  <2>2. /\ reader.list \notin Paging!Ranked \cup Paging!OnePage \cup {"messages"}
        /\ reader.limit # Paging!None
    BY <2>1 DEF Paging!Ranked, Paging!OnePage, ReaderFits
  <2> QED
    BY <1>1, <2>1, <2>2
<1>5. CASE Paging!FriendsPage
  <2>1. /\ reader.list = "friends" /\ reader.pc = "ask"
        /\ Paging!JoinedPage(IF reader.cursor = Paging!None THEN Paging!Listed
                             ELSE Paging!After(reader.cursor))
    BY <1>5 DEF Paging!FriendsPage
  <2>2. /\ reader.list \notin Paging!Ranked \cup Paging!OnePage \cup {"messages"}
        /\ reader.limit # Paging!None
    BY <2>1 DEF Paging!Ranked, Paging!OnePage, ReaderFits
  <2> QED
    BY <2>1, <2>2, JoinedFromStart
<1>6. CASE Paging!FriendRequestsPage \/ Paging!PartnerFieldsPage
  <2>1. /\ reader.list \in {"friendRequests", "partnerFields"} /\ reader.pc = "ask"
        /\ IF reader.cursor = Paging!None THEN Paging!PoppedPage(Paging!Listed, 0)
           ELSE Paging!Refuse
    BY <1>6 DEF Paging!FriendRequestsPage, Paging!PartnerFieldsPage
  <2>2. /\ reader.list \notin Paging!Ranked \cup Paging!OnePage \cup {"messages"}
        /\ reader.list \notin Paging!Popped
        /\ reader.limit # Paging!None
    BY <2>1 DEF Paging!Ranked, Paging!OnePage, Paging!Popped, ReaderFits
  <2>3. CASE reader.cursor = Paging!None
    <3>1. Paging!PoppedPage(IF reader.cursor = Paging!None THEN Paging!Listed
                            ELSE Paging!After(reader.cursor), 0)
      BY <2>1, <2>3
    <3> QED
      BY <2>1, <2>2, <3>1, PoppedFromStart
  <2> QED
    BY <2>1, <2>2, <2>3
<1>7. CASE Paging!NotificationsPage \/ Paging!InvitationsPage
  <2>1. reader.list \in Paging!OnePage /\ reader.pc = "ask"
    BY <1>7 DEF Paging!NotificationsPage, Paging!InvitationsPage, Paging!OnePage
  <2>2. /\ reader.list \notin Paging!Ranked \cup {"messages"}
        /\ reader.list \notin Paging!Popped
        /\ reader.cursor = Paging!None
    BY <2>1 DEF Paging!Ranked, Paging!OnePage, Paging!Popped, ReaderFits
  <2>3. PICK n : Paging!Show(Paging!Cut(Paging!Listed, 0, n), Paging!None)
    BY <1>7 DEF Paging!NotificationsPage, Paging!InvitationsPage
  <2>4. Paging!Cut(Paging!Listed, 0, n) \in SUBSET Paging!Listed
    BY DEF Paging!Cut
  <2> QED
    BY <2>1, <2>2, <2>3, <2>4, LastPage
<1> QED
  BY <1>2, <1>3, <1>4, <1>5, <1>6, <1>7 DEF KeyedPage

\* To show a page keeps the types.
LEMMA ShowKeepsTypes ==
  ASSUME Paging!TypeOK, ReaderFits, reader.pc \in {"ask", "hydrate"},
         NEW items \in SUBSET Paging!Rows, NEW next \in Nat, Paging!Show(items, next),
         reader.list \notin Paging!Ranked => next \in Paging!Rows \cup {Paging!None},
         reader.list \in Paging!OnePage => next = Paging!None
  PROVE  Paging!TypeOK' /\ ReaderFits'
<1>1. /\ shown' = [x \in Paging!Rows |-> shown[x] + IF x \in items THEN 1 ELSE 0]
      /\ turns' = turns + IF next = Paging!None THEN 0 ELSE 1
      /\ UNCHANGED <<place, state, copies, scored, steady, jumped, changes>>
  BY DEF Paging!Show
<1>2. reader' = [reader EXCEPT !.pc = IF next = Paging!None THEN "done" ELSE "ask",
                               !.cursor = IF next = Paging!None THEN @ ELSE next,
                               !.page = {}, !.beyond = {}]
  BY DEF Paging!Show
<1>3. reader \in Paging!Reader
  BY DEF Paging!TypeOK
<1>4. /\ reader'.list = reader.list /\ reader'.limit = reader.limit
      /\ reader'.pc = (IF next = Paging!None THEN "done" ELSE "ask")
      /\ reader'.cursor = (IF next = Paging!None THEN reader.cursor ELSE next)
      /\ reader'.page = {} /\ reader' \in Paging!Reader
  BY <1>2, <1>3 DEF Paging!Reader
<1>5. /\ turns \in Nat /\ turns' \in Nat
      /\ \A x \in Paging!Rows : shown[x] \in Nat /\ shown[x] <= turns
  BY <1>1 DEF Paging!TypeOK, ReaderFits
<1>6. \A x \in Paging!Rows : shown'[x] \in 0 .. turns' + 1 /\ shown'[x] <= turns + 1
  BY <1>1, <1>5
<1>7. shown' \in [Paging!Rows -> 0 .. turns' + 1]
  BY <1>1, <1>6
<1>8. Paging!TypeOK'
  BY <1>1, <1>4, <1>5, <1>7 DEF Paging!TypeOK
<1>9. next # Paging!None => turns' = turns + 1
  BY <1>1, <1>5
<1>10. reader'.pc # "done" => \A x \in Paging!Rows : shown'[x] <= turns'
  BY <1>4, <1>6, <1>9
<1>11. reader'.cursor = Paging!None => turns' = 0
  BY <1>1, <1>4, <1>5 DEF ReaderFits
<1> QED
  BY <1>1, <1>4, <1>8, <1>10, <1>11 DEF ReaderFits

\* What a page cut by a key leaves of the reader, the rows and the counts.
LEMMA WhatIsShown ==
  ASSUME Paging!TypeOK, NEW items, NEW next, CutByKey(items, next)
  PROVE  /\ UNCHANGED <<place, state, copies, scored, steady, jumped, changes>>
         /\ reader'.list = reader.list /\ reader'.limit = reader.limit
         /\ next = Paging!None => reader'.pc = "done" /\ reader'.cursor = reader.cursor
         /\ next # Paging!None => reader'.pc = "ask" /\ reader'.cursor = next
         /\ next # Paging!None => turns' = turns + 1
         /\ next = Paging!None => turns' = turns
         /\ turns \in Nat
         /\ \A x \in Paging!Rows : shown[x] \in Nat
         /\ \A x \in items : shown'[x] = shown[x] + 1
         /\ \A x \in Paging!Rows \ items : shown'[x] = shown[x]
         /\ steady \subseteq Paging!Listed /\ steady \subseteq Paging!Rows
         /\ items \subseteq Paging!Rows
<1>1. Paging!Show(items, next) /\ items \subseteq Paging!Rows
  BY DEF CutByKey, Paging!Listed
<1>2. /\ \A x \in Paging!Rows : shown[x] \in Nat
      /\ turns \in Nat /\ reader \in Paging!Reader
      /\ steady \subseteq Paging!Listed /\ steady \subseteq Paging!Rows
  BY DEF Paging!TypeOK, Paging!Listed, Paging!IsListed
<1>3. /\ reader'.list = reader.list /\ reader'.limit = reader.limit
      /\ next = Paging!None => reader'.pc = "done" /\ reader'.cursor = reader.cursor
      /\ next # Paging!None => reader'.pc = "ask" /\ reader'.cursor = next
  BY <1>1, <1>2 DEF Paging!Show, Paging!Reader
<1> QED
  BY <1>1, <1>2, <1>3 DEF Paging!Show

\* A page of messages takes up where the last one ended.
LEMMA KeysKeepMessages ==
  ASSUME Paging!TypeOK, ReaderFits, MessagesBehind, NEW items, NEW next, CutByKey(items, next)
  PROVE  MessagesBehind'
<1> SUFFICES ASSUME reader'.list = "messages"
             PROVE  MessagesBehind'
  BY DEF MessagesBehind
<1>1. reader.list = "messages" /\ reader.pc = "ask" /\ reader.list \notin Paging!Ranked
  BY WhatIsShown DEF CutByKey
<1>2. \A x \in steady :
        shown[x] = IF reader.cursor # Paging!None /\ place[x] <= place[reader.cursor] THEN 1 ELSE 0
  BY <1>1 DEF MessagesBehind
<1>3. /\ next # Paging!None => next \in items
      /\ \A x \in Paging!Listed \ items :
           \/ reader.cursor # Paging!None /\ place[x] <= place[reader.cursor]
           \/ next # Paging!None /\ place[x] > place[next]
      /\ next # Paging!None => \A x \in items : place[x] <= place[next]
      /\ reader.cursor # Paging!None =>
           /\ \A x \in items : place[reader.cursor] < place[x]
           /\ next # Paging!None => place[reader.cursor] <= place[next]
      /\ items \subseteq Paging!Listed /\ next \in Paging!Rows \cup {Paging!None}
  BY <1>1 DEF CutByKey
<1>4. /\ \A x \in Paging!Rows : place[x] \in Nat
      /\ reader.cursor \in Paging!Rows \cup {Paging!None}
  BY <1>1, OrderIsOne, PlacesAreNumbers DEF ReaderFits
<1>5. \A x \in steady :
        shown'[x] = IF x \in items \/ (reader.cursor # Paging!None /\ place[x] <= place[reader.cursor])
                    THEN 1 ELSE 0
  <2> SUFFICES ASSUME NEW x \in steady
               PROVE  shown'[x] = IF \/ x \in items
                                     \/ reader.cursor # Paging!None /\ place[x] <= place[reader.cursor]
                                  THEN 1 ELSE 0
    OBVIOUS
  <2>1. x \in Paging!Rows
    BY WhatIsShown
  <2>2. CASE x \in items
    <3>1. ~(reader.cursor # Paging!None /\ place[x] <= place[reader.cursor])
      BY <1>3, <1>4, <2>1, <2>2
    <3> QED
      BY <1>2, <2>2, <3>1, WhatIsShown
  <2>3. CASE x \notin items
    BY <1>2, <2>1, <2>3, WhatIsShown
  <2> QED
    BY <2>2, <2>3
<1>6. CASE next = Paging!None
  <2>1. \A x \in steady : shown'[x] = 1
    BY <1>3, <1>5, <1>6, WhatIsShown
  <2>2. /\ reader'.pc = "done" /\ reader'.cursor = reader.cursor
        /\ state' = state /\ steady' = steady
    BY <1>6, WhatIsShown
  <2> QED
    BY <1>1, <2>1, <2>2 DEF MessagesBehind
<1>7. CASE next # Paging!None
  <2>1. state[next] = "listed" /\ next \in Paging!Rows
    BY <1>3, <1>7 DEF Paging!Listed, Paging!IsListed
  <2>2. \A x \in steady :
          (x \in items \/ (reader.cursor # Paging!None /\ place[x] <= place[reader.cursor]))
            <=> place[x] <= place[next]
    <3>1. steady \subseteq Paging!Listed /\ steady \subseteq Paging!Rows
      BY WhatIsShown
    <3> QED
      BY <1>3, <1>4, <1>7, <2>1, <3>1
  <2>3. \A x \in steady : shown'[x] = IF place[x] <= place[next] THEN 1 ELSE 0
    BY <1>5, <2>2
  <2>4. /\ reader'.pc = "ask" /\ reader'.cursor = next
        /\ state' = state /\ steady' = steady /\ place' = place
    BY <1>7, WhatIsShown
  <2> QED
    BY <1>7, <2>1, <2>3, <2>4 DEF MessagesBehind
<1> QED
  BY <1>6, <1>7

\* A page shows rows between its cursor and the next.
LEMMA KeysKeepOrderOfShown ==
  ASSUME Paging!TypeOK, ReaderFits, ShownBehind, NEW items, NEW next, CutByKey(items, next)
  PROVE  ShownBehind'
<1> SUFFICES ASSUME ~jumped', NEW x \in steady'
             PROVE  /\ shown'[x] <= 1
                    /\ reader'.pc = "ask" /\ shown'[x] = 1 /\ reader'.cursor # Paging!None
                         => place'[x] <= place'[reader'.cursor]
  BY DEF ShownBehind
<1>1. /\ reader.list \notin Paging!Ranked /\ reader.pc = "ask"
      /\ ~jumped /\ x \in steady /\ x \in Paging!Rows /\ place' = place
  BY WhatIsShown DEF CutByKey
<1>2. /\ shown[x] <= 1 /\ shown[x] \in Nat
      /\ shown[x] = 1 /\ reader.cursor # Paging!None => place[x] <= place[reader.cursor]
  BY <1>1, WhatIsShown DEF ShownBehind
<1>3. reader.cursor = Paging!None => shown[x] = 0
  BY <1>1, <1>2 DEF ReaderFits
<1>4. /\ \A y \in Paging!Rows : place[y] \in Nat
      /\ reader.cursor \in Paging!Rows \cup {Paging!None}
      /\ next \in Paging!Rows \cup {Paging!None}
  BY <1>1, OrderIsOne, PlacesAreNumbers DEF ReaderFits, CutByKey
<1>5. /\ next # Paging!None => \A y \in items : place[y] <= place[next]
      /\ reader.cursor # Paging!None =>
           /\ \A y \in items : place[reader.cursor] < place[y]
           /\ next # Paging!None => place[reader.cursor] <= place[next]
  BY DEF CutByKey
<1>6. x \in items => shown[x] = 0
  BY <1>1, <1>2, <1>3, <1>4, <1>5
<1>7. shown'[x] <= 1
  BY <1>1, <1>2, <1>6, WhatIsShown
<1>8. ASSUME next # Paging!None, shown'[x] = 1
      PROVE  place[x] <= place[next]
  <2>1. CASE x \in items
    BY <1>5, <1>8, <2>1
  <2>2. CASE x \notin items
    <3>1. shown[x] = 1
      BY <1>1, <1>8, <2>2, WhatIsShown
    <3> QED
      BY <1>1, <1>2, <1>3, <1>4, <1>5, <1>8, <3>1
  <2> QED
    BY <2>1, <2>2
<1>9. reader'.pc = "ask" => next # Paging!None /\ reader'.cursor = next
  BY WhatIsShown
<1> QED
  BY <1>1, <1>7, <1>8, <1>9

\* A page passes over one row at most, and the turn of it pays for that.
LEMMA KeysKeepLosses ==
  ASSUME Paging!TypeOK, ReaderFits, TurnsPayLosses, NEW items, NEW next, CutByKey(items, next)
  PROVE  TurnsPayLosses'
<1> SUFFICES ASSUME reader'.list \in Paging!Popped, reader'.limit # Paging!None, changes'.moved = 0
             PROVE  /\ reader'.pc = "ask" /\ reader'.cursor # Paging!None
                         => Cardinality(LostBehind') + 1 <= turns'
                    /\ reader'.pc = "done" => Cardinality(Paging!Missed') <= turns'
  BY DEF TurnsPayLosses
<1> DEFINE lost == IF reader.cursor = Paging!None THEN {} ELSE LostBehind
<1> DEFINE now == {x \in steady : /\ shown'[x] = 0
                                  /\ next # Paging!None => place[x] < place[next]}
<1>1. /\ reader.list \in Paging!Popped /\ reader.limit # Paging!None /\ changes.moved = 0
      /\ reader.pc = "ask" /\ reader.list \notin Paging!Ranked
  BY WhatIsShown DEF CutByKey
<1>2. /\ \A x, y \in PassedOver(items, next) : x = y
      /\ reader.cursor = Paging!None => PassedOver(items, next) = {}
  BY <1>1 DEF CutByKey
<1>3. \A x \in now : x \in steady /\ x \notin items /\ shown[x] = 0
  <2> SUFFICES ASSUME NEW x \in now
               PROVE  x \notin items /\ shown[x] = 0
    OBVIOUS
  <2>1. x \in steady /\ shown'[x] = 0 /\ x \in Paging!Rows
    BY WhatIsShown
  <2> HIDE DEF now
  <2>2. x \notin items
    BY <2>1, WhatIsShown
  <2> QED
    BY <2>1, <2>2, WhatIsShown
<1>4. now \ lost \subseteq PassedOver(items, next)
  <2> SUFFICES ASSUME NEW x \in now \ lost
               PROVE  x \in PassedOver(items, next)
    OBVIOUS
  <2>1. /\ x \in Paging!Listed \ items
        /\ next # Paging!None => place[x] < place[next]
    BY <1>3, WhatIsShown
  <2>2. reader.cursor # Paging!None => place[x] >= place[reader.cursor]
    <3>1. reader.cursor # Paging!None => ~(place[x] < place[reader.cursor])
      BY <1>3 DEF LostBehind
    <3>2. \A y \in Paging!Rows : place[y] \in Nat
      BY OrderIsOne, PlacesAreNumbers
    <3>3. x \in Paging!Rows /\ (reader.cursor # Paging!None => reader.cursor \in Paging!Rows)
      BY <1>1, <2>1 DEF ReaderFits, Paging!Listed
    <3> QED
      BY <3>1, <3>2, <3>3
  <2> QED
    BY <2>1, <2>2 DEF PassedOver
<1>5. now \in SUBSET Paging!Rows /\ lost \in SUBSET Paging!Rows
  BY WhatIsShown DEF LostBehind
<1>6. IF reader.cursor = Paging!None THEN lost = {} ELSE Cardinality(lost) + 1 <= turns
  BY <1>1 DEF TurnsPayLosses
<1>7. /\ reader'.pc = "ask" => next # Paging!None /\ reader'.cursor = next /\ LostBehind' = now
      /\ reader'.pc = "done" => next = Paging!None /\ Paging!Missed' = now
  <2>1. steady' = steady /\ place' = place
    BY WhatIsShown
  <2>2. reader'.pc = "ask" => next # Paging!None /\ reader'.cursor = next
    BY WhatIsShown
  <2>3. reader'.pc = "done" => next = Paging!None
    BY WhatIsShown
  <2> QED
    BY <2>1, <2>2, <2>3 DEF LostBehind, Paging!Missed
<1> HIDE DEF now, lost
<1>8. Cardinality(now) \in Nat /\ Cardinality(lost) \in Nat
  BY <1>5, RowsAreFinite
<1>9. Cardinality(now) <= Cardinality(lost) + 1
  BY <1>2, <1>4, <1>5, GrowsByOne
<1>10. reader.cursor = Paging!None => now = {}
  BY <1>2, <1>4, <1>6
<1>11. Cardinality({}) = 0
  BY FS_EmptySet
<1>12. /\ next # Paging!None => turns' = turns + 1
       /\ next = Paging!None => turns' = turns
       /\ turns \in Nat
  BY WhatIsShown
<1>13. Cardinality(now) <= turns
  <2>1. CASE reader.cursor = Paging!None
    BY <1>10, <1>11, <1>12, <2>1
  <2>2. CASE reader.cursor # Paging!None
    BY <1>6, <1>8, <1>9, <1>12, <2>2
  <2> QED
    BY <2>1, <2>2
<1> QED
  BY <1>7, <1>8, <1>12, <1>13

\* A page cut by a key, or refused, keeps the invariant.
LEMMA KeyedPagesKeepInv ==
  ASSUME PageInv, KeyedPage
  PROVE  PageInv'
<1>1. Paging!TypeOK /\ ReaderFits /\ MessagesBehind /\ TurnsPayLosses /\ ShownBehind
  BY DEF PageInv
<1>2. ASSUME Paging!Refuse, reader.list \notin Paging!Ranked \cup Paging!Popped \cup {"messages"},
             reader.pc = "ask"
      PROVE  PageInv'
  <2>1. /\ reader' = [reader EXCEPT !.pc = "failed"]
        /\ UNCHANGED <<place, state, copies, scored, shown, turns, steady, jumped, changes>>
    BY <1>2 DEF Paging!Refuse
  <2>2. reader \in Paging!Reader
    BY <1>1 DEF Paging!TypeOK
  <2>3. /\ reader'.list = reader.list /\ reader'.limit = reader.limit
        /\ reader'.cursor = reader.cursor /\ reader'.page = reader.page
        /\ reader'.pc = "failed" /\ reader' \in Paging!Reader
    BY <2>1, <2>2 DEF Paging!Reader
  <2>4. Paging!TypeOK'
    BY <1>1, <2>1, <2>3 DEF Paging!TypeOK
  <2>5. ReaderFits'
    BY <1>1, <1>2, <2>1, <2>3 DEF ReaderFits
  <2>6. MessagesBehind' /\ TurnsPayLosses' /\ OffsetInv'
    BY <1>2, <2>3 DEF MessagesBehind, TurnsPayLosses, OffsetInv
  <2>7. ShownBehind'
    BY <1>1, <1>2, <2>1, <2>3 DEF ShownBehind
  <2> QED
    BY <2>4, <2>5, <2>6, <2>7 DEF PageInv
<1>3. ASSUME NEW items, NEW next, CutByKey(items, next)
      PROVE  PageInv'
  <2>1. /\ reader.pc = "ask" /\ reader.list \notin Paging!Ranked
        /\ items \in SUBSET Paging!Rows /\ Paging!Show(items, next)
        /\ next \in Paging!Rows \cup {Paging!None}
        /\ reader.list \in Paging!OnePage => next = Paging!None
    BY <1>3 DEF CutByKey, Paging!Listed
  <2>2. next \in Nat
    BY <2>1, PageConstants DEF Paging!Rows, Paging!None
  <2>3. Paging!TypeOK' /\ ReaderFits'
    BY <1>1, <2>1, <2>2, ShowKeepsTypes
  <2>4. OffsetInv'
    BY <1>1, <1>3, <2>1, WhatIsShown DEF OffsetInv
  <2> QED
    BY <1>1, <1>3, <2>3, <2>4, KeysKeepMessages, KeysKeepLosses, KeysKeepOrderOfShown DEF PageInv
<1>4. reader.pc = "ask"
  BY DEF KeyedPage, Paging!Asks, Paging!MessagesPage, Paging!ConversationsPage,
         Paging!MySessionsPage, Paging!PublicFieldsPage, Paging!MyFieldsPage, Paging!FriendsPage,
         Paging!FriendRequestsPage, Paging!PartnerFieldsPage, Paging!NotificationsPage,
         Paging!InvitationsPage
<1> QED
  BY <1>1, <1>2, <1>3, <1>4, PagesAreCutByKey

-----------------------------------------------------------------------------
(* Pages cut by an offset.                                                 *)

\* The suggestions are bound by their offset alone.
LEMMA RankedByOffsetAlone ==
  ASSUME reader'.list \in Paging!Ranked
  PROVE  MessagesBehind' /\ TurnsPayLosses' /\ ShownBehind'
  BY DEF MessagesBehind, TurnsPayLosses, ShownBehind, Paging!Ranked, Paging!Popped

\* A step after which no further row is lost or repeated.
LEMMA OffsetKept ==
  ASSUME Paging!TypeOK, OffsetInv, reader.list \in Paging!Ranked,
         UNCHANGED <<steady, scored, changes>>,
         scored => /\ LostByOffset' \subseteq LostByOffset
                   /\ RepeatedByOffset' \subseteq RepeatedByOffset
  PROVE  OffsetInv'
<1> SUFFICES ASSUME scored'
             PROVE  /\ Cardinality(LostByOffset') <= changes'.left + changes'.moved
                    /\ Cardinality(RepeatedByOffset') <= changes'.came + changes'.moved
  BY DEF OffsetInv
<1>1. /\ Cardinality(LostByOffset) <= changes.left + changes.moved
      /\ Cardinality(RepeatedByOffset) <= changes.came + changes.moved
  BY DEF OffsetInv
<1>2. LostByOffset \in SUBSET Paging!Rows /\ RepeatedByOffset \in SUBSET Paging!Rows
  BY DEF Paging!TypeOK, LostByOffset, RepeatedByOffset
<1>3. changes \in [came : Nat, left : Nat, moved : Nat] /\ changes' = changes
  BY PageConstants DEF Paging!TypeOK, Paging!Counter
<1>4. LostByOffset' \subseteq LostByOffset /\ RepeatedByOffset' \subseteq RepeatedByOffset
  OBVIOUS
<1>5. changes.left + changes.moved \in Nat /\ changes.came + changes.moved \in Nat
  BY <1>3
<1> HIDE DEF LostByOffset, RepeatedByOffset
<1>6. /\ Cardinality(LostByOffset') <= Cardinality(LostByOffset)
      /\ Cardinality(RepeatedByOffset') <= Cardinality(RepeatedByOffset)
  BY <1>2, <1>4, RowsAreFinite, FS_Subset
<1>7. /\ Cardinality(LostByOffset) \in Nat /\ Cardinality(LostByOffset') \in Nat
      /\ Cardinality(RepeatedByOffset) \in Nat /\ Cardinality(RepeatedByOffset') \in Nat
  BY <1>2, <1>4, RowsAreFinite
<1> QED
  BY <1>1, <1>3, <1>5, <1>6, <1>7

\* A reader of suggestions, and the place of the rows in the ranking.
LEMMA RankedReader ==
  ASSUME Paging!TypeOK, ReaderFits, reader.list \in Paging!Ranked, UNCHANGED <<place, state>>
  PROVE  /\ reader.limit \in Nat \ {0} /\ reader.cursor \in Nat
         /\ reader.list \notin Paging!OnePage
         /\ place \in Orders
         /\ Paging!Listed \in SUBSET Paging!Rows /\ Paging!Listed' = Paging!Listed
         /\ steady \subseteq Paging!Listed /\ steady \subseteq Paging!Rows
         /\ \A x : /\ Paging!Before(x, Paging!Listed) = Number(place, Paging!Listed, x)
                   /\ Paging!Before(x, Paging!Listed)' = Number(place, Paging!Listed, x)
<1>1. reader.limit # Paging!None /\ reader.list \notin Paging!OnePage
  BY DEF ReaderFits, Paging!Ranked, Paging!OnePage
<1>2. reader.limit \in Nat \ {0} /\ reader.cursor \in Nat
  BY <1>1, ReaderTypes DEF Paging!None
<1>3. Paging!Listed' = Paging!Listed
  BY DEF Paging!Listed, Paging!IsListed
<1>4. \A x : /\ Paging!Before(x, Paging!Listed) = Number(place, Paging!Listed, x)
             /\ Paging!Before(x, Paging!Listed)' = Number(place', Paging!Listed', x)
  BY PagingCardinality DEF Paging!Before, Number
<1>5. /\ Paging!Listed \in SUBSET Paging!Rows
      /\ steady \subseteq Paging!Listed /\ steady \subseteq Paging!Rows
  BY DEF Paging!Listed, Paging!IsListed, Paging!TypeOK
<1>6. place' = place
  OBVIOUS
<1> QED
  BY <1>1, <1>2, <1>3, <1>4, <1>5, <1>6, OrderIsOne

\* A ranking from the offset k on: a page of n rows and the row beyond it.
RankingSays(S, k, n) ==
  LET page == Paging!Cut(S, k, n)
      beyond == Paging!Cut(S, k + n, 1)
  IN
  /\ page \subseteq S /\ beyond \subseteq S /\ page \cap beyond = {}
  /\ \A x \in S : x \in page <=> k <= Number(place, S, x) /\ Number(place, S, x) < k + n
  /\ page = {} => \A x \in S : Number(place, S, x) < k
  /\ beyond = {} => \A x \in S : Number(place, S, x) < k + n
  /\ \/ beyond = {} /\ Cardinality(page) <= n
     \/ (\E x \in S : beyond = {x}) /\ Cardinality(page) = n

\* Every ranking is of that kind.
LEMMA WhatIsRanked ==
  ASSUME place \in Orders, NEW S \in SUBSET Paging!Rows, NEW k \in Nat, NEW n \in Nat \ {0}
  PROVE  RankingSays(S, k, n)
<1> DEFINE page == Paging!Cut(S, k, n)
<1> DEFINE beyond == Paging!Cut(S, k + n, 1)
<1> DEFINE N(x) == Number(place, S, x)
<1>1. /\ page = {x \in S : N(x) \in k .. k + n - 1}
      /\ beyond = {x \in S : N(x) \in k + n .. k + n + 1 - 1}
  BY BeforeIsNumber DEF Paging!Cut
<1>2. \A x \in S : N(x) \in 0 .. Cardinality(S) - 1
  BY NumbersFollowPlaces
<1>3. \A x, y \in S : N(x) = N(y) => x = y
  BY NumbersFollowPlaces
<1>4. \A m \in Nat : m < Cardinality(S) => \E x \in S : N(x) = m
  BY EveryNumberIsGiven
<1>5. Cardinality(S) \in Nat
  BY RowsAreFinite
<1>6. Cardinality(page) <= n /\ (k + n <= Cardinality(S) => Cardinality(page) = n)
  BY <1>1, CutIsAsLong
<1> HIDE DEF page, beyond, N
<1>7. /\ page \subseteq S /\ beyond \subseteq S /\ page \cap beyond = {}
      /\ \A x \in S : x \in page <=> k <= N(x) /\ N(x) < k + n
      /\ \A x \in S : x \in beyond <=> N(x) = k + n
  BY <1>1, <1>2, <1>5
<1>8. page = {} => \A x \in S : N(x) < k
  <2> SUFFICES ASSUME page = {}, NEW x \in S, ~(N(x) < k)
               PROVE  FALSE
    OBVIOUS
  <2>1. k < Cardinality(S)
    BY <1>2, <1>5
  <2>2. PICK y \in S : N(y) = k
    BY <1>4, <2>1
  <2>3. k <= N(y) /\ N(y) < k + n
    BY <2>2
  <2> QED
    BY <1>7, <2>3
<1>9. beyond = {} => \A x \in S : N(x) < k + n
  <2> SUFFICES ASSUME beyond = {}, NEW x \in S, ~(N(x) < k + n)
               PROVE  FALSE
    OBVIOUS
  <2>1. k + n < Cardinality(S) /\ k + n \in Nat
    BY <1>2, <1>5
  <2>2. PICK y \in S : N(y) = k + n
    BY <1>4, <2>1
  <2> QED
    BY <1>7, <2>2
<1>10. ASSUME beyond # {}
       PROVE  (\E x \in S : beyond = {x}) /\ Cardinality(page) = n
  <2>1. PICK x \in S : x \in beyond /\ N(x) = k + n
    BY <1>7, <1>10
  <2>2. beyond = {x}
    BY <1>3, <1>7, <2>1
  <2>3. k + n <= Cardinality(S)
    BY <1>2, <1>5, <2>1
  <2> QED
    BY <1>6, <2>2, <2>3
<1> QED
  BY <1>6, <1>7, <1>8, <1>9, <1>10 DEF page, beyond, N, RankingSays

\* To rank moves the offset past the rows in hand, and those are as good as shown.
LEMMA RankingKeepsInv ==
  ASSUME PageInv, NEW list \in Paging!Ranked, Paging!Rank(list)
  PROVE  PageInv'
<1> DEFINE page == Paging!Cut(Paging!Listed, reader.cursor, reader.limit)
<1> DEFINE beyond == Paging!Cut(Paging!Listed, reader.cursor + reader.limit, 1)
<1> DEFINE N(x) == Number(place, Paging!Listed, x)
<1>1. Paging!TypeOK /\ ReaderFits /\ OffsetInv
  BY DEF PageInv
<1>2. /\ reader.pc = "ask" /\ reader.list \in Paging!Ranked
      /\ IF ~scored \/ page = {} THEN Paging!Show({}, Paging!None)
         ELSE /\ reader' = [reader EXCEPT !.pc = "hydrate", !.page = page, !.beyond = beyond]
              /\ UNCHANGED <<place, state, copies, scored, shown, turns, steady, jumped, changes>>
  BY DEF Paging!Rank, Paging!Asks
<1>3. UNCHANGED <<place, state, copies, scored, steady, jumped, changes>>
  BY <1>2 DEF Paging!Show
<1>4. /\ reader.limit \in Nat \ {0} /\ reader.cursor \in Nat
      /\ reader.list \notin Paging!OnePage
      /\ place \in Orders
      /\ Paging!Listed \in SUBSET Paging!Rows
      /\ steady \subseteq Paging!Listed /\ steady \subseteq Paging!Rows
      /\ \A x : /\ Paging!Before(x, Paging!Listed) = N(x)
                /\ Paging!Before(x, Paging!Listed)' = N(x)
  BY <1>1, <1>2, <1>3, RankedReader
<1>5. /\ page \subseteq Paging!Listed /\ beyond \subseteq Paging!Listed /\ page \cap beyond = {}
      /\ \A x \in Paging!Listed :
           x \in page <=> reader.cursor <= N(x) /\ N(x) < reader.cursor + reader.limit
      /\ page = {} => \A x \in Paging!Listed : N(x) < reader.cursor
      /\ beyond = {} => \A x \in Paging!Listed : N(x) < reader.cursor + reader.limit
      /\ \/ beyond = {} /\ Cardinality(page) <= reader.limit
         \/ (\E x \in Paging!Listed : beyond = {x}) /\ Cardinality(page) = reader.limit
  <2>1. /\ place \in Orders /\ Paging!Listed \in SUBSET Paging!Rows
        /\ reader.cursor \in Nat /\ reader.limit \in Nat \ {0}
    BY <1>4
  <2>2. RankingSays(Paging!Listed, reader.cursor, reader.limit)
    BY <2>1, WhatIsRanked
  <2> QED
    BY <2>2 DEF RankingSays
<1>6. \A x \in steady :
        /\ N(x) \in Nat
        /\ shown[x] \in Nat
        /\ Times(x) = shown[x]
        /\ Reached(x) <=> N(x) < reader.cursor
  <2>1. reader.page = {}
    BY <1>1, <1>2 DEF ReaderFits
  <2>2. \A x \in Paging!Rows : shown[x] \in Nat
    BY <1>1 DEF Paging!TypeOK
  <2>3. \A x \in steady : N(x) \in Nat
    BY <1>4, RowsAreFinite DEF Number
  <2>4. \A x : Reached(x) <=> N(x) < reader.cursor
    BY <1>2, <1>4 DEF Reached
  <2> HIDE DEF N
  <2> QED
    BY <1>4, <2>1, <2>2, <2>3, <2>4 DEF Times
<1> HIDE DEF page, beyond, N
<1>7. reader \in Paging!Reader
  BY <1>1 DEF Paging!TypeOK
<1>8. CASE ~scored \/ page = {}
  <2>1. Paging!Show({}, Paging!None)
    BY <1>2, <1>8
  <2>2. Paging!TypeOK' /\ ReaderFits'
    <3>1. Paging!None \in Nat /\ {} \in SUBSET Paging!Rows
      BY DEF Paging!None
    <3> QED
      BY <1>1, <1>2, <2>1, <3>1, ShowKeepsTypes
  <2>3. /\ reader'.pc = "done" /\ reader'.list = reader.list /\ reader'.page = {}
        /\ shown' = [x \in Paging!Rows |-> shown[x] + 0]
    BY <1>7, <2>1 DEF Paging!Show, Paging!Reader
  <2>4. ASSUME page = {}, NEW x \in steady
        PROVE  Reached(x) /\ Times(x)' = Times(x)
    <3>1. Reached(x)
      BY <1>4, <1>5, <1>6, <2>4
    <3>2. shown'[x] = shown[x]
      BY <1>4, <1>6, <2>3
    <3> QED
      BY <1>6, <2>3, <3>1, <3>2 DEF Times
  <2>5. scored => /\ LostByOffset' \subseteq LostByOffset
                  /\ RepeatedByOffset' \subseteq RepeatedByOffset
    <3>1. \A x : Reached(x)'
      BY <2>3 DEF Reached
    <3> QED
      BY <1>3, <1>8, <2>4, <3>1 DEF LostByOffset, RepeatedByOffset
  <2>6. OffsetInv'
    BY <1>1, <1>2, <1>3, <2>5, OffsetKept
  <2> QED
    BY <1>2, <2>2, <2>3, <2>6, RankedByOffsetAlone DEF PageInv
<1>9. CASE scored /\ page # {}
  <2>1. /\ reader' = [reader EXCEPT !.pc = "hydrate", !.page = page, !.beyond = beyond]
        /\ UNCHANGED <<place, state, copies, scored, shown, turns, steady, jumped, changes>>
    BY <1>2, <1>9
  <2>2. page \in SUBSET Paging!Rows /\ beyond \in SUBSET Paging!Rows
    BY <1>4, <1>5
  <2>3. /\ reader'.pc = "hydrate" /\ reader'.list = reader.list /\ reader'.limit = reader.limit
        /\ reader'.cursor = reader.cursor /\ reader'.page = page /\ reader'.beyond = beyond
        /\ reader' \in Paging!Reader
    BY <1>7, <2>1, <2>2 DEF Paging!Reader
  <2>4. Paging!TypeOK'
    BY <1>1, <2>1, <2>3 DEF Paging!TypeOK
  <2>5. RankingFits'
    BY <1>4, <1>5, <2>3 DEF RankingFits
  <2>6. ReaderFits'
    BY <1>1, <1>2, <2>1, <2>3, <2>5 DEF ReaderFits
  <2>7. \A x \in steady :
          /\ Times(x)' = shown[x] + IF x \in page THEN 1 ELSE 0
          /\ Reached(x)' <=> N(x) < reader.cursor + reader.limit
    <3>1. \A x \in steady : beyond = {} => N(x) < reader.cursor + reader.limit
      BY <1>4, <1>5
    <3>2. \A x \in steady : Reached(x)' <=> N(x) < reader.cursor + reader.limit
      BY <1>4, <2>3, <3>1 DEF Reached
    <3> QED
      BY <2>1, <2>3, <3>2 DEF Times
  <2>8. \A x \in steady :
          x \in page <=> reader.cursor <= N(x) /\ N(x) < reader.cursor + reader.limit
    BY <1>4, <1>5
  <2>9. LostByOffset' \subseteq LostByOffset
    <3> SUFFICES ASSUME NEW x \in LostByOffset'
                 PROVE  x \in LostByOffset
      OBVIOUS
    <3>1. x \in steady /\ Reached(x)' /\ Times(x)' = 0
      BY <2>1 DEF LostByOffset
    <3>2. N(x) < reader.cursor /\ shown[x] = 0
      BY <1>4, <1>6, <2>7, <2>8, <3>1
    <3> QED
      BY <1>6, <3>1, <3>2 DEF LostByOffset
  <2>10. RepeatedByOffset' \subseteq RepeatedByOffset
    <3> SUFFICES ASSUME NEW x \in RepeatedByOffset'
                 PROVE  x \in RepeatedByOffset
      OBVIOUS
    <3>1. x \in steady /\ (Times(x)' > 1 \/ (Times(x)' = 1 /\ ~Reached(x)'))
      BY <2>1 DEF RepeatedByOffset
    <3>2. shown[x] > 1 \/ (shown[x] = 1 /\ ~(N(x) < reader.cursor))
      BY <1>4, <1>6, <2>7, <2>8, <3>1
    <3> QED
      BY <1>6, <3>1, <3>2 DEF RepeatedByOffset
  <2>11. OffsetInv'
    BY <1>1, <1>2, <1>3, <2>9, <2>10, OffsetKept
  <2> QED
    BY <1>2, <2>3, <2>4, <2>6, <2>11, RankedByOffsetAlone DEF PageInv
<1> QED
  BY <1>8, <1>9

\* The rows of a ranking are shown, and the reader is where the ranking ended.
LEMMA HydratingKeepsInv ==
  ASSUME PageInv, reader.pc = "hydrate", reader.list \in Paging!Ranked, Paging!HydratePage
  PROVE  PageInv'
<1> DEFINE items == {x \in reader.page : Paging!Exists(x)}
<1> DEFINE next == IF reader.beyond # {} THEN reader.cursor + reader.limit ELSE Paging!None
<1>1. Paging!TypeOK /\ ReaderFits /\ OffsetInv
  BY DEF PageInv
<1>2. Paging!Show(items, next)
  BY DEF Paging!HydratePage
<1>3. UNCHANGED <<place, state, copies, scored, steady, jumped, changes>>
  BY <1>2 DEF Paging!Show
<1>4. /\ reader.limit \in Nat \ {0} /\ reader.cursor \in Nat
      /\ reader.list \notin Paging!OnePage
      /\ steady \subseteq Paging!Rows
      /\ \A x : Paging!Before(x, Paging!Listed)' = Paging!Before(x, Paging!Listed)
  BY <1>1, <1>3, RankedReader
<1>5. /\ items \in SUBSET Paging!Rows /\ next \in Nat
      /\ next = Paging!None <=> reader.beyond = {}
  BY <1>1, <1>4, ReaderTypes DEF Paging!None
<1> HIDE DEF next
<1>6. Paging!TypeOK' /\ ReaderFits'
  BY <1>1, <1>2, <1>4, <1>5, ShowKeepsTypes
<1>7. /\ reader'.list = reader.list /\ reader'.page = {}
      /\ reader'.pc = (IF reader.beyond = {} THEN "done" ELSE "ask")
      /\ reader.beyond # {} => reader'.cursor = next
      /\ shown' = [x \in Paging!Rows |-> shown[x] + IF x \in items THEN 1 ELSE 0]
  <2>1. reader \in Paging!Reader
    BY <1>1 DEF Paging!TypeOK
  <2> QED
    BY <1>2, <1>5, <2>1 DEF Paging!Show, Paging!Reader
<1>8. \A x \in steady : Times(x)' = Times(x)
  <2> SUFFICES ASSUME NEW x \in steady
               PROVE  Times(x)' = Times(x)
    OBVIOUS
  <2>1. x \in Paging!Rows /\ shown[x] \in Nat /\ (x \in items <=> x \in reader.page)
    BY <1>1 DEF Paging!TypeOK, Paging!Exists
  <2>2. shown'[x] = shown[x] + IF x \in reader.page THEN 1 ELSE 0
    BY <1>7, <2>1
  <2>3. shown'[x] + 0 = shown'[x]
    BY <2>1, <2>2
  <2> QED
    BY <1>7, <2>2, <2>3 DEF Times
<1>9. \A x : Reached(x)' <=> Reached(x)
  <2>1. CASE reader.beyond = {}
    BY <1>7, <2>1 DEF Reached
  <2>2. CASE reader.beyond # {}
    BY <1>4, <1>7, <2>2 DEF Reached, next
  <2> QED
    BY <2>1, <2>2
<1>10. LostByOffset' \subseteq LostByOffset /\ RepeatedByOffset' \subseteq RepeatedByOffset
  BY <1>3, <1>8, <1>9 DEF LostByOffset, RepeatedByOffset
<1>11. OffsetInv'
  BY <1>1, <1>3, <1>10, OffsetKept
<1> QED
  BY <1>6, <1>7, <1>11, RankedByOffsetAlone DEF PageInv

\* No field is ever deleted, so counting the fields found is as good.
LEMMA FieldsAreFound ==
  ASSUME Paging!TypeOK, ReaderFits, Paging!HydrateFields
  PROVE  Paging!HydratePage
<1> DEFINE both == reader.page \cup reader.beyond
<1>1. reader.pc = "hydrate" /\ reader.list = "fields" /\ Paging!HydrateFound
  BY DEF Paging!HydrateFields, Paging!Hydrates
<1>2. /\ \A x \in Paging!Rows : Paging!Exists(x)
      /\ reader.page \in SUBSET Paging!Rows /\ reader.beyond \in SUBSET Paging!Rows
      /\ reader.limit \in Nat
  BY <1>1, ReaderTypes DEF ReaderFits, Paging!Exists, Paging!Deletable
<1>3. RankingFits
  BY <1>1 DEF ReaderFits
<1>4. Cardinality(both) > reader.limit <=> reader.beyond # {}
  <2>1. CASE reader.beyond = {}
    <3>1. both = reader.page /\ Cardinality(reader.page) <= reader.limit
      BY <1>3, <2>1 DEF RankingFits
    <3> QED
      BY <1>2, <2>1, <3>1, RowsAreFinite
  <2>2. CASE reader.beyond # {}
    <3>1. PICK x : reader.beyond = {x} /\ x \notin reader.page
      BY <1>3, <2>2 DEF RankingFits
    <3>2. Cardinality(reader.page) = reader.limit
      BY <1>3, <2>2 DEF RankingFits
    <3>3. Cardinality(reader.page \cup {x}) = Cardinality(reader.page) + 1
      BY <1>2, <3>1, RowsAreFinite, FS_AddElement
    <3> QED
      BY <1>2, <2>2, <3>1, <3>2, <3>3
  <2> QED
    BY <2>1, <2>2
<1>5. {x \in both : Paging!Exists(x)} = both /\ {x \in reader.page : Paging!Exists(x)} = reader.page
  BY <1>2
<1>6. reader.beyond = {} => both = reader.page
  OBVIOUS
<1>7. Paging!Cardinality({x \in both : Paging!Exists(x)}) = Cardinality(both)
  BY <1>5, PagingCardinality
<1> QED
  BY <1>1, <1>4, <1>5, <1>6, <1>7 DEF Paging!HydrateFound, Paging!HydratePage

-----------------------------------------------------------------------------
(* All the pages of a reader.                                              *)

\* The invariant holds before the first page.
LEMMA PageInvAtFirst ==
  ASSUME Paging!Init
  PROVE  PageInv
<1>1. /\ place = [x \in Paging!Rows |-> x]
      /\ state \in [Paging!Rows -> {"listed", "unlisted"}]
      /\ copies \in [Paging!Rows -> 1 .. MaxInvitations]
      /\ scored = TRUE /\ jumped = FALSE /\ turns = 0
      /\ shown = [x \in Paging!Rows |-> 0]
      /\ steady = {x \in Paging!Rows : state[x] = "listed"}
      /\ changes = [came |-> 0, left |-> 0, moved |-> 0]
      /\ reader.limit = Paging!None => reader.list = "conversations"
  BY DEF Paging!Init
<1>2. PICK l \in Paging!Lists, n \in Limits \cup {Paging!None} :
        reader = [list |-> l, limit |-> n, cursor |-> Paging!None, pc |-> "ask",
                  page |-> {}, beyond |-> {}]
  BY DEF Paging!Init
<1>3. reader \in Paging!Reader /\ reader.pc = "ask" /\ reader.cursor = 0 /\ reader.page = {}
  BY <1>2 DEF Paging!Reader, Paging!None
<1>4. Paging!TypeOK
  <2>1. 0 \in Paging!Counter
    BY PageConstants DEF Paging!Counter
  <2>2. shown \in [Paging!Rows -> 0 .. turns + 1]
    BY <1>1
  <2> QED
    BY <1>1, <1>3, <2>1, <2>2 DEF Paging!TypeOK
<1>5. ReaderFits
  BY <1>1, <1>3 DEF ReaderFits, Paging!None
<1>6. MessagesBehind /\ TurnsPayLosses /\ ShownBehind
  <2>1. \A x \in steady : shown[x] = 0
    BY <1>1
  <2> QED
    BY <1>3, <2>1 DEF MessagesBehind, TurnsPayLosses, ShownBehind, Paging!None
<1>7. OffsetInv
  <2>1. reader.cursor = 0 /\ reader.pc = "ask"
    BY <1>3
  <2>2. \A x \in steady : ~Reached(x) /\ Times(x) = 0
    <3>1. \A x \in steady : Times(x) = 0
      BY <1>1, <1>3 DEF Times
    <3>2. \A x : Paging!Before(x, Paging!Listed) \in Nat
      <4>1. \A x : {y \in Paging!Listed : place[y] < place[x]} \in SUBSET Paging!Rows
        BY DEF Paging!Listed
      <4> QED
        BY <4>1, RowsAreFinite, PagingCardinality DEF Paging!Before
    <3>3. \A x : ~(Paging!Before(x, Paging!Listed) < 0)
      BY <3>2
    <3> QED
      BY <2>1, <3>1, <3>3 DEF Reached
  <2>3. LostByOffset = {} /\ RepeatedByOffset = {}
    BY <2>2 DEF LostByOffset, RepeatedByOffset
  <2>4. Cardinality({}) = 0
    BY FS_EmptySet
  <2> QED
    BY <1>1, <2>3, <2>4 DEF OffsetInv
<1> QED
  BY <1>4, <1>5, <1>6, <1>7 DEF PageInv

\* Every step keeps the invariant.
LEMMA PageInvEver ==
  ASSUME PageInv, [Paging!Next]_(Paging!vars)
  PROVE  PageInv'
<1>1. /\ Paging!TypeOK /\ ReaderFits /\ MessagesBehind /\ TurnsPayLosses
      /\ ShownBehind /\ OffsetInv
  BY DEF PageInv
<1>2. CASE Changes
  BY <1>1, <1>2, ChangesKeepTypes, ChangesKeepMessages, ChangesKeepLosses,
     ChangesKeepOrderOfShown, ChangesKeepOffset DEF PageInv
<1>3. CASE Paging!CriteriaLost
  <2>1. /\ scored' = FALSE
        /\ UNCHANGED <<place, state, copies, reader, shown, turns, steady, jumped, changes>>
    BY <1>3 DEF Paging!CriteriaLost
  <2>2. Paging!TypeOK'
    BY <1>1, <2>1 DEF Paging!TypeOK
  <2>3. ReaderFits'
    BY <1>1, <2>1 DEF ReaderFits, RankingFits
  <2>4. MessagesBehind' /\ TurnsPayLosses' /\ ShownBehind'
    BY <1>1, <2>1 DEF MessagesBehind, TurnsPayLosses, LostBehind, Paging!Missed, ShownBehind
  <2>5. OffsetInv'
    BY <2>1 DEF OffsetInv
  <2> QED
    BY <2>2, <2>3, <2>4, <2>5 DEF PageInv
<1>4. CASE KeyedPage
  BY <1>4, KeyedPagesKeepInv
<1>5. CASE Paging!RankSessions \/ Paging!RankUsers \/ Paging!RankFields
  BY <1>5, RankingKeepsInv
     DEF Paging!RankSessions, Paging!RankUsers, Paging!RankFields, Paging!Ranked
<1>6. CASE Paging!HydrateSessions \/ Paging!HydrateUsers \/ Paging!HydrateFields
  <2>1. reader.pc = "hydrate" /\ reader.list \in Paging!Ranked
    BY <1>6 DEF Paging!HydrateSessions, Paging!HydrateUsers, Paging!HydrateFields,
                Paging!Hydrates, Paging!Ranked
  <2>2. Paging!HydratePage
    BY <1>1, <1>6, FieldsAreFound DEF Paging!HydrateSessions, Paging!HydrateUsers
  <2> QED
    BY <2>1, <2>2, HydratingKeepsInv
<1>7. CASE Paging!InvitationMoves \/ UNCHANGED Paging!vars
  <2>1. /\ UNCHANGED <<place, state, scored, reader, shown, turns, steady, jumped, changes>>
        /\ copies' \in [Paging!Rows -> 1 .. MaxInvitations]
    BY <1>1, <1>7 DEF Paging!InvitationMoves, Paging!vars, Paging!TypeOK
  <2>2. Paging!TypeOK'
    BY <1>1, <2>1 DEF Paging!TypeOK
  <2>3. ReaderFits'
    BY <1>1, <2>1 DEF ReaderFits, RankingFits
  <2>4. MessagesBehind' /\ TurnsPayLosses' /\ ShownBehind'
    BY <1>1, <2>1 DEF MessagesBehind, TurnsPayLosses, LostBehind, Paging!Missed, ShownBehind
  <2>5. Paging!Listed' = Paging!Listed
    BY <2>1 DEF Paging!Listed, Paging!IsListed
  <2>6. \A x : Paging!Before(x, Paging!Listed)' = Paging!Before(x, Paging!Listed)
    BY <2>1, <2>5 DEF Paging!Before
  <2>7. \A x : (Reached(x)' <=> Reached(x)) /\ Times(x)' = Times(x)
    BY <2>1, <2>6 DEF Reached, Times
  <2>8. OffsetInv'
    BY <1>1, <2>1, <2>7 DEF OffsetInv, LostByOffset, RepeatedByOffset
  <2> QED
    BY <2>2, <2>3, <2>4, <2>8 DEF PageInv
<1> QED
  BY <1>2, <1>3, <1>4, <1>5, <1>6, <1>7 DEF Paging!Next, Changes, KeyedPage

\* At the end of the pages the invariant says what the reader has been shown.
LEMMA PageInvSuffices ==
  ASSUME PageInv
  PROVE  PagesShowRowsOnce
<1>1. /\ Paging!TypeOK /\ ReaderFits /\ MessagesBehind /\ TurnsPayLosses
      /\ ShownBehind /\ OffsetInv
  BY DEF PageInv
<1>2. Paging!MessagesShownOnce
  BY <1>1 DEF Paging!MessagesShownOnce, Paging!Done, MessagesBehind
<1>3. Paging!TurnLosesOne
  BY <1>1, PagingCardinality DEF Paging!TurnLosesOne, Paging!Done, TurnsPayLosses
<1>4. Paging!RepeatsNeedMovedCursor
  <2>1. \A x \in steady : shown[x] \in Nat
    BY <1>1 DEF Paging!TypeOK
  <2> QED
    BY <1>1, <2>1 DEF Paging!RepeatsNeedMovedCursor, Paging!Repeated, ShownBehind
<1>5. Paging!OffsetDrift
  <2> SUFFICES ASSUME reader.pc = "done", reader.list \in Paging!Ranked, scored
               PROVE  /\ Cardinality(Paging!Missed) <= changes.left + changes.moved
                      /\ Cardinality(Paging!Repeated) <= changes.came + changes.moved
    BY PagingCardinality DEF Paging!OffsetDrift, Paging!Done
  <2>1. reader.page = {}
    BY <1>1 DEF ReaderFits
  <2>2. \A x : Reached(x)
    BY DEF Reached
  <2>3. \A x \in steady : Times(x) = shown[x]
    BY <1>1, <2>1 DEF Times, Paging!TypeOK
  <2>4. Paging!Missed = LostByOffset /\ Paging!Repeated = RepeatedByOffset
    BY <2>2, <2>3 DEF Paging!Missed, Paging!Repeated, LostByOffset, RepeatedByOffset
  <2> QED
    BY <1>1, <2>4 DEF OffsetInv
<1> QED
  BY <1>2, <1>3, <1>4, <1>5 DEF PagesShowRowsOnce, Paging!PagesShowRowsOnce

\* A client that pages through a collection to its end is shown every row that
\* nothing happened to, and is shown it once, but for the rows that its way of
\* cutting pages is known to lose or repeat: none for messages, one at a page
\* turn for a popped uid, one for a change of the collection for an offset
\* (getMessages, findAllByUserUid, getSuggestions and the other collections).
THEOREM PagesAreSound == Paging!Spec => []PagesShowRowsOnce
<1>1. Paging!Init => PageInv
  BY PageInvAtFirst
<1>2. PageInv /\ [Paging!Next]_(Paging!vars) => PageInv'
  BY PageInvEver
<1>3. PageInv => PagesShowRowsOnce
  BY PageInvSuffices
<1> QED
  BY <1>1, <1>2, <1>3, PTL DEF Paging!Spec

=============================================================================
