--------------------------- MODULE Friendship_proofs ---------------------------
(***************************************************************************)
(* Proofs about Friendship, for any users, requests, handlers and          *)
(* failures, and about Notifications, for any recipients, sockets,         *)
(* devices, events and failures.                                           *)
(***************************************************************************)
EXTENDS Friendship, MCNotifications, TLAPS

-----------------------------------------------------------------------------
(* Type correctness.                                                       *)

\* What TypeOK says of a request in flight.
WellFormed(q) ==
  \/ q = Idle
  \/ /\ q \in Request
     /\ q.pc \in Steps[q.op]
     /\ q.user \in {q.pair[1], q.pair[2]}

\* A step of a handler is known by its name.
LEMMA StepsOfHandlers ==
  ASSUME NEW q, WellFormed(q), q # Idle
  PROVE  /\ q.op \in {"create", "update", "remove", "block", "unblock"}
         /\ q.pc \in {"check", "insert"} <=> q.op = "create"
         /\ q.pc \in {"find", "write", "delete"} <=> q.op = "update"
         /\ q.pc \in {"seek", "drop"} <=> q.op = "remove"
         /\ q.pc \in {"lookup", "block"} <=> q.op = "block"
         /\ q.pc \in {"held", "lift"} <=> q.op = "unblock"
<1>1. q.op \in {"create", "update", "remove", "block", "unblock"} /\ q.pc \in Steps[q.op]
  BY FriendshipAssumption DEF WellFormed, Request
<1>2. CASE q.op = "create"
  BY <1>1, <1>2 DEF Steps
<1>3. CASE q.op = "update"
  BY <1>1, <1>3 DEF Steps
<1>4. CASE q.op = "remove"
  BY <1>1, <1>4 DEF Steps
<1>5. CASE q.op = "block"
  BY <1>1, <1>5 DEF Steps
<1>6. CASE q.op = "unblock"
  BY <1>1, <1>6 DEF Steps
<1> QED
  BY <1>1, <1>2, <1>3, <1>4, <1>5, <1>6

\* Every database call changes one request.
LEMMA WorkChangesOne ==
  ASSUME NEW r \in Requests, Work(r)
  PROVE  Observe /\ \E q : request' = [request EXCEPT ![r] = q]
<1>1. CASE CheckNoRequest(r) \/ CheckNotBlocked(r) \/ CheckBlocked(r)
  BY <1>1 DEF CheckNoRequest, CheckNotBlocked, CheckBlocked, Check, Become
<1>2. CASE InsertRequest(r) \/ DeleteCancelled(r) \/ DeleteFriend(r) \/ UnblockUser(r)
  BY <1>2 DEF InsertRequest, DeleteCancelled, DeleteFriend, UnblockUser, Become, Finish
<1>3. CASE FindRequest(r) \/ FindFriend(r)
  BY <1>3 DEF FindRequest, FindFriend, Become
<1>4. CASE WriteStatus(r) \/ BlockUser(r)
  BY <1>4 DEF WriteStatus, BlockUser, Become
<1> QED
  BY <1>1, <1>2, <1>3, <1>4 DEF Work

\* A request that goes on with the row it has found.
LEMMA RequestGoesOn ==
  ASSUME NEW q \in Request, NEW pc, NEW p
  PROVE  [q EXCEPT !.pc = pc, !.pair = p].pc = pc
BY DEF Request

\* Where a request may go from the step it is at.
LEMMA WorkGoesOn ==
  ASSUME request \in [Requests -> Request \cup {Idle}], NEW r \in Requests, Work(r)
  PROVE  /\ request'[r].pc = "insert" => CheckNoRequest(r)
         /\ request'[r].pc = "write" => FindRequest(r)
<1>1. CASE CheckNoRequest(r) \/ CheckNotBlocked(r) \/ CheckBlocked(r)
  BY <1>1 DEF CheckNoRequest, CheckNotBlocked, CheckBlocked, Check, Become, Idle, At, Request
<1>2. CASE InsertRequest(r) \/ DeleteCancelled(r) \/ DeleteFriend(r) \/ UnblockUser(r)
  BY <1>2 DEF InsertRequest, DeleteCancelled, DeleteFriend, UnblockUser, Become, Finish, Idle
<1>3. CASE FindRequest(r) \/ FindFriend(r)
  <2>1. At(r, "find") \/ At(r, "seek")
    BY <1>3 DEF FindRequest, FindFriend
  <2>2. request[r] \in Request
    BY <2>1 DEF At, Idle
  <2>3. CASE FindRequest(r)
    <3>1. \/ Become(r, Idle)
          \/ \E p : Become(r, [request[r] EXCEPT !.pc = "write", !.pair = p])
      BY <2>3 DEF FindRequest
    <3>2. CASE Become(r, Idle)
      BY <3>2 DEF Become, Idle
    <3>3. CASE \E p : Become(r, [request[r] EXCEPT !.pc = "write", !.pair = p])
      <4>1. request'[r].pc = "write"
        BY <2>2, <3>3, RequestGoesOn DEF Become
      <4> QED
        BY <2>3, <4>1
    <3> QED
      BY <3>1, <3>2, <3>3
  <2>4. CASE FindFriend(r)
    <3>1. \/ Become(r, Idle)
          \/ \E p : Become(r, [request[r] EXCEPT !.pc = "drop", !.pair = p])
      BY <2>4 DEF FindFriend
    <3>2. CASE Become(r, Idle)
      BY <3>2 DEF Become, Idle
    <3>3. CASE \E p : Become(r, [request[r] EXCEPT !.pc = "drop", !.pair = p])
      BY <2>2, <3>3, RequestGoesOn DEF Become
    <3> QED
      BY <3>1, <3>2, <3>3
  <2> QED
    BY <1>3, <2>3, <2>4
<1>4. CASE WriteStatus(r) \/ BlockUser(r)
  <2>1. request[r] \in Request
    BY <1>4 DEF WriteStatus, BlockUser, At, Idle
  <2> QED
    BY <1>4, <2>1 DEF WriteStatus, BlockUser, Become, Idle, Request
<1> QED
  BY <1>1, <1>2, <1>3, <1>4 DEF Work

\* An idle request is at no step.
LEMMA IdleIsNowhere ==
  ASSUME NEW r \in Requests,
         NEW pc \in {"check", "insert", "find", "write", "delete", "seek", "drop", "lookup",
                     "block", "held", "lift"},
         At(r, pc)
  PROVE  InFlight(r)
BY DEF At, InFlight, Idle

\* A request that goes on to a step of its handler stays well formed.
LEMMA StepKeepsForm ==
  ASSUME NEW q, WellFormed(q), q # Idle, NEW pc, pc \in Steps[q.op]
  PROVE  WellFormed([q EXCEPT !.pc = pc])
<1>1. q.op \in Ops /\ pc \in UNION {Steps[o] : o \in Ops}
  BY DEF WellFormed, Request
<1> QED
  BY <1>1 DEF WellFormed, Request

\* The rows between two users belong to pairs.
LEMMA BetweenIsPairs ==
  ASSUME NEW p \in Pairs
  PROVE  Between(p[1], p[2]) \subseteq Pairs
BY DEF Between, Pairs

\* The history of the creates keeps its type, whatever the rows become.
LEMMA ObserveType ==
  ASSUME TypeOK, Observe, \A r \in Requests : WellFormed(request'[r])
  PROVE  standing' \in [Requests -> SUBSET Pairs]
<1> SUFFICES ASSUME NEW r \in Requests
             PROVE  InTheWay(r)' \subseteq Pairs
  BY DEF Observe, TypeOK
<1>1. CASE request'[r].op = "create"
  <2>1. request'[r].pair \in Pairs
    BY <1>1 DEF WellFormed, Request, Idle
  <2> QED
    BY <2>1, BetweenIsPairs DEF InTheWay, Having
<1>2. CASE request'[r].op # "create"
  BY <1>2 DEF InTheWay
<1> QED
  BY <1>1, <1>2

\* One request changes to a well-formed one, and the tables keep their types.
LEMMA ChangeKeepsType ==
  ASSUME TypeOK, NEW r \in Requests, NEW q, WellFormed(q),
         request' = [request EXCEPT ![r] = q],
         friend' \in [Pairs -> InvitationStatus \cup {"none"}],
         blocks' \subseteq Pairs, fresh' \subseteq Pairs, failures' \in 0..MaxFailures,
         Observe
  PROVE  TypeOK'
<1>1. request' \in [Requests -> Request \cup {Idle}]
  BY DEF TypeOK, WellFormed
<1>2. \A p \in Requests : WellFormed(request'[p])
  BY DEF TypeOK, WellFormed, InFlight
<1>3. standing' \in [Requests -> SUBSET Pairs]
  BY <1>2, ObserveType
<1>4. \A p \in Requests : InFlight(p)' =>
        /\ request'[p].pc \in Steps[request'[p].op]
        /\ request'[p].user \in {request'[p].pair[1], request'[p].pair[2]}
  BY <1>2 DEF WellFormed, InFlight
<1> QED
  BY <1>1, <1>3, <1>4 DEF TypeOK

\* A step that changes its request only.
LEMMA BecomeKeepsType ==
  ASSUME TypeOK, NEW r \in Requests, NEW q, WellFormed(q), Become(r, q)
  PROVE  TypeOK'
BY ChangeKeepsType DEF Become, TypeOK

\* What a request in flight is, by TypeOK.
LEMMA RequestIsWellFormed ==
  ASSUME TypeOK, NEW r \in Requests
  PROVE  WellFormed(request[r])
BY DEF TypeOK, WellFormed, InFlight

\* A check that is passed, or answered with an error.
LEMMA CheckKeepsType ==
  ASSUME TypeOK, NEW r \in Requests, InFlight(r), NEW from, NEW ok, NEW pc,
         pc \in Steps[request[r].op], Check(r, from, ok, pc)
  PROVE  TypeOK'
<1>1. WellFormed(Idle)
  BY DEF WellFormed
<1>2. WellFormed([request[r] EXCEPT !.pc = pc])
  BY RequestIsWellFormed, StepKeepsForm DEF InFlight
<1>3. CASE ok
  BY <1>2, <1>3, BecomeKeepsType DEF Check
<1>4. CASE ~ok
  BY <1>1, <1>4, BecomeKeepsType DEF Check
<1> QED
  BY <1>3, <1>4

\* Every database call keeps the types.
LEMMA WorkKeepsType ==
  ASSUME TypeOK, NEW r \in Requests, Work(r)
  PROVE  TypeOK'
<1> DEFINE q == request[r]
<1>1. InFlight(r) /\ WellFormed(q) /\ q # Idle
  BY IdleIsNowhere, RequestIsWellFormed
     DEF Work, CheckNoRequest, InsertRequest, FindRequest, WriteStatus, DeleteCancelled,
         FindFriend, DeleteFriend, CheckNotBlocked, BlockUser, CheckBlocked, UnblockUser,
         Check, InFlight
<1>2. /\ q \in Request
      /\ q.pair \in Pairs
      /\ q.user \in {q.pair[1], q.pair[2]}
      /\ q.status \in InvitationStatus
  BY <1>1 DEF WellFormed, Request
<1>3. WellFormed(Idle)
  BY DEF WellFormed
<1>4. q.pair \in Pairs /\ Between(q.pair[1], q.pair[2]) \subseteq Pairs
  BY <1>2, BetweenIsPairs
<1>5. CASE CheckNoRequest(r)
  <2>1. "insert" \in Steps[q.op]
    BY <1>1, <1>5, StepsOfHandlers DEF CheckNoRequest, Check, At, Steps
  <2> QED
    BY <1>1, <1>5, <2>1, CheckKeepsType DEF CheckNoRequest
<1>6. CASE CheckNotBlocked(r)
  <2>1. "block" \in Steps[q.op]
    BY <1>1, <1>6, StepsOfHandlers DEF CheckNotBlocked, Check, At, Steps
  <2> QED
    BY <1>1, <1>6, <2>1, CheckKeepsType DEF CheckNotBlocked
<1>7. CASE CheckBlocked(r)
  <2>1. "lift" \in Steps[q.op]
    BY <1>1, <1>7, StepsOfHandlers DEF CheckBlocked, Check, At, Steps
  <2> QED
    BY <1>1, <1>7, <2>1, CheckKeepsType DEF CheckBlocked
<1>8. CASE InsertRequest(r)
  <2>1. CASE Become(r, Idle)
    BY <1>3, <2>1, BecomeKeepsType
  <2>2. CASE /\ friend' = [friend EXCEPT ![q.pair] = "PENDING"]
             /\ fresh' = fresh \cup {q.pair}
             /\ Finish(r)
    BY <1>2, <1>3, <2>2, ChangeKeepsType DEF Finish, TypeOK, InvitationStatus
  <2> QED
    BY <1>8, <2>1, <2>2 DEF InsertRequest
<1>9. CASE FindRequest(r)
  <2>1. CASE Become(r, Idle)
    BY <1>3, <2>1, BecomeKeepsType
  <2>2. CASE \E p \in Having(q.pair, {"PENDING"}) :
               /\ MayUpdate(q.user, p, q.status)
               /\ Become(r, [q EXCEPT !.pc = "write", !.pair = p])
    <3>1. PICK p \in Having(q.pair, {"PENDING"}) :
            Become(r, [q EXCEPT !.pc = "write", !.pair = p])
      BY <2>2
    <3>2. p \in Pairs /\ q.user \in {p[1], p[2]}
      BY <1>2, <1>4 DEF Having, Between
    <3>0. q.pc = "find"
      BY <1>9 DEF FindRequest, At
    <3>3. "write" \in Steps[q.op] /\ q.op \in Ops
      BY <1>1, <1>2, <3>0, StepsOfHandlers DEF Steps, Request
    <3>4. WellFormed([q EXCEPT !.pc = "write", !.pair = p])
      BY <1>2, <3>2, <3>3 DEF WellFormed, Request
    <3> QED
      BY <3>1, <3>4, BecomeKeepsType
  <2> QED
    BY <1>9, <2>1, <2>2 DEF FindRequest
<1>10. CASE WriteStatus(r)
  <2>1. CASE Become(r, Idle)
    BY <1>3, <2>1, BecomeKeepsType
  <2>2. CASE /\ friend' = [friend EXCEPT ![q.pair] = q.status]
             /\ request' = [request EXCEPT ![r] =
                  IF q.status = "CANCELED" THEN [q EXCEPT !.pc = "delete"] ELSE Idle]
             /\ UNCHANGED <<blocks, fresh, failures>>
             /\ Observe
    <3>1. "delete" \in Steps[q.op]
      BY <1>1, <1>10, StepsOfHandlers DEF WriteStatus, At, Steps
    <3>2. WellFormed([q EXCEPT !.pc = "delete"])
      BY <1>1, <3>1, StepKeepsForm
    <3>3. WellFormed(IF q.status = "CANCELED" THEN [q EXCEPT !.pc = "delete"] ELSE Idle)
      BY <1>3, <3>2
    <3>4. friend' \in [Pairs -> InvitationStatus \cup {"none"}]
      BY <1>2, <2>2 DEF TypeOK
    <3> QED
      BY <2>2, <3>3, <3>4, ChangeKeepsType DEF TypeOK
  <2> QED
    BY <1>10, <2>1, <2>2 DEF WriteStatus
<1>11. CASE DeleteCancelled(r) \/ DeleteFriend(r)
  BY <1>2, <1>3, <1>11, ChangeKeepsType DEF DeleteCancelled, DeleteFriend, Finish, TypeOK
<1>12. CASE FindFriend(r)
  <2>1. CASE Become(r, Idle)
    BY <1>3, <2>1, BecomeKeepsType
  <2>2. CASE \E p \in Having(q.pair, {"ACCEPTED"}) :
               Become(r, [q EXCEPT !.pc = "drop", !.pair = p])
    <3>1. PICK p \in Having(q.pair, {"ACCEPTED"}) :
            Become(r, [q EXCEPT !.pc = "drop", !.pair = p])
      BY <2>2
    <3>2. p \in Pairs /\ q.user \in {p[1], p[2]}
      BY <1>2, <1>4 DEF Having, Between
    <3>0. q.pc = "seek"
      BY <1>12 DEF FindFriend, At
    <3>3. "drop" \in Steps[q.op] /\ q.op \in Ops
      BY <1>1, <1>2, <3>0, StepsOfHandlers DEF Steps, Request
    <3>4. WellFormed([q EXCEPT !.pc = "drop", !.pair = p])
      BY <1>2, <3>2, <3>3 DEF WellFormed, Request
    <3> QED
      BY <3>1, <3>4, BecomeKeepsType
  <2> QED
    BY <1>12, <2>1, <2>2 DEF FindFriend
<1>13. CASE BlockUser(r)
  <2>1. CASE Become(r, Idle)
    BY <1>3, <2>1, BecomeKeepsType
  <2>2. CASE ~Become(r, Idle)
    <3>1. /\ blocks' = blocks \cup {q.pair}
          /\ friend' = [p \in Pairs |->
               IF p \in Between(q.pair[1], q.pair[2]) THEN "none" ELSE friend[p]]
          /\ fresh' = fresh \ Between(q.pair[1], q.pair[2])
          /\ request' = [request EXCEPT ![r] = Idle]
          /\ UNCHANGED failures
          /\ Observe
      BY <1>13, <2>2 DEF BlockUser
    <3>2. friend' \in [Pairs -> InvitationStatus \cup {"none"}]
      BY <3>1 DEF TypeOK
    <3> QED
      BY <1>2, <1>3, <3>1, <3>2, ChangeKeepsType DEF TypeOK
  <2> QED
    BY <2>1, <2>2
<1>14. CASE UnblockUser(r)
  BY <1>3, <1>14, ChangeKeepsType DEF UnblockUser, TypeOK
<1> QED
  BY <1>5, <1>6, <1>7, <1>8, <1>9, <1>10, <1>11, <1>12, <1>13, <1>14 DEF Work

\* A request that arrives is well formed.
LEMMA ArrivalKeepsType ==
  ASSUME TypeOK, NEW r \in Requests, NEW o \in Ops, NEW p \in Pairs,
         NEW status \in InvitationStatus, Arrive(r, o, p[1], p[2], status)
  PROVE  TypeOK'
<1> DEFINE q == [op |-> o, pc |-> First[o], user |-> p[1], pair |-> <<p[1], p[2]>>,
                 status |-> status]
<1>1. <<p[1], p[2]>> \in Pairs /\ p[1] \in Users
  BY DEF Pairs
<1>2. First[o] \in Steps[o]
  BY FriendshipAssumption DEF First, Steps
<1>3. First[o] \in UNION {Steps[k] : k \in Ops}
  BY <1>2
<1>4. q \in Request
  BY <1>1, <1>3 DEF Request
<1>5. WellFormed(q)
  BY <1>2, <1>4 DEF WellFormed
<1> QED
  BY <1>5, BecomeKeepsType DEF Arrive

\* A step is an arrival, a database call or a failure.
LEMMA StepKeepsType ==
  ASSUME TypeOK, [Next]_vars
  PROVE  TypeOK'
<1>1. ASSUME NEW r \in Requests, NEW o \in Ops, NEW p \in Pairs,
             NEW status \in InvitationStatus, Arrive(r, o, p[1], p[2], status)
      PROVE  TypeOK'
  BY <1>1, ArrivalKeepsType
<1>2. ASSUME NEW r \in Requests, Work(r)
      PROVE  TypeOK'
  BY <1>2, WorkKeepsType
<1>3. ASSUME NEW r \in Requests, AwaitFails(r)
      PROVE  TypeOK'
  <2>1. WellFormed(Idle)
    BY DEF WellFormed
  <2>2. failures' \in 0..MaxFailures
    BY <1>3, FriendshipAssumption DEF AwaitFails, TypeOK
  <2> QED
    BY <1>3, <2>1, <2>2, ChangeKeepsType DEF AwaitFails, TypeOK
<1>4. CASE UNCHANGED vars
  BY <1>4 DEF vars, TypeOK, InFlight
<1>5. "PENDING" \in InvitationStatus
  BY DEF InvitationStatus
<1>6. ASSUME NEW r \in Requests, NEW p \in Pairs, NEW status \in InvitationStatus,
             Arrive(r, "update", p[1], p[2], status)
      PROVE  TypeOK'
  BY <1>1, <1>6 DEF Arrive
<1> QED
  BY <1>1, <1>2, <1>3, <1>4, <1>5, <1>6 DEF Next

\* Rows, requests and histories keep their types, and whoever is about to write a
\* row of Friends is its sender or its receiver.
THEOREM TypeCorrect == Spec => []TypeOK
<1>1. Init => TypeOK
  BY FriendshipAssumption DEF Init, TypeOK, InFlight
<1>2. TypeOK /\ [Next]_vars => TypeOK'
  BY StepKeepsType
<1> QED
  BY <1>1, <1>2, PTL DEF Spec

-----------------------------------------------------------------------------
(* Requests.                                                               *)

\* A step that brings no request to its insert keeps the creates sound:
\* objections on record only shrink.
LEMMA ShrinkingKeepsSound ==
  ASSUME RequestsAreSound, Observe, NEW r \in Requests,
         NEW q, request' = [request EXCEPT ![r] = q], request \in [Requests -> Request \cup {Idle}],
         q.pc = "insert" => InTheWay(r)' = {}
  PROVE  RequestsAreSound'
<1> SUFFICES ASSUME NEW p \in Requests, At(p, "insert")'
             PROVE  standing'[p] = {}
  BY DEF RequestsAreSound
<1>1. CASE p = r
  BY <1>1 DEF Observe, At
<1>2. CASE p # r
  <2>1. At(p, "insert") /\ InFlight(p)
    BY <1>2, IdleIsNowhere DEF At
  <2> QED
    BY <2>1 DEF Observe, RequestsAreSound
<1> QED
  BY <1>1, <1>2

\* Nobody asks a friend, or a user with whom a request was pending all along.
THEOREM CreatesAreSound == Spec => []RequestsAreSound
<1>1. Init => RequestsAreSound
  BY DEF Init, RequestsAreSound, At, Idle
<1>2. TypeOK /\ RequestsAreSound /\ [Next]_vars => RequestsAreSound'
  <2> SUFFICES ASSUME TypeOK, RequestsAreSound, [Next]_vars PROVE RequestsAreSound'
    OBVIOUS
  <2>0. request \in [Requests -> Request \cup {Idle}]
    BY DEF TypeOK
  <2>1. ASSUME NEW r \in Requests, CheckNoRequest(r)
        PROVE  RequestsAreSound'
    <3>1. CASE Having(request[r].pair, {"ACCEPTED", "PENDING"}) = {}
      <4>1. UNCHANGED friend /\ request'[r].pair = request[r].pair
        BY <2>0, <2>1, <3>1 DEF CheckNoRequest, Check, Become
      <4>2. InTheWay(r)' = {}
        BY <3>1, <4>1 DEF InTheWay, Having
      <4> QED
        BY <2>0, <2>1, <3>1, <4>2, ShrinkingKeepsSound DEF CheckNoRequest, Check, Become
    <3>2. CASE Having(request[r].pair, {"ACCEPTED", "PENDING"}) # {}
      BY <2>0, <2>1, <3>2, ShrinkingKeepsSound DEF CheckNoRequest, Check, Become, Idle
    <3> QED
      BY <3>1, <3>2
  <2>2. ASSUME NEW r \in Requests, Work(r), ~CheckNoRequest(r)
        PROVE  RequestsAreSound'
    <3>1. Observe
      BY <2>2, WorkChangesOne
    <3>2. PICK q : request' = [request EXCEPT ![r] = q]
      BY <2>2, WorkChangesOne
    <3>3. q.pc # "insert"
      BY <2>0, <2>2, <3>2, WorkGoesOn
    <3> QED
      BY <2>0, <3>1, <3>2, <3>3, ShrinkingKeepsSound
  <2>3. ASSUME NEW r \in Requests, NEW o, NEW u, NEW v, NEW status, Arrive(r, o, u, v, status)
        PROVE  RequestsAreSound'
    <3>1. First[o] # "insert"
      BY <2>3, FriendshipAssumption DEF Arrive, First
    <3> QED
      BY <2>0, <2>3, <3>1, ShrinkingKeepsSound DEF Arrive, Become
  <2>4. ASSUME NEW r \in Requests, AwaitFails(r)
        PROVE  RequestsAreSound'
    BY <2>0, <2>4, ShrinkingKeepsSound DEF AwaitFails, Idle
  <2>5. CASE UNCHANGED vars
    BY <2>5 DEF vars, RequestsAreSound, At
  <2> QED
    BY <2>1, <2>2, <2>3, <2>4, <2>5 DEF Next
<1> QED
  BY <1>1, <1>2, TypeCorrect, PTL DEF Spec

-----------------------------------------------------------------------------
(* Blocks.                                                                 *)

\* Between two blocks only the insert of a request makes a row: whoever was in
\* flight at the block brings none back.
THEOREM BlocksAreFinal == Spec => []BlockIsFinal
<1>1. Init => BlockIsFinal
  BY DEF Init, BlockIsFinal
<1>2. TypeOK /\ BlockIsFinal /\ [Next]_vars => BlockIsFinal'
  <2> SUFFICES ASSUME TypeOK, BlockIsFinal, [Next]_vars PROVE BlockIsFinal'
    OBVIOUS
  <2>1. CASE UNCHANGED <<friend, fresh>>
    BY <2>1 DEF BlockIsFinal
  <2>2. ASSUME NEW r \in Requests, ~UNCHANGED <<friend, fresh>>, InsertRequest(r)
        PROVE  BlockIsFinal'
    BY <2>2 DEF InsertRequest, Become, BlockIsFinal, TypeOK
  <2>3. ASSUME NEW r \in Requests, ~UNCHANGED <<friend, fresh>>, WriteStatus(r)
        PROVE  BlockIsFinal'
    BY <2>3 DEF WriteStatus, Become, BlockIsFinal, TypeOK
  <2>4. ASSUME NEW r \in Requests, DeleteCancelled(r) \/ DeleteFriend(r)
        PROVE  BlockIsFinal'
    BY <2>4 DEF DeleteCancelled, DeleteFriend, BlockIsFinal, TypeOK
  <2>5. ASSUME NEW r \in Requests, ~UNCHANGED <<friend, fresh>>, BlockUser(r)
        PROVE  BlockIsFinal'
    BY <2>5 DEF BlockUser, Become, BlockIsFinal
  <2>6. ASSUME NEW r \in Requests, Work(r)
        PROVE  \/ UNCHANGED <<friend, fresh>>
               \/ InsertRequest(r) \/ WriteStatus(r) \/ DeleteCancelled(r) \/ DeleteFriend(r)
               \/ BlockUser(r)
    BY <2>6 DEF Work, CheckNoRequest, FindRequest, FindFriend, CheckNotBlocked, CheckBlocked,
         UnblockUser, Check, Become
  <2>7. ASSUME NEW r \in Requests, Work(r)
        PROVE  BlockIsFinal'
    BY <2>1, <2>2, <2>3, <2>4, <2>5, <2>6, <2>7
  <2>8. ASSUME ~(\E r \in Requests : Work(r))
        PROVE  UNCHANGED <<friend, fresh>>
    BY <2>8 DEF Next, Arrive, Become, AwaitFails, vars
  <2> QED
    BY <2>1, <2>7, <2>8
<1> QED
  BY <1>1, <1>2, TypeCorrect, PTL DEF Spec

-----------------------------------------------------------------------------
(* Cancels.                                                                *)

\* Whatever happens between the two statements of a cancel, its delete follows:
\* only the update makes a row CANCELED, and it puts the request at the delete.
THEOREM CancelsAreDeleted == Spec => []CancelledIsDeleted
<1>1. Init => CancelledIsDeleted
  BY DEF Init, CancelledIsDeleted
<1>2. TypeOK /\ CancelledIsDeleted /\ [Next]_vars => CancelledIsDeleted'
  <2> SUFFICES ASSUME TypeOK, CancelledIsDeleted, [Next]_vars, NEW p \in Pairs,
                      friend'[p] = "CANCELED", ~(failures' > 0)
               PROVE  \E s \in Requests : request'[s].pc = "delete" /\ request'[s].pair = p
    BY DEF CancelledIsDeleted, At
  <2>1. /\ friend \in [Pairs -> InvitationStatus \cup {"none"}]
        /\ request \in [Requests -> Request \cup {Idle}]
        /\ failures \in Nat
    BY FriendshipAssumption DEF TypeOK
  <2>2. ~(failures > 0) /\ \A r \in Requests : ~AwaitFails(r)
    <3>1. \A r \in Requests : Work(r) => failures' = failures
      BY DEF Work, CheckNoRequest, InsertRequest, FindRequest, WriteStatus, DeleteCancelled,
             FindFriend, DeleteFriend, CheckNotBlocked, BlockUser, CheckBlocked, UnblockUser,
             Check, Become, Finish
    <3>2. \A r \in Requests : \A o, u, v, status : Arrive(r, o, u, v, status) => failures' = failures
      BY DEF Arrive, Become
    <3>3. \A r \in Requests : AwaitFails(r) => failures' = failures + 1
      BY DEF AwaitFails
    <3>4. UNCHANGED vars => failures' = failures
      BY DEF vars
    <3> QED
      BY <2>1, <3>1, <3>2, <3>3, <3>4 DEF Next
  <2>3. friend[p] = "CANCELED" =>
          \E s \in Requests : request[s].pc = "delete" /\ request[s].pair = p
    BY <2>2 DEF CancelledIsDeleted, At
  <2>4. ASSUME NEW r \in Requests, WriteStatus(r), friend[p] # "CANCELED"
        PROVE  request'[r].pc = "delete" /\ request'[r].pair = p
    <3>1. request[r] \in Request
      BY <2>1, <2>4 DEF WriteStatus, At, Idle
    <3>2. /\ friend' = [friend EXCEPT ![request[r].pair] = request[r].status]
          /\ request' = [request EXCEPT ![r] =
               IF request[r].status = "CANCELED" THEN [request[r] EXCEPT !.pc = "delete"] ELSE Idle]
      BY <2>4 DEF WriteStatus, Become
    <3>3. request[r].pair = p /\ request[r].status = "CANCELED"
      BY <2>1, <2>4, <3>2
    <3>4. request'[r] = [request[r] EXCEPT !.pc = "delete"]
      BY <2>1, <3>2, <3>3
    <3> QED
      BY <3>1, <3>3, <3>4 DEF Request
  <2>5. ASSUME NEW r \in Requests, Work(r), ~WriteStatus(r)
        PROVE  friend[p] = "CANCELED" /\ ~(request[r].pc = "delete" /\ request[r].pair = p)
    <3>1. CASE UNCHANGED friend /\ ~At(r, "delete")
      BY <3>1 DEF At
    <3>2. CASE InsertRequest(r)
      BY <2>1, <3>2 DEF InsertRequest, Become, At
    <3>3. CASE DeleteCancelled(r) \/ DeleteFriend(r)
      BY <2>1, <3>3 DEF DeleteCancelled, DeleteFriend, At
    <3>4. CASE BlockUser(r)
      BY <2>1, <3>4 DEF BlockUser, Become, At
    <3>5. CheckNoRequest(r) \/ FindRequest(r) \/ FindFriend(r) \/ CheckNotBlocked(r)
            \/ CheckBlocked(r) \/ UnblockUser(r) => UNCHANGED friend /\ ~At(r, "delete")
      BY DEF CheckNoRequest, FindRequest, FindFriend, CheckNotBlocked, CheckBlocked, UnblockUser,
             Check, Become, At
    <3> QED
      BY <2>5, <3>1, <3>2, <3>3, <3>4, <3>5 DEF Work
  <2>6. ASSUME NEW r \in Requests, Work(r)
        PROVE  \E s \in Requests : request'[s].pc = "delete" /\ request'[s].pair = p
    <3>1. CASE WriteStatus(r) /\ friend[p] # "CANCELED"
      BY <2>4, <3>1
    <3>2. CASE ~(WriteStatus(r) /\ friend[p] # "CANCELED")
      <4>1. friend[p] = "CANCELED" /\ ~(request[r].pc = "delete" /\ request[r].pair = p)
        BY <2>5, <2>6, <3>2 DEF WriteStatus, At
      <4>2. PICK s \in Requests : request[s].pc = "delete" /\ request[s].pair = p
        BY <2>3, <4>1
      <4>3. request'[s] = request[s]
        BY <2>1, <2>6, <4>1, <4>2, WorkChangesOne
      <4> QED
        BY <4>2, <4>3
    <3> QED
      BY <3>1, <3>2
  <2>7. ASSUME NEW r \in Requests, NEW o, NEW u, NEW v, NEW status, Arrive(r, o, u, v, status)
        PROVE  \E s \in Requests : request'[s].pc = "delete" /\ request'[s].pair = p
    <3>1. PICK s \in Requests : request[s].pc = "delete" /\ request[s].pair = p
      BY <2>3, <2>7 DEF Arrive, Become
    <3>2. request'[s] = request[s]
      BY <2>1, <2>7, <3>1 DEF Arrive, Become, InFlight, Idle
    <3> QED
      BY <3>1, <3>2
  <2>8. CASE UNCHANGED vars
    BY <2>3, <2>8 DEF vars
  <2> QED
    BY <2>2, <2>6, <2>7, <2>8 DEF Next
<1> QED
  BY <1>1, <1>2, TypeCorrect, PTL DEF Spec

\* What the rows of Friends may be, whatever has been called, and in what order
\* (blockUser, FriendsService.update).
THEOREM NothingIsLeftOver == Spec => []NoRowIsLeftOver
BY BlocksAreFinal, CancelsAreDeleted, PTL DEF NoRowIsLeftOver

-----------------------------------------------------------------------------
(* Answers.                                                                *)

\* Who is about to write a row was allowed to by that row, which is the one of
\* the write: FindRequest hands on the row that it has looked at.
WritersMay ==
  \A r \in Requests : At(r, "write") =>
    MayUpdate(request[r].user, request[r].pair, request[r].status)

\* A step that brings no request to its write keeps the writers allowed.
LEMMA OthersKeepWriters ==
  ASSUME WritersMay, NEW r \in Requests, NEW q,
         request \in [Requests -> Request \cup {Idle}],
         request' = [request EXCEPT ![r] = q],
         q.pc = "write" => MayUpdate(q.user, q.pair, q.status)
  PROVE  WritersMay'
BY DEF WritersMay, At, MayUpdate

\* A row becomes ACCEPTED through the user who was asked.
THEOREM ReceiversAccept == Spec => OnlyReceiverAccepts
<1>1. Init => WritersMay
  BY DEF Init, WritersMay, At, Idle
<1>2. TypeOK /\ WritersMay /\ [Next]_vars => WritersMay'
  <2> SUFFICES ASSUME TypeOK, WritersMay, [Next]_vars PROVE WritersMay'
    OBVIOUS
  <2>0. request \in [Requests -> Request \cup {Idle}]
    BY DEF TypeOK
  <2>1. ASSUME NEW r \in Requests, FindRequest(r)
        PROVE  WritersMay'
    <3>1. CASE Become(r, Idle)
      BY <2>0, <3>1, OthersKeepWriters DEF Become, Idle
    <3>2. CASE \E p : /\ MayUpdate(request[r].user, p, request[r].status)
                      /\ Become(r, [request[r] EXCEPT !.pc = "write", !.pair = p])
      <4>1. PICK p : /\ MayUpdate(request[r].user, p, request[r].status)
                     /\ Become(r, [request[r] EXCEPT !.pc = "write", !.pair = p])
        BY <3>2
      <4>1a. At(r, "find")
        BY <2>1 DEF FindRequest
      <4>2. request[r] \in Request
        BY <2>0, <4>1a DEF At, Idle
      <4> DEFINE q == [request[r] EXCEPT !.pc = "write", !.pair = p]
      <4>3. q.user = request[r].user /\ q.pair = p /\ q.status = request[r].status
        BY <4>2 DEF Request
      <4> QED
        BY <2>0, <4>1, <4>3, OthersKeepWriters DEF Become
    <3> QED
      BY <2>1, <3>1, <3>2 DEF FindRequest
  <2>2. ASSUME NEW r \in Requests, Work(r), ~FindRequest(r)
        PROVE  WritersMay'
    <3>1. PICK q : request' = [request EXCEPT ![r] = q]
      BY <2>2, WorkChangesOne
    <3>2. q.pc # "write"
      BY <2>0, <2>2, <3>1, WorkGoesOn
    <3> QED
      BY <2>0, <3>1, <3>2, OthersKeepWriters
  <2>3. ASSUME NEW r \in Requests, NEW o, NEW u, NEW v, NEW status, Arrive(r, o, u, v, status)
        PROVE  WritersMay'
    <3>1. First[o] # "write"
      BY <2>3, FriendshipAssumption DEF Arrive, First
    <3> QED
      BY <2>0, <2>3, <3>1, OthersKeepWriters DEF Arrive, Become
  <2>4. ASSUME NEW r \in Requests, AwaitFails(r)
        PROVE  WritersMay'
    BY <2>0, <2>4, OthersKeepWriters DEF AwaitFails, Idle
  <2>5. CASE UNCHANGED vars
    BY <2>5 DEF vars, WritersMay, At
  <2> QED
    BY <2>1, <2>2, <2>3, <2>4, <2>5 DEF Next
<1>3. TypeOK /\ WritersMay /\ [Next]_vars =>
        [\A p \in Pairs : friend[p] # "ACCEPTED" /\ friend'[p] = "ACCEPTED" =>
           \E r \in Requests :
             /\ At(r, "write") /\ ~InFlight(r)'
             /\ request[r].user = p[2] /\ request[r].status = "ACCEPTED"]_vars
  <2> SUFFICES ASSUME TypeOK, WritersMay, [Next]_vars, NEW p \in Pairs,
                      friend[p] # "ACCEPTED", friend'[p] = "ACCEPTED"
               PROVE  \E r \in Requests :
                        /\ At(r, "write") /\ ~InFlight(r)'
                        /\ request[r].user = p[2] /\ request[r].status = "ACCEPTED"
    OBVIOUS
  <2>1. PICK r \in Requests : Work(r) /\ friend' # friend
    BY DEF Next, Arrive, Become, AwaitFails, vars
  <2>2. WriteStatus(r)
    <3>1. ~InsertRequest(r) /\ ~DeleteCancelled(r) /\ ~DeleteFriend(r)
      BY <2>1 DEF InsertRequest, DeleteCancelled, DeleteFriend, Become, TypeOK
    <3>2. ~BlockUser(r)
      BY <2>1 DEF BlockUser, Become
    <3> QED
      BY <2>1, <3>1, <3>2 DEF Work, CheckNoRequest, FindRequest, FindFriend, CheckNotBlocked,
         CheckBlocked, UnblockUser, Check, Become
  <2>3. /\ At(r, "write")
        /\ friend' = [friend EXCEPT ![request[r].pair] = request[r].status]
        /\ request' = [request EXCEPT ![r] =
             IF request[r].status = "CANCELED" THEN [request[r] EXCEPT !.pc = "delete"] ELSE Idle]
    BY <2>1, <2>2 DEF WriteStatus, Become
  <2>4. request[r].pair = p /\ request[r].status = "ACCEPTED"
    BY <2>3 DEF TypeOK
  <2>5. request[r].user = p[2]
    BY <2>3, <2>4, IdleIsNowhere DEF WritersMay, MayUpdate, TypeOK
  <2>6. request'[r] = Idle
    BY <2>3, <2>4 DEF TypeOK
  <2> QED
    BY <2>3, <2>4, <2>5, <2>6 DEF InFlight
<1> QED
  BY <1>1, <1>2, <1>3, TypeCorrect, PTL DEF Spec, OnlyReceiverAccepts

-----------------------------------------------------------------------------
(* Notifications: the sockets.                                             *)

SocketRow ==
  [user : Recipients \cup {NoUser}, step : {"auth", "count", "done"}, up : BOOLEAN]

\* Beside the agreement itself: nothing is known of a socket nobody has opened.
SocketInv ==
  /\ socket \in [Sockets -> SocketRow]
  /\ \A s \in Sockets : socket[s].user = NoUser => socket[s].step = "auth" /\ ~socket[s].up
  /\ connected \in [Recipients -> SUBSET Sockets]
  /\ NoUser \notin Recipients
  /\ Notify!TrackedAreOpen

\* Sockets: each step moves one socket, and the rooms with it.
LEMMA ConnectKeeps ==
  ASSUME SocketInv, NEW s \in Sockets, NEW u \in Recipients, Notify!Connect(s, u)
  PROVE  SocketInv' /\ ghosts' = ghosts
<1>1. /\ socket[s].user = NoUser /\ socket[s].step = "auth" /\ ~socket[s].up
      /\ socket' = [socket EXCEPT ![s] = [user |-> u, step |-> "auth", up |-> TRUE]]
      /\ UNCHANGED connected /\ UNCHANGED ghosts
  BY DEF Notify!Connect, SocketInv
<1>2. /\ socket' \in [Sockets -> SocketRow]
      /\ \A x \in Sockets : socket'[x].user = NoUser => socket'[x].step = "auth" /\ ~socket'[x].up
  BY <1>1 DEF SocketInv, SocketRow
<1>3. \A v \in Recipients : Notify!Room(v)' = Notify!Room(v)
  BY <1>1 DEF Notify!Room, SocketInv
<1> QED
  BY <1>1, <1>2, <1>3 DEF SocketInv, Notify!TrackedAreOpen

LEMMA TrackKeeps ==
  ASSUME SocketInv, NEW s \in Sockets, Notify!Track(s)
  PROVE  SocketInv' /\ ghosts \subseteq ghosts'
<1> DEFINE u == socket[s].user
<1>1. /\ u \in Recipients /\ socket[s].step = "auth"
      /\ socket' = [socket EXCEPT ![s].step = "count"]
      /\ connected' = [connected EXCEPT ![u] = @ \cup {s}]
      /\ ghosts' = IF socket[s].up THEN ghosts ELSE ghosts \cup {u}
  BY DEF Notify!Track, SocketInv, SocketRow
<1>2. /\ socket' \in [Sockets -> SocketRow]
      /\ \A x \in Sockets : socket'[x].user = NoUser => socket'[x].step = "auth" /\ ~socket'[x].up
      /\ connected' \in [Recipients -> SUBSET Sockets]
  BY <1>1 DEF SocketInv, SocketRow
<1>3. \A v \in Recipients : Notify!Room(v)' =
        IF v = u /\ socket[s].up THEN Notify!Room(v) \cup {s} ELSE Notify!Room(v)
  BY <1>1 DEF Notify!Room, SocketInv
<1>4. \A v \in Recipients : connected'[v] = IF v = u THEN connected[v] \cup {s} ELSE connected[v]
  BY <1>1 DEF SocketInv, SocketRow
<1>5. Notify!TrackedAreOpen'
  BY <1>1, <1>3, <1>4 DEF SocketInv, Notify!TrackedAreOpen
<1> QED
  BY <1>1, <1>2, <1>5 DEF SocketInv, SocketRow

\* Whoever goes leaves the room and, if tracked, the map.
LEMMA GoneKeeps ==
  ASSUME SocketInv, NEW s \in Sockets, socket[s].user # NoUser,
         NEW step \in {"auth", "count", "done"},
         socket' = [socket EXCEPT ![s].step = step, ![s].up = FALSE],
         connected' = IF socket[s].up /\ socket[s].step # "auth"
                      THEN [connected EXCEPT ![socket[s].user] = @ \ {s}] ELSE connected,
         ghosts' = ghosts
  PROVE  SocketInv'
<1> DEFINE u == socket[s].user
<1>1. u \in Recipients
  BY DEF SocketInv, SocketRow
<1>2. /\ socket' \in [Sockets -> SocketRow]
      /\ \A x \in Sockets : socket'[x].user = NoUser => socket'[x].step = "auth" /\ ~socket'[x].up
      /\ connected' \in [Recipients -> SUBSET Sockets]
  BY <1>1 DEF SocketInv, SocketRow
<1>3. \A v \in Recipients : Notify!Room(v)' = Notify!Room(v) \ {s}
  BY <1>1 DEF Notify!Room, SocketInv
<1>4. \A v \in Recipients : Notify!Room(v) \ {s} # Notify!Room(v)
        => v = u /\ socket[s].up /\ socket[s].step # "auth"
  BY DEF Notify!Room
<1>5. \A v \in Recipients : connected'[v] =
        IF v = u /\ socket[s].up /\ socket[s].step # "auth"
        THEN connected[v] \ {s} ELSE connected[v]
  BY <1>1 DEF SocketInv, SocketRow
<1>6. Notify!TrackedAreOpen'
  <2> SUFFICES ASSUME NEW v \in Recipients
               PROVE  /\ Notify!Room(v)' \subseteq connected'[v]
                      /\ v \notin ghosts' => connected'[v] = Notify!Room(v)'
    BY DEF Notify!TrackedAreOpen
  <2>1. /\ Notify!Room(v) \subseteq connected[v]
        /\ v \notin ghosts => connected[v] = Notify!Room(v)
    BY DEF SocketInv, Notify!TrackedAreOpen
  <2>2. CASE v = u /\ socket[s].up /\ socket[s].step # "auth"
    BY <1>3, <1>5, <2>1, <2>2
  <2>3. CASE ~(v = u /\ socket[s].up /\ socket[s].step # "auth")
    BY <1>3, <1>4, <1>5, <2>1, <2>3
  <2> QED
    BY <2>2, <2>3
<1> QED
  BY <1>2, <1>6 DEF SocketInv, SocketRow

LEMMA SocketsKeep ==
  ASSUME SocketInv, NEW s \in Sockets,
         \/ \E u \in Recipients : Notify!Connect(s, u)
         \/ Notify!Track(s) \/ Notify!RefuseSocket(s) \/ Notify!SendUnreadCount(s)
         \/ Notify!Close(s) \/ Notify!CountFails(s)
  PROVE  /\ SocketInv' /\ ghosts \subseteq ghosts'
         /\ UNCHANGED device /\ UNCHANGED event /\ UNCHANGED result
<1>1. (UNCHANGED device /\ UNCHANGED event /\ UNCHANGED result)
  BY DEF Notify!Connect, Notify!Track, Notify!RefuseSocket, Notify!SendUnreadCount,
    Notify!Close, Notify!CountFails, Notify!delivery
<1>2. CASE \E u \in Recipients : Notify!Connect(s, u)
  BY <1>1, <1>2, ConnectKeeps
<1>3. CASE Notify!Track(s)
  BY <1>1, <1>3, TrackKeeps
<1>4. CASE Notify!RefuseSocket(s)
  <2>1. connected' = IF socket[s].up /\ socket[s].step # "auth"
                     THEN [connected EXCEPT ![socket[s].user] = @ \ {s}] ELSE connected
    BY <1>4 DEF Notify!RefuseSocket
  <2> QED
    BY <1>1, <1>4, <2>1, GoneKeeps DEF Notify!RefuseSocket
<1>5. CASE Notify!SendUnreadCount(s)
  <2>1. socket[s].step = "count" /\ socket' = [socket EXCEPT ![s].step = "done"]
        /\ UNCHANGED connected /\ UNCHANGED ghosts
    BY <1>5 DEF Notify!SendUnreadCount
  <2>2. /\ socket' \in [Sockets -> SocketRow]
        /\ \A x \in Sockets : socket'[x].user = NoUser => socket'[x].step = "auth" /\ ~socket'[x].up
    BY <2>1 DEF SocketInv, SocketRow
  <2>3. \A v \in Recipients : Notify!Room(v)' = Notify!Room(v)
    BY <2>1 DEF Notify!Room, SocketInv
  <2> QED
    BY <1>1, <2>1, <2>2, <2>3 DEF SocketInv, Notify!TrackedAreOpen
<1>6. CASE Notify!Close(s)
  <2>1. socket[s].up /\ socket[s].user # NoUser
    BY <1>6 DEF Notify!Close, SocketInv, SocketRow
  <2>2. socket' = [socket EXCEPT ![s].step = socket[s].step, ![s].up = FALSE]
    BY <1>6 DEF Notify!Close, SocketInv, SocketRow
  <2>3. connected' = IF socket[s].up /\ socket[s].step # "auth"
                     THEN [connected EXCEPT ![socket[s].user] = @ \ {s}] ELSE connected
    BY <1>6 DEF Notify!Close
  <2>4. ghosts' = ghosts /\ socket[s].step \in {"auth", "count", "done"}
    BY <1>6 DEF Notify!Close, SocketInv, SocketRow
  <2> QED
    BY <1>1, <2>1, <2>2, <2>3, <2>4, GoneKeeps
<1>7. CASE Notify!CountFails(s)
  <2>1. socket[s].step = "count" /\ socket[s].user # NoUser /\ ghosts' = ghosts
    BY <1>7 DEF Notify!CountFails, SocketInv
  <2>2. connected' = IF socket[s].up /\ socket[s].step # "auth"
                     THEN [connected EXCEPT ![socket[s].user] = @ \ {s}] ELSE connected
    BY <1>7, <2>1 DEF Notify!CountFails
  <2> QED
    BY <1>1, <1>7, <2>1, <2>2, GoneKeeps DEF Notify!CountFails
<1> QED
  BY <1>2, <1>3, <1>4, <1>5, <1>6, <1>7

-----------------------------------------------------------------------------
(* Notifications: the listeners.                                           *)

\* What a listener has done so far: whoever is not reached yet is still to come, the
\* steady devices of the user at hand are his while nobody has read his tokens,
\* and among those read from then on.
Fits(q, res, dev) ==
  /\ q.left \subseteq q.recipients
  /\ q.user = NoUser <=> q.pc \in {"receivers", "next", "over"}
  /\ \A u \in q.recipients : res[u] # "none" \/ (q.pc # "over" /\ u \in q.left \cup {q.user})
  /\ q.pc \in {"tokens", "send", "mark"} => res[q.user] # "none"
  /\ q.pc = "tokens" => \A t \in q.steady : dev[t].user = q.user /\ dev[t].isActive
  /\ q.pc \in {"send", "mark"} => q.steady \subseteq q.tokens

EventInv ==
  /\ device \in [Tokens -> [user : Recipients \cup {NoUser}, isActive : BOOLEAN]]
  /\ event \in [Events -> Notify!Event \cup {Notify!Idle}]
  /\ result \in [Events -> [Recipients -> Notify!Results]]
  /\ \A e \in Events : event[e] # Notify!Idle => Fits(event[e], result[e], device)
  /\ Notify!EmittedIsReceived

LEMMA IdleIsNoEvent == Notify!Idle \notin Notify!Event
BY DEF Notify!Idle, Notify!Event, Notify!Steps

\* One listener moves on, with one result or none.
LEMMA EventMoves ==
  ASSUME EventInv, NEW e \in Events, NEW q \in Notify!Event,
         NEW row \in [Recipients -> Notify!Results],
         event' = [event EXCEPT ![e] = q], result' = [result EXCEPT ![e] = row],
         UNCHANGED device, UNCHANGED ghosts,
         Fits(q, row, device),
         \A u \in Recipients : row[u] = "nobody" => result[e][u] = "nobody" \/ u \in ghosts
  PROVE  EventInv'
<1>1. \A f \in Events : /\ event'[f] = IF f = e THEN q ELSE event[f]
                        /\ result'[f] = IF f = e THEN row ELSE result[f]
  BY DEF EventInv
<1>2. \A f \in Events : event'[f] # Notify!Idle => Fits(event'[f], result'[f], device)
  BY <1>1 DEF EventInv
<1>3. Notify!EmittedIsReceived'
  BY <1>1 DEF EventInv, Notify!EmittedIsReceived
<1>4. /\ event' \in [Events -> Notify!Event \cup {Notify!Idle}]
      /\ result' \in [Events -> [Recipients -> Notify!Results]]
  BY DEF EventInv
<1>5. \A f \in Events : (event[f] # Notify!Idle)' => Fits(event[f], result[f], device)'
  BY <1>2 DEF Fits
<1> QED
  BY <1>3, <1>4, <1>5 DEF EventInv

\* The results stay as they are.
LEMMA EventMovesOnly ==
  ASSUME EventInv, NEW e \in Events, NEW q \in Notify!Event,
         event' = [event EXCEPT ![e] = q], UNCHANGED result,
         UNCHANGED device, UNCHANGED ghosts, Fits(q, result[e], device)
  PROVE  EventInv'
<1>1. result[e] \in [Recipients -> Notify!Results] /\ result' = [result EXCEPT ![e] = result[e]]
  BY DEF EventInv
<1> QED
  BY <1>1, EventMoves

\* The listener is through with the user at hand, who has a result.
LEMMA DoneFits ==
  ASSUME NEW q \in Notify!Event, NEW row \in [Recipients -> Notify!Results],
         NEW res \in [Recipients -> Notify!Results],
         Fits(q, res, device), q.user # NoUser, NoUser \notin Recipients,
         row[q.user] # "none", \A u \in Recipients : res[u] # "none" => row[u] # "none"
  PROVE  LET new == [q EXCEPT !.pc = "next", !.user = NoUser, !.tokens = {}, !.steady = {}]
         IN  new \in Notify!Event /\ Fits(new, row, device)
<1> DEFINE new == [q EXCEPT !.pc = "next", !.user = NoUser, !.tokens = {}, !.steady = {}]
<1>1. /\ new.left = q.left /\ new.recipients = q.recipients /\ new.user = NoUser
      /\ new.pc = "next"
      /\ q.recipients \subseteq Recipients
  BY DEF Notify!Event
<1>2. new \in Notify!Event
  BY DEF Notify!Event, Notify!Steps
<1>3. q.pc # "over" /\ \A u \in q.recipients : res[u] # "none" \/ u \in q.left \cup {q.user}
  BY DEF Fits
<1>4. \A u \in q.recipients : row[u] # "none" \/ u \in q.left
  BY <1>1, <1>3
<1>5. q.left \subseteq q.recipients
  BY DEF Fits
<1> HIDE DEF new
<1>6. Fits(new, row, device)
  BY <1>1, <1>4, <1>5 DEF Fits
<1> QED
  BY <1>2, <1>6 DEF new

\* The steps of one listener.
LEMMA ListenerKeeps ==
  ASSUME SocketInv, EventInv, NEW e \in Events,
         \/ \E k \in Notify!Kinds, S \in SUBSET Recipients : Notify!EventArrives(e, k, S)
         \/ Notify!ReadReceivers(e) \/ Notify!NextRecipient(e) \/ Notify!CountUnread(e)
         \/ Notify!CreateNotification(e) \/ Notify!FindTokens(e) \/ Notify!SendToTokens(e)
         \/ Notify!MarkSent(e) \/ Notify!AwaitFails(e)
  PROVE  EventInv'
<1> DEFINE q == event[e]
<1>t. /\ NoUser \notin Recipients
      /\ event \in [Events -> Notify!Event \cup {Notify!Idle}]
      /\ result \in [Events -> [Recipients -> Notify!Results]]
      /\ result[e] \in [Recipients -> Notify!Results]
      /\ q \in Notify!Event \cup {Notify!Idle}
      /\ Notify!Idle.pc = "idle"
  BY DEF SocketInv, EventInv, Notify!Idle
<1>f. ASSUME q # Notify!Idle
      PROVE  /\ q \in Notify!Event /\ Fits(q, result[e], device)
             /\ q.recipients \subseteq Recipients /\ q.left \subseteq q.recipients
             /\ q.user \in Recipients \cup {NoUser}
             /\ q.pc \notin {"receivers", "next", "over"} => q.user \in Recipients
  BY <1>t, <1>f DEF EventInv, Fits, Notify!Event
<1>1. CASE \E k \in Notify!Kinds, S \in SUBSET Recipients : Notify!EventArrives(e, k, S)
  <2>1. PICK k \in Notify!Kinds, S \in SUBSET Recipients : Notify!EventArrives(e, k, S)
    BY <1>1
  <2> DEFINE new == [kind |-> k,
                     pc |-> IF k \in {"message", "members"} THEN "receivers" ELSE "next",
                     recipients |-> S, left |-> S, user |-> NoUser, tokens |-> {}, steady |-> {}]
             row == [u \in Recipients |-> "none"]
  <2>2. /\ event' = [event EXCEPT ![e] = new] /\ result' = [result EXCEPT ![e] = row]
        /\ UNCHANGED device /\ UNCHANGED ghosts
    BY <2>1 DEF Notify!EventArrives, Notify!Become, Notify!sockets
  <2>3. new \in Notify!Event
    BY DEF Notify!Event, Notify!Steps
  <2>4. row \in [Recipients -> Notify!Results] /\ \A u \in Recipients : row[u] # "nobody"
    BY DEF Notify!Results
  <2>5. Fits(new, row, device)
    BY DEF Fits
  <2> HIDE DEF new, row
  <2> QED
    BY <2>2, <2>3, <2>4, <2>5, EventMoves
<1>2. CASE Notify!ReadReceivers(e)
  <2> DEFINE new == [q EXCEPT !.pc = "next"]
  <2>1. q.pc = "receivers" /\ q # Notify!Idle
    BY <1>2, <1>t DEF Notify!ReadReceivers, Notify!At
  <2>2. /\ event' = [event EXCEPT ![e] = new] /\ UNCHANGED result
        /\ UNCHANGED device /\ UNCHANGED ghosts
    BY <1>2, <1>t DEF Notify!ReadReceivers, Notify!Goto, Notify!sockets
  <2>3. new \in Notify!Event /\ Fits(new, result[e], device)
    BY <1>f, <2>1 DEF Fits, Notify!Event, Notify!Steps
  <2> HIDE DEF new
  <2> QED
    BY <2>2, <2>3, EventMovesOnly
<1>3. CASE Notify!NextRecipient(e)
  <2>1. q.pc = "next" /\ q # Notify!Idle /\ UNCHANGED result /\ UNCHANGED device /\ UNCHANGED ghosts
    BY <1>3, <1>t DEF Notify!NextRecipient, Notify!At, Notify!sockets
  <2>2. CASE q.left = {} /\ Notify!Goto(e, "over")
    <3> DEFINE new == [q EXCEPT !.pc = "over"]
    <3>1. event' = [event EXCEPT ![e] = new]
      BY <2>2, <1>t DEF Notify!Goto
    <3>2. new \in Notify!Event /\ Fits(new, result[e], device)
      BY <1>f, <1>t, <2>1, <2>2 DEF Fits, Notify!Event, Notify!Steps
    <3> HIDE DEF new
    <3> QED
      BY <2>1, <3>1, <3>2, EventMovesOnly
  <2>3. ASSUME NEW u \in q.left,
               Notify!Become(e, [q EXCEPT !.user = u, !.left = @ \ {u},
                                          !.pc = IF q.kind = "message" THEN "count" ELSE "row"])
        PROVE  EventInv'
    <3> DEFINE new == [q EXCEPT !.user = u, !.left = @ \ {u},
                                !.pc = IF q.kind = "message" THEN "count" ELSE "row"]
    <3>1. event' = [event EXCEPT ![e] = new]
      BY <2>3 DEF Notify!Become
    <3>2. u \in Recipients /\ u # NoUser
      BY <1>f, <1>t, <2>1, <2>3
    <3>3. /\ new.left = q.left \ {u} /\ new.recipients = q.recipients /\ new.user = u
          /\ new.pc \in {"count", "row"}
      BY <1>f, <2>1 DEF Notify!Event
    <3>4. new \in Notify!Event
      BY <1>f, <2>1, <3>2 DEF Notify!Event, Notify!Steps
    <3> HIDE DEF new
    <3>5. Fits(new, result[e], device)
      BY <1>f, <1>t, <2>1, <2>3, <3>2, <3>3 DEF Fits
    <3> QED
      BY <2>1, <3>1, <3>4, <3>5, EventMovesOnly
  <2> QED
    BY <1>3, <2>2, <2>3 DEF Notify!NextRecipient
<1>4. CASE Notify!CountUnread(e)
  <2> DEFINE new == [q EXCEPT !.pc = "row"]
  <2>1. q.pc = "count" /\ q # Notify!Idle
    BY <1>4, <1>t DEF Notify!CountUnread, Notify!At
  <2>2. /\ event' = [event EXCEPT ![e] = new] /\ UNCHANGED result
        /\ UNCHANGED device /\ UNCHANGED ghosts
    BY <1>4, <1>t DEF Notify!CountUnread, Notify!Goto, Notify!sockets
  <2>3. new \in Notify!Event /\ Fits(new, result[e], device)
    BY <1>f, <2>1 DEF Fits, Notify!Event, Notify!Steps
  <2> HIDE DEF new
  <2> QED
    BY <2>2, <2>3, EventMovesOnly
<1>d. ASSUME NEW x \in Notify!Results \ {"none"}, q # Notify!Idle, q.user \in Recipients,
             Notify!Done(e), Notify!Note(e, x), UNCHANGED device, UNCHANGED ghosts,
             x = "nobody" => q.user \in ghosts
      PROVE  EventInv'
  <2> DEFINE new == [q EXCEPT !.pc = "next", !.user = NoUser, !.tokens = {}, !.steady = {}]
             row == [result[e] EXCEPT ![q.user] = x]
  <2>1. event' = [event EXCEPT ![e] = new] /\ result' = [result EXCEPT ![e] = row]
    BY <1>t, <1>d DEF Notify!Done, Notify!Become, Notify!Note
  <2>2. /\ row \in [Recipients -> Notify!Results] /\ row[q.user] # "none"
        /\ \A u \in Recipients : row[u] = IF u = q.user THEN x ELSE result[e][u]
    BY <1>t, <1>d
  <2>3. \A u \in Recipients : result[e][u] # "none" => row[u] # "none"
    BY <1>d, <2>2
  <2>4. \A u \in Recipients : row[u] = "nobody" => result[e][u] = "nobody" \/ u \in ghosts
    BY <1>d, <2>2
  <2> HIDE DEF row
  <2>5. new \in Notify!Event /\ Fits(new, row, device)
    BY <1>d, <1>f, <1>t, <2>2, <2>3, DoneFits
  <2> HIDE DEF new
  <2> QED
    BY <1>d, <2>1, <2>2, <2>4, <2>5, EventMoves
<1>5. CASE Notify!CreateNotification(e)
  <2>1. q.pc = "row" /\ q # Notify!Idle /\ UNCHANGED device /\ UNCHANGED ghosts
    BY <1>5, <1>t DEF Notify!CreateNotification, Notify!At, Notify!sockets
  <2>2. q.user \in Recipients
    BY <1>f, <2>1
  <2>3. CASE connected[q.user] # {}
    <3> DEFINE x == IF Notify!Room(q.user) # {} THEN "socket" ELSE "nobody"
    <3>1. Notify!Note(e, x) /\ Notify!Done(e)
      BY <1>5, <2>3 DEF Notify!CreateNotification
    <3>2. x \in Notify!Results \ {"none"}
      BY DEF Notify!Results
    <3>3. x = "nobody" => q.user \in ghosts
      BY <2>2, <2>3 DEF SocketInv, Notify!TrackedAreOpen
    <3> HIDE DEF x
    <3> QED
      BY <1>d, <2>1, <2>2, <3>1, <3>2, <3>3
  <2>4. CASE connected[q.user] = {} /\ q.kind = "givenSilent"
    <3>1. Notify!Note(e, "row") /\ Notify!Done(e)
      BY <1>5, <2>4 DEF Notify!CreateNotification
    <3>2. "row" \in Notify!Results \ {"none"}
      BY DEF Notify!Results
    <3> QED
      BY <1>d, <2>1, <2>2, <3>1, <3>2
  <2>5. CASE connected[q.user] = {} /\ q.kind # "givenSilent"
    <3> DEFINE new == [q EXCEPT !.pc = "tokens", !.steady = Notify!TokensOf(q.user)]
               row == [result[e] EXCEPT ![q.user] = "row"]
    <3>1. event' = [event EXCEPT ![e] = new] /\ result' = [result EXCEPT ![e] = row]
      BY <1>5, <1>t, <2>5 DEF Notify!CreateNotification, Notify!Note, Notify!Become
    <3>2. /\ row \in [Recipients -> Notify!Results]
          /\ \A u \in Recipients : row[u] = IF u = q.user THEN "row" ELSE result[e][u]
      BY <1>t, <2>2 DEF Notify!Results
    <3>3. /\ new.left = q.left /\ new.recipients = q.recipients /\ new.user = q.user
          /\ new.pc = "tokens" /\ new.steady = Notify!TokensOf(q.user)
      BY <1>f, <2>1 DEF Notify!Event
    <3>4. new \in Notify!Event
      BY <1>f, <2>1 DEF Notify!Event, Notify!Steps, Notify!TokensOf
    <3> HIDE DEF new, row
    <3>5. \A t \in new.steady : device[t].user = q.user /\ device[t].isActive
      BY <3>3 DEF Notify!TokensOf
    <3>6. \A u \in q.recipients : row[u] # "none" \/ u \in q.left \cup {q.user}
      BY <1>f, <2>1, <3>2 DEF Fits
    <3>7. Fits(new, row, device)
      BY <1>f, <1>t, <2>1, <2>2, <3>2, <3>3, <3>5, <3>6 DEF Fits
    <3>8. \A u \in Recipients : row[u] = "nobody" => result[e][u] = "nobody"
      BY <3>2
    <3> QED
      BY <2>1, <3>1, <3>2, <3>4, <3>7, <3>8, EventMoves
  <2> QED
    BY <2>3, <2>4, <2>5
<1>6. CASE Notify!FindTokens(e)
  <2>1. /\ q.pc = "tokens" /\ q # Notify!Idle
        /\ UNCHANGED result /\ UNCHANGED device /\ UNCHANGED ghosts
    BY <1>6, <1>t DEF Notify!FindTokens, Notify!At, Notify!sockets
  <2>2. q.user \in Recipients /\ result[e][q.user] # "none"
    BY <1>f, <2>1 DEF Fits
  <2>3. CASE Notify!TokensOf(q.user) = {}
    <3> DEFINE new == [q EXCEPT !.pc = "next", !.user = NoUser, !.tokens = {}, !.steady = {}]
    <3>1. event' = [event EXCEPT ![e] = new]
      BY <1>6, <2>3 DEF Notify!FindTokens, Notify!Done, Notify!Become
    <3>2. new \in Notify!Event /\ Fits(new, result[e], device)
      BY <1>f, <1>t, <2>1, <2>2, DoneFits
    <3> HIDE DEF new
    <3> QED
      BY <2>1, <3>1, <3>2, EventMovesOnly
  <2>4. CASE Notify!TokensOf(q.user) # {}
    <3> DEFINE new == [q EXCEPT !.pc = "send", !.tokens = Notify!TokensOf(q.user)]
    <3>1. event' = [event EXCEPT ![e] = new]
      BY <1>6, <2>4 DEF Notify!FindTokens, Notify!Become
    <3>2. /\ new.left = q.left /\ new.recipients = q.recipients /\ new.user = q.user
          /\ new.pc = "send" /\ new.steady = q.steady /\ new.tokens = Notify!TokensOf(q.user)
          /\ q.steady \subseteq Tokens
      BY <1>f, <2>1 DEF Notify!Event
    <3>3. new \in Notify!Event
      BY <1>f, <2>1 DEF Notify!Event, Notify!Steps, Notify!TokensOf
    <3> HIDE DEF new
    <3>4. q.steady \subseteq Notify!TokensOf(q.user)
      BY <1>f, <2>1, <3>2 DEF Fits, Notify!TokensOf
    <3>5. Fits(new, result[e], device)
      BY <1>f, <1>t, <2>1, <2>2, <3>2, <3>4 DEF Fits
    <3> QED
      BY <2>1, <3>1, <3>3, <3>5, EventMovesOnly
  <2> QED
    BY <2>3, <2>4
<1>7. CASE Notify!SendToTokens(e)
  <2> DEFINE x == IF result[e][q.user] = "gone" THEN "gone" ELSE "push"
             new == [q EXCEPT !.pc = "mark"]
             row == [result[e] EXCEPT ![q.user] = x]
  <2>1. q.pc = "send" /\ q # Notify!Idle /\ UNCHANGED device /\ UNCHANGED ghosts
    BY <1>7, <1>t DEF Notify!SendToTokens, Notify!At, Notify!sockets
  <2>2. q.user \in Recipients
    BY <1>f, <2>1
  <2>3. event' = [event EXCEPT ![e] = new] /\ result' = [result EXCEPT ![e] = row]
    BY <1>7, <1>t DEF Notify!SendToTokens, Notify!Goto, Notify!Note
  <2>4. /\ row \in [Recipients -> Notify!Results]
        /\ \A u \in Recipients : row[u] = IF u = q.user THEN x ELSE result[e][u]
        /\ x \notin {"none", "nobody"}
    BY <1>t, <2>2 DEF Notify!Results
  <2>5. /\ new.left = q.left /\ new.recipients = q.recipients /\ new.user = q.user
        /\ new.pc = "mark" /\ new.steady = q.steady /\ new.tokens = q.tokens
    BY <1>f, <2>1 DEF Notify!Event
  <2>6. new \in Notify!Event
    BY <1>f, <2>1 DEF Notify!Event, Notify!Steps
  <2> HIDE DEF x, new, row
  <2>7. Fits(new, row, device)
    BY <1>f, <1>t, <2>1, <2>2, <2>4, <2>5 DEF Fits
  <2>8. /\ row \in [Recipients -> Notify!Results]
        /\ \A u \in Recipients : row[u] = "nobody" => result[e][u] = "nobody" \/ u \in ghosts
    BY <2>4
  <2> QED
    BY <2>1, <2>3, <2>6, <2>7, <2>8, EventMoves
<1>8. CASE Notify!MarkSent(e)
  <2> DEFINE x == IF result[e][q.user] = "gone" THEN "gone" ELSE "recorded"
  <2>1. q.pc = "mark" /\ q # Notify!Idle /\ UNCHANGED device /\ UNCHANGED ghosts
    BY <1>8, <1>t DEF Notify!MarkSent, Notify!At, Notify!sockets
  <2>2. Notify!Note(e, x) /\ Notify!Done(e)
    BY <1>8 DEF Notify!MarkSent
  <2>3. x \in Notify!Results \ {"none"} /\ x # "nobody"
    BY DEF Notify!Results
  <2>4. q.user \in Recipients
    BY <1>f, <2>1
  <2> HIDE DEF x
  <2> QED
    BY <1>d, <2>1, <2>2, <2>3, <2>4
<1>9. CASE Notify!AwaitFails(e)
  <2>1. q # Notify!Idle /\ q.pc \notin {"next", "over"} /\ UNCHANGED device /\ UNCHANGED ghosts
    BY <1>9 DEF Notify!AwaitFails, Notify!sockets
  <2>2. CASE q.pc \in {"receivers", "count"}
    <3> DEFINE new == [q EXCEPT !.pc = "over", !.user = NoUser, !.left = {}]
               row == [u \in Recipients |->
                         IF u \in q.left \cup {q.user} THEN "cut" ELSE result[e][u]]
    <3>1. event' = [event EXCEPT ![e] = new] /\ result' = [result EXCEPT ![e] = row]
      BY <1>9, <2>2 DEF Notify!AwaitFails, Notify!Become
    <3>2. row \in [Recipients -> Notify!Results]
      BY <1>t DEF Notify!Results
    <3>3. \A u \in Recipients : row[u] = IF u \in q.left \cup {q.user} THEN "cut" ELSE result[e][u]
      OBVIOUS
    <3>4. /\ new.left = {} /\ new.recipients = q.recipients /\ new.user = NoUser
          /\ new.pc = "over"
      BY <1>f, <2>1 DEF Notify!Event
    <3>5. new \in Notify!Event
      BY <1>f, <2>1 DEF Notify!Event, Notify!Steps
    <3> HIDE DEF new, row
    <3>6. \A u \in q.recipients : row[u] # "none"
      BY <1>f, <2>1, <3>3 DEF Fits
    <3>7. Fits(new, row, device)
      BY <3>4, <3>6 DEF Fits
    <3>8. \A u \in Recipients : row[u] = "nobody" => result[e][u] = "nobody"
      BY <3>3
    <3> QED
      BY <2>1, <3>1, <3>2, <3>5, <3>7, <3>8, EventMoves
  <2>3. CASE q.pc = "row"
    <3>1. Notify!Done(e) /\ Notify!Note(e, "lost")
      BY <1>9, <2>3 DEF Notify!AwaitFails
    <3>2. "lost" \in Notify!Results \ {"none"} /\ q.user \in Recipients
      BY <1>f, <2>1, <2>3 DEF Notify!Results
    <3> QED
      BY <1>d, <2>1, <3>1, <3>2
  <2>4. CASE q.pc \notin {"receivers", "count", "row"}
    <3> DEFINE new == [q EXCEPT !.pc = "next", !.user = NoUser, !.tokens = {}, !.steady = {}]
    <3>1. event' = [event EXCEPT ![e] = new] /\ UNCHANGED result
      BY <1>9, <2>4 DEF Notify!AwaitFails, Notify!Done, Notify!Become
    <3>2. q.pc \in {"tokens", "send", "mark"} /\ q.user \in Recipients
      BY <1>f, <2>1, <2>4 DEF Notify!Event, Notify!Steps
    <3>3. result[e][q.user] # "none"
      BY <1>f, <2>1, <3>2 DEF Fits
    <3>4. new \in Notify!Event /\ Fits(new, result[e], device)
      BY <1>f, <1>t, <2>1, <3>2, <3>3, DoneFits
    <3> HIDE DEF new
    <3> QED
      BY <2>1, <3>1, <3>4, EventMovesOnly
  <2> QED
    BY <2>2, <2>3, <2>4
<1> QED
  BY <1>1, <1>2, <1>3, <1>4, <1>5, <1>6, <1>7, <1>8, <1>9

\* A device comes or goes: it is steady for its user alone.
LEMMA DevicesKeep ==
  ASSUME SocketInv, EventInv, NEW t \in Tokens,
         Notify!UnregisterDevice(t) \/ \E u \in Recipients : Notify!RegisterDevice(u, t)
  PROVE  EventInv'
<1>1. PICK u \in Recipients \cup {NoUser} :
        /\ Notify!Unsteady(t, u) /\ UNCHANGED result /\ UNCHANGED ghosts
        /\ device' \in [Tokens -> [user : Recipients \cup {NoUser}, isActive : BOOLEAN]]
        /\ \A s \in Tokens \ {t} : device'[s] = device[s]
        /\ u # NoUser => device'[t].user = u /\ device'[t].isActive
  <2>1. CASE Notify!UnregisterDevice(t)
    BY <2>1 DEF EventInv, Notify!UnregisterDevice, Notify!sockets
  <2>2. CASE \E u \in Recipients : Notify!RegisterDevice(u, t)
    BY <2>2 DEF EventInv, Notify!RegisterDevice, Notify!sockets
  <2> QED
    BY <2>1, <2>2
<1>2. ASSUME NEW e \in Events
      PROVE  /\ event'[e] \in Notify!Event \cup {Notify!Idle}
             /\ event'[e] # Notify!Idle => Fits(event'[e], result'[e], device')
  <2> DEFINE q == event[e]
  <2>1. event'[e] = IF q # Notify!Idle /\ q.user # u THEN [q EXCEPT !.steady = @ \ {t}] ELSE q
    BY <1>1 DEF Notify!Unsteady
  <2>2. CASE q = Notify!Idle
    BY <2>1, <2>2
  <2>3. CASE q # Notify!Idle
    <3>1. q \in Notify!Event /\ Fits(q, result[e], device)
      BY <2>3 DEF EventInv
    <3> DEFINE new == event'[e]
    <3>2. /\ new \in Notify!Event
          /\ new.left = q.left /\ new.recipients = q.recipients /\ new.user = q.user
          /\ new.pc = q.pc /\ new.tokens = q.tokens /\ new.steady \subseteq q.steady
          /\ q.user # u => t \notin new.steady
          /\ q.steady \subseteq Tokens
      BY <2>1, <2>3, <3>1 DEF Notify!Event
    <3>3. new.pc = "tokens" =>
            \A s \in new.steady : device'[s].user = new.user /\ device'[s].isActive
      <4> SUFFICES ASSUME q.pc = "tokens", NEW s \in new.steady
                   PROVE  device'[s].user = q.user /\ device'[s].isActive
        BY <3>2
      <4>1. s \in Tokens /\ device[s].user = q.user /\ device[s].isActive /\ q.user # NoUser
        BY <3>1, <3>2 DEF Fits
      <4>2. CASE s = t
        BY <1>1, <3>2, <4>1, <4>2
      <4>3. CASE s # t
        BY <1>1, <4>1, <4>3
      <4> QED
        BY <4>2, <4>3
    <3>4. result'[e] = result[e]
      BY <1>1
    <3>5. /\ new.left \subseteq new.recipients
          /\ new.user = NoUser <=> new.pc \in {"receivers", "next", "over"}
          /\ \A v \in new.recipients : result[e][v] # "none"
               \/ (new.pc # "over" /\ v \in new.left \cup {new.user})
          /\ new.pc \in {"tokens", "send", "mark"} => result[e][new.user] # "none"
          /\ new.pc \in {"send", "mark"} => new.steady \subseteq new.tokens
      BY <3>1, <3>2 DEF Fits
    <3> QED
      BY <3>2, <3>3, <3>4, <3>5 DEF Fits
  <2> QED
    BY <2>2, <2>3
<1>3. event' \in [Events -> Notify!Event \cup {Notify!Idle}]
  BY <1>1, <1>2 DEF Notify!Unsteady
<1>4. \A e \in Events : (event[e] # Notify!Idle)' => Fits(event[e], result[e], device)'
  BY <1>2 DEF Fits
<1>5. Notify!EmittedIsReceived'
  BY <1>1 DEF EventInv, Notify!EmittedIsReceived
<1> QED
  BY <1>1, <1>3, <1>4, <1>5 DEF EventInv

\* The user throws his notification away.
LEMMA DeleteKeeps ==
  ASSUME EventInv, NEW e \in Events, NEW u \in Recipients, Notify!DeleteNotification(e, u)
  PROVE  EventInv'
<1>1. /\ result' = [result EXCEPT ![e][u] = "gone"]
      /\ UNCHANGED device /\ UNCHANGED event /\ UNCHANGED ghosts
  BY DEF Notify!DeleteNotification, Notify!sockets
<1>2. result' \in [Events -> [Recipients -> Notify!Results]]
  BY <1>1 DEF EventInv, Notify!Results
<1>3. \A f \in Events, v \in Recipients :
        result'[f][v] = IF f = e /\ v = u THEN "gone" ELSE result[f][v]
  BY <1>1 DEF EventInv
<1>4. ASSUME NEW f \in Events, event[f] # Notify!Idle
      PROVE  Fits(event[f], result'[f], device)
  <2>1. /\ event[f] \in Notify!Event /\ Fits(event[f], result[f], device)
        /\ event[f].recipients \subseteq Recipients
        /\ event[f].pc \in {"tokens", "send", "mark"} => event[f].user \in Recipients
    BY <1>4 DEF EventInv, Notify!Event, Fits
  <2>2. \A v \in Recipients : result[f][v] # "none" => result'[f][v] # "none"
    BY <1>3
  <2> QED
    BY <2>1, <2>2 DEF Fits
<1>5. Notify!EmittedIsReceived'
  BY <1>1, <1>3 DEF EventInv, Notify!EmittedIsReceived
<1>6. \A f \in Events : (event[f] # Notify!Idle)' => Fits(event[f], result[f], device)'
  BY <1>1, <1>4 DEF Fits
<1> QED
  BY <1>1, <1>2, <1>5, <1>6 DEF EventInv

-----------------------------------------------------------------------------
(* Notifications: the theorems.                                            *)

LEMMA AlertsInit ==
  ASSUME Notify!NotificationsAssumption, Notify!Init
  PROVE  SocketInv /\ EventInv
<1>1. \A u \in Recipients : Notify!Room(u) = {}
  BY DEF Notify!Init, Notify!Room, Notify!NotConnected
<1>2. SocketInv
  BY <1>1 DEF Notify!NotificationsAssumption, Notify!Init, Notify!NotConnected, SocketInv,
    SocketRow, Notify!TrackedAreOpen
<1>3. EventInv
  BY DEF Notify!Init, EventInv, Notify!Results, Notify!EmittedIsReceived
<1> QED
  BY <1>2, <1>3

LEMMA AlertsStep ==
  ASSUME SocketInv, EventInv, [Notify!Next]_Notify!vars
  PROVE  SocketInv' /\ EventInv'
<1>1. ASSUME NEW s \in Sockets,
             \/ \E u \in Recipients : Notify!Connect(s, u)
             \/ Notify!Track(s) \/ Notify!RefuseSocket(s) \/ Notify!SendUnreadCount(s)
             \/ Notify!Close(s) \/ Notify!CountFails(s)
      PROVE  SocketInv' /\ EventInv'
  <2>1. /\ SocketInv' /\ ghosts \subseteq ghosts'
        /\ UNCHANGED device /\ UNCHANGED event /\ UNCHANGED result
    BY <1>1, SocketsKeep
  <2>2. Notify!EmittedIsReceived'
    BY <2>1 DEF EventInv, Notify!EmittedIsReceived
  <2>3. \A e \in Events : (event[e] # Notify!Idle)' => Fits(event[e], result[e], device)'
    BY <2>1 DEF EventInv, Fits
  <2> QED
    BY <2>1, <2>2, <2>3 DEF EventInv
<1>q. ASSUME UNCHANGED <<socket, connected, ghosts>>
      PROVE  SocketInv'
  <2>1. \A u \in Recipients : Notify!Room(u)' = Notify!Room(u)
    BY <1>q DEF Notify!Room
  <2> QED
    BY <1>q, <2>1 DEF SocketInv, Notify!TrackedAreOpen
<1>2. ASSUME NEW t \in Tokens,
             Notify!UnregisterDevice(t) \/ \E u \in Recipients : Notify!RegisterDevice(u, t)
      PROVE  SocketInv' /\ EventInv'
  <2>1. UNCHANGED <<socket, connected, ghosts>>
    BY <1>2 DEF Notify!UnregisterDevice, Notify!RegisterDevice, Notify!sockets
  <2> QED
    BY <1>2, <1>q, <2>1, DevicesKeep
<1>3. ASSUME NEW e \in Events,
             \/ \E k \in Notify!Kinds, S \in SUBSET Recipients : Notify!EventArrives(e, k, S)
             \/ Notify!ReadReceivers(e) \/ Notify!NextRecipient(e) \/ Notify!CountUnread(e)
             \/ Notify!CreateNotification(e) \/ Notify!FindTokens(e) \/ Notify!SendToTokens(e)
             \/ Notify!MarkSent(e) \/ Notify!AwaitFails(e)
      PROVE  SocketInv' /\ EventInv'
  <2>1. UNCHANGED <<socket, connected, ghosts>>
    BY <1>3 DEF Notify!EventArrives, Notify!ReadReceivers, Notify!NextRecipient,
      Notify!CountUnread, Notify!CreateNotification, Notify!FindTokens, Notify!SendToTokens,
      Notify!MarkSent, Notify!AwaitFails, Notify!sockets
  <2> QED
    BY <1>3, <1>q, <2>1, ListenerKeeps
<1>4. ASSUME NEW e \in Events, NEW u \in Recipients, Notify!DeleteNotification(e, u)
      PROVE  SocketInv' /\ EventInv'
  <2>1. UNCHANGED <<socket, connected, ghosts>>
    BY <1>4 DEF Notify!DeleteNotification, Notify!sockets
  <2> QED
    BY <1>4, <1>q, <2>1, DeleteKeeps
<1>5. CASE UNCHANGED Notify!vars
  <2>1. /\ UNCHANGED <<socket, connected, ghosts>>
        /\ UNCHANGED device /\ UNCHANGED event /\ UNCHANGED result /\ UNCHANGED ghosts
    BY <1>5 DEF Notify!vars
  <2>2. \A e \in Events : (event[e] # Notify!Idle)' => Fits(event[e], result[e], device)'
    BY <2>1 DEF EventInv, Fits
  <2>3. Notify!EmittedIsReceived'
    BY <2>1 DEF EventInv, Notify!EmittedIsReceived
  <2> QED
    BY <1>q, <2>1, <2>2, <2>3 DEF EventInv
<1> QED
  BY <1>1, <1>2, <1>3, <1>4, <1>5 DEF Notify!Next

\* An open socket that was accepted is tracked, and a tracked one is open unless
\* one of its user was closed while it was being authenticated
\* (handleConnection, handleDisconnect).
THEOREM TrackedStayOpen == Notify!Spec => []TrackedAreOpen
<1> Notify!NotificationsAssumption
  BY AlertsAssumption
<1>1. Notify!Init => SocketInv /\ EventInv
  BY AlertsInit
<1>2. SocketInv /\ EventInv /\ [Notify!Next]_Notify!vars => SocketInv' /\ EventInv'
  BY AlertsStep
<1>3. SocketInv => TrackedAreOpen
  BY DEF SocketInv, TrackedAreOpen
<1> QED
  BY <1>1, <1>2, <1>3, PTL DEF Notify!Spec

\* Whatever happens to the others, a recipient of a listener that is over has a
\* row or a named failure to thank for having none; nothing is emitted to an
\* empty room but for a ghost; and a push goes to every steady device
\* (sendNotification, getUserFcmTokens).
THEOREM RecipientsReached == Notify!Spec => []EveryRecipientIsReached
<1> Notify!NotificationsAssumption
  BY AlertsAssumption
<1>1. Notify!Init => SocketInv /\ EventInv
  BY AlertsInit
<1>2. SocketInv /\ EventInv /\ [Notify!Next]_Notify!vars => SocketInv' /\ EventInv'
  BY AlertsStep
<1>3. EventInv => EveryRecipientIsReached
  <2> SUFFICES ASSUME EventInv PROVE EveryRecipientIsReached
    OBVIOUS
  <2>1. Notify!NobodyIsForgotten
    BY DEF EventInv, Fits, Notify!NobodyIsForgotten, Notify!At
  <2>2. Notify!PushReachesSteadyDevices
    BY DEF EventInv, Fits, Notify!PushReachesSteadyDevices, Notify!At, Notify!Idle
  <2> QED
    BY <2>1, <2>2 DEF EventInv, EveryRecipientIsReached, Notify!EveryRecipientIsReached
<1> QED
  BY <1>1, <1>2, <1>3, PTL DEF Notify!Spec
=============================================================================
