------------------------------ MODULE Friendship ------------------------------
(***************************************************************************)
(* Friend requests, friendships and blocks (FriendsService, and blockUser  *)
(* and unblockUser of ModerationService).                                  *)
(*                                                                         *)
(* A row of Friends belongs to an ordered pair: who asked, who was asked.  *)
(* Two users may thus have two rows, and every handler looks for a row in  *)
(* both directions, then writes the row it found, whatever has become of   *)
(* it since.  Blocking is one transaction, the rest single statements.     *)
(***************************************************************************)
EXTENDS Naturals, FiniteSets

CONSTANTS
  Users,        \* the users who ask, answer, remove and block one another
  Requests,     \* the requests the server may be working on at one time
  Ops,          \* the handlers the clients call
  MaxFailures   \* how many awaits may fail

ASSUME FriendshipAssumption ==
  /\ Ops \subseteq {"create", "update", "remove", "block", "unblock"}
  /\ MaxFailures \in Nat

VARIABLES
  friend,    \* Friends: the status by <<userUid1, userUid2>>
  blocks,    \* User_blocks: the <<blocker, blocked>> pairs
  request,   \* what each request in flight is doing
  standing,  \* history: the rows that stood in the way since a create began
  fresh,     \* history: the pairs with a row inserted since their last block
  failures   \* how many awaits have failed

vars == <<friend, blocks, request, standing, fresh, failures>>

-----------------------------------------------------------------------------
InvitationStatus == {"PENDING", "ACCEPTED", "REJECTED", "CANCELED"}

Pairs == {p \in Users \X Users : p[1] # p[2]}

\* The rows there may be between two users.
Between(u, v) == {<<u, v>>, <<v, u>>}
Having(p, statuses) == {q \in Between(p[1], p[2]) : friend[q] \in statuses}

Steps ==
  [create |-> {"check", "insert"}, update |-> {"find", "write", "delete"},
   remove |-> {"seek", "drop"}, block |-> {"lookup", "block"}, unblock |-> {"held", "lift"}]

First ==
  [create |-> "check", update |-> "find", remove |-> "seek", block |-> "lookup",
   unblock |-> "held"]

Idle == [op |-> "idle", pc |-> "idle"]

\* user is the connected user, pair first <<user, other>>, later the row found.
Request ==
  [op : Ops, pc : UNION {Steps[o] : o \in Ops}, user : Users, pair : Pairs,
   status : InvitationStatus]

InFlight(r) == request[r] # Idle
At(r, pc) == request[r].pc = pc

\* The history of each create: the rows that stand in its way, weakened by
\* every step.
InTheWay(r) ==
  IF request[r].op = "create" THEN Having(request[r].pair, {"ACCEPTED", "PENDING"}) ELSE {}

Observe ==
  standing' = [r \in Requests |->
    IF InFlight(r) THEN standing[r] \cap InTheWay(r)' ELSE InTheWay(r)']

Init ==
  /\ friend = [p \in Pairs |-> "none"]
  /\ blocks = {}
  /\ request = [r \in Requests |-> Idle]
  /\ standing = [r \in Requests |-> {}]
  /\ fresh = {}
  /\ failures = 0

-----------------------------------------------------------------------------
Become(r, q) ==
  /\ request' = [request EXCEPT ![r] = q]
  /\ UNCHANGED <<friend, blocks, fresh, failures>>
  /\ Observe

\* One check of a handler: go on to pc, or answer with an error.
Check(r, from, ok, pc) ==
  /\ At(r, from)
  /\ Become(r, IF ok THEN [request[r] EXCEPT !.pc = pc] ELSE Idle)

\* A statement of Friends that is the last one of its handler.
Finish(r) ==
  /\ request' = [request EXCEPT ![r] = Idle]
  /\ UNCHANGED <<blocks, failures>>
  /\ Observe

\* The connected user u calls a handler about another user.
Arrive(r, o, u, v, status) ==
  /\ ~InFlight(r)
  /\ o \in Ops
  /\ Become(r, [op |-> o, pc |-> First[o], user |-> u, pair |-> <<u, v>>, status |-> status])

-----------------------------------------------------------------------------
(* FriendsService.create.  Blocks are not looked at.                       *)

\* Mutant: only the requests in the same direction count.
CheckNoRequestOneWay(r) ==
  Check(r, "check", friend[request[r].pair] \notin {"ACCEPTED", "PENDING"}, "insert")

CheckNoRequest(r) ==
  Check(r, "check", Having(request[r].pair, {"ACCEPTED", "PENDING"}) = {}, "insert")

\* The primary key rejects a second row in the same direction, whatever the
\* status of the first: who was rejected cannot ask again.
InsertRequest(r) ==
  LET p == request[r].pair IN
  /\ At(r, "insert")
  /\ IF friend[p] # "none"
     THEN Become(r, Idle)
     ELSE /\ friend' = [friend EXCEPT ![p] = "PENDING"]
          /\ fresh' = fresh \cup {p}
          /\ Finish(r)

-----------------------------------------------------------------------------
(* FriendsService.update.                                                  *)

\* Mutant: the sender of the row is taken to be its receiver.
MayUpdateSwapped(u, p, status) ==
  /\ status # "PENDING"
  /\ (u = p[2]) <=> (status = "CANCELED")

\* checkUpdateAuthorization, for the user u, the row p and the new status.
MayUpdate(u, p, status) ==
  /\ status # "PENDING"
  /\ (u = p[1]) <=> (status = "CANCELED")

\* Two requests that crossed leave two rows, and findFirst may take either.
FindRequest(r) ==
  LET q == request[r]
      pending == Having(q.pair, {"PENDING"}) IN
  /\ At(r, "find")
  /\ \/ pending = {} /\ Become(r, Idle)
     \/ \E p \in pending :
          IF MayUpdate(q.user, p, q.status)
          THEN Become(r, [q EXCEPT !.pc = "write", !.pair = p])
          ELSE Become(r, Idle)

\* Mutant: the row is written by an upsert.
WriteStatusUpsert(r) ==
  LET q == request[r] IN
  /\ At(r, "write")
  /\ friend' = [friend EXCEPT ![q.pair] = q.status]
  /\ request' = [request EXCEPT ![r] = IF q.status = "CANCELED" THEN [q EXCEPT !.pc = "delete"]
                                                                ELSE Idle]
  /\ UNCHANGED <<blocks, fresh, failures>>
  /\ Observe

\* Updating a row that is gone throws.
WriteStatus(r) ==
  LET q == request[r] IN
  /\ At(r, "write")
  /\ IF friend[q.pair] = "none"
     THEN Become(r, Idle)
     ELSE /\ friend' = [friend EXCEPT ![q.pair] = q.status]
          /\ request' = [request EXCEPT ![r] =
               IF q.status = "CANCELED" THEN [q EXCEPT !.pc = "delete"] ELSE Idle]
          /\ UNCHANGED <<blocks, fresh, failures>>
          /\ Observe

\* Mutant: the row of the opposite direction is deleted.
DeleteCancelledOpposite(r) ==
  LET p == request[r].pair IN
  /\ At(r, "delete")
  /\ friend' = [friend EXCEPT ![<<p[2], p[1]>>] = "none"]
  /\ UNCHANGED fresh
  /\ Finish(r)

DeleteCancelled(r) ==
  /\ At(r, "delete")
  /\ friend' = [friend EXCEPT ![request[r].pair] = "none"]
  /\ UNCHANGED fresh
  /\ Finish(r)

-----------------------------------------------------------------------------
(* FriendsService.remove.                                                  *)

FindFriend(r) ==
  LET q == request[r]
      accepted == Having(q.pair, {"ACCEPTED"}) IN
  /\ At(r, "seek")
  /\ \/ accepted = {} /\ Become(r, Idle)
     \/ \E p \in accepted : Become(r, [q EXCEPT !.pc = "drop", !.pair = p])

\* A row that is gone throws; either way the row is gone after it.
DeleteFriend(r) ==
  /\ At(r, "drop")
  /\ friend' = [friend EXCEPT ![request[r].pair] = "none"]
  /\ UNCHANGED fresh
  /\ Finish(r)

-----------------------------------------------------------------------------
(* ModerationService.                                                      *)

CheckNotBlocked(r) == Check(r, "lookup", request[r].pair \notin blocks, "block")

\* One transaction: the block, and the deletion of both rows between the two.
BlockUser(r) ==
  LET p == request[r].pair IN
  /\ At(r, "block")
  /\ IF p \in blocks
     THEN Become(r, Idle)
     ELSE /\ blocks' = blocks \cup {p}
          /\ friend' = [q \in Pairs |-> IF q \in Between(p[1], p[2]) THEN "none" ELSE friend[q]]
          /\ fresh' = fresh \ Between(p[1], p[2])
          /\ request' = [request EXCEPT ![r] = Idle]
          /\ UNCHANGED failures
          /\ Observe

CheckBlocked(r) == Check(r, "held", request[r].pair \in blocks, "lift")

UnblockUser(r) ==
  /\ At(r, "lift")
  /\ blocks' = blocks \ {request[r].pair}
  /\ request' = [request EXCEPT ![r] = Idle]
  /\ UNCHANGED <<friend, fresh, failures>>
  /\ Observe

-----------------------------------------------------------------------------
\* An await of the request rejects: the exception filter answers 500.
AwaitFails(r) ==
  /\ InFlight(r)
  /\ failures < MaxFailures
  /\ failures' = failures + 1
  /\ request' = [request EXCEPT ![r] = Idle]
  /\ UNCHANGED <<friend, blocks, fresh>>
  /\ Observe

\* The next database call of the request r.
Work(r) ==
  \/ CheckNoRequest(r) \/ InsertRequest(r)
  \/ FindRequest(r) \/ WriteStatus(r) \/ DeleteCancelled(r)
  \/ FindFriend(r) \/ DeleteFriend(r)
  \/ CheckNotBlocked(r) \/ BlockUser(r)
  \/ CheckBlocked(r) \/ UnblockUser(r)

Next ==
  \E r \in Requests :
    \/ \E o \in Ops \ {"update"}, p \in Pairs : Arrive(r, o, p[1], p[2], "PENDING")
    \/ \E p \in Pairs, status \in InvitationStatus : Arrive(r, "update", p[1], p[2], status)
    \/ Work(r)
    \/ AwaitFails(r)

Spec == Init /\ [][Next]_vars

-----------------------------------------------------------------------------
(* Properties.                                                             *)

\* Every row, request and history keeps its type, and a request about to
\* write or delete a row of Friends is its sender or its receiver.
TypeOK ==
  /\ friend \in [Pairs -> InvitationStatus \cup {"none"}]
  /\ blocks \subseteq Pairs
  /\ request \in [Requests -> Request \cup {Idle}]
  /\ \A r \in Requests : InFlight(r) =>
       /\ request[r].pc \in Steps[request[r].op]
       /\ request[r].user \in {request[r].pair[1], request[r].pair[2]}
  /\ standing \in [Requests -> SUBSET Pairs]
  /\ fresh \subseteq Pairs
  /\ failures \in 0..MaxFailures

\* A create that is about to insert a row has seen each row that was in its
\* way disappear since it began, in both directions: nobody asks a friend, or
\* a user with whom a request was pending all along.
RequestsAreSound ==
  \A r \in Requests : At(r, "insert") => standing[r] = {}

\* A row becomes ACCEPTED through the user who was asked, and no one else,
\* even when two crossing requests leave a row in each direction and the
\* handler may find either of them.
OnlyReceiverAccepts ==
  [][\A p \in Pairs : friend[p] # "ACCEPTED" /\ friend'[p] = "ACCEPTED" =>
       \E r \in Requests :
         /\ At(r, "write") /\ ~InFlight(r)'
         /\ request[r].user = p[2] /\ request[r].status = "ACCEPTED"]_vars

\* A block wipes the rows between the two for good: answers and removals that
\* were in flight bring none of them back, and only a request inserted after
\* the block makes a row again.
BlockIsFinal == \A p \in Pairs : friend[p] # "none" => p \in fresh

\* A row that was cancelled is about to be deleted, whoever answers, removes,
\* blocks or asks again between the two statements of the cancel: only a call
\* that fails there leaves it, and with it the key that keeps the sender from
\* asking again.
CancelledIsDeleted ==
  \A p \in Pairs : friend[p] = "CANCELED" =>
    failures > 0 \/ \E r \in Requests : At(r, "delete") /\ request[r].pair = p

\* No row is left over: between two users a block leaves what was asked after
\* it, and a cancel nothing, unless a call has failed.
NoRowIsLeftOver == BlockIsFinal /\ CancelledIsDeleted

=============================================================================
