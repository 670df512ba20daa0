---------------------------- MODULE SessionRoster ----------------------------
(***************************************************************************)
(* The roster of one session: its players, the team each one plays in, and *)
(* the members of its conversation (SessionPlayersService).                *)
(*                                                                         *)
(* Every HTTP request is a process.  Each `await` on the database is one   *)
(* step, committed on its own: the handlers open no transaction, so the    *)
(* requests of different users, and of one user on two devices, interleave *)
(* between any two awaits.  An await may also fail, which ends the request *)
(* and keeps what it has written so far.                                   *)
(***************************************************************************)
EXTENDS Naturals, FiniteSets

CONSTANTS
  Users,        \* the users who may ask for a seat
  Creator,      \* Sessions.creatorUid
  Teams,        \* the Session_teams rows of the session
  NoTeam,       \* "has no Session_players row"
  Visibility,   \* what Sessions.visibility = PRIVATE may be
  Fans,         \* the users who may become a friend of the creator
  Limits,       \* the values Sessions.maxPlayersPerTeam may take
  Requests,     \* the requests the server may be working on at one time
  BlockPairs,   \* the <<blocker, blocked>> rows User_blocks may hold
  SingleFlight, \* TRUE: a user waits for each answer before asking again
  MaxFailures   \* how many awaits may fail

ASSUME RosterAssumption ==
  /\ Creator \in Users
  /\ NoTeam \notin Teams
  /\ Teams # {}
  /\ Visibility \subseteq BOOLEAN
  /\ Fans \subseteq Users \ {Creator}
  /\ Limits \subseteq Nat
  /\ BlockPairs \subseteq (Users \X Users)
  /\ SingleFlight \in BOOLEAN
  /\ MaxFailures \in Nat

VARIABLES
  session,    \* the Sessions row: private, limit, started
  seat,       \* Session_players, one row per user by its unique key
  members,    \* Conversation_members of the conversation of the session
  friends,    \* the users with an ACCEPTED friendship with the creator
  blocks,     \* the rows of User_blocks
  request,    \* what each request in flight is doing
  standing,   \* history: the objections that held since a join began
  failures    \* how many awaits have failed

vars == <<session, seat, members, friends, blocks, request, standing, failures>>
world == <<session, friends, blocks>>

-----------------------------------------------------------------------------
JoinSteps   == {"friend", "capacity", "seated", "players", "blocks", "insert", "enrol"}
LeaveSteps  == {"find", "vacate", "expel"}
SwitchSteps == {"lookup", "move"}

Steps == [join |-> JoinSteps, leave |-> LeaveSteps, switch |-> SwitchSteps]
Ops == {"join", "leave", "switch"}

Idle == [op |-> "idle", pc |-> "idle", user |-> Creator, team |-> NoTeam,
         limit |-> 0, players |-> {}]

\* limit is the copy of maxPlayersPerTeam that SessionsPipe hands to the
\* handler, players the list the handler read before it looks for blocks.
Request ==
  [op : Ops, pc : UNION {Steps[o] : o \in Ops}, user : Users, team : Teams \cup {NoTeam},
   limit : Limits \cup {0}, players : SUBSET Users]

\* Idle, or at a step of its own handler and with the team it needs.
WellFormed(q) ==
  \/ q = Idle
  \/ /\ q.op \in Ops
     /\ q.pc \in Steps[q.op]
     /\ q.op # "leave" => q.team \in Teams

InFlight(r) == request[r].op # "idle"
At(r, pc) == request[r].pc = pc

Seated == {u \in Users : seat[u] # NoTeam}
Count(t) == Cardinality({u \in Users : seat[u] = t})
BlockedBetween(u, v) == <<u, v>> \in blocks \/ <<v, u>> \in blocks

\* Every reason for which the join r should be turned away right now.
Objections(r) ==
  LET q == request[r] IN
  [stranger |-> session.private /\ q.user \notin friends,
   full     |-> Count(q.team) >= q.limit,
   seated   |-> seat[q.user] # NoTeam,
   foes     |-> {v \in Seated : BlockedBetween(q.user, v)}]

Objection == [stranger : BOOLEAN, full : BOOLEAN, seated : BOOLEAN, foes : SUBSET Users]

NoObjection == [stranger |-> FALSE, full |-> FALSE, seated |-> FALSE, foes |-> {}]

\* What is left of the objections a once they are compared with the later b.
Lasting(a, b) ==
  [stranger |-> a.stranger /\ b.stranger,
   full     |-> a.full /\ b.full,
   seated   |-> a.seated /\ b.seated,
   foes     |-> a.foes \cap b.foes]

\* The history of each join: begun with it, then weakened by every step.
Observe ==
  standing' = [r \in Requests |->
    IF request'[r].op # "join" THEN NoObjection
    ELSE IF InFlight(r) THEN Lasting(standing[r], Objections(r)')
    ELSE Objections(r)']

\* SessionsService.create has seated the creator: in team A, or in either
\* team when both have been given the same name.
Init ==
  /\ session \in [private : Visibility, limit : Limits \ {0}, started : {FALSE}]
  /\ seat \in [Users -> Teams \cup {NoTeam}]
  /\ \A u \in Users : (seat[u] # NoTeam) <=> (u = Creator)
  /\ members = {Creator}
  /\ friends \in SUBSET Fans
  /\ blocks = {}
  /\ request = [r \in Requests |-> Idle]
  /\ standing = [r \in Requests |-> NoObjection]
  /\ failures = 0

-----------------------------------------------------------------------------
(* Requests arrive: SessionsPipe reads the session row.                    *)

Free(r, u) ==
  /\ ~InFlight(r)
  /\ SingleFlight => \A q \in Requests : InFlight(q) => request[q].user # u

Arrive(r, o, pc, u, t) ==
  /\ Free(r, u)
  /\ request' = [request EXCEPT ![r] =
       [op |-> o, pc |-> pc, user |-> u, team |-> t,
        limit |-> session.limit, players |-> {}]]
  /\ UNCHANGED <<world, seat, members, failures>>
  /\ Observe

JoinArrives(r, u, t) ==
  Arrive(r, "join", IF session.private THEN "friend" ELSE "capacity", u, t)

\* A leave request is turned away at once when the row read says startDate < now.
LeaveArrives(r, u) == ~session.started /\ Arrive(r, "leave", "find", u, NoTeam)

\* Mutant: the team of the URL does not reach the handler.
SwitchArrivesTeamless(r, u, t) == Arrive(r, "switch", "lookup", u, NoTeam)

SwitchArrives(r, u, t) == Arrive(r, "switch", "lookup", u, t)

Continue(r, pc) ==
  /\ request' = [request EXCEPT ![r].pc = pc]
  /\ UNCHANGED <<world, seat, members, failures>>
  /\ Observe

Answered(r) == request' = [request EXCEPT ![r] = Idle]

Refuse(r) ==
  /\ Answered(r)
  /\ UNCHANGED <<world, seat, members, failures>>
  /\ Observe

\* One check of a handler: go on to pc, or answer with an error.
Check(r, from, ok, pc) ==
  /\ At(r, from)
  /\ IF ok THEN Continue(r, pc) ELSE Refuse(r)

-----------------------------------------------------------------------------
(* joinSession: five reads, then the two inserts.                          *)

CheckFriendship(r) ==
  Check(r, "friend", request[r].user \in friends, "capacity")

\* Mutant: a full team still takes one more player.
CheckCapacityOffByOne(r) ==
  Check(r, "capacity", ~(Count(request[r].team) > request[r].limit), "seated")

CheckCapacity(r) ==
  Check(r, "capacity", ~(Count(request[r].team) >= request[r].limit), "seated")

CheckNotSeated(r) ==
  Check(r, "seated", seat[request[r].user] = NoTeam, "players")

ReadPlayers(r) ==
  /\ At(r, "players")
  /\ request' = [request EXCEPT ![r].pc = "blocks", ![r].players = Seated]
  /\ UNCHANGED <<world, seat, members, failures>>
  /\ Observe

CheckBlocks(r) ==
  Check(r, "blocks",
        \A v \in request[r].players : ~BlockedBetween(request[r].user, v), "insert")

\* Mutant: the test for the creator is the wrong way round.
InsertPlayerSwapped(r) ==
  LET q == request[r] IN
  /\ At(r, "insert")
  /\ IF seat[q.user] # NoTeam
     THEN Refuse(r)
     ELSE /\ seat' = [seat EXCEPT ![q.user] = q.team]
          /\ IF q.user # Creator
             THEN Answered(r)
             ELSE request' = [request EXCEPT ![r].pc = "enrol"]
          /\ UNCHANGED <<world, members, failures>>
          /\ Observe

\* The unique key (sessionUid, userUid) rejects a second row of the user.
InsertPlayer(r) ==
  LET q == request[r] IN
  /\ At(r, "insert")
  /\ IF seat[q.user] # NoTeam
     THEN Refuse(r)
     ELSE /\ seat' = [seat EXCEPT ![q.user] = q.team]
          /\ IF q.user = Creator
             THEN Answered(r)
             ELSE request' = [request EXCEPT ![r].pc = "enrol"]
          /\ UNCHANGED <<world, members, failures>>
          /\ Observe

\* The primary key rejects a second membership; the player row stays.
InsertMember(r) ==
  /\ At(r, "enrol")
  /\ members' = members \cup {request[r].user}
  /\ Answered(r)
  /\ UNCHANGED <<world, seat, failures>>
  /\ Observe

-----------------------------------------------------------------------------
(* leaveSession: one read, then the two deletes.                           *)

FindPlayer(r) ==
  Check(r, "find", seat[request[r].user] # NoTeam, "vacate")

\* Mutant: the creator keeps the conversation when leaving the session.
DeletePlayerKeepsCreator(r) ==
  LET q == request[r] IN
  /\ At(r, "vacate")
  /\ IF seat[q.user] = NoTeam
     THEN Refuse(r)
     ELSE /\ seat' = [seat EXCEPT ![q.user] = NoTeam]
          /\ IF q.user = Creator
             THEN Answered(r)
             ELSE request' = [request EXCEPT ![r].pc = "expel"]
          /\ UNCHANGED <<world, members, failures>>
          /\ Observe

\* Deleting a row that is gone throws.
DeletePlayer(r) ==
  LET q == request[r] IN
  /\ At(r, "vacate")
  /\ IF seat[q.user] = NoTeam
     THEN Refuse(r)
     ELSE /\ seat' = [seat EXCEPT ![q.user] = NoTeam]
          /\ request' = [request EXCEPT ![r].pc = "expel"]
          /\ UNCHANGED <<world, members, failures>>
          /\ Observe

\* Mutant: leaving a session does not leave its conversation.
DeleteMemberForgotten(r) ==
  /\ At(r, "expel")
  /\ Answered(r)
  /\ UNCHANGED <<world, seat, members, failures>>
  /\ Observe

\* Throws when there is no membership to delete; the player row is gone by then.
DeleteMember(r) ==
  /\ At(r, "expel")
  /\ members' = members \ {request[r].user}
  /\ Answered(r)
  /\ UNCHANGED <<world, seat, failures>>
  /\ Observe

-----------------------------------------------------------------------------
(* switchPlayerToAnotherTeam: neither the limit nor the start is checked.  *)

FindSwitcher(r) ==
  Check(r, "lookup", seat[request[r].user] \notin {NoTeam, request[r].team}, "move")

MovePlayer(r) ==
  LET q == request[r] IN
  /\ At(r, "move")
  /\ IF seat[q.user] = NoTeam
     THEN Refuse(r)
     ELSE /\ seat' = [seat EXCEPT ![q.user] = q.team]
          /\ Answered(r)
          /\ UNCHANGED <<world, members, failures>>
          /\ Observe

-----------------------------------------------------------------------------
(* What the rest of the system does meanwhile.                             *)

\* An await of the request rejects: the exception filter answers 500.
AwaitFails(r) ==
  /\ InFlight(r)
  /\ failures < MaxFailures
  /\ failures' = failures + 1
  /\ Answered(r)
  /\ UNCHANGED <<world, seat, members>>
  /\ Observe

\* PATCH /sessions/:uid by anyone: a new limit, a new start date.
UpdateSession(limit, started) ==
  /\ session' = [session EXCEPT !.limit = limit, !.started = started]
  /\ UNCHANGED <<seat, members, friends, blocks, request, failures>>
  /\ Observe

\* startDate goes by.
SessionStarts ==
  /\ ~session.started
  /\ session' = [session EXCEPT !.started = TRUE]
  /\ UNCHANGED <<seat, members, friends, blocks, request, failures>>
  /\ Observe

\* A friend request is accepted, and a friendship removed (FriendsService).
Befriend(u) ==
  /\ u \notin friends
  /\ friends' = friends \cup {u}
  /\ UNCHANGED <<session, seat, members, blocks, request, failures>>
  /\ Observe

Unfriend(u) ==
  /\ u \in friends
  /\ friends' = friends \ {u}
  /\ UNCHANGED <<session, seat, members, blocks, request, failures>>
  /\ Observe

\* A block ends the friendship of the two in the same transaction.
Block(p) ==
  /\ p \in BlockPairs \ blocks
  /\ blocks' = blocks \cup {p}
  /\ friends' = IF Creator \in {p[1], p[2]} THEN friends \ {p[1], p[2]} ELSE friends
  /\ UNCHANGED <<session, seat, members, request, failures>>
  /\ Observe

Unblock(p) ==
  /\ p \in blocks
  /\ blocks' = blocks \ {p}
  /\ UNCHANGED <<session, seat, members, friends, request, failures>>
  /\ Observe

-----------------------------------------------------------------------------
\* The next database call of the request r.
Work(r) ==
  \/ CheckFriendship(r) \/ CheckCapacity(r) \/ CheckNotSeated(r)
  \/ ReadPlayers(r) \/ CheckBlocks(r) \/ InsertPlayer(r) \/ InsertMember(r)
  \/ FindPlayer(r) \/ DeletePlayer(r) \/ DeleteMember(r)
  \/ FindSwitcher(r) \/ MovePlayer(r)

Environment ==
  \/ \E limit \in Limits, started \in BOOLEAN : UpdateSession(limit, started)
  \/ SessionStarts
  \/ \E u \in Fans : Befriend(u) \/ Unfriend(u)
  \/ \E p \in BlockPairs : Block(p) \/ Unblock(p)

Next ==
  \/ \E r \in Requests, u \in Users :
       \/ \E t \in Teams : JoinArrives(r, u, t) \/ SwitchArrives(r, u, t)
       \/ LeaveArrives(r, u)
  \/ \E r \in Requests : Work(r) \/ AwaitFails(r)
  \/ Environment

Spec == Init /\ [][Next]_vars

\* Node keeps running the continuations of a request whose database calls
\* return, so a request is never left in the middle of its handler.
FairSpec == Spec /\ \A r \in Requests : WF_vars(Work(r))

-----------------------------------------------------------------------------
(* Properties.                                                             *)

\* Every variable stays within its table or domain, and the program counter
\* of a request belongs to its handler (session-players.service.ts).
TypeOK ==
  /\ session \in [private : Visibility, limit : Limits, started : BOOLEAN]
  /\ seat \in [Users -> Teams \cup {NoTeam}]
  /\ members \subseteq Users
  /\ friends \subseteq Fans
  /\ blocks \subseteq BlockPairs
  /\ request \in [Requests -> Request \cup {Idle}]
  /\ \A r \in Requests : WellFormed(request[r])
  /\ standing \in [Requests -> Objection]
  /\ failures \in 0..MaxFailures

\* The inductive form of NoStandingObjection: each read of the join r has
\* done away with the objection it looks for, and the list of players it
\* works with names every foe that has been seated all along.
Cleared(r) ==
  request[r].op = "join" =>
    /\ ~At(r, "friend") => ~standing[r].stranger
    /\ request[r].pc \notin {"friend", "capacity"} => ~standing[r].full
    /\ request[r].pc \notin {"friend", "capacity", "seated"} => ~standing[r].seated
    /\ At(r, "blocks") => standing[r].foes \subseteq request[r].players
    /\ request[r].pc \in {"insert", "enrol"} => standing[r].foes = {}

ChecksClear == \A r \in Requests : Cleared(r)

\* The five reads of a join are not one look at the database, but each is
\* sound: a join about to insert its player has seen every objection lifted
\* at some moment since it began.  Nobody gets into a team that was full all
\* along, past a block with a player who sat there all along, or into a
\* private session without having been a friend of its creator.
NoStandingObjection ==
  \A r \in Requests : At(r, "insert") => standing[r] = NoObjection

\* The requests of u that are between their two writes.
Enrolling(u) == \E r \in Requests : request[r].user = u /\ At(r, "enrol")
Expelling(u) == \E r \in Requests : request[r].user = u /\ At(r, "expel")

\* The roster and the conversation agree about everyone but the creator,
\* except between the two inserts of a join and the two deletes of a leave.
\* It needs users who wait for their answers and awaits that do not fail.
RosterMatchesChat ==
  \A u \in Users \ {Creator} :
    (u \in members) <=> \/ Expelling(u)
                        \/ seat[u] # NoTeam /\ ~Enrolling(u)

\* What RosterMatchesChat rests on: a user has one request in flight, which
\* holds the seat while it enrols and has given it up while it expels.
OnePerUser ==
  \A r, q \in Requests :
    InFlight(r) /\ InFlight(q) /\ request[r].user = request[q].user => r = q

SeatWhileWriting ==
  \A r \in Requests :
    /\ At(r, "enrol") => seat[request[r].user] # NoTeam /\ request[r].user # Creator
    /\ At(r, "expel") => seat[request[r].user] = NoTeam

RosterInductive == OnePerUser /\ SeatWhileWriting /\ RosterMatchesChat

\* The atomic roster: a member as soon as the seat is taken, gone as soon as
\* it is given up.
Roster == INSTANCE AtomicRoster WITH
  chat <- (members \cup {u \in Users : Enrolling(u)}) \ {u \in Users : Expelling(u)}

\* The handlers, seen from outside, take and give up seats atomically.
ImplementsAtomicRoster == Roster!Spec

\* A user who holds a seat gets into the conversation, or loses the seat.
SeatLeadsToChat ==
  \A u \in Users \ {Creator} :
    (seat[u] # NoTeam) ~> (u \in members \/ seat[u] = NoTeam)
==============================================================================
