------------------------ MODULE SessionRoster_proofs ------------------------
(***************************************************************************)
(* Theorems about SessionRoster, for any users, teams, limits and number   *)
(* of requests in flight.                                                  *)
(***************************************************************************)
EXTENDS SessionRoster, TLAPS

\* Which steps belong to which handler.
LEMMA StepsOfHandler ==
  ASSUME NEW q, WellFormed(q)
  PROVE  /\ q.pc \in JoinSteps <=> q.op = "join"
         /\ q.pc \in LeaveSteps <=> q.op = "leave"
         /\ q.pc \in SwitchSteps <=> q.op = "switch"
         /\ q.op = "idle" <=> q = Idle
  BY DEF WellFormed, Idle, Steps, JoinSteps, LeaveSteps, SwitchSteps, Ops

\* The history stays within its type whatever the step does to the rest.
LEMMA ObserveType ==
  ASSUME TypeOK, Observe
  PROVE  standing' \in [Requests -> Objection]
<1> SUFFICES ASSUME NEW r \in Requests
             PROVE  /\ NoObjection \in Objection
                    /\ Objections(r)' \in Objection
                    /\ Lasting(standing[r], Objections(r)') \in Objection
  BY DEF Observe
<1>1. NoObjection \in Objection
  BY DEF NoObjection, Objection
<1>2. Objections(r)' \in Objection
  BY DEF Objections, Objection, Seated
<1>3. standing[r] \in Objection
  BY DEF TypeOK
<1>4. Lasting(standing[r], Objections(r)') \in Objection
  BY <1>2, <1>3 DEF Lasting, Objection
<1> QED
  BY <1>1, <1>2, <1>4

\* A request that moves on, or is answered, keeps the table of requests.
LEMMA RequestType ==
  ASSUME TypeOK, NEW r \in Requests, NEW q \in Request \cup {Idle}, WellFormed(q),
         request' = [request EXCEPT ![r] = q]
  PROVE  /\ request' \in [Requests -> Request \cup {Idle}]
         /\ \A p \in Requests : WellFormed(request'[p])
  BY DEF TypeOK

\* A slot of the table that is free is well formed.
LEMMA IdleType == Idle.op = "idle" /\ WellFormed(Idle)
  BY DEF Idle, WellFormed

\* A request that arrives starts at a step of its own handler, with the
\* session row the pipe has read.
LEMMA ArriveType ==
  ASSUME RosterAssumption, TypeOK, NEW r \in Requests, NEW u \in Users,
         NEW t \in Teams \cup {NoTeam}, NEW o \in Ops, NEW pc \in Steps[o],
         o # "leave" => t \in Teams, Arrive(r, o, pc, u, t)
  PROVE  TypeOK'
<1> DEFINE q == [op |-> o, pc |-> pc, user |-> u, team |-> t,
                 limit |-> session.limit, players |-> {}]
<1>1. q \in Request
  BY DEF Request, TypeOK
<1>2. WellFormed(q)
  BY DEF WellFormed
<1>3. request' = [request EXCEPT ![r] = q]
  BY DEF Arrive
<1>4. /\ request' \in [Requests -> Request \cup {Idle}]
      /\ \A p \in Requests : WellFormed(request'[p])
  <2> HIDE DEF q
  <2> QED BY <1>1, <1>2, <1>3, RequestType
<1>5. standing' \in [Requests -> Objection]
  BY ObserveType DEF Arrive
<1> QED
  BY <1>4, <1>5 DEF Arrive, world, TypeOK

\* The request r goes on to the step pc of its handler.
LEMMA ContinueType ==
  ASSUME TypeOK, NEW r \in Requests, InFlight(r), NEW pc \in Steps[request[r].op],
         request' = [request EXCEPT ![r].pc = pc]
  PROVE  /\ request' \in [Requests -> Request \cup {Idle}]
         /\ \A p \in Requests : WellFormed(request'[p])
<1> DEFINE q == [request[r] EXCEPT !.pc = pc]
<1>1. request[r] \in Request /\ WellFormed(request[r]) /\ request[r].op \in Ops
  BY DEF TypeOK, InFlight, Idle, WellFormed
<1>2. q \in Request
  BY <1>1 DEF Request
<1>3. WellFormed(q)
  BY <1>1 DEF WellFormed, InFlight, Idle, Request
<1>4. request' = [request EXCEPT ![r] = q]
  BY DEF TypeOK
<1> HIDE DEF q
<1> QED
  BY <1>2, <1>3, <1>4, RequestType

\* A request that is answered frees its slot of the table.
LEMMA AnsweredType ==
  ASSUME TypeOK, NEW r \in Requests, Answered(r)
  PROVE  /\ request' \in [Requests -> Request \cup {Idle}]
         /\ \A p \in Requests : WellFormed(request'[p])
  BY IdleType, RequestType DEF Answered

\* A check of a handler, passed or not, keeps every type.
LEMMA CheckType ==
  ASSUME TypeOK, NEW r \in Requests, NEW from, NEW ok, NEW pc,
         InFlight(r), pc \in Steps[request[r].op], Check(r, from, ok, pc)
  PROVE  TypeOK'
<1>1. CASE Continue(r, pc)
  BY <1>1, ContinueType, ObserveType DEF Continue, world, TypeOK
<1>2. CASE Refuse(r)
  BY <1>2, AnsweredType, ObserveType DEF Refuse, world, TypeOK
<1> QED
  BY <1>1, <1>2 DEF Check

\* A request at a step is in flight, in the handler the step belongs to.
LEMMA AtStep ==
  ASSUME TypeOK, NEW r \in Requests
  PROVE  /\ \A pc \in JoinSteps : At(r, pc) => request[r].op = "join"
         /\ \A pc \in LeaveSteps : At(r, pc) => request[r].op = "leave"
         /\ \A pc \in SwitchSteps : At(r, pc) => request[r].op = "switch"
         /\ InFlight(r) => request[r] \in Request
  BY StepsOfHandler DEF TypeOK, At, InFlight, Idle

\* A session that has just been created is within the types.
THEOREM InitTypeOK == ASSUME RosterAssumption, Init PROVE TypeOK
<1>1. request \in [Requests -> Request \cup {Idle}]
  BY DEF Init
<1>2. \A r \in Requests : WellFormed(request[r])
  BY IdleType DEF Init
<1>3. standing \in [Requests -> Objection]
  BY DEF Init, NoObjection, Objection
<1>4. session \in [private : Visibility, limit : Limits, started : BOOLEAN]
  BY DEF Init
<1>5. failures \in 0..MaxFailures
  BY DEF Init, RosterAssumption
<1>6. members \subseteq Users /\ blocks \subseteq BlockPairs
  BY DEF Init, RosterAssumption
<1> QED
  BY <1>1, <1>2, <1>3, <1>4, <1>5, <1>6 DEF Init, TypeOK

\* No database call of a handler leaves the types: each goes on to a step of
\* its own handler or answers.
THEOREM WorkTypeOK ==
  ASSUME RosterAssumption, TypeOK, NEW r \in Requests, Work(r)
  PROVE  TypeOK'
<1> USE AtStep DEF JoinSteps, LeaveSteps, SwitchSteps
<1>1. CASE CheckFriendship(r)
  BY <1>1, CheckType DEF CheckFriendship, Check, InFlight, Steps
<1>2. CASE CheckCapacity(r)
  BY <1>2, CheckType DEF CheckCapacity, Check, InFlight, Steps
<1>3. CASE CheckNotSeated(r)
  BY <1>3, CheckType DEF CheckNotSeated, Check, InFlight, Steps
<1>4. CASE ReadPlayers(r)
  <2>1. request[r] \in Request /\ request[r].op = "join" /\ WellFormed(request[r])
    BY <1>4 DEF ReadPlayers, InFlight, TypeOK
  <2> DEFINE q == [request[r] EXCEPT !.pc = "blocks", !.players = Seated]
  <2>2. q \in Request /\ WellFormed(q)
    <3>1. Seated \in SUBSET Users
      BY DEF Seated
    <3>2. "blocks" \in Steps["join"] /\ Steps["join"] \subseteq UNION {Steps[o] : o \in Ops}
      BY DEF Steps, Ops
    <3>3. q \in Request
      BY <2>1, <3>1, <3>2 DEF Request
    <3>4. q.op = "join" /\ q.pc = "blocks" /\ q.team = request[r].team
      BY <2>1 DEF Request
    <3>5. request[r].team \in Teams
      BY <2>1 DEF WellFormed, Idle
    <3> QED
      BY <3>2, <3>3, <3>4, <3>5 DEF WellFormed, Ops
  <2>3. request' = [request EXCEPT ![r] = q]
    BY <1>4 DEF ReadPlayers, TypeOK
  <2> HIDE DEF q
  <2> QED
    BY <1>4, <2>2, <2>3, RequestType, ObserveType DEF ReadPlayers, world, TypeOK
<1>5. CASE CheckBlocks(r)
  BY <1>5, CheckType DEF CheckBlocks, Check, InFlight, Steps
<1>6. CASE InsertPlayer(r)
  <2>1. request[r] \in Request /\ request[r].op = "join" /\ request[r].team \in Teams
    BY <1>6 DEF InsertPlayer, InFlight, TypeOK, WellFormed, Idle
  <2>2. CASE Refuse(r)
    BY <2>2, AnsweredType, ObserveType DEF Refuse, world, TypeOK
  <2>3. CASE seat[request[r].user] = NoTeam
    <3>1. seat' \in [Users -> Teams \cup {NoTeam}]
      BY <1>6, <2>1, <2>3 DEF InsertPlayer, TypeOK
    <3>2. /\ request' \in [Requests -> Request \cup {Idle}]
          /\ \A p \in Requests : WellFormed(request'[p])
      BY <1>6, <2>1, <2>3, AnsweredType, ContinueType DEF InsertPlayer, InFlight, Steps
    <3> QED
      BY <1>6, <2>3, <3>1, <3>2, ObserveType DEF InsertPlayer, world, TypeOK
  <2> QED
    BY <1>6, <2>2, <2>3 DEF InsertPlayer
<1>7. CASE InsertMember(r)
  <2>1. request[r] \in Request
    BY <1>7 DEF InsertMember, InFlight
  <2> QED
    BY <1>7, <2>1, AnsweredType, ObserveType DEF InsertMember, world, TypeOK, Request
<1>8. CASE FindPlayer(r)
  BY <1>8, CheckType DEF FindPlayer, Check, InFlight, Steps
<1>9. CASE DeletePlayer(r)
  <2>1. request[r].op = "leave"
    BY <1>9 DEF DeletePlayer
  <2>2. CASE Refuse(r)
    BY <2>2, AnsweredType, ObserveType DEF Refuse, world, TypeOK
  <2>3. CASE seat[request[r].user] # NoTeam
    <3>1. /\ request' \in [Requests -> Request \cup {Idle}]
          /\ \A p \in Requests : WellFormed(request'[p])
      BY <1>9, <2>1, <2>3, ContinueType DEF DeletePlayer, InFlight, Steps
    <3> QED
      BY <1>9, <2>3, <3>1, ObserveType DEF DeletePlayer, world, TypeOK
  <2> QED
    BY <1>9, <2>2, <2>3 DEF DeletePlayer
<1>10. CASE DeleteMember(r)
  BY <1>10, AnsweredType, ObserveType DEF DeleteMember, world, TypeOK
<1>11. CASE FindSwitcher(r)
  BY <1>11, CheckType DEF FindSwitcher, Check, InFlight, Steps
<1>12. CASE MovePlayer(r)
  <2>1. request[r] \in Request /\ request[r].op = "switch" /\ request[r].team \in Teams
    BY <1>12 DEF MovePlayer, InFlight, TypeOK, WellFormed, Idle
  <2>2. CASE Refuse(r)
    BY <2>2, AnsweredType, ObserveType DEF Refuse, world, TypeOK
  <2>3. CASE seat[request[r].user] # NoTeam
    <3>1. seat' \in [Users -> Teams \cup {NoTeam}]
      BY <1>12, <2>1, <2>3 DEF MovePlayer, TypeOK
    <3> QED
      BY <1>12, <2>3, <3>1, AnsweredType, ObserveType DEF MovePlayer, world, TypeOK
  <2> QED
    BY <1>12, <2>2, <2>3 DEF MovePlayer
<1> QED
  BY <1>1, <1>2, <1>3, <1>4, <1>5, <1>6, <1>7, <1>8, <1>9, <1>10, <1>11, <1>12 DEF Work

\* Nor does anything the rest of the system does to the tables.
THEOREM EnvironmentTypeOK ==
  ASSUME RosterAssumption, TypeOK, Environment
  PROVE  TypeOK'
<1>1. ASSUME NEW limit \in Limits, NEW started \in BOOLEAN, UpdateSession(limit, started)
      PROVE  TypeOK'
  BY <1>1, ObserveType DEF UpdateSession, TypeOK
<1>2. CASE SessionStarts
  BY <1>2, ObserveType DEF SessionStarts, TypeOK
<1>3. ASSUME NEW u \in Fans, Befriend(u) \/ Unfriend(u)
      PROVE  TypeOK'
  BY <1>3, ObserveType DEF Befriend, Unfriend, TypeOK
<1>4. ASSUME NEW p \in BlockPairs, Block(p) \/ Unblock(p)
      PROVE  TypeOK'
  BY <1>4, ObserveType DEF Block, Unblock, TypeOK
<1> QED
  BY <1>1, <1>2, <1>3, <1>4 DEF Environment

\* TypeOK is inductive: arrivals, database calls, failures and the rest of
\* the system keep it.
THEOREM NextTypeOK ==
  ASSUME RosterAssumption, TypeOK, [Next]_vars
  PROVE  TypeOK'
<1>1. ASSUME NEW r \in Requests, NEW u \in Users, NEW t \in Teams, JoinArrives(r, u, t)
      PROVE  TypeOK'
  BY <1>1, ArriveType DEF JoinArrives, Ops, Steps, JoinSteps
<1>2. ASSUME NEW r \in Requests, NEW u \in Users, NEW t \in Teams, SwitchArrives(r, u, t)
      PROVE  TypeOK'
  BY <1>2, ArriveType DEF SwitchArrives, Ops, Steps, SwitchSteps
<1>3. ASSUME NEW r \in Requests, NEW u \in Users, LeaveArrives(r, u)
      PROVE  TypeOK'
  BY <1>3, ArriveType DEF LeaveArrives, Ops, Steps, LeaveSteps
<1>4. ASSUME NEW r \in Requests, AwaitFails(r)
      PROVE  TypeOK'
  <2>1. failures' \in 0..MaxFailures
    BY <1>4 DEF AwaitFails, TypeOK, RosterAssumption
  <2> QED
    BY <1>4, <2>1, AnsweredType, ObserveType DEF AwaitFails, world, TypeOK
<1>5. CASE UNCHANGED vars
  BY <1>5 DEF vars, TypeOK, InFlight
<1> QED
  BY <1>1, <1>2, <1>3, <1>4, <1>5, WorkTypeOK, EnvironmentTypeOK DEF Next

\* Every table, every request and the history keep their types: the two
\* handlers never mix their steps and no request runs without its team.
THEOREM TypeCorrect == Spec => []TypeOK
<1> USE RosterAssumption
<1> QED
  BY InitTypeOK, NextTypeOK, PTL DEF Spec

-----------------------------------------------------------------------------
(* Every join has seen each objection lifted.                              *)

\* An objection stays on record only while it holds.
LEMMA ObserveWeakens ==
  ASSUME TypeOK, Observe, NEW r \in Requests, request'[r].op = "join", InFlight(r)
  PROVE  /\ standing'[r].stranger => standing[r].stranger /\ Objections(r)'.stranger
         /\ standing'[r].full => standing[r].full /\ Objections(r)'.full
         /\ standing'[r].seated => standing[r].seated /\ Objections(r)'.seated
         /\ standing'[r].foes = standing[r].foes \cap Objections(r)'.foes
<1>1. standing'[r] = Lasting(standing[r], Objections(r)')
  BY DEF Observe
<1>2. standing[r] \in Objection
  BY DEF TypeOK
<1>3. Objections(r)' \in Objection
  BY DEF Objections, Objection, Seated
<1> HIDE DEF Objections
<1> QED
  BY <1>1, <1>2, <1>3 DEF Lasting, Objection

\* A request the step does not touch loses no clearance.
LEMMA BystanderCleared ==
  ASSUME TypeOK, Observe, NEW r \in Requests, Cleared(r), request'[r] = request[r]
  PROVE  Cleared(r)'
<1>1. CASE request[r].op = "join"
  <2>1. InFlight(r)
    BY <1>1 DEF InFlight
  <2> QED
    BY <1>1, <2>1, ObserveWeakens DEF Cleared, At
<1>2. CASE request[r].op # "join"
  BY <1>2 DEF Cleared
<1> QED
  BY <1>1, <1>2

\* The step of one request clears it and leaves the others as they were.
LEMMA OneRequestCleared ==
  ASSUME TypeOK, ChecksClear, Observe, NEW r \in Requests,
         NEW q, request' = [request EXCEPT ![r] = q], Cleared(r)'
  PROVE  ChecksClear'
<1> SUFFICES ASSUME NEW p \in Requests, p # r
             PROVE  Cleared(p)'
  BY DEF ChecksClear
<1>1. request'[p] = request[p]
  BY DEF TypeOK
<1> QED
  BY <1>1, BystanderCleared DEF ChecksClear

\* An answered request has nothing to clear.
LEMMA AnsweredCleared ==
  ASSUME TypeOK, ChecksClear, Observe, NEW r \in Requests, Answered(r)
  PROVE  ChecksClear'
<1>1. request'[r] = Idle
  BY DEF Answered, TypeOK
<1>2. Cleared(r)'
  BY <1>1 DEF Cleared, Idle
<1> QED
  BY <1>2, OneRequestCleared DEF Answered

\* Nor has a request that is not a join.
LEMMA OtherHandlerCleared ==
  ASSUME TypeOK, ChecksClear, Observe, NEW r \in Requests, NEW pc,
         request' = [request EXCEPT ![r].pc = pc], request[r].op # "join"
  PROVE  ChecksClear'
<1>1. request' = [request EXCEPT ![r] = [request[r] EXCEPT !.pc = pc]]
  BY DEF TypeOK
<1>2. request'[r].op # "join"
  BY DEF TypeOK, Request, Idle
<1> QED
  BY <1>1, <1>2, OneRequestCleared DEF Cleared

\* Every join step but the first establishes one clearance and keeps the rest.
LEMMA JoinStepCleared ==
  ASSUME TypeOK, ChecksClear, NEW r \in Requests, Continue(r, "capacity")
                                              \/ Continue(r, "seated")
                                              \/ Continue(r, "players")
                                              \/ Continue(r, "insert"),
         request[r].op = "join",
         request'[r].pc = "capacity" => At(r, "friend") /\ ~Objections(r)'.stranger,
         request'[r].pc = "seated" => At(r, "capacity") /\ ~Objections(r)'.full,
         request'[r].pc = "players" => At(r, "seated") /\ ~Objections(r)'.seated,
         request'[r].pc = "insert" =>
           At(r, "blocks") /\ request[r].players \cap Objections(r)'.foes = {}
  PROVE  ChecksClear'
<1>1. PICK pc \in {"capacity", "seated", "players", "insert"} : Continue(r, pc)
  OBVIOUS
<1>2. /\ request' = [request EXCEPT ![r] = [request[r] EXCEPT !.pc = pc]]
      /\ request[r] \in Request
      /\ InFlight(r)
      /\ Observe
  BY <1>1 DEF Continue, TypeOK, Idle, InFlight
<1>3. request'[r].op = "join" /\ request'[r].pc = pc /\ request'[r].players = request[r].players
  BY <1>2 DEF TypeOK, Request
<1>4. Cleared(r)
  BY DEF ChecksClear
<1>5. Cleared(r)'
  <2>1. /\ standing'[r].stranger => standing[r].stranger /\ Objections(r)'.stranger
        /\ standing'[r].full => standing[r].full /\ Objections(r)'.full
        /\ standing'[r].seated => standing[r].seated /\ Objections(r)'.seated
        /\ standing'[r].foes = standing[r].foes \cap Objections(r)'.foes
    BY <1>2, <1>3, ObserveWeakens
  <2> QED
    BY <1>3, <1>4, <2>1 DEF Cleared, At
<1> QED
  BY <1>2, <1>5, OneRequestCleared

\* What each objection of the next state says.
LEMMA ObjectionsOfNextState ==
  ASSUME NEW r \in Requests
  PROVE  /\ Objections(r)'.stranger
             <=> (session'.private /\ request'[r].user \notin friends')
         /\ Objections(r)'.full <=> Count(request[r].team)' >= request'[r].limit
         /\ Objections(r)'.seated <=> seat'[request'[r].user] # NoTeam
         /\ Objections(r)'.foes = {v \in Seated' : BlockedBetween(request[r].user, v)'}
<1> DEFINE s == session'.private /\ request'[r].user \notin friends'
           f == Count(request[r].team)' >= request'[r].limit
           d == seat'[request'[r].user] # NoTeam
           b == {v \in Seated' : BlockedBetween(request[r].user, v)'}
<1>1. Objections(r)' = [stranger |-> s, full |-> f, seated |-> d, foes |-> b]
  BY Zenon DEF Objections, Count, Seated, BlockedBetween
<1> HIDE DEF s, f, d, b
<1>2. /\ Objections(r)'.stranger = s
      /\ Objections(r)'.full = f
      /\ Objections(r)'.seated = d
      /\ Objections(r)'.foes = b
  BY <1>1
<1> QED
  BY <1>2 DEF s, f, d, b

\* A check that succeeds shows that its objection is gone.
LEMMA CheckLiftsObjection ==
  ASSUME TypeOK, NEW r \in Requests, request[r] \in Request, NEW pc, Continue(r, pc)
  PROVE  /\ request'[r].pc = pc
         /\ request[r].user \in friends => ~Objections(r)'.stranger
         /\ ~(Count(request[r].team) >= request[r].limit) => ~Objections(r)'.full
         /\ seat[request[r].user] = NoTeam => ~Objections(r)'.seated
         /\ (\A v \in request[r].players : ~BlockedBetween(request[r].user, v))
              => request[r].players \cap Objections(r)'.foes = {}
<1>1. /\ request'[r].pc = pc
      /\ request'[r].user = request[r].user
      /\ request'[r].team = request[r].team
      /\ request'[r].limit = request[r].limit
  BY DEF Continue, TypeOK, Request
<1>2. UNCHANGED <<seat, blocks, friends>>
  BY DEF Continue, world
<1>3. Count(request[r].team)' = Count(request[r].team)
  BY <1>1, <1>2 DEF Count
<1>4. \A v : BlockedBetween(request[r].user, v)' <=> BlockedBetween(request[r].user, v)
  BY <1>1, <1>2 DEF BlockedBetween
<1> QED
  BY <1>1, <1>2, <1>3, <1>4, ObjectionsOfNextState

\* Every database call keeps the clearances: the read that looks for an
\* objection establishes its absence, and nothing brings it back on record.
LEMMA WorkClears ==
  ASSUME RosterAssumption, TypeOK, ChecksClear, NEW r \in Requests, Work(r)
  PROVE  ChecksClear'
<1> USE AtStep DEF JoinSteps, LeaveSteps, SwitchSteps
<1>0. ASSUME Refuse(r) PROVE ChecksClear'
  BY <1>0, AnsweredCleared DEF Refuse
<1>1. CASE CheckFriendship(r)
  BY <1>0, <1>1, CheckLiftsObjection, JoinStepCleared DEF CheckFriendship, Check, InFlight
<1>2. CASE CheckCapacity(r)
  BY <1>0, <1>2, CheckLiftsObjection, JoinStepCleared DEF CheckCapacity, Check, InFlight
<1>3. CASE CheckNotSeated(r)
  BY <1>0, <1>3, CheckLiftsObjection, JoinStepCleared DEF CheckNotSeated, Check, InFlight
<1>4. CASE CheckBlocks(r)
  BY <1>0, <1>4, CheckLiftsObjection, JoinStepCleared DEF CheckBlocks, Check, InFlight
<1>5. CASE ReadPlayers(r)
  <2>1. /\ request[r] \in Request /\ request[r].op = "join" /\ InFlight(r) /\ Observe
        /\ request' = [request EXCEPT ![r] =
                         [request[r] EXCEPT !.pc = "blocks", !.players = Seated]]
    BY <1>5 DEF ReadPlayers, InFlight, TypeOK
  <2>2. /\ request'[r].op = "join" /\ request'[r].pc = "blocks"
        /\ request'[r].players = Seated
    BY <2>1 DEF TypeOK, Request
  <2>3. Objections(r)'.foes \subseteq Seated
    BY <1>5, ObjectionsOfNextState DEF ReadPlayers, Seated
  <2>4. Cleared(r)'
    BY <1>5, <2>1, <2>2, <2>3, ObserveWeakens DEF ChecksClear, Cleared, At, ReadPlayers
  <2> QED
    BY <2>1, <2>4, OneRequestCleared
<1>6. CASE InsertPlayer(r)
  <2>1. CASE request' = [request EXCEPT ![r].pc = "enrol"]
    <3>1. /\ request[r] \in Request /\ request[r].op = "join" /\ InFlight(r)
          /\ request' = [request EXCEPT ![r] = [request[r] EXCEPT !.pc = "enrol"]]
      BY <1>6, <2>1 DEF InsertPlayer, InFlight, TypeOK
    <3>2. request'[r].op = "join" /\ request'[r].pc = "enrol"
      BY <3>1 DEF TypeOK, Request
    <3>3. Observe
      BY <1>6 DEF InsertPlayer, Refuse
    <3>4. Cleared(r)'
      BY <1>6, <3>1, <3>2, <3>3, ObserveWeakens DEF ChecksClear, Cleared, At, InsertPlayer
    <3> QED
      BY <3>1, <3>3, <3>4, OneRequestCleared
  <2>2. CASE Answered(r)
    BY <1>6, <2>2, AnsweredCleared DEF InsertPlayer, Refuse
  <2> QED
    BY <1>0, <1>6, <2>1, <2>2 DEF InsertPlayer
<1>7. CASE FindPlayer(r) \/ FindSwitcher(r)
  BY <1>0, <1>7, OtherHandlerCleared DEF FindPlayer, FindSwitcher, Check, Continue
<1>8. CASE DeletePlayer(r)
  BY <1>0, <1>8, OtherHandlerCleared DEF DeletePlayer
<1>9. CASE InsertMember(r) \/ DeleteMember(r)
  BY <1>9, AnsweredCleared DEF InsertMember, DeleteMember
<1>10. CASE MovePlayer(r)
  BY <1>0, <1>10, AnsweredCleared DEF MovePlayer
<1> QED
  BY <1>1, <1>2, <1>3, <1>4, <1>5, <1>6, <1>7, <1>8, <1>9, <1>10 DEF Work

\* A join arrives with no clearance to show but the one a public session
\* gives it.
LEMMA ArriveClears ==
  ASSUME RosterAssumption, TypeOK, ChecksClear, NEW r \in Requests, NEW u \in Users,
         NEW t, NEW o, NEW pc, Arrive(r, o, pc, u, t),
         o = "join" => \/ pc = "friend"
                       \/ pc = "capacity" /\ ~session.private
  PROVE  ChecksClear'
<1>1. /\ request'[r].op = o /\ request'[r].pc = pc
      /\ UNCHANGED session /\ Observe /\ ~InFlight(r)
  BY DEF Arrive, Free, TypeOK, world
<1>2. Cleared(r)'
  <2>1. CASE o = "join"
    <3>1. standing'[r] = Objections(r)'
      BY <1>1, <2>1 DEF Observe
    <3>2. ~At(r, "friend")' => ~standing'[r].stranger
      BY <1>1, <2>1, <3>1, ObjectionsOfNextState DEF At
    <3> QED
      BY <1>1, <2>1, <3>2 DEF Cleared, At
  <2>2. CASE o # "join"
    BY <1>1, <2>2 DEF Cleared
  <2> QED
    BY <2>1, <2>2
<1> QED
  BY <1>1, <1>2, OneRequestCleared DEF Arrive

\* What the rest of the system does clears nothing and revives nothing.
LEMMA EnvironmentClears ==
  ASSUME TypeOK, ChecksClear, Environment
  PROVE  ChecksClear'
<1>1. Observe /\ UNCHANGED request
  BY DEF Environment, UpdateSession, SessionStarts, Befriend, Unfriend, Block, Unblock
<1> QED
  BY <1>1, BystanderCleared DEF ChecksClear

\* No join is in flight when the session has just been created.
LEMMA InitClears ==
  ASSUME RosterAssumption, Init
  PROVE  ChecksClear
  BY DEF Init, ChecksClear, Cleared, Idle

\* ChecksClear is inductive, given the types.
LEMMA NextClears ==
  ASSUME RosterAssumption, TypeOK, ChecksClear, [Next]_vars
  PROVE  ChecksClear'
<1>1. ASSUME NEW r \in Requests, NEW u \in Users, NEW t \in Teams, JoinArrives(r, u, t)
      PROVE  ChecksClear'
  <2>1. CASE session.private
    BY <1>1, <2>1, ArriveClears DEF JoinArrives
  <2>2. CASE ~session.private
    BY <1>1, <2>2, ArriveClears DEF JoinArrives
  <2> QED
    BY <2>1, <2>2
<1>2. ASSUME NEW r \in Requests, NEW u \in Users, NEW t \in Teams, SwitchArrives(r, u, t)
      PROVE  ChecksClear'
  BY <1>2, ArriveClears DEF SwitchArrives
<1>3. ASSUME NEW r \in Requests, NEW u \in Users, LeaveArrives(r, u)
      PROVE  ChecksClear'
  BY <1>3, ArriveClears DEF LeaveArrives
<1>4. ASSUME NEW r \in Requests, AwaitFails(r)
      PROVE  ChecksClear'
  BY <1>4, AnsweredCleared DEF AwaitFails
<1>5. CASE UNCHANGED vars
  BY <1>5 DEF vars, ChecksClear, Cleared, At
<1> QED
  BY <1>1, <1>2, <1>3, <1>4, <1>5, WorkClears, EnvironmentClears DEF Next

\* The inductive invariant behind the next theorem.
THEOREM ChecksClearAlways == Spec => [](TypeOK /\ ChecksClear)
<1> USE RosterAssumption
<1>1. Init => TypeOK /\ ChecksClear
  BY InitTypeOK, InitClears
<1>2. TypeOK /\ ChecksClear /\ [Next]_vars => (TypeOK /\ ChecksClear)'
  BY NextTypeOK, NextClears
<1> QED
  BY <1>1, <1>2, PTL DEF Spec

\* No join inserts a player against an objection that has held since the join
\* began, however many requests run beside it and whichever of them fail:
\* the five separate reads of verifyPlayerEligibilityBeforeJoin are enough to
\* keep out a stranger, a latecomer and a blocked user who were that all along.
THEOREM JoinsAreSound == Spec => []NoStandingObjection
<1>1. ASSUME TypeOK, ChecksClear
      PROVE  NoStandingObjection
  <2> SUFFICES ASSUME NEW r \in Requests, At(r, "insert")
               PROVE  standing[r] = NoObjection
    BY DEF NoStandingObjection
  <2>1. /\ ~standing[r].stranger /\ ~standing[r].full /\ ~standing[r].seated
        /\ standing[r].foes = {}
    BY <1>1, AtStep DEF ChecksClear, Cleared, At, JoinSteps
  <2>2. standing[r] \in Objection
    BY <1>1 DEF TypeOK
  <2>3. /\ standing[r].stranger = FALSE /\ standing[r].full = FALSE
        /\ standing[r].seated = FALSE
    BY <2>1, <2>2 DEF Objection
  <2>4. standing[r] = [stranger |-> FALSE, full |-> FALSE, seated |-> FALSE, foes |-> {}]
    BY <2>1, <2>2, <2>3 DEF Objection
  <2> QED
    BY <2>4 DEF NoObjection
<1> QED
  BY <1>1, ChecksClearAlways, PTL

-----------------------------------------------------------------------------
(* Users who wait for their answers, and awaits that return: the roster    *)
(* and the conversation agree.                                             *)

\* A step that touches neither the seats nor the members, and whose request
\* is neither before nor after it between two writes, preserves the match.
LEMMA QuietStepKeepsMatch ==
  ASSUME TypeOK, RosterInductive, NEW r \in Requests, NEW q,
         request' = [request EXCEPT ![r] = q],
         UNCHANGED <<seat, members>>,
         ~At(r, "enrol"), ~At(r, "expel"), q.pc \notin {"enrol", "expel"},
         \/ q.op = "idle"
         \/ \A p \in Requests : InFlight(p) /\ p # r => request[p].user # q.user
  PROVE  RosterInductive'
<1>1. /\ \A p \in Requests : p # r => request'[p] = request[p]
      /\ request'[r] = q
  BY DEF TypeOK
<1>2. OnePerUser'
  BY <1>1 DEF RosterInductive, OnePerUser, InFlight
<1>3. SeatWhileWriting'
  BY <1>1 DEF RosterInductive, SeatWhileWriting, At
<1>4. \A u : (Enrolling(u)' <=> Enrolling(u)) /\ (Expelling(u)' <=> Expelling(u))
  BY <1>1 DEF Enrolling, Expelling, At
<1>5. RosterMatchesChat'
  BY <1>4 DEF RosterInductive, RosterMatchesChat
<1> QED
  BY <1>2, <1>3, <1>5 DEF RosterInductive

\* A step of the only request of u, which may write the rows of u.  What it
\* must leave behind is the match for u itself.
LEMMA WriterKeepsMatch ==
  ASSUME RosterAssumption, TypeOK, RosterInductive,
         NEW r \in Requests, NEW q, InFlight(r),
         request' = [request EXCEPT ![r] = q],
         q.pc \in {"enrol", "expel"} => q.user = request[r].user,
         q.op = "idle" \/ q.user = request[r].user,
         \A v \in Users \ {request[r].user} :
           seat'[v] = seat[v] /\ (v \in members' <=> v \in members),
         q.pc = "enrol" => seat'[request[r].user] # NoTeam /\ request[r].user # Creator,
         q.pc = "expel" => seat'[request[r].user] = NoTeam,
         request[r].user # Creator =>
           (request[r].user \in members' <=>
              \/ q.pc = "expel"
              \/ seat'[request[r].user] # NoTeam /\ q.pc # "enrol")
  PROVE  RosterInductive'
<1> SUFFICES ASSUME NEW u, u = request[r].user
             PROVE  RosterInductive'
  OBVIOUS
<1>1. /\ \A p \in Requests : p # r => request'[p] = request[p]
      /\ request'[r] = q
      /\ \A p \in Requests : request[p].user \in Users
  BY DEF TypeOK, Request, Idle, RosterAssumption
<1>2. \A p \in Requests : InFlight(p) /\ p # r => request[p].user # u
  BY DEF RosterInductive, OnePerUser
<1>3. \A p \in Requests : At(p, "enrol") \/ At(p, "expel") => InFlight(p)
  BY AtStep DEF InFlight, JoinSteps, LeaveSteps
<1>4. OnePerUser'
  BY <1>1, <1>2 DEF RosterInductive, OnePerUser, InFlight
<1>5. SeatWhileWriting'
  BY <1>1, <1>2, <1>3 DEF RosterInductive, SeatWhileWriting, At
<1>6. /\ Enrolling(u)' <=> q.pc = "enrol"
      /\ Expelling(u)' <=> q.pc = "expel"
  BY <1>1, <1>2, <1>3 DEF Enrolling, Expelling, At
<1>7. ASSUME NEW v \in Users, v # u
      PROVE  /\ Enrolling(v)' <=> Enrolling(v)
             /\ Expelling(v)' <=> Expelling(v)
  BY <1>1, <1>7 DEF Enrolling, Expelling, At
<1>8. RosterMatchesChat'
  BY <1>6, <1>7 DEF RosterInductive, RosterMatchesChat
<1> QED
  BY <1>4, <1>5, <1>8 DEF RosterInductive

\* A check of a handler, passed or not, writes nothing.
LEMMA CheckKeepsMatch ==
  ASSUME TypeOK, RosterInductive, NEW r \in Requests, InFlight(r),
         ~At(r, "enrol"), ~At(r, "expel"),
         NEW pc, pc \notin {"enrol", "expel"},
         Refuse(r) \/ Continue(r, pc)
  PROVE  RosterInductive'
<1>1. CASE Refuse(r)
  <2>1. Idle.op = "idle" /\ Idle.pc \notin {"enrol", "expel"}
    BY DEF Idle
  <2> QED
    BY <1>1, <2>1, QuietStepKeepsMatch DEF Refuse, Answered
<1>2. CASE Continue(r, pc)
  <2> DEFINE q == [request[r] EXCEPT !.pc = pc]
  <2>1. request[r] \in Request
    BY AtStep
  <2>2. q.pc = pc /\ q.user = request[r].user
    BY <2>1 DEF Request
  <2>3. request' = [request EXCEPT ![r] = q] /\ UNCHANGED <<seat, members>>
    BY <1>2 DEF Continue, TypeOK
  <2>4. \A p \in Requests : InFlight(p) /\ p # r => request[p].user # request[r].user
    BY DEF RosterInductive, OnePerUser
  <2> HIDE DEF q
  <2> QED
    BY <2>2, <2>3, <2>4, QuietStepKeepsMatch
<1> QED
  BY <1>1, <1>2

\* Every database call keeps the match: each first write of a handler opens
\* its window and the second one closes it.
LEMMA WorkKeepsMatch ==
  ASSUME RosterAssumption, TypeOK, RosterInductive, NEW r \in Requests, Work(r)
  PROVE  RosterInductive'
<1> USE AtStep DEF JoinSteps, LeaveSteps, SwitchSteps
<1>0. Idle.op = "idle" /\ Idle.pc = "idle"
  BY DEF Idle
<1>1. CASE CheckFriendship(r) \/ CheckCapacity(r) \/ CheckNotSeated(r) \/ CheckBlocks(r)
  BY <1>1, CheckKeepsMatch DEF CheckFriendship, CheckCapacity, CheckNotSeated, CheckBlocks,
                               Check, InFlight, At
<1>2. CASE FindPlayer(r) \/ FindSwitcher(r)
  BY <1>2, CheckKeepsMatch DEF FindPlayer, FindSwitcher, Check, InFlight, At
<1>3. CASE ReadPlayers(r)
  <2> DEFINE q == [request[r] EXCEPT !.pc = "blocks", !.players = Seated]
  <2>1. request[r] \in Request /\ InFlight(r)
    BY <1>3 DEF ReadPlayers, InFlight
  <2>2. q.pc = "blocks" /\ q.user = request[r].user
    BY <2>1 DEF Request
  <2>3. /\ request' = [request EXCEPT ![r] = q] /\ UNCHANGED <<seat, members>>
        /\ ~At(r, "enrol") /\ ~At(r, "expel")
    BY <1>3 DEF ReadPlayers, TypeOK, At
  <2>4. \A p \in Requests : InFlight(p) /\ p # r => request[p].user # request[r].user
    BY <2>1 DEF RosterInductive, OnePerUser
  <2> HIDE DEF q
  <2> QED
    BY <2>2, <2>3, <2>4, QuietStepKeepsMatch
<1>4. CASE InsertPlayer(r)
  <2>1. request[r] \in Request /\ InFlight(r) /\ At(r, "insert")
    BY <1>4 DEF InsertPlayer, InFlight
  <2>2. CASE Refuse(r)
    BY <2>1, <2>2, CheckKeepsMatch DEF At
  <2>3. CASE seat[request[r].user] = NoTeam
    <3> SUFFICES ASSUME NEW u, u = request[r].user PROVE RosterInductive'
      OBVIOUS
    <3>1. request[r].team # NoTeam /\ u \in Users
      BY <2>1 DEF TypeOK, WellFormed, Idle, RosterAssumption, Request, At, InFlight
    <3>2. /\ seat' = [seat EXCEPT ![u] = request[r].team] /\ UNCHANGED members
      BY <1>4, <2>3 DEF InsertPlayer
    <3>3. /\ seat'[u] # NoTeam
          /\ \A v \in Users \ {u} : seat'[v] = seat[v]
      BY <3>1, <3>2 DEF TypeOK
    <3>4. u # Creator => u \notin members
      <4>1. \A p \in Requests : request[p].user = u /\ InFlight(p) => p = r
        BY <2>1 DEF RosterInductive, OnePerUser
      <4>2. ~Expelling(u)
        BY <2>1, <4>1 DEF Expelling, At, InFlight
      <4> QED
        BY <2>3, <3>1, <4>2 DEF RosterInductive, RosterMatchesChat
    <3>5. CASE u = Creator /\ Answered(r)
      BY <1>0, <2>1, <3>2, <3>3, <3>5, WriterKeepsMatch DEF Answered
    <3>6. CASE u # Creator /\ request' = [request EXCEPT ![r].pc = "enrol"]
      <4> DEFINE q == [request[r] EXCEPT !.pc = "enrol"]
      <4>1. q.pc = "enrol" /\ q.user = u
        BY <2>1 DEF Request
      <4>2. request' = [request EXCEPT ![r] = q]
        BY <3>6 DEF TypeOK
      <4> HIDE DEF q
      <4> QED
        BY <2>1, <3>2, <3>3, <3>4, <3>6, <4>1, <4>2, WriterKeepsMatch
    <3> QED
      BY <1>4, <2>3, <3>5, <3>6 DEF InsertPlayer
  <2> QED
    BY <1>4, <2>2, <2>3 DEF InsertPlayer
<1>5. CASE InsertMember(r)
  <2>1. /\ request[r] \in Request /\ InFlight(r) /\ At(r, "enrol")
        /\ UNCHANGED seat /\ Answered(r)
        /\ members' = members \cup {request[r].user}
    BY <1>5 DEF InsertMember, InFlight
  <2>2. seat'[request[r].user] # NoTeam
    BY <2>1 DEF RosterInductive, SeatWhileWriting
  <2> QED
    BY <1>0, <2>1, <2>2, WriterKeepsMatch DEF Answered
<1>6. CASE DeletePlayer(r)
  <2>1. request[r] \in Request /\ InFlight(r) /\ At(r, "vacate")
    BY <1>6 DEF DeletePlayer, InFlight
  <2>2. CASE Refuse(r)
    BY <2>1, <2>2, CheckKeepsMatch DEF At
  <2>3. CASE seat[request[r].user] # NoTeam
    <3> SUFFICES ASSUME NEW u, u = request[r].user PROVE RosterInductive'
      OBVIOUS
    <3>1. u \in Users
      BY <2>1 DEF Request
    <3>2. /\ seat' = [seat EXCEPT ![u] = NoTeam] /\ UNCHANGED members
          /\ request' = [request EXCEPT ![r].pc = "expel"]
      BY <1>6, <2>3 DEF DeletePlayer
    <3>3. /\ seat'[u] = NoTeam
          /\ \A v \in Users \ {u} : seat'[v] = seat[v]
      BY <3>1, <3>2 DEF TypeOK
    <3>4. u # Creator => u \in members
      <4>1. \A p \in Requests : request[p].user = u /\ InFlight(p) => p = r
        BY <2>1 DEF RosterInductive, OnePerUser
      <4>2. ~Enrolling(u)
        BY <2>1, <4>1 DEF Enrolling, At, InFlight
      <4> QED
        BY <2>3, <3>1, <4>2 DEF RosterInductive, RosterMatchesChat
    <3> DEFINE q == [request[r] EXCEPT !.pc = "expel"]
    <3>5. q.pc = "expel" /\ q.user = u
      BY <2>1 DEF Request
    <3>6. request' = [request EXCEPT ![r] = q]
      BY <3>2 DEF TypeOK
    <3> HIDE DEF q
    <3> QED
      BY <2>1, <3>2, <3>3, <3>4, <3>5, <3>6, WriterKeepsMatch
  <2> QED
    BY <1>6, <2>2, <2>3 DEF DeletePlayer
<1>7. CASE DeleteMember(r)
  <2>1. /\ request[r] \in Request /\ InFlight(r) /\ At(r, "expel")
        /\ UNCHANGED seat /\ Answered(r)
        /\ members' = members \ {request[r].user}
    BY <1>7 DEF DeleteMember, InFlight
  <2>2. seat'[request[r].user] = NoTeam
    BY <2>1 DEF RosterInductive, SeatWhileWriting
  <2> QED
    BY <1>0, <2>1, <2>2, WriterKeepsMatch DEF Answered
<1>8. CASE MovePlayer(r)
  <2>1. request[r] \in Request /\ InFlight(r) /\ At(r, "move")
    BY <1>8 DEF MovePlayer, InFlight
  <2>2. CASE Refuse(r)
    BY <2>1, <2>2, CheckKeepsMatch DEF At
  <2>3. CASE seat[request[r].user] # NoTeam
    <3> SUFFICES ASSUME NEW u, u = request[r].user PROVE RosterInductive'
      OBVIOUS
    <3>1. request[r].team # NoTeam /\ u \in Users
      BY <1>8, <2>1 DEF TypeOK, WellFormed, Idle, RosterAssumption, Request, At, InFlight, MovePlayer
    <3>2. /\ seat' = [seat EXCEPT ![u] = request[r].team] /\ UNCHANGED members
          /\ Answered(r)
      BY <1>8, <2>3 DEF MovePlayer
    <3>3. /\ seat'[u] # NoTeam
          /\ \A v \in Users \ {u} : seat'[v] = seat[v]
      BY <3>1, <3>2 DEF TypeOK
    <3>4. u # Creator => u \in members
      <4>1. \A p \in Requests : request[p].user = u /\ InFlight(p) => p = r
        BY <2>1 DEF RosterInductive, OnePerUser
      <4>2. ~Enrolling(u)
        BY <2>1, <4>1 DEF Enrolling, At, InFlight
      <4> QED
        BY <2>3, <3>1, <4>2 DEF RosterInductive, RosterMatchesChat
    <3> QED
      BY <1>0, <2>1, <3>2, <3>3, <3>4, WriterKeepsMatch DEF Answered
  <2> QED
    BY <1>8, <2>2, <2>3 DEF MovePlayer
<1> QED
  BY <1>1, <1>2, <1>3, <1>4, <1>5, <1>6, <1>7, <1>8 DEF Work

\* A user who waits has nothing in flight when the next request arrives.
LEMMA ArriveKeepsMatch ==
  ASSUME SingleFlight, TypeOK, RosterInductive, NEW r \in Requests, NEW u \in Users,
         NEW t, NEW o, NEW pc, pc \notin {"enrol", "expel"}, Arrive(r, o, pc, u, t)
  PROVE  RosterInductive'
<1> DEFINE q == [op |-> o, pc |-> pc, user |-> u, team |-> t,
                 limit |-> session.limit, players |-> {}]
<1>1. q.pc = pc /\ q.user = u
  OBVIOUS
<1>2. /\ request' = [request EXCEPT ![r] = q] /\ UNCHANGED <<seat, members>>
      /\ ~InFlight(r)
      /\ \A p \in Requests : InFlight(p) => request[p].user # u
  BY DEF Arrive, Free
<1>3. ~At(r, "enrol") /\ ~At(r, "expel")
  BY <1>2, AtStep DEF InFlight, JoinSteps, LeaveSteps
<1> HIDE DEF q
<1> QED
  BY <1>1, <1>2, <1>3, QuietStepKeepsMatch

\* The rest of the system writes neither a seat nor a membership.
LEMMA EnvironmentKeepsMatch ==
  ASSUME TypeOK, RosterInductive, Environment
  PROVE  RosterInductive'
<1>1. UNCHANGED <<seat, members, request>>
  BY DEF Environment, UpdateSession, SessionStarts, Befriend, Unfriend, Block, Unblock
<1> QED
  BY <1>1 DEF RosterInductive, OnePerUser, SeatWhileWriting, RosterMatchesChat,
              InFlight, At, Enrolling, Expelling

\* The creator is seated and in the conversation, and no one else is.
LEMMA InitMatch ==
  ASSUME RosterAssumption, Init
  PROVE  RosterInductive
  BY DEF Init, RosterInductive, OnePerUser, SeatWhileWriting, RosterMatchesChat,
         InFlight, At, Enrolling, Expelling, Idle

\* RosterInductive is inductive where users wait for their answers and no
\* await fails.
LEMMA NextKeepsMatch ==
  ASSUME RosterAssumption, SingleFlight, MaxFailures = 0,
         TypeOK, RosterInductive, [Next]_vars
  PROVE  RosterInductive'
<1>1. ASSUME NEW r \in Requests, NEW u \in Users, NEW t \in Teams, JoinArrives(r, u, t)
      PROVE  RosterInductive'
  BY <1>1, ArriveKeepsMatch DEF JoinArrives
<1>2. ASSUME NEW r \in Requests, NEW u \in Users, NEW t \in Teams, SwitchArrives(r, u, t)
      PROVE  RosterInductive'
  BY <1>2, ArriveKeepsMatch DEF SwitchArrives
<1>3. ASSUME NEW r \in Requests, NEW u \in Users, LeaveArrives(r, u)
      PROVE  RosterInductive'
  BY <1>3, ArriveKeepsMatch DEF LeaveArrives
<1>4. ASSUME NEW r \in Requests, AwaitFails(r)
      PROVE  RosterInductive'
  BY <1>4 DEF AwaitFails, TypeOK
<1>5. CASE UNCHANGED vars
  BY <1>5 DEF vars, RosterInductive, OnePerUser, SeatWhileWriting, RosterMatchesChat,
              InFlight, At, Enrolling, Expelling
<1> QED
  BY <1>1, <1>2, <1>3, <1>4, <1>5, WorkKeepsMatch, EnvironmentKeepsMatch DEF Next

\* For users who wait for their answers, and while no await fails, the session
\* and its conversation name the same people, the creator apart, whatever the
\* other users do between the two inserts of a join or the two deletes of a
\* leave: no transaction is needed as long as nothing fails.
THEOREM RosterAndChatAgree ==
  ASSUME SingleFlight, MaxFailures = 0
  PROVE  Spec => []RosterMatchesChat
<1> USE RosterAssumption
<1>1. Init => TypeOK /\ RosterInductive
  BY InitTypeOK, InitMatch
<1>2. TypeOK /\ RosterInductive /\ [Next]_vars => (TypeOK /\ RosterInductive)'
  BY NextTypeOK, NextKeepsMatch
<1>3. RosterInductive => RosterMatchesChat
  BY DEF RosterInductive
<1> QED
  BY <1>1, <1>2, <1>3, PTL DEF Spec

-----------------------------------------------------------------------------
(* Seen from outside, the handlers take and give up seats atomically.      *)

\* The conversation as the readers of the atomic roster see it.
SeenChat == (members \cup {u \in Users : Enrolling(u)}) \ {u \in Users : Expelling(u)}

\* A step of a request that is at neither write, before nor after, leaves
\* every window between two writes open or shut as it was.
LEMMA QuietWindows ==
  ASSUME TypeOK, NEW r \in Requests, NEW q, request' = [request EXCEPT ![r] = q],
         ~At(r, "enrol"), ~At(r, "expel"), q.pc \notin {"enrol", "expel"},
         UNCHANGED <<seat, members>>
  PROVE  UNCHANGED <<seat, SeenChat>>
<1>1. /\ \A p \in Requests : p # r => request'[p] = request[p]
      /\ request'[r] = q
  BY DEF TypeOK
<1>2. \A u : (Enrolling(u)' <=> Enrolling(u)) /\ (Expelling(u)' <=> Expelling(u))
  BY <1>1 DEF Enrolling, Expelling, At
<1> QED
  BY <1>2 DEF SeenChat

\* The only request of u opens and shuts the windows of u and no other's.
LEMMA OwnWindows ==
  ASSUME TypeOK, OnePerUser, NEW r \in Requests, InFlight(r),
         NEW q, request' = [request EXCEPT ![r] = q],
         q.pc \in {"enrol", "expel"} => q.user = request[r].user,
         NEW u, u = request[r].user
  PROVE  /\ Enrolling(u) <=> At(r, "enrol")
         /\ Expelling(u) <=> At(r, "expel")
         /\ Enrolling(u)' <=> q.pc = "enrol"
         /\ Expelling(u)' <=> q.pc = "expel"
         /\ \A v : v # u => /\ Enrolling(v)' <=> Enrolling(v)
                            /\ Expelling(v)' <=> Expelling(v)
<1>1. /\ \A p \in Requests : p # r => request'[p] = request[p]
      /\ request'[r] = q
  BY DEF TypeOK
<1>2. \A p \in Requests : InFlight(p) /\ p # r => request[p].user # u
  BY DEF OnePerUser
<1>3. \A p \in Requests : At(p, "enrol") \/ At(p, "expel") => InFlight(p)
  BY AtStep DEF InFlight, JoinSteps, LeaveSteps
<1>4. /\ Enrolling(u)' <=> q.pc = "enrol"
      /\ Expelling(u)' <=> q.pc = "expel"
  BY <1>1, <1>2, <1>3 DEF Enrolling, Expelling, At
<1>5. /\ Enrolling(u) <=> At(r, "enrol")
      /\ Expelling(u) <=> At(r, "expel")
  BY <1>2, <1>3 DEF Enrolling, Expelling
<1>6. ASSUME NEW v, v # u
      PROVE  /\ Enrolling(v)' <=> Enrolling(v)
             /\ Expelling(v)' <=> Expelling(v)
  BY <1>1, <1>6 DEF Enrolling, Expelling, At
<1> QED
  BY <1>4, <1>5, <1>6

\* A step of the atomic roster, or none.
RosterStep ==
  \/ \E u \in Users, t \in Teams :
       /\ seat[u] = NoTeam
       /\ seat' = [seat EXCEPT ![u] = t]
       /\ SeenChat' = IF u = Creator THEN SeenChat ELSE SeenChat \cup {u}
  \/ \E u \in Users, t \in Teams :
       /\ seat[u] # NoTeam
       /\ seat' = [seat EXCEPT ![u] = t]
       /\ SeenChat' = SeenChat
  \/ \E u \in Users :
       /\ seat[u] # NoTeam
       /\ seat' = [seat EXCEPT ![u] = NoTeam]
       /\ SeenChat' = SeenChat \ {u}
  \/ UNCHANGED <<seat, SeenChat>>

\* RosterStep is the next-state relation of the atomic roster.
LEMMA RosterStepIsNext == RosterStep <=> [Roster!Next]_(Roster!vars)
  BY DEF RosterStep, SeenChat, Roster!Next, Roster!vars, Roster!Join, Roster!Leave,
         Roster!Switch

\* A check of a handler, passed or not, is no step of the atomic roster.
LEMMA CheckIsQuiet ==
  ASSUME TypeOK, NEW r \in Requests, InFlight(r), ~At(r, "enrol"), ~At(r, "expel"),
         NEW pc, pc \notin {"enrol", "expel"}, Refuse(r) \/ Continue(r, pc)
  PROVE  UNCHANGED <<seat, SeenChat>>
<1>1. CASE Refuse(r)
  <2>1. Idle.pc \notin {"enrol", "expel"}
    BY DEF Idle
  <2> QED
    BY <1>1, <2>1, QuietWindows DEF Refuse, Answered
<1>2. CASE Continue(r, pc)
  <2> DEFINE q == [request[r] EXCEPT !.pc = pc]
  <2>1. q.pc = pc
    BY AtStep DEF Request
  <2>2. request' = [request EXCEPT ![r] = q] /\ UNCHANGED <<seat, members>>
    BY <1>2 DEF Continue, TypeOK
  <2> HIDE DEF q
  <2> QED
    BY <2>1, <2>2, QuietWindows
<1> QED
  BY <1>1, <1>2

\* The insert of the player is the join, the delete of the player the leave
\* and the update of the player the switch; the insert and the delete of the
\* membership make good what the readers already see.
LEMMA WorkIsAtomic ==
  ASSUME RosterAssumption, TypeOK, OnePerUser, SeatWhileWriting,
         NEW r \in Requests, Work(r)
  PROVE  RosterStep
<1> USE AtStep DEF JoinSteps, LeaveSteps, SwitchSteps
<1>0. Idle.pc = "idle"
  BY DEF Idle
<1>1. CASE CheckFriendship(r) \/ CheckCapacity(r) \/ CheckNotSeated(r) \/ CheckBlocks(r)
           \/ FindPlayer(r) \/ FindSwitcher(r)
  <2>1. UNCHANGED <<seat, SeenChat>>
    BY <1>1, CheckIsQuiet DEF CheckFriendship, CheckCapacity, CheckNotSeated, CheckBlocks,
                              FindPlayer, FindSwitcher, Check, InFlight, At
  <2> QED
    BY <2>1 DEF RosterStep
<1>2. CASE ReadPlayers(r)
  <2> DEFINE q == [request[r] EXCEPT !.pc = "blocks", !.players = Seated]
  <2>1. q.pc = "blocks"
    BY <1>2 DEF ReadPlayers, Request, InFlight
  <2>2. /\ request' = [request EXCEPT ![r] = q] /\ UNCHANGED <<seat, members>>
        /\ ~At(r, "enrol") /\ ~At(r, "expel")
    BY <1>2 DEF ReadPlayers, TypeOK, At
  <2> HIDE DEF q
  <2>3. UNCHANGED <<seat, SeenChat>>
    BY <2>1, <2>2, QuietWindows
  <2> QED
    BY <2>3 DEF RosterStep
<1>3. CASE InsertPlayer(r)
  <2>1. /\ request[r] \in Request /\ InFlight(r) /\ At(r, "insert")
        /\ request[r].team \in Teams
    BY <1>3 DEF InsertPlayer, InFlight, TypeOK, WellFormed, Idle
  <2>2. CASE Refuse(r)
    <3>1. UNCHANGED <<seat, SeenChat>>
      BY <2>1, <2>2, CheckIsQuiet DEF At
    <3> QED
      BY <3>1 DEF RosterStep
  <2>3. CASE seat[request[r].user] = NoTeam
    <3> SUFFICES ASSUME NEW u, u = request[r].user PROVE RosterStep
      OBVIOUS
    <3>1. u \in Users /\ ~At(r, "enrol") /\ ~At(r, "expel")
      BY <2>1 DEF Request, At
    <3>2. seat' = [seat EXCEPT ![u] = request[r].team] /\ UNCHANGED members
      BY <1>3, <2>3 DEF InsertPlayer
    <3>3. SeenChat' = IF u = Creator THEN SeenChat ELSE SeenChat \cup {u}
      <4>1. CASE u = Creator /\ Answered(r)
        <5>1. /\ ~Enrolling(u)' /\ ~Enrolling(u) /\ ~Expelling(u)' /\ ~Expelling(u)
              /\ \A v : v # u => /\ Enrolling(v)' <=> Enrolling(v)
                                 /\ Expelling(v)' <=> Expelling(v)
          BY <1>0, <2>1, <3>1, <4>1, OwnWindows DEF Answered
        <5> QED
          BY <3>2, <4>1, <5>1 DEF SeenChat
      <4>2. CASE u # Creator /\ request' = [request EXCEPT ![r].pc = "enrol"]
        <5> DEFINE q == [request[r] EXCEPT !.pc = "enrol"]
        <5>1. q.pc = "enrol" /\ q.user = u
          BY <2>1 DEF Request
        <5>2. request' = [request EXCEPT ![r] = q]
          BY <4>2 DEF TypeOK
        <5> HIDE DEF q
        <5>3. /\ Enrolling(u)' /\ ~Enrolling(u) /\ ~Expelling(u)' /\ ~Expelling(u)
              /\ \A v : v # u => /\ Enrolling(v)' <=> Enrolling(v)
                                 /\ Expelling(v)' <=> Expelling(v)
          BY <2>1, <3>1, <5>1, <5>2, OwnWindows
        <5> QED
          BY <3>1, <3>2, <4>2, <5>3 DEF SeenChat
      <4> QED
        BY <1>3, <2>3, <4>1, <4>2 DEF InsertPlayer
    <3> QED
      BY <2>1, <2>3, <3>1, <3>2, <3>3 DEF RosterStep
  <2> QED
    BY <1>3, <2>2, <2>3 DEF InsertPlayer
<1>4. CASE InsertMember(r)
  <2>1. /\ request[r] \in Request /\ InFlight(r) /\ At(r, "enrol") /\ ~At(r, "expel")
        /\ UNCHANGED seat /\ Answered(r)
        /\ members' = members \cup {request[r].user}
    BY <1>4 DEF InsertMember, InFlight, At
  <2> SUFFICES ASSUME NEW u, u = request[r].user PROVE RosterStep
    OBVIOUS
  <2>2. /\ ~Enrolling(u)' /\ Enrolling(u) /\ ~Expelling(u)' /\ ~Expelling(u)
        /\ \A v : v # u => /\ Enrolling(v)' <=> Enrolling(v)
                           /\ Expelling(v)' <=> Expelling(v)
    BY <1>0, <2>1, OwnWindows DEF Answered
  <2>3. u \in Users
    BY <2>1 DEF Request
  <2>4. SeenChat' = SeenChat
    BY <2>1, <2>2, <2>3 DEF SeenChat
  <2> QED
    BY <2>1, <2>4 DEF RosterStep
<1>5. CASE DeletePlayer(r)
  <2>1. request[r] \in Request /\ InFlight(r) /\ At(r, "vacate")
    BY <1>5 DEF DeletePlayer, InFlight
  <2>2. CASE Refuse(r)
    <3>1. UNCHANGED <<seat, SeenChat>>
      BY <2>1, <2>2, CheckIsQuiet DEF At
    <3> QED
      BY <3>1 DEF RosterStep
  <2>3. CASE seat[request[r].user] # NoTeam
    <3> SUFFICES ASSUME NEW u, u = request[r].user PROVE RosterStep
      OBVIOUS
    <3>1. u \in Users /\ ~At(r, "enrol") /\ ~At(r, "expel")
      BY <2>1 DEF Request, At
    <3>2. /\ seat' = [seat EXCEPT ![u] = NoTeam] /\ UNCHANGED members
          /\ request' = [request EXCEPT ![r].pc = "expel"]
      BY <1>5, <2>3 DEF DeletePlayer
    <3> DEFINE q == [request[r] EXCEPT !.pc = "expel"]
    <3>3. q.pc = "expel" /\ q.user = u
      BY <2>1 DEF Request
    <3>4. request' = [request EXCEPT ![r] = q]
      BY <3>2 DEF TypeOK
    <3> HIDE DEF q
    <3>5. /\ ~Enrolling(u)' /\ ~Enrolling(u) /\ Expelling(u)' /\ ~Expelling(u)
          /\ \A v : v # u => /\ Enrolling(v)' <=> Enrolling(v)
                             /\ Expelling(v)' <=> Expelling(v)
      BY <2>1, <3>1, <3>3, <3>4, OwnWindows
    <3>6. SeenChat' = SeenChat \ {u}
      BY <3>1, <3>2, <3>5 DEF SeenChat
    <3> QED
      BY <2>3, <3>1, <3>2, <3>6 DEF RosterStep
  <2> QED
    BY <1>5, <2>2, <2>3 DEF DeletePlayer
<1>6. CASE DeleteMember(r)
  <2>1. /\ request[r] \in Request /\ InFlight(r) /\ At(r, "expel") /\ ~At(r, "enrol")
        /\ UNCHANGED seat /\ Answered(r)
        /\ members' = members \ {request[r].user}
    BY <1>6 DEF DeleteMember, InFlight, At
  <2> SUFFICES ASSUME NEW u, u = request[r].user PROVE RosterStep
    OBVIOUS
  <2>2. /\ ~Enrolling(u)' /\ ~Enrolling(u) /\ ~Expelling(u)' /\ Expelling(u)
        /\ \A v : v # u => /\ Enrolling(v)' <=> Enrolling(v)
                           /\ Expelling(v)' <=> Expelling(v)
    BY <1>0, <2>1, OwnWindows DEF Answered
  <2>3. u \in Users
    BY <2>1 DEF Request
  <2>4. SeenChat' = SeenChat
    BY <2>1, <2>2, <2>3 DEF SeenChat
  <2> QED
    BY <2>1, <2>4 DEF RosterStep
<1>7. CASE MovePlayer(r)
  <2>1. request[r] \in Request /\ InFlight(r) /\ At(r, "move") /\ request[r].team \in Teams
    BY <1>7 DEF MovePlayer, InFlight, TypeOK, WellFormed, Idle
  <2>2. CASE Refuse(r)
    <3>1. UNCHANGED <<seat, SeenChat>>
      BY <2>1, <2>2, CheckIsQuiet DEF At
    <3> QED
      BY <3>1 DEF RosterStep
  <2>3. CASE seat[request[r].user] # NoTeam
    <3> SUFFICES ASSUME NEW u, u = request[r].user PROVE RosterStep
      OBVIOUS
    <3>1. u \in Users /\ ~At(r, "enrol") /\ ~At(r, "expel")
      BY <2>1 DEF Request, At
    <3>2. /\ seat' = [seat EXCEPT ![u] = request[r].team] /\ UNCHANGED members
          /\ Answered(r)
      BY <1>7, <2>3 DEF MovePlayer
    <3>3. /\ ~Enrolling(u)' /\ ~Enrolling(u) /\ ~Expelling(u)' /\ ~Expelling(u)
          /\ \A v : v # u => /\ Enrolling(v)' <=> Enrolling(v)
                             /\ Expelling(v)' <=> Expelling(v)
      BY <1>0, <2>1, <3>1, <3>2, OwnWindows DEF Answered
    <3>4. SeenChat' = SeenChat
      BY <3>2, <3>3 DEF SeenChat
    <3> QED
      BY <2>1, <2>3, <3>1, <3>2, <3>4 DEF RosterStep
  <2> QED
    BY <1>7, <2>2, <2>3 DEF MovePlayer
<1> QED
  BY <1>1, <1>2, <1>3, <1>4, <1>5, <1>6, <1>7 DEF Work

\* A request that arrives is at no write yet.
LEMMA ArriveIsQuiet ==
  ASSUME TypeOK, NEW r \in Requests, NEW u \in Users, NEW t, NEW o, NEW pc,
         pc \notin {"enrol", "expel"}, Arrive(r, o, pc, u, t)
  PROVE  UNCHANGED <<seat, SeenChat>>
<1> DEFINE q == [op |-> o, pc |-> pc, user |-> u, team |-> t,
                 limit |-> session.limit, players |-> {}]
<1>1. q.pc = pc
  OBVIOUS
<1>2. /\ request' = [request EXCEPT ![r] = q] /\ UNCHANGED <<seat, members>>
      /\ ~InFlight(r)
  BY DEF Arrive, Free
<1>3. ~At(r, "enrol") /\ ~At(r, "expel")
  BY <1>2, AtStep DEF InFlight, JoinSteps, LeaveSteps
<1> HIDE DEF q
<1> QED
  BY <1>1, <1>2, <1>3, QuietWindows

\* Every step is one step of the atomic roster or none, where no await fails.
LEMMA NextIsAtomic ==
  ASSUME RosterAssumption, MaxFailures = 0, TypeOK, OnePerUser, SeatWhileWriting,
         [Next]_vars
  PROVE  RosterStep
<1>1. ASSUME NEW r \in Requests, NEW u \in Users, NEW t \in Teams,
             JoinArrives(r, u, t) \/ SwitchArrives(r, u, t)
      PROVE  UNCHANGED <<seat, SeenChat>>
  BY <1>1, ArriveIsQuiet DEF JoinArrives, SwitchArrives
<1>2. ASSUME NEW r \in Requests, NEW u \in Users, LeaveArrives(r, u)
      PROVE  UNCHANGED <<seat, SeenChat>>
  BY <1>2, ArriveIsQuiet DEF LeaveArrives
<1>3. ASSUME NEW r \in Requests, AwaitFails(r)
      PROVE  FALSE
  BY <1>3 DEF AwaitFails, TypeOK
<1>4. CASE Environment
  <2>1. UNCHANGED <<seat, members, request>>
    BY <1>4 DEF Environment, UpdateSession, SessionStarts, Befriend, Unfriend, Block, Unblock
  <2> QED
    BY <2>1 DEF RosterStep, SeenChat, Enrolling, Expelling, At
<1>5. CASE UNCHANGED vars
  BY <1>5 DEF vars, RosterStep, SeenChat, Enrolling, Expelling, At
<1> QED
  BY <1>1, <1>2, <1>3, <1>4, <1>5, WorkIsAtomic DEF Next, RosterStep

\* The handlers implement the atomic roster: for users who wait for their
\* answers and awaits that do not fail, whoever reads the roster beside the
\* conversation sees a join, a leave or a switch happen at once, although
\* joinSession and leaveSession write the two tables one after the other.
THEOREM RosterIsAtomic ==
  ASSUME SingleFlight, MaxFailures = 0
  PROVE  Spec => ImplementsAtomicRoster
<1> USE RosterAssumption
<1>1. Init => TypeOK /\ RosterInductive
  BY InitTypeOK, InitMatch
<1>2. TypeOK /\ RosterInductive /\ [Next]_vars => (TypeOK /\ RosterInductive)'
  BY NextTypeOK, NextKeepsMatch
<1>3. Init => Roster!Init
  <2> SUFFICES ASSUME Init PROVE Roster!Init
    OBVIOUS
  <2>1. \A u : ~Enrolling(u) /\ ~Expelling(u)
    BY DEF Init, Enrolling, Expelling, At, Idle
  <2> QED
    BY <2>1 DEF Init, Roster!Init
<1>4. TypeOK /\ RosterInductive /\ [Next]_vars => [Roster!Next]_(Roster!vars)
  BY NextIsAtomic, RosterStepIsNext DEF RosterInductive
<1> QED
  BY <1>1, <1>2, <1>3, <1>4, PTL DEF Spec, ImplementsAtomicRoster, Roster!Spec

==============================================================================
