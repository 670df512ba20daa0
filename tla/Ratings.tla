-------------------------------- MODULE Ratings --------------------------------
(***************************************************************************)
(* The ratings the players of one session give each other (RatingsService, *)
(* and checkIfUsersArePlayers and updateRatingStatus of                    *)
(* SessionPlayersService), while players sit down and leave.  The ratings  *)
(* and the status of the evaluator's seat are written in one transaction,  *)
(* whose statements are steps: others see nothing of it until the last.    *)
(* The notes of a rating are one value here.                               *)
(***************************************************************************)
EXTENDS Naturals, FiniteSets, Sequences, SequencesExt

CONSTANTS
  Users,        \* those who play
  Notes,        \* what a rating may say
  NoNote,       \* "there is no such row"
  Lists,        \* the lists of ratings that are sent
  Requests,     \* the requests the server may be working on at one time
  MaxFailures   \* how many awaits may fail

RatingsAssumption ==
  /\ NoNote \notin Notes
  /\ Lists \subseteq Seq([evaluated : Users, note : Notes])
  /\ MaxFailures \in Nat

VARIABLES
  seat,       \* Session_players: the ratingStatus by user, or "none"
  rating,     \* User_ratings: the notes by evaluator and evaluated
  over,       \* the session has ended
  request,    \* what each request in flight is doing
  reseated,   \* history: who has sat down again since rating anybody
  failures    \* how many awaits have failed

vars == <<seat, rating, over, request, reseated, failures>>

-----------------------------------------------------------------------------
Steps == {"check", "insert", "find", "mark", "commit"}

Idle == [pc |-> "idle"]

\* rows are those the open transaction has inserted; met says that all whom
\* the list names have been seated at one moment since it came.
Request == [pc : Steps, by : Users, list : Lists, rows : SUBSET Users, met : BOOLEAN]

At(r, pc) == request[r].pc = pc
InFlight(r) == request[r] # Idle

\* userUids of createMany: everyone evaluated, and the evaluator.
UserUids(q) == Append([i \in DOMAIN q.list |-> q.list[i].evaluated], q.by)
Seated(s) == {u \in Users : s[u] # "none"}
AllSeated(q, s) == ToSet(UserUids(q)) \subseteq Seated(s)

Init ==
  /\ seat \in [Users -> {"none", "unrated"}]
  /\ rating = [p \in Users \X Users |-> NoNote]
  /\ over = FALSE
  /\ request = [r \in Requests |-> Idle]
  /\ reseated = {}
  /\ failures = 0

-----------------------------------------------------------------------------
data == <<seat, rating, over>>

Become(r, q) == request' = [request EXCEPT ![r] = q]
Goto(r, pc) == request' = [request EXCEPT ![r].pc = pc]
Refuse(r) == Become(r, Idle) /\ UNCHANGED <<data, reseated, failures>>

\* POST ratings/:sessionUid, and the first half of verifyBeforeCreate.
RatingsArrive(r, u, list) ==
  LET q == [pc |-> "check", by |-> u, list |-> list, rows |-> {}, met |-> FALSE] IN
  /\ ~InFlight(r)
  /\ ~over
  /\ Become(r, [q EXCEPT !.met = AllSeated(q, seat)])
  /\ UNCHANGED <<data, reseated, failures>>

\* Mutant: the users are compared as sets.
CheckDistinctPlayers(r) ==
  /\ At(r, "check")
  /\ IF AllSeated(request[r], seat)
     THEN Goto(r, "insert") /\ UNCHANGED <<data, reseated, failures>>
     ELSE Refuse(r)

\* Mutant: it is enough to find some of them.
CheckSomePlayers(r) ==
  LET uids == UserUids(request[r]) IN
  /\ At(r, "check")
  /\ IF ToSet(uids) \cap Seated(seat) # {} /\ IsInjective(uids)
     THEN Goto(r, "insert") /\ UNCHANGED <<data, reseated, failures>>
     ELSE Refuse(r)

\* checkIfUsersArePlayers: as many players as uids, so that whoever is named
\* twice, or rates himself, is refused with the rest.
CheckPlayers(r) ==
  LET uids == UserUids(request[r]) IN
  /\ At(r, "check")
  /\ IF Cardinality(ToSet(uids) \cap Seated(seat)) = Len(uids)
     THEN Goto(r, "insert") /\ UNCHANGED <<data, reseated, failures>>
     ELSE Refuse(r)

\* The rows of u that another transaction has inserted and not committed.
Held(r, u) ==
  UNION {request[p].rows : p \in {p \in Requests \ {r} : InFlight(p) /\ request[p].by = u}}

\* createMany skips the rows that are there, after waiting for whoever is
\* inserting one of them.
InsertRatings(r) ==
  LET q == request[r]
      evaluated == {q.list[i].evaluated : i \in DOMAIN q.list}
  IN
  /\ At(r, "insert")
  /\ evaluated \cap Held(r, q.by) = {}
  /\ Become(r, [q EXCEPT !.pc = "find",
                         !.rows = {v \in evaluated : rating[<<q.by, v>>] = NoNote}])
  /\ UNCHANGED <<data, reseated, failures>>

\* The rating table once the transaction of q is committed.
Rated(q) ==
  [p \in Users \X Users |->
     IF p[1] = q.by /\ p[2] \in q.rows
     THEN q.list[CHOOSE i \in DOMAIN q.list : q.list[i].evaluated = p[2]].note
     ELSE rating[p]]

\* Mutant: the ratings are inserted outside of the transaction.
FindSeatLate(r) ==
  LET q == request[r] IN
  /\ At(r, "find")
  /\ rating' = Rated(q)
  /\ Become(r, IF seat[q.by] = "unrated" THEN [q EXCEPT !.pc = "mark", !.rows = {}] ELSE Idle)
  /\ UNCHANGED <<seat, over, reseated, failures>>

\* updateRatingStatus: without a seat it throws, and with one that has the
\* status already there is nothing left to do but commit.
FindSeat(r) ==
  LET s == seat[request[r].by] IN
  /\ At(r, "find")
  /\ IF s = "none" THEN Refuse(r)
     ELSE /\ Goto(r, IF s = "rated" THEN "commit" ELSE "mark")
          /\ UNCHANGED <<data, reseated, failures>>

CommitRatings(r) ==
  /\ At(r, "commit")
  /\ rating' = Rated(request[r])
  /\ Become(r, Idle)
  /\ UNCHANGED <<seat, over, reseated, failures>>

\* The update throws when the seat is gone; a new one of the user is as good.
MarkSeat(r) ==
  LET q == request[r] IN
  /\ At(r, "mark")
  /\ IF seat[q.by] = "none" THEN Refuse(r)
     ELSE /\ seat' = [seat EXCEPT ![q.by] = "rated"]
          /\ rating' = Rated(q)
          /\ reseated' = reseated \ {q.by}
          /\ Become(r, Idle)
          /\ UNCHANGED <<over, failures>>

-----------------------------------------------------------------------------
(* What the rest of the system does meanwhile.                             *)

Observe(s) ==
  request' = [r \in Requests |->
    IF InFlight(r) /\ AllSeated(request[r], s)
    THEN [request[r] EXCEPT !.met = TRUE] ELSE request[r]]

\* joinSession.
Sit(u) ==
  /\ seat[u] = "none"
  /\ seat' = [seat EXCEPT ![u] = "unrated"]
  /\ reseated' = reseated \cup {u}
  /\ Observe(seat')
  /\ UNCHANGED <<rating, over, failures>>

\* leaveSession; the status goes with the row.
Rise(u) ==
  /\ seat[u] # "none"
  /\ seat' = [seat EXCEPT ![u] = "none"]
  /\ UNCHANGED <<rating, over, request, reseated, failures>>

SessionEnds ==
  /\ ~over
  /\ over' = TRUE
  /\ UNCHANGED <<seat, rating, request, reseated, failures>>

\* An await of the request rejects; an open transaction leaves nothing behind.
AwaitFails(r) ==
  /\ InFlight(r)
  /\ failures < MaxFailures
  /\ failures' = failures + 1
  /\ Become(r, Idle)
  /\ UNCHANGED <<data, reseated>>

Work(r) ==
  \/ CheckPlayers(r) \/ InsertRatings(r) \/ FindSeat(r) \/ CommitRatings(r) \/ MarkSeat(r)
  \/ AwaitFails(r)

Next ==
  \/ \E r \in Requests :
       \/ \E u \in Users, list \in Lists : RatingsArrive(r, u, list)
       \/ Work(r)
  \/ \E u \in Users : Sit(u) \/ Rise(u)
  \/ SessionEnds

Spec == Init /\ [][Next]_vars

-----------------------------------------------------------------------------
(* Properties.                                                             *)

\* Seats, rows and requests keep their types.
TypeOK ==
  /\ seat \in [Users -> {"none", "unrated", "rated"}]
  /\ rating \in [Users \X Users -> Notes \cup {NoNote}]
  /\ over \in BOOLEAN
  /\ request \in [Requests -> Request \cup {Idle}]
  /\ reseated \subseteq Users
  /\ failures \in 0 .. MaxFailures

\* Whoever has rated somebody is not asked to rate again, unless he has left
\* the session and sat down once more: ratings never come without the status
\* of the evaluator's seat, whatever fails in between and however many lists
\* he sends at once (the transaction of createMany).
RatersAreValidated ==
  \A u \in Seated(seat) :
    (\E v \in Users : rating[<<u, v>>] # NoNote) /\ u \notin reseated => seat[u] = "rated"

\* A rating is stored for people who were all players at one moment while the
\* request was there, although they may have left when it is stored, it never
\* replaces an earlier one, and nobody rates himself, which only the count of
\* players keeps him from (checkIfUsersArePlayers, skipDuplicates).
PlayersRatePlayers ==
  [][\A u, v \in Users :
       rating'[<<u, v>>] # rating[<<u, v>>] =>
         /\ rating[<<u, v>>] = NoNote /\ u # v
         /\ \E r \in Requests :
              /\ InFlight(r) /\ request[r].met
              /\ {u, v} \subseteq ToSet(UserUids(request[r]))]_vars

\* Ratings are made by players of players, and mark who has made them.
RatingsAreEarned == []RatersAreValidated /\ PlayersRatePlayers
================================================================================
