--------------------------------- MODULE Pages ---------------------------------
(***************************************************************************)
(* A client pages through one of the collections of the API while others   *)
(* change it.  Each service cuts its pages in its own way: the messages of *)
(* a conversation by the key of the last row shown, most collections by    *)
(* the uid of a row read beyond the page, the three suggestions by an      *)
(* offset into a ranking that is computed again for every page, and some   *)
(* never come to a second page.                                            *)
(*                                                                         *)
(* Rows are numbered; rows with equal sort keys are not told apart.        *)
(***************************************************************************)
EXTENDS Naturals, FiniteSets

CONSTANTS
  MaxRow,        \* how many rows there are
  Limits,        \* the limits a client may name
  DefaultLimit,  \* 10 in findAllByUserUid of the conversations
  MaxChanges,    \* how often others change the collection meanwhile
  MaxInvitations \* how many users may invite one friend to a session

PagesAssumption ==
  /\ MaxRow \in Nat \ {0}
  /\ Limits \subseteq Nat \ {0}
  /\ DefaultLimit \in Nat \ {0}
  /\ MaxChanges \in Nat
  /\ MaxInvitations \in Nat \ {0}

VARIABLES
  place,     \* where each row stands in the order the collection is sorted by
  state,     \* whether a row matches the filter, does not, or is deleted
  copies,    \* how often the query of the page gives the row
  scored,    \* the client has something suggestions can be ranked by
  reader,    \* the client and the request it has in flight
  shown,     \* history: how many pages have shown each row
  turns,     \* history: how many pages had a cursor for a next one
  steady,    \* history: the rows no change has touched
  jumped,    \* history: the row of a cursor has been moved
  changes    \* history: how many rows came, left and moved

vars == <<place, state, copies, scored, reader, shown, turns, steady, jumped, changes>>

-----------------------------------------------------------------------------
Rows == 1 .. MaxRow
None == 0      \* no cursor; no limit
Counter == 0 .. MaxChanges

\* Paged by a uid: of the row after the page, or for messages of its last.
Popped == {"conversations", "mySessions", "publicFields", "myFields", "friends"}
Ranked == {"sessions", "users", "fields"}
\* nextCursor is null, or the query of the second page is refused.
OnePage == {"notifications", "invitations"}
Refused == {"friendRequests", "partnerFields"}
Lists == {"messages"} \cup Popped \cup Ranked \cup OnePage \cup Refused

NewestFirst == {"messages", "conversations", "myFields", "notifications"}
Movable == {"conversations", "mySessions"} \cup Ranked
Deletable == {"users", "notifications"}

Reader ==
  [list : Lists, limit : Limits \cup {None}, cursor : Nat,
   pc : {"ask", "hydrate", "done", "failed"}, page : SUBSET Rows, beyond : SUBSET Rows]

Reading == reader.pc \in {"ask", "hydrate"}

Init ==
  /\ place = [x \in Rows |-> x]
  /\ state \in [Rows -> {"listed", "unlisted"}]
  /\ copies \in [Rows -> 1 .. MaxInvitations]
  /\ scored = TRUE
  /\ reader \in {[list |-> l, limit |-> n, cursor |-> None, pc |-> "ask",
                  page |-> {}, beyond |-> {}] : l \in Lists, n \in Limits \cup {None}}
  /\ (reader.limit = None => reader.list = "conversations")
  /\ (reader.list # "friends" => \A x \in Rows : copies[x] = 1)
  /\ shown = [x \in Rows |-> 0]
  /\ turns = 0
  /\ steady = {x \in Rows : state[x] = "listed"}
  /\ jumped = FALSE
  /\ changes = [came |-> 0, left |-> 0, moved |-> 0]

-----------------------------------------------------------------------------
(* What others do between two pages.                                       *)

MayChange ==
  /\ Reading
  /\ changes.came + changes.left + changes.moved < MaxChanges

\* The row is taken out, which closes its gap, and put in at place i.
MoveTo(x, i) ==
  LET closed == [y \in Rows |-> IF place[y] > place[x] THEN place[y] - 1 ELSE place[y]] IN
  [y \in Rows |-> IF y = x THEN i ELSE IF closed[y] >= i THEN closed[y] + 1 ELSE closed[y]]

\* A row is inserted, or comes to match the filter.
RowComes ==
  /\ MayChange
  /\ \E x \in Rows :
       /\ state[x] = "unlisted"
       /\ state' = [state EXCEPT ![x] = "listed"]
       /\ place' = IF reader.list \in NewestFirst THEN MoveTo(x, 1) ELSE place
       /\ steady' = steady \ {x}
       /\ jumped' = (jumped \/ (x = reader.cursor /\ place' # place))
  /\ changes' = [changes EXCEPT !.came = @ + 1]
  /\ UNCHANGED <<copies, scored, reader, shown, turns>>

\* A row no longer matches the filter, as a renamed field does not, or is
\* deleted.
RowLeaves ==
  /\ MayChange
  /\ reader.list # "messages"
  /\ \E x \in Rows :
       /\ state[x] = "listed"
       /\ \E s \in {"unlisted"} \cup (IF reader.list \in Deletable THEN {"gone"} ELSE {}) :
            state' = [state EXCEPT ![x] = s]
       /\ steady' = steady \ {x}
  /\ changes' = [changes EXCEPT !.left = @ + 1]
  /\ UNCHANGED <<place, copies, scored, reader, shown, turns, jumped>>

\* A message moves its conversation to the head, an update of the start moves
\* a session, and scores follow the clock.
RowMoves ==
  /\ MayChange
  /\ reader.list \in Movable
  /\ \E x \in Rows :
       /\ state[x] = "listed"
       /\ \E i \in IF reader.list = "conversations" THEN {1} ELSE Rows : place' = MoveTo(x, i)
       /\ place' # place
       /\ steady' = steady \ {x}
       /\ jumped' = (jumped \/ x = reader.cursor)
  /\ changes' = [changes EXCEPT !.moved = @ + 1]
  /\ UNCHANGED <<state, copies, scored, reader, shown, turns>>

\* The client drops the preferences its suggestions are ranked by.
CriteriaLost ==
  /\ Reading
  /\ scored
  /\ reader.list \in {"sessions", "users"}
  /\ scored' = FALSE
  /\ UNCHANGED <<place, state, copies, reader, shown, turns, steady, jumped, changes>>

\* A friend is invited to the session the client names, or no longer.
InvitationMoves ==
  /\ Reading
  /\ reader.list = "friends"
  /\ \E x \in Rows, n \in 1 .. MaxInvitations : copies' = [copies EXCEPT ![x] = n]
  /\ UNCHANGED <<place, state, scored, reader, shown, turns, steady, jumped, changes>>

-----------------------------------------------------------------------------
(* The pages.                                                              *)

IsListed(x) == state[x] = "listed"

Listed == {x \in Rows : IsListed(x)}
After(x) == {y \in Listed : place[y] > place[x]}
From(x) == {y \in Listed : place[y] >= place[x]}

\* The rows of a query, with a number to skip and one to take.
Before(x, rows) == Cardinality({y \in rows : place[y] < place[x]})
Cut(rows, skip, take) == {x \in rows : Before(x, rows) \in skip .. skip + take - 1}
RowAt(rows, n) == CHOOSE x \in rows : Before(x, rows) = n

\* The page is shown; next is the cursor it comes with.
Show(items, next) ==
  /\ shown' = [x \in Rows |-> shown[x] + IF x \in items THEN 1 ELSE 0]
  /\ reader' = [reader EXCEPT !.pc = IF next = None THEN "done" ELSE "ask",
                              !.cursor = IF next = None THEN @ ELSE next,
                              !.page = {}, !.beyond = {}]
  /\ turns' = turns + IF next = None THEN 0 ELSE 1
  /\ UNCHANGED <<place, state, copies, scored, steady, jumped, changes>>

\* The query of the page is refused.
Refuse ==
  /\ reader' = [reader EXCEPT !.pc = "failed"]
  /\ UNCHANGED <<place, state, copies, scored, shown, turns, steady, jumped, changes>>

Asks(lists) == reader.pc = "ask" /\ reader.list \in lists

\* Mutant: older than or as old as the cursor.
MessagesFromCursor ==
  LET rows == IF reader.cursor = None THEN Listed ELSE From(reader.cursor) IN
  /\ Asks({"messages"})
  /\ Show(Cut(rows, 0, reader.limit),
          IF Cardinality(rows) > reader.limit THEN RowAt(rows, reader.limit - 1) ELSE None)

\* Mutant: the cursor is the key of the row read beyond the page.
MessagesPopped ==
  LET rows == IF reader.cursor = None THEN Listed ELSE After(reader.cursor) IN
  /\ Asks({"messages"})
  /\ Show(Cut(rows, 0, reader.limit),
          IF Cardinality(rows) > reader.limit THEN RowAt(rows, reader.limit) ELSE None)

\* getMessages: the rows older than the key in the cursor, which is the key of
\* the last row shown.
MessagesPage ==
  LET rows == IF reader.cursor = None THEN Listed ELSE After(reader.cursor) IN
  /\ Asks({"messages"})
  /\ Show(Cut(rows, 0, reader.limit),
          IF Cardinality(rows) > reader.limit THEN RowAt(rows, reader.limit - 1) ELSE None)

\* A page, and the uid of the row that was read beyond it for a cursor.
PoppedPage(rows, skip) ==
  Show(Cut(rows, skip, reader.limit),
       IF Cardinality(rows) > skip + reader.limit
       THEN RowAt(rows, skip + reader.limit) ELSE None)

\* The rows from that of the cursor on, the first of them skipped.
UidPage ==
  IF reader.cursor = None THEN PoppedPage(Listed, 0) ELSE PoppedPage(From(reader.cursor), 1)

\* Mutant: the cursor is the last row shown, and two rows are skipped.
ConversationsPageSkips ==
  /\ Asks({"conversations"})
  /\ IF reader.limit = None THEN Show(Cut(Listed, 0, DefaultLimit), None)
     ELSE IF reader.cursor = None THEN PoppedPage(Listed, 0)
     ELSE PoppedPage(From(reader.cursor), 2)

\* findAllByUserUid of the conversations: without a limit exactly the default
\* number is read, so that there is never one beyond the page.
ConversationsPage ==
  /\ Asks({"conversations"})
  /\ IF reader.limit # None THEN UidPage
     ELSE Show(IF reader.cursor = None THEN Cut(Listed, 0, DefaultLimit)
               ELSE Cut(From(reader.cursor), 1, DefaultLimit), None)

MySessionsPage ==
  Asks({"mySessions"}) /\ UidPage

PublicFieldsPage ==
  Asks({"publicFields"}) /\ UidPage

MyFieldsPage ==
  Asks({"myFields"}) /\ UidPage

\* The session a client names is joined for its invitations but not for their
\* senders: a friend comes once for every invitation, and once for none.
Joined(rows) == {c \in rows \X (1 .. MaxInvitations) : c[2] <= copies[c[1]]}
Precedes(c, d) == place[c[1]] < place[d[1]] \/ (c[1] = d[1] /\ c[2] < d[2])
Ahead(c, joined) == Cardinality({d \in joined : Precedes(d, c)})

\* A page of what the join gives, and the uid of the friend popped for a cursor.
JoinedPage(rows) ==
  LET joined == Joined(rows) IN
  Show({c[1] : c \in {c \in joined : Ahead(c, joined) < reader.limit}},
       IF Cardinality(joined) > reader.limit
       THEN (CHOOSE c \in joined : Ahead(c, joined) = reader.limit)[1] ELSE None)

\* Mutant: the friends from that of the cursor on, for the one popped is next.
FriendsFromCursor ==
  /\ Asks({"friends"})
  /\ JoinedPage(IF reader.cursor = None THEN Listed ELSE From(reader.cursor))

\* findAllMyFriends: the friends whose uid is above that of the cursor.
FriendsPage ==
  /\ Asks({"friends"})
  /\ JoinedPage(IF reader.cursor = None THEN Listed ELSE After(reader.cursor))

\* findAllMyRequests: the condition on the cursor names a table the query does
\* not read.
FriendRequestsPage ==
  /\ Asks({"friendRequests"})
  /\ IF reader.cursor = None THEN PoppedPage(Listed, 0)
     ELSE Refuse

\* findAllByPartnerUid: the uid in the cursor is read as a number to skip.
PartnerFieldsPage ==
  /\ Asks({"partnerFields"})
  /\ IF reader.cursor = None THEN PoppedPage(Listed, 0)
     ELSE Refuse

\* findAllByUserUid of the notifications: limit rows are read and no more.
NotificationsPage == Asks({"notifications"}) /\ Show(Cut(Listed, 0, reader.limit), None)

\* findAllByReceiverId and findAllBySessionId: one row too many, and no cursor.
InvitationsPage == Asks({"invitations"}) /\ Show(Cut(Listed, 0, reader.limit + 1), None)

-----------------------------------------------------------------------------
(* The suggestions: a ranking of uids, then the rows of those uids.        *)

\* The ranking from the offset on.  With nothing to rank by the answer is an
\* empty page.
Rank(list) ==
  LET page == Cut(Listed, reader.cursor, reader.limit) IN
  /\ Asks({list})
  /\ IF ~scored \/ page = {} THEN Show({}, None)
     ELSE /\ reader' = [reader EXCEPT !.pc = "hydrate", !.page = page,
                          !.beyond = Cut(Listed, reader.cursor + reader.limit, 1)]
          /\ UNCHANGED <<place, state, copies, scored, shown, turns, steady, jumped, changes>>

RankSessions == Rank("sessions")
RankUsers == Rank("users")
RankFields == Rank("fields")

Exists(x) == state[x] # "gone"
Hydrates(list) == reader.pc = "hydrate" /\ reader.list = list

\* The cursor follows from the ranking, whatever rows are still there.
HydratePage ==
  Show({x \in reader.page : Exists(x)},
       IF reader.beyond # {} THEN reader.cursor + reader.limit ELSE None)

\* The row beyond the page is read again too, and looked for among those found.
HydrateFound ==
  LET items == {x \in reader.page \cup reader.beyond : Exists(x)}
      more == Cardinality(items) > reader.limit
  IN
  Show(IF more THEN reader.page ELSE items,
       IF more THEN reader.cursor + reader.limit ELSE None)

HydrateSessions == Hydrates("sessions") /\ HydratePage

\* Mutant: the cursor follows from the rows that are still there.
HydrateUsersThenCount == Hydrates("users") /\ HydrateFound

HydrateUsers == Hydrates("users") /\ HydratePage

\* findAll of the fields.
HydrateFields == Hydrates("fields") /\ HydrateFound

Next ==
  \/ RowComes \/ RowLeaves \/ RowMoves \/ CriteriaLost \/ InvitationMoves
  \/ MessagesPage \/ ConversationsPage \/ MySessionsPage \/ PublicFieldsPage \/ MyFieldsPage
  \/ FriendsPage \/ FriendRequestsPage \/ PartnerFieldsPage
  \/ NotificationsPage \/ InvitationsPage
  \/ RankSessions \/ RankUsers \/ RankFields
  \/ HydrateSessions \/ HydrateUsers \/ HydrateFields

Spec == Init /\ [][Next]_vars

-----------------------------------------------------------------------------
(* Properties.                                                             *)

\* No two rows stand at one place, and no more pages show a row than there were.
TypeOK ==
  /\ place \in [Rows -> Rows]
  /\ \A x, y \in Rows : place[x] = place[y] => x = y
  /\ state \in [Rows -> {"listed", "unlisted", "gone"}]
  /\ copies \in [Rows -> 1 .. MaxInvitations]
  /\ scored \in BOOLEAN
  /\ reader \in Reader
  /\ turns \in Nat
  /\ shown \in [Rows -> 0 .. turns + 1]
  /\ steady \in SUBSET {x \in Rows : state[x] = "listed"}
  /\ jumped \in BOOLEAN
  /\ changes \in [came : Counter, left : Counter, moved : Counter]

Done == reader.pc = "done"
Missed == {x \in steady : shown[x] = 0}
Repeated == {x \in steady : shown[x] > 1}

\* Paging through a conversation to its end shows every message that was there
\* from the start, and on one page, whatever is sent meanwhile (getMessages).
MessagesShownOnce ==
  Done /\ reader.list = "messages" => \A x \in steady : shown[x] = 1

\* A collection paged by uid loses a row at a page turn and nowhere else: a
\* reader who has named a limit and met no moved row misses at most one row for
\* every page after the first (the popped nextItem).
TurnLosesOne ==
  Done /\ reader.list \in Popped /\ reader.limit # None /\ changes.moved = 0
    => Cardinality(Missed) <= turns

\* A row that did not change is shown on a second page only when the row of a
\* cursor has been moved while it was one, as a new message does to its
\* conversation.  A friend whom several users have invited to the session comes
\* several times on one page, and is never split over two (findAllMyFriends).
RepeatsNeedMovedCursor ==
  reader.list \notin Ranked /\ Repeated # {} => jumped

\* A reader of suggestions misses at most as many rows as have left or moved,
\* and sees at most as many twice as have come or moved: the offset is never
\* off by more than the collection has changed.
OffsetDrift ==
  Done /\ reader.list \in Ranked /\ scored =>
    /\ Cardinality(Missed) <= changes.left + changes.moved
    /\ Cardinality(Repeated) <= changes.came + changes.moved

\* Each row is on one page, but for the losses and repeats that the four ways of
\* cutting pages are known for.
PagesShowRowsOnce ==
  MessagesShownOnce /\ TurnLosesOne /\ RepeatsNeedMovedCursor /\ OffsetDrift
=============================================================================
