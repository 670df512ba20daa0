------------------------------ MODULE Preferences ------------------------------
(***************************************************************************)
(* The sports and the hours one user prefers (SportPreferencesService,     *)
(* HourPreferencesService).  A list is replaced by clearing the old one,   *)
(* two statements for the sports and their game modes and one for the      *)
(* hours, and inserting the new one in a transaction of its own.           *)
(***************************************************************************)
EXTENDS Naturals, Sequences, FiniteSets

CONSTANTS
  Sports,      \* the sports
  GameModes,   \* the game modes
  SportLists,  \* the lists of sports a client may send, each with its modes
  Days,        \* the days of the week
  Dates,       \* the dates of preferences for one time
  DayOf,       \* the day of the week of a date
  HourLists,   \* the lists of hours a client may send
  Requests,    \* the requests the server may be working on at one time
  MaxFailures  \* how many awaits may fail

PreferencesAssumption ==
  /\ SportLists \subseteq Seq([sport : Sports, modes : SUBSET GameModes])
  /\ DayOf \in [Dates -> Days]
  /\ MaxFailures \in Nat

VARIABLES
  sports,   \* User_sports: the sports of the user
  modes,    \* User_game_mode_preferences, each a sport and a mode
  hours,    \* User_hour_preferences: how many rows there are of each
  request,  \* what each request in flight is doing
  asked,    \* history: the modes that came along with a sport
  failures  \* how many awaits have failed

vars == <<sports, modes, hours, request, asked, failures>>

-----------------------------------------------------------------------------
\* The time periods of a day are all alike, and so one of them will do.
Hour == [type : {"RECURRENT"}, on : Days] \cup [type : {"ONE_TIME"}, on : Dates]

HourListsAssumption == HourLists \subseteq Seq(Hour)

Idle == [pc |-> "idle"]
NoList == <<>>      \* of a DELETE

\* list is a list of sports or what a list of hours comes to; alone is lost to
\* any other request about the same kind of preference.
Steps == {"clear sports", "clear modes", "insert sports", "clear hours", "insert hours"}
Request ==
  [pc : Steps, list : SportLists \cup {NoList} \cup [Hour -> Nat], only : BOOLEAN,
   alone : BOOLEAN]

InFlight(r) == request[r] # Idle
At(r, pc) == request[r].pc = pc
AboutSports(r) == request[r].pc \in {"clear sports", "clear modes", "insert sports"}
AboutHours(r) == request[r].pc \in {"clear hours", "insert hours"}

SportsOf(list) == {list[i].sport : i \in DOMAIN list}
ModesOf(list) == UNION {{list[i].sport} \X list[i].modes : i \in DOMAIN list}
ModesIn(rows, s) == {g \in GameModes : <<s, g>> \in rows}
Repeats(list) == Cardinality(SportsOf(list)) < Len(list)

Init ==
  /\ sports = {}
  /\ modes = {}
  /\ hours = [h \in Hour |-> 0]
  /\ request = [r \in Requests |-> Idle]
  /\ asked = [s \in Sports |-> {}]
  /\ failures = 0

-----------------------------------------------------------------------------
(* validateHourPreferences.                                                *)

\* The preference k makes h superfluous.
Covers(k, h) ==
  \/ k = h
  \/ k.type = "RECURRENT" /\ h.type = "ONE_TIME" /\ k.on = DayOf[h.on]

\* The sort: recurrent preferences first, those of one type as they came.
Before(list, j, i) ==
  IF list[j].type = list[i].type THEN j < i ELSE list[j].type = "RECURRENT"

\* Mutant: the preferences are taken in the order they come in.
KeptUnsorted(list) ==
  {i \in DOMAIN list : \A j \in DOMAIN list : j < i => ~Covers(list[j], list[i])}

\* The loop: a preference is pushed unless one before it covers it.  Should that
\* one have been skipped, what covers it covers this one as well.
Kept(list) ==
  {i \in DOMAIN list : \A j \in DOMAIN list : Before(list, j, i) => ~Covers(list[j], list[i])}

\* How many rows a list makes of each hour.
Valid(list) == [h \in Hour |-> Cardinality({i \in Kept(list) : list[i] = h})]

-----------------------------------------------------------------------------
table == <<sports, modes, hours>>
Goto(r, pc) == request' = [request EXCEPT ![r].pc = pc]
Answer(r) == request' = [request EXCEPT ![r] = Idle]

Arrive(r, pc, list, only, others) ==
  /\ ~InFlight(r)
  /\ request' = [p \in Requests |->
       IF p = r THEN [pc |-> pc, list |-> list, only |-> only, alone |-> others = {}]
       ELSE IF p \in others THEN [request[p] EXCEPT !.alone = FALSE] ELSE request[p]]
  /\ UNCHANGED <<table, asked, failures>>

\* PUT of the sports, or DELETE (only).
SportsArrive(r, list, only) ==
  Arrive(r, "clear sports", list, only, {p \in Requests : AboutSports(p)})

\* PUT of the hours, validated before anything else, or DELETE.
HoursArrive(r, list, only) ==
  Arrive(r, "clear hours", Valid(list), only, {p \in Requests : AboutHours(p)})

\* Mutant: the rows are updated and never removed.
ClearNoSports(r) ==
  /\ At(r, "clear sports")
  /\ Goto(r, "clear modes")
  /\ UNCHANGED <<table, asked, failures>>

\* The first deleteMany; the modes of the sports go with them (onDelete: Cascade).
ClearSports(r) ==
  /\ At(r, "clear sports")
  /\ sports' = {}
  /\ modes' = {m \in modes : m[1] \notin sports}
  /\ Goto(r, "clear modes")
  /\ UNCHANGED <<hours, asked, failures>>

\* The second one, which may find the modes of a list inserted meanwhile; then
\* a sport that is there twice is refused, the old list being lost.
ClearModes(r) ==
  LET q == request[r] IN
  /\ At(r, "clear modes")
  /\ modes' = {}
  /\ IF q.only \/ Repeats(q.list) THEN Answer(r) ELSE Goto(r, "insert sports")
  /\ UNCHANGED <<sports, hours, asked, failures>>

\* Mutant: the keys of the tables are not unique, so an insert adds its modes.
InsertSportsMerging(r) ==
  LET list == request[r].list IN
  /\ At(r, "insert sports")
  /\ sports' = sports \cup SportsOf(list)
  /\ modes' = modes \cup ModesOf(list)
  /\ asked' = [s \in Sports |-> IF s \in SportsOf(list) \ sports
                                THEN ModesIn(ModesOf(list), s)
                                ELSE asked[s]]
  /\ Answer(r)
  /\ UNCHANGED <<hours, failures>>

\* The transaction; a sport that is there by now rolls it back (P2002).
InsertSports(r) ==
  LET list == request[r].list IN
  /\ At(r, "insert sports")
  /\ IF SportsOf(list) \cap sports # {}
     THEN UNCHANGED <<sports, modes, asked>>
     ELSE /\ sports' = sports \cup SportsOf(list)
          /\ modes' = modes \cup ModesOf(list)
          /\ asked' = [s \in Sports |-> IF s \in SportsOf(list)
                                        THEN ModesIn(ModesOf(list), s)
                                        ELSE asked[s]]
  /\ Answer(r)
  /\ UNCHANGED <<hours, failures>>

ClearHours(r) ==
  /\ At(r, "clear hours")
  /\ hours' = [h \in Hour |-> 0]
  /\ IF request[r].only THEN Answer(r) ELSE Goto(r, "insert hours")
  /\ UNCHANGED <<sports, modes, asked, failures>>

\* Nothing is unique here.
InsertHours(r) ==
  /\ At(r, "insert hours")
  /\ hours' = [h \in Hour |-> hours[h] + request[r].list[h]]
  /\ Answer(r)
  /\ UNCHANGED <<sports, modes, asked, failures>>

\* An await rejects: a transaction is rolled back, what was cleared stays so.
AwaitFails(r) ==
  /\ InFlight(r)
  /\ failures < MaxFailures
  /\ failures' = failures + 1
  /\ Answer(r)
  /\ UNCHANGED <<table, asked>>

Work(r) ==
  \/ ClearSports(r) \/ ClearModes(r) \/ InsertSports(r) \/ ClearHours(r) \/ InsertHours(r)

Next ==
  \E r \in Requests :
    \/ Work(r) \/ AwaitFails(r)
    \/ \E list \in SportLists : SportsArrive(r, list, FALSE)
    \/ \E list \in HourLists : HoursArrive(r, list, FALSE)
    \/ SportsArrive(r, NoList, TRUE) \/ HoursArrive(r, NoList, TRUE)

Spec == Init /\ [][Next]_vars

-----------------------------------------------------------------------------
(* Properties.                                                             *)

\* The rows and the requests keep their types, and a mode has its sport.
TypeOK ==
  /\ sports \subseteq Sports
  /\ modes \subseteq sports \X GameModes
  /\ hours \in [Hour -> Nat]
  /\ request \in [Requests -> Request \cup {Idle}]
  /\ \A r \in Requests :
       /\ AboutSports(r) => request[r].list \in SportLists \cup {NoList}
       /\ AboutHours(r) => request[r].list \in [Hour -> Nat]
       /\ At(r, "insert sports") => ~Repeats(request[r].list)
  /\ asked \in [Sports -> SUBSET GameModes]
  /\ failures \in 0 .. MaxFailures

\* However two lists are saved at once, a sport has the modes that came along
\* with it or none at all, when the second statement of a clear has come late:
\* never some of them, nor those of another list.
ModesComeTogether ==
  \A s \in sports : LET mine == ModesIn(modes, s) IN mine = {} \/ mine = asked[s]

\* A list of sports that is saved with no other at work leaves just what it
\* says, whatever earlier lists have left behind.
SportsAreReplaced ==
  [][\A r \in Requests :
       At(r, "insert sports") /\ request[r].alone /\ failures' = failures /\ ~InFlight(r)' =>
         sports' = SportsOf(request[r].list) /\ modes' = ModesOf(request[r].list)]_vars

\* None that is stored is there twice or makes another superfluous.
Settled(rows) ==
  \A h \in Hour :
    /\ rows[h] <= 1
    /\ \A k \in Hour \ {h} : rows[h] = 0 \/ rows[k] = 0 \/ ~Covers(k, h)

\* A list of hours that is saved with no other at work leaves no preference
\* that another makes superfluous, in whatever order the list came.
HoursAreSettled ==
  [][\A r \in Requests :
       At(r, "insert hours") /\ request[r].alone /\ failures' = failures /\ ~InFlight(r)' =>
         Settled(hours')]_vars

\* A list is saved as a whole, as far as statements that are in no transaction
\* can do it (SportPreferencesService, HourPreferencesService).
ListsStayWhole == []ModesComeTogether /\ SportsAreReplaced /\ HoursAreSettled
=============================================================================
