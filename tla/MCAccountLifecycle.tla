-------------------------- MODULE MCAccountLifecycle --------------------------
(***************************************************************************)
(* Small instances of AccountLifecycle, Preferences and Ratings for TLC.   *)
(* What users prefer, how they rate each other and whether an account is   *)
(* to be deleted are rows no two of which one handler writes, so that each *)
(* behaviour moves one of the three.                                       *)
(***************************************************************************)
EXTENDS AccountLifecycle, Sequences, TLC

CONSTANTS
  ana, bob, x, y, m, n, Requests,
  Sports, GameModes, SportLists, Days, Dates, DayOf, HourLists, PreferenceFailures,
  Raters, Notes, NoNote, RatingLists, RatingFailures

VARIABLES
  part,
  sports, modes, hours, request, preferred, prefFailures,
  seat, rating, over, sending, reseated, ratingFailures

preferenceVars == <<sports, modes, hours, request, preferred, prefFailures>>
ratingVars == <<seat, rating, over, sending, reseated, ratingFailures>>

\* One sport with some of its modes, two sports, and a sport sent twice.
Lists ==
  {<<[sport |-> x, modes |-> {m, n}]>>, <<[sport |-> x, modes |-> {m}]>>,
   <<[sport |-> x, modes |-> {n}], [sport |-> y, modes |-> {m}]>>,
   <<[sport |-> x, modes |-> {m}], [sport |-> x, modes |-> {n}]>>}

\* A Monday, and whatever lists of at most two hours there are.
Hours == {[type |-> "RECURRENT", on |-> "mon"], [type |-> "ONE_TIME", on |-> "d1"]}
ShortLists == UNION {[1 .. k -> Hours] : k \in 0 .. 2}
IsMonday == "d1" :> "mon"

Preferred == INSTANCE Preferences WITH
  MaxFailures <- PreferenceFailures, asked <- preferred, failures <- prefFailures

\* Nobody has paid, or ana has.
NoneOrAna == {{}, {ana}}

\* One rating of two kinds, and one user named twice; the evaluator may be
\* either, so that one list is of himself.
ListsOfRatings ==
  {<<[evaluated |-> ana, note |-> "good"]>>, <<[evaluated |-> ana, note |-> "bad"]>>,
   <<[evaluated |-> ana, note |-> "good"], [evaluated |-> ana, note |-> "bad"]>>}

Rating == INSTANCE Ratings WITH
  Users <- Raters, Lists <- RatingLists, MaxFailures <- RatingFailures,
  request <- sending, failures <- ratingFailures

PartsInit ==
  /\ part \in {"account", "preferences", "ratings"}
  /\ Init
  /\ Preferred!Init
  /\ Rating!Init
  /\ part # "ratings" => seat = [u \in Raters |-> "none"]

PartsNext ==
  \/ part = "account" /\ Next /\ UNCHANGED <<part, preferenceVars, ratingVars>>
  \/ part = "preferences" /\ Preferred!Next /\ UNCHANGED <<part, vars, ratingVars>>
  \/ part = "ratings" /\ Rating!Next /\ UNCHANGED <<part, vars, preferenceVars>>

\* What is promised for the end is promised of the accounts only.
PartsSpec ==
  /\ PartsInit /\ [][PartsNext]_<<part, vars, preferenceVars, ratingVars>>
  /\ WF_vars(Midnight) /\ WF_vars(JobStep) /\ WF_vars(PurgeAnonymizedUsers)

\* Lists of preferences are saved as a whole (SportPreferencesService,
\* HourPreferencesService).
ListsStayWhole == Preferred!ListsStayWhole

\* Players rate players, and are marked as having done so (createMany).
RatingsAreEarned == Rating!RatingsAreEarned

\* What the two modules take for granted of these instances.
ASSUME PartsAssumption ==
  /\ Preferred!PreferencesAssumption
  /\ Preferred!HourListsAssumption
  /\ Rating!RatingsAssumption
=============================================================================
