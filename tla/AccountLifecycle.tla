--------------------------- MODULE AccountLifecycle ---------------------------
(***************************************************************************)
(* The end of an account: its owner asks for the deletion (UsersService),  *)
(* may think better of it, and the jobs of midnight (UserLifecycleService) *)
(* anonymize the accounts whose retraction period is over and purge, years *)
(* later, what is left of them.                                            *)
(*                                                                         *)
(* deletionRequest and cancelDeletionRequest are one updateMany each, so   *)
(* they are one action.  The job lists the accounts once and then takes    *)
(* them one by one, each in a transaction whose reads are not repeatable:  *)
(* an owner may cancel, and ask again, between any two of its statements.  *)
(*                                                                         *)
(* The avatar is left out: deleteFile is called with the URL of the file,  *)
(* which no key of the bucket is equal to, and deletes nothing.            *)
(***************************************************************************)
EXTENDS Integers, FiniteSets

CONSTANTS
  Users,        \* the users
  AppleUsers,   \* those who have signed up with Apple and have a token of it
  PayerSets,    \* who may have rows in Payments
  Grace,        \* the midnights an account has after a request (30 days)
  Retention,    \* the midnights an anonymized row is kept for (2 years)
  None,         \* deletedAt is null
  Gone,         \* there is no row
  MaxFailures   \* how many awaits may fail, and crashes happen

ASSUME LifecycleAssumption ==
  /\ AppleUsers \subseteq Users
  /\ PayerSets \subseteq SUBSET Users
  /\ Grace \in Nat \ {0}
  /\ Retention \in Nat
  /\ None \notin Int \cup Users
  /\ MaxFailures \in Nat

VARIABLES
  account,   \* Users: deletedAt and isAnonymized by uid
  payers,    \* the users Payments refers to
  revoked,   \* the users whose token Apple has revoked
  job,       \* what anonymizeExpiredUsers is doing
  purging,   \* purgeAnonymizedUsers has its statement before it
  overdue,   \* history: whose deletedAt had come at midnight
  asked,     \* history: the user at hand has had a deletedAt since findUnique
  failures   \* how many awaits have failed

vars == <<account, payers, revoked, job, purging, overdue, asked, failures>>

-----------------------------------------------------------------------------
(* deletedAt is the number of midnights until the job takes notice of it;  *)
(* days past the last one that matters are not told apart.                 *)

Oldest == -Retention - 1
Date == Oldest..Grace

Row == [deletedAt : Date \cup {None}, isAnonymized : BOOLEAN]

Exists(u) == account[u] # Gone
Marked(u) == Exists(u) /\ account[u].deletedAt # None
Passed(u, days) == Marked(u) /\ account[u].deletedAt <= -days
Anonymized(u) == Exists(u) /\ account[u].isAnonymized

JobSteps == {"idle", "list", "next", "find", "revoke", "update"}

Job == [pc : JobSteps, todo : SUBSET Users, user : Users \cup {None}]
Idle == [pc |-> "idle", todo |-> {}, user |-> None]

At(pc) == job.pc = pc
Goto(pc) == job' = [job EXCEPT !.pc = pc]

\* The transaction of a user is over, well or badly: the job goes on to the next.
NextUser == job' = [job EXCEPT !.pc = "next", !.user = None]

Init ==
  /\ account = [u \in Users |-> [deletedAt |-> None, isAnonymized |-> FALSE]]
  /\ payers \in PayerSets
  /\ revoked = {}
  /\ job = Idle
  /\ purging = FALSE
  /\ overdue = {}
  /\ asked = FALSE
  /\ failures = 0

-----------------------------------------------------------------------------
(* The owner, who needs a token for it, and an admin.                      *)

DeletionRequest(u) ==
  /\ Exists(u)
  /\ account[u].deletedAt = None
  /\ account' = [account EXCEPT ![u].deletedAt = Grace]
  /\ asked' = (asked \/ job.user = u)
  /\ UNCHANGED <<payers, revoked, job, purging, overdue, failures>>

\* An anonymized account is not told from another.
CancelDeletionRequest(u) ==
  /\ Marked(u)
  /\ account' = [account EXCEPT ![u].deletedAt = None]
  /\ UNCHANGED <<payers, revoked, job, purging, overdue, asked, failures>>

\* Payments_user_uid_fkey restricts; the other references cascade or set null.
AdminDeleteUser(u) ==
  /\ Exists(u)
  /\ u \notin payers
  /\ account' = [account EXCEPT ![u] = Gone]
  /\ UNCHANGED <<payers, revoked, job, purging, overdue, asked, failures>>

-----------------------------------------------------------------------------
(* Midnight, and anonymizeExpiredUsers.                                    *)

OneDayOn(row) ==
  IF row = Gone \/ row.deletedAt \in {None, Oldest}
  THEN row
  ELSE [row EXCEPT !.deletedAt = @ - 1]

\* Both jobs start.  Those of a night are over before the next one.
Midnight ==
  /\ At("idle")
  /\ ~purging
  /\ account' = [u \in Users |-> OneDayOn(account[u])]
  /\ job' = [Idle EXCEPT !.pc = "list"]
  /\ purging' = TRUE
  /\ overdue' = {u \in Users : Passed(u, 0)'}
  /\ UNCHANGED <<payers, revoked, asked, failures>>

\* Mutant: only the accounts whose day it is.
FindUsersOfToday ==
  /\ At("list")
  /\ job' = [job EXCEPT !.pc = "next",
       !.todo = {u \in Users : Passed(u, 0) /\ account[u].deletedAt = 0 /\ ~Anonymized(u)}]
  /\ UNCHANGED <<account, payers, revoked, purging, overdue, asked, failures>>

FindUsersToAnonymize ==
  /\ At("list")
  /\ job' = [job EXCEPT !.pc = "next",
       !.todo = {u \in Users : Passed(u, 0) /\ ~Anonymized(u)}]
  /\ UNCHANGED <<account, payers, revoked, purging, overdue, asked, failures>>

BeginUser(u) ==
  /\ At("next")
  /\ u \in job.todo
  /\ job' = [pc |-> "find", todo |-> job.todo \ {u}, user |-> u]
  /\ asked' = Marked(u)
  /\ UNCHANGED <<account, payers, revoked, purging, overdue, failures>>

EndJob ==
  /\ At("next")
  /\ job.todo = {}
  /\ job' = Idle
  /\ UNCHANGED <<account, payers, revoked, purging, overdue, asked, failures>>

AfterFind(u) == IF u \in AppleUsers THEN "revoke" ELSE "update"

\* Mutant: the list is relied upon.
FindUserListed ==
  /\ At("find")
  /\ Goto(AfterFind(job.user))
  /\ UNCHANGED <<account, payers, revoked, purging, overdue, asked, failures>>

\* deletedAt is looked at again, though not its date.
FindUser ==
  /\ At("find")
  /\ IF Marked(job.user) THEN Goto(AfterFind(job.user)) ELSE NextUser
  /\ UNCHANGED <<account, payers, revoked, purging, overdue, asked, failures>>

\* Mutant: an error of Apple is logged and no more.
RevokeTokenSwallowed ==
  /\ At("revoke")
  /\ \/ revoked' = revoked \cup {job.user} /\ UNCHANGED failures
     \/ /\ failures < MaxFailures
        /\ failures' = failures + 1
        /\ UNCHANGED revoked
  /\ Goto("update")
  /\ UNCHANGED <<account, payers, purging, overdue, asked>>

\* A rollback does not bring the token back, nor does it when Apple has
\* revoked it and the answer is lost.
RevokeToken ==
  /\ At("revoke")
  /\ \/ /\ revoked' = revoked \cup {job.user}
        /\ Goto("update")
        /\ UNCHANGED failures
     \/ /\ failures < MaxFailures
        /\ failures' = failures + 1
        /\ revoked' \in {revoked, revoked \cup {job.user}}
        /\ NextUser
  /\ UNCHANGED <<account, payers, purging, overdue, asked>>

\* The update and the commit; the update throws when the row is gone.
AnonymizeUser ==
  /\ At("update")
  /\ account' = IF Exists(job.user)
                THEN [account EXCEPT ![job.user].isAnonymized = TRUE]
                ELSE account
  /\ NextUser
  /\ UNCHANGED <<payers, revoked, purging, overdue, asked, failures>>

-----------------------------------------------------------------------------
(* purgeAnonymizedUsers, and what may go wrong at night.                   *)

\* Mutant: only the rows whose day it is.
PurgeUsersOfToday ==
  LET due == {u \in Users : Passed(u, Retention) /\ Anonymized(u)
                           /\ account[u].deletedAt = -Retention} IN
  /\ purging
  /\ account' = IF due \cap payers = {}
                THEN [u \in Users |-> IF u \in due THEN Gone ELSE account[u]]
                ELSE account
  /\ purging' = FALSE
  /\ UNCHANGED <<payers, revoked, job, overdue, asked, failures>>

\* One deleteMany: a single row that Payments refers to makes it throw.
PurgeAnonymizedUsers ==
  LET due == {u \in Users : Passed(u, Retention) /\ Anonymized(u)} IN
  /\ purging
  /\ account' = IF due \cap payers = {}
                THEN [u \in Users |-> IF u \in due THEN Gone ELSE account[u]]
                ELSE account
  /\ purging' = FALSE
  /\ UNCHANGED <<payers, revoked, job, overdue, asked, failures>>

Failing ==
  /\ failures < MaxFailures
  /\ failures' = failures + 1
  /\ UNCHANGED <<account, payers, revoked, overdue, asked>>

\* The list is not guarded: the job ends.
ListFails == Failing /\ At("list") /\ job' = Idle /\ UNCHANGED purging

\* A transaction is rolled back and its error is swallowed.
TransactionFails ==
  /\ Failing
  /\ job.user # None
  /\ NextUser
  /\ UNCHANGED purging

PurgeFails == Failing /\ purging /\ purging' = FALSE /\ UNCHANGED job

Crash ==
  /\ Failing
  /\ ~At("idle") \/ purging
  /\ job' = Idle
  /\ purging' = FALSE

-----------------------------------------------------------------------------
JobStep ==
  \/ FindUsersToAnonymize
  \/ \E u \in Users : BeginUser(u)
  \/ EndJob
  \/ FindUser
  \/ RevokeToken
  \/ AnonymizeUser

Next ==
  \/ \E u \in Users :
       DeletionRequest(u) \/ CancelDeletionRequest(u) \/ AdminDeleteUser(u)
  \/ Midnight
  \/ JobStep
  \/ PurgeAnonymizedUsers
  \/ ListFails \/ TransactionFails \/ PurgeFails \/ Crash

\* Midnight comes, and Node runs what it has started.
Spec ==
  /\ Init /\ [][Next]_vars
  /\ WF_vars(Midnight) /\ WF_vars(JobStep) /\ WF_vars(PurgeAnonymizedUsers)

-----------------------------------------------------------------------------
(* Properties.                                                             *)

\* Rows, the state of the jobs and the histories are of their types, and the
\* job has a user in hand exactly during a transaction, one from Apple when it
\* revokes a token.
TypeOK ==
  /\ account \in [Users -> Row \cup {Gone}]
  /\ payers \in PayerSets
  /\ revoked \subseteq AppleUsers
  /\ job \in Job
  /\ job.user # None <=> job.pc \in {"find", "revoke", "update"}
  /\ At("revoke") => job.user \in AppleUsers
  /\ purging \in BOOLEAN
  /\ overdue \subseteq Users
  /\ asked \in BOOLEAN
  /\ failures \in 0..MaxFailures

\* The job anonymizes an account only if its retraction period was over that
\* midnight, and the deletion was still asked for at some moment of its own
\* transaction: who cancels before that, and leaves it at that, keeps the
\* account (user-lifecycle.service.ts:40, 107).
OnlyDueIsAnonymized ==
  [][\A u \in Users : ~Anonymized(u) /\ Anonymized(u)' => u \in overdue /\ asked]_vars

\* Whatever fails, no account that came from Apple is anonymized with its
\* token still in force: revoking is part of the transaction and goes first
\* (user-lifecycle.service.ts:54).
AnonymizedIsRevoked ==
  \A u \in AppleUsers : Anonymized(u) => u \in revoked

\* A request for deletion is carried out in the end, unless it is cancelled:
\* nights that go wrong are made up for (user-lifecycle.service.ts:107).
DeletionHappens ==
  \A u \in Users : Marked(u) ~> (Anonymized(u) \/ ~Marked(u))

\* Where no user has paid for anything, an anonymized account is purged,
\* unless its request is cancelled even now (user-lifecycle.service.ts:127).
AnonymizedIsPurged ==
  \A u \in Users : (Anonymized(u) /\ payers = {}) ~> ~Marked(u)
=============================================================================
