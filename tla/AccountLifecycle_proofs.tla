------------------------ MODULE AccountLifecycle_proofs ------------------------
(***************************************************************************)
(* Proofs about AccountLifecycle, for any users, periods and failures, and *)
(* about Ratings, for any users, notes, lists, requests and failures, and  *)
(* about Preferences, for any sports, modes, days, dates and lists.        *)
(***************************************************************************)
EXTENDS MCAccountLifecycle, FiniteSetTheorems, TLAPS

-----------------------------------------------------------------------------
(* Type correctness.                                                       *)

\* Dates run from Oldest to Grace, and null is none of them.
LEMMA ArithmeticOfDates ==
  /\ Grace \in Date
  /\ Oldest \in Date
  /\ \A d \in Date : d # Oldest => d - 1 \in Date
  /\ \A d \in Date : d # None
BY LifecycleAssumption DEF Date, Oldest

\* A day takes a row to a row.
LEMMA DayKeepsRow ==
  ASSUME NEW row \in Row \cup {Gone}
  PROVE  OneDayOn(row) \in Row \cup {Gone}
<1>1. CASE row = Gone \/ row.deletedAt \in {None, Oldest}
  BY <1>1 DEF OneDayOn
<1>2. CASE ~(row = Gone \/ row.deletedAt \in {None, Oldest})
  <2>1. row \in Row /\ row.deletedAt \in Date
    BY <1>2 DEF Row
  <2>2. row.deletedAt - 1 \in Date
    BY <1>2, <2>1, ArithmeticOfDates
  <2>3. OneDayOn(row) = [row EXCEPT !.deletedAt = row.deletedAt - 1]
    BY <1>2 DEF OneDayOn
  <2> QED
    BY <2>1, <2>2, <2>3 DEF Row
<1> QED
  BY <1>1, <1>2

\* The owner and the admin leave every row a row.
LEMMA OwnersKeepType ==
  ASSUME TypeOK, NEW u \in Users,
         DeletionRequest(u) \/ CancelDeletionRequest(u) \/ AdminDeleteUser(u)
  PROVE  TypeOK'
<1>1. CASE DeletionRequest(u)
  <2>1. account' \in [Users -> Row \cup {Gone}]
    BY <1>1, ArithmeticOfDates DEF TypeOK, DeletionRequest, Exists, Row
  <2> QED
    BY <1>1, <2>1 DEF TypeOK, DeletionRequest, At
<1>2. CASE CancelDeletionRequest(u)
  <2>1. account' \in [Users -> Row \cup {Gone}]
    BY <1>2 DEF TypeOK, CancelDeletionRequest, Marked, Exists, Row
  <2> QED
    BY <1>2, <2>1 DEF TypeOK, CancelDeletionRequest, At
<1>3. CASE AdminDeleteUser(u)
  BY <1>3 DEF TypeOK, AdminDeleteUser, At
<1> QED
  BY <1>1, <1>2, <1>3

\* What TypeOK says of the job.
JobOK ==
  /\ job \in Job
  /\ job.user # None <=> job.pc \in {"find", "revoke", "update"}
  /\ At("revoke") => job.user \in AppleUsers

\* Midnight leaves every row a row, and the job without a user.
LEMMA MidnightKeepsType ==
  ASSUME TypeOK, Midnight
  PROVE  TypeOK'
<1>1. account' \in [Users -> Row \cup {Gone}]
  BY DayKeepsRow DEF TypeOK, Midnight
<1>2. job' = [pc |-> "list", todo |-> {}, user |-> None]
  BY DEF Midnight, Idle
<1>3. JobOK'
  BY <1>2 DEF JobOK, Job, JobSteps, At
<1> QED
  BY <1>1, <1>3 DEF TypeOK, JobOK, Midnight

\* The job that is done with a user, well or badly, and the job that ends.
LEMMA JobLetsGo ==
  ASSUME TypeOK, NextUser \/ job' = Idle
  PROVE  JobOK'
<1>1. CASE NextUser
  BY <1>1 DEF TypeOK, NextUser, JobOK, Job, JobSteps, At
<1>2. CASE job' = Idle
  BY <1>2 DEF Idle, JobOK, Job, JobSteps, At
<1> QED
  BY <1>1, <1>2

\* The job takes a user in hand with findUnique and lets go of it afterwards.
LEMMA JobKeepsType ==
  ASSUME TypeOK, JobStep
  PROVE  TypeOK'
<1>1. CASE FindUsersToAnonymize
  <2>1. JobOK'
    BY <1>1 DEF FindUsersToAnonymize, TypeOK, JobOK, Job, JobSteps, At
  <2> QED
    BY <1>1, <2>1 DEF FindUsersToAnonymize, TypeOK, JobOK
<1>2. CASE \E u \in Users : BeginUser(u)
  <2>1. PICK u \in Users : BeginUser(u)
    BY <1>2
  <2>2. JobOK'
    BY <2>1, LifecycleAssumption DEF BeginUser, TypeOK, JobOK, Job, JobSteps, At
  <2>3. asked' \in BOOLEAN
    BY <2>1 DEF BeginUser, Marked, Exists
  <2> QED
    BY <2>1, <2>2, <2>3 DEF BeginUser, TypeOK, JobOK
<1>3. CASE EndJob
  BY <1>3, JobLetsGo DEF EndJob, TypeOK, JobOK
<1>4. CASE FindUser
  <2>1. CASE Marked(job.user)
    <3>1. JobOK'
      BY <1>4, <2>1 DEF FindUser, Goto, AfterFind, TypeOK, JobOK, Job, JobSteps, At
    <3> QED
      BY <1>4, <3>1 DEF FindUser, TypeOK, JobOK
  <2>2. CASE ~Marked(job.user)
    BY <1>4, <2>2, JobLetsGo DEF FindUser, TypeOK, JobOK
  <2> QED
    BY <2>1, <2>2
<1>5. CASE RevokeToken
  <2>1. revoked' \subseteq AppleUsers /\ failures' \in 0..MaxFailures
    BY <1>5, LifecycleAssumption DEF RevokeToken, TypeOK
  <2>2. CASE NextUser
    BY <1>5, <2>1, <2>2, JobLetsGo DEF RevokeToken, TypeOK, JobOK
  <2>3. CASE Goto("update")
    <3>1. JobOK'
      BY <1>5, <2>3 DEF RevokeToken, Goto, TypeOK, JobOK, Job, JobSteps, At
    <3> QED
      BY <1>5, <2>1, <3>1 DEF RevokeToken, TypeOK, JobOK
  <2> QED
    BY <1>5, <2>2, <2>3 DEF RevokeToken
<1>6. CASE AnonymizeUser
  <2>1. account' \in [Users -> Row \cup {Gone}]
    <3>1. CASE Exists(job.user)
      BY <1>6, <3>1 DEF AnonymizeUser, TypeOK, Exists, Row
    <3>2. CASE ~Exists(job.user)
      BY <1>6, <3>2 DEF AnonymizeUser, TypeOK
    <3> QED
      BY <3>1, <3>2
  <2> QED
    BY <1>6, <2>1, JobLetsGo DEF AnonymizeUser, TypeOK, JobOK
<1> QED
  BY <1>1, <1>2, <1>3, <1>4, <1>5, <1>6 DEF JobStep

\* The purge, and what goes wrong at night.
LEMMA NightKeepsType ==
  ASSUME TypeOK,
         PurgeAnonymizedUsers \/ ListFails \/ TransactionFails \/ PurgeFails \/ Crash
  PROVE  TypeOK'
<1>1. CASE PurgeAnonymizedUsers
  <2>1. account' \in [Users -> Row \cup {Gone}]
    BY <1>1 DEF PurgeAnonymizedUsers, TypeOK
  <2> QED
    BY <1>1, <2>1 DEF PurgeAnonymizedUsers, TypeOK, At
<1>2. CASE ListFails \/ TransactionFails \/ PurgeFails \/ Crash
  <2>1. Failing /\ purging' \in BOOLEAN
    BY <1>2 DEF ListFails, TransactionFails, PurgeFails, Crash, TypeOK
  <2>2. failures' \in 0..MaxFailures
    BY <2>1, LifecycleAssumption DEF Failing, TypeOK
  <2>3. NextUser \/ job' = Idle \/ UNCHANGED job
    BY <1>2 DEF ListFails, TransactionFails, PurgeFails, Crash
  <2>4. JobOK'
    BY <2>3, JobLetsGo DEF TypeOK, JobOK, At
  <2> QED
    BY <2>1, <2>2, <2>4 DEF Failing, TypeOK, JobOK
<1> QED
  BY <1>1, <1>2

\* Rows, jobs and histories keep their types.
THEOREM TypeCorrect == Spec => []TypeOK
<1>1. Init => TypeOK
  <2> SUFFICES ASSUME Init PROVE TypeOK
    OBVIOUS
  <2>1. account \in [Users -> Row \cup {Gone}]
    BY DEF Init, Row
  <2>2. JobOK
    BY DEF Init, Idle, JobOK, Job, JobSteps, At
  <2>3. asked \in BOOLEAN /\ purging \in BOOLEAN
    BY DEF Init
  <2>4. 0 \in 0..MaxFailures
    BY LifecycleAssumption
  <2> QED
    BY <2>1, <2>2, <2>3, <2>4 DEF Init, TypeOK, JobOK
<1>2. TypeOK /\ [Next]_vars => TypeOK'
  <2> SUFFICES ASSUME TypeOK, [Next]_vars PROVE TypeOK'
    OBVIOUS
  <2>1. CASE \E u \in Users :
               DeletionRequest(u) \/ CancelDeletionRequest(u) \/ AdminDeleteUser(u)
    BY <2>1, OwnersKeepType
  <2>2. CASE Midnight
    BY <2>2, MidnightKeepsType
  <2>3. CASE JobStep
    BY <2>3, JobKeepsType
  <2>4. CASE PurgeAnonymizedUsers \/ ListFails \/ TransactionFails \/ PurgeFails \/ Crash
    BY <2>4, NightKeepsType
  <2>5. CASE UNCHANGED vars
    BY <2>5 DEF vars, TypeOK, At
  <2> QED
    BY <2>1, <2>2, <2>3, <2>4, <2>5 DEF Next
<1> QED
  BY <1>1, <1>2, PTL DEF Spec

-----------------------------------------------------------------------------
(* Tokens.                                                                 *)

\* The property says nothing of the update to come, which needs to know that
\* the token of the user in hand has been revoked by the step before.
RevokedFirst ==
  /\ AnonymizedIsRevoked
  /\ At("update") /\ job.user \in AppleUsers => job.user \in revoked

\* A step that anonymizes nobody and does not come to an update changes nothing.
LEMMA RevokedStays ==
  ASSUME RevokedFirst, revoked \subseteq revoked',
         \A u \in AppleUsers : Anonymized(u)' => Anonymized(u),
         At("update")' => UNCHANGED job
  PROVE  RevokedFirst'
BY DEF RevokedFirst, AnonymizedIsRevoked, At

\* Outside the job no account becomes anonymized.
LEMMA OthersAnonymizeNobody ==
  ASSUME TypeOK,
         \/ \E u \in Users :
              DeletionRequest(u) \/ CancelDeletionRequest(u) \/ AdminDeleteUser(u)
         \/ Midnight
         \/ PurgeAnonymizedUsers
  PROVE  \A v \in Users : Anonymized(v)' => Anonymized(v)
<1> SUFFICES ASSUME NEW v \in Users, Anonymized(v)'
             PROVE  Anonymized(v)
  OBVIOUS
<1>1. CASE \E u \in Users : DeletionRequest(u) \/ CancelDeletionRequest(u)
  <2>1. PICK u \in Users : DeletionRequest(u) \/ CancelDeletionRequest(u)
    BY <1>1
  <2>2. account[u] \in Row
    BY <2>1 DEF TypeOK, DeletionRequest, CancelDeletionRequest, Marked, Exists
  <2> QED
    BY <2>1, <2>2 DEF TypeOK, DeletionRequest, CancelDeletionRequest, Anonymized, Exists, Marked, Row
<1>2. CASE \E u \in Users : AdminDeleteUser(u)
  BY <1>2 DEF TypeOK, AdminDeleteUser, Anonymized, Exists
<1>3. CASE Midnight
  <2>1. account'[v] = OneDayOn(account[v]) /\ account[v] \in Row \cup {Gone}
    BY <1>3 DEF Midnight, TypeOK
  <2> QED
    BY <2>1 DEF OneDayOn, Anonymized, Exists, Row
<1>4. CASE PurgeAnonymizedUsers
  BY <1>4 DEF TypeOK, PurgeAnonymizedUsers, Anonymized, Exists
<1> QED
  BY <1>1, <1>2, <1>3, <1>4

\* The steps of the job and its failures that leave all accounts alone.
LEMMA QuietStepsKeepRevoked ==
  ASSUME RevokedFirst, UNCHANGED account, revoked \subseteq revoked',
         At("update")' => UNCHANGED job
  PROVE  RevokedFirst'
BY RevokedStays DEF Anonymized, Exists

\* No account that came from Apple is anonymized with its token in force.
THEOREM TokensAreRevoked == Spec => []AnonymizedIsRevoked
<1>1. Init => RevokedFirst
  BY LifecycleAssumption
     DEF Init, RevokedFirst, AnonymizedIsRevoked, Anonymized, Exists, At, Idle
<1>2. TypeOK /\ RevokedFirst /\ [Next]_vars => RevokedFirst'
  <2> SUFFICES ASSUME TypeOK, RevokedFirst, [Next]_vars PROVE RevokedFirst'
    OBVIOUS
  <2>1. CASE \/ \E u \in Users :
                  DeletionRequest(u) \/ CancelDeletionRequest(u) \/ AdminDeleteUser(u)
             \/ PurgeAnonymizedUsers
    BY <2>1, OthersAnonymizeNobody, RevokedStays, LifecycleAssumption
       DEF DeletionRequest, CancelDeletionRequest, AdminDeleteUser, PurgeAnonymizedUsers
  <2>2. CASE Midnight
    BY <2>2, OthersAnonymizeNobody, RevokedStays, LifecycleAssumption DEF Midnight, Idle, At
  <2>3. CASE JobStep
    <3>1. CASE FindUsersToAnonymize \/ EndJob \/ \E u \in Users : BeginUser(u)
      <4>1. job'.pc \in {"next", "idle", "find"}
        <5>1. CASE FindUsersToAnonymize
          BY <5>1 DEF FindUsersToAnonymize, TypeOK, Job
        <5>2. CASE EndJob \/ \E u \in Users : BeginUser(u)
          BY <5>2 DEF EndJob, BeginUser, Idle
        <5> QED
          BY <3>1, <5>1, <5>2
      <4>2. UNCHANGED <<account, revoked>>
        BY <3>1 DEF FindUsersToAnonymize, EndJob, BeginUser
      <4> QED
        BY <4>1, <4>2, QuietStepsKeepRevoked DEF At
    <3>2. CASE FindUser
      <4>1. CASE At("update")'
        <5>1. job'.user = job.user /\ job.user \notin AppleUsers
          BY <3>2, <4>1 DEF FindUser, Goto, AfterFind, NextUser, At, TypeOK, Job
        <5> QED
          BY <3>2, <5>1 DEF FindUser, RevokedFirst, AnonymizedIsRevoked, Anonymized, Exists, At
      <4>2. CASE ~At("update")'
        BY <3>2, <4>2, QuietStepsKeepRevoked DEF FindUser
      <4> QED
        BY <4>1, <4>2
    <3>3. CASE RevokeToken
      <4>1. CASE NextUser
        BY <3>3, <4>1, QuietStepsKeepRevoked DEF RevokeToken, NextUser, At, TypeOK, Job
      <4>2. CASE Goto("update") /\ revoked' = revoked \cup {job.user}
        BY <3>3, <4>2
           DEF RevokeToken, Goto, RevokedFirst, AnonymizedIsRevoked, Anonymized, Exists, At, TypeOK, Job
      <4> QED
        BY <3>3, <4>1, <4>2 DEF RevokeToken
    <3>4. CASE AnonymizeUser
      <4>1. \A v \in Users \ {job.user} : account'[v] = account[v]
        BY <3>4 DEF AnonymizeUser, TypeOK
      <4>2. ~At("update")'
        BY <3>4 DEF AnonymizeUser, NextUser, At, TypeOK, Job
      <4> QED
        BY <3>4, <4>1, <4>2, LifecycleAssumption
           DEF AnonymizeUser, RevokedFirst, AnonymizedIsRevoked, Anonymized, Exists, At
    <3> QED
      BY <2>3, <3>1, <3>2, <3>3, <3>4 DEF JobStep
  <2>4. CASE ListFails \/ TransactionFails \/ PurgeFails \/ Crash
    <3>1. UNCHANGED <<account, revoked>>
      BY <2>4 DEF ListFails, TransactionFails, PurgeFails, Crash, Failing
    <3>2. NextUser \/ job' = Idle \/ UNCHANGED job
      BY <2>4 DEF ListFails, TransactionFails, PurgeFails, Crash
    <3>3. At("update")' => UNCHANGED job
      <4>1. CASE NextUser
        BY <4>1 DEF NextUser, At, TypeOK, Job
      <4>2. CASE job' = Idle
        BY <4>2 DEF Idle, At
      <4> QED
        BY <3>2, <4>1, <4>2
    <3> QED
      BY <3>1, <3>3, QuietStepsKeepRevoked
  <2>5. CASE UNCHANGED vars
    BY <2>5 DEF vars, RevokedFirst, AnonymizedIsRevoked, Anonymized, Exists, At
  <2> QED
    BY <2>1, <2>2, <2>3, <2>4, <2>5 DEF Next
<1>3. RevokedFirst => AnonymizedIsRevoked
  BY DEF RevokedFirst
<1> QED
  BY <1>1, <1>2, <1>3, TypeCorrect, PTL DEF Spec

-----------------------------------------------------------------------------
(* Dates.                                                                  *)

\* Two histories stand for what the job has read: its list holds none but
\* accounts that were due at midnight, and from the second look at deletedAt
\* on the deletion has been asked for during the transaction.  No account
\* falls due during the day, since a request sets a date ahead.
DueInHand ==
  /\ \A u \in Users : Passed(u, 0) => u \in overdue
  /\ job.todo \subseteq overdue
  /\ job.user # None => job.user \in overdue
  /\ At("find") /\ Marked(job.user) => asked
  /\ At("revoke") \/ At("update") => asked

\* Accounts do not change, the history neither, and the job only advances.
LEMMA QuietStepsKeepDue ==
  ASSUME DueInHand, UNCHANGED <<account, overdue>>, asked => asked',
         job'.todo \subseteq overdue,
         job'.user # None => job'.user = job.user,
         At("find")' => UNCHANGED job,
         At("revoke")' \/ At("update")' => asked
  PROVE  DueInHand'
BY DEF DueInHand, Passed, Marked, Exists, At

\* A step of owner or admin: no date comes, and who asks is on record.
LEMMA OwnersKeepDue ==
  ASSUME TypeOK, DueInHand, NEW u \in Users,
         DeletionRequest(u) \/ CancelDeletionRequest(u) \/ AdminDeleteUser(u)
  PROVE  DueInHand'
<1>1. UNCHANGED <<job, overdue>> /\ (asked => asked')
  <2>1. UNCHANGED <<job, overdue>>
    BY DEF DeletionRequest, CancelDeletionRequest, AdminDeleteUser
  <2>2. CASE DeletionRequest(u)
    BY <2>1, <2>2, Zenon DEF DeletionRequest
  <2>3. CASE CancelDeletionRequest(u) \/ AdminDeleteUser(u)
    <3>1. UNCHANGED asked
      BY <2>3 DEF CancelDeletionRequest, AdminDeleteUser
    <3> QED
      BY <2>1, <3>1
  <2> QED
    BY <2>2, <2>3
<1>2. \A v \in Users \ {u} : account'[v] = account[v]
  BY DEF TypeOK, DeletionRequest, CancelDeletionRequest, AdminDeleteUser
<1>3. CASE DeletionRequest(u)
  <2>1. account'[u].deletedAt = Grace
    BY <1>3 DEF DeletionRequest, TypeOK, Exists, Row
  <2>2. ~Passed(u, 0)'
    BY <2>1, LifecycleAssumption DEF Passed
  <2>3. \A v \in Users \ {u} : (Passed(v, 0)' <=> Passed(v, 0)) /\ (Marked(v)' <=> Marked(v))
    BY <1>2 DEF Passed, Marked, Exists
  <2>4. job.user = u => asked'
    BY <1>3 DEF DeletionRequest
  <2>5. At("find") => job.user \in Users
    BY DEF TypeOK, At, Job
  <2> QED
    BY <1>1, <2>2, <2>3, <2>4, <2>5 DEF DueInHand, At
<1>4. CASE CancelDeletionRequest(u) \/ AdminDeleteUser(u)
  <2>1. ~Marked(u)'
    BY <1>4 DEF CancelDeletionRequest, AdminDeleteUser, TypeOK, Marked, Exists, Row
  <2>2. \A v \in Users : (Passed(v, 0)' => Passed(v, 0)) /\ (Marked(v)' => Marked(v))
    BY <1>2, <2>1 DEF Passed, Marked, Exists
  <2>3. At("find") => job.user \in Users
    BY DEF TypeOK, At, Job
  <2> QED
    BY <1>1, <2>2, <2>3 DEF DueInHand, At
<1> QED
  BY <1>3, <1>4

\* A step of the job.
LEMMA JobKeepsDue ==
  ASSUME TypeOK, DueInHand, JobStep
  PROVE  DueInHand'
<1>1. CASE FindUsersToAnonymize
  <2>1. job'.todo \subseteq overdue /\ job'.user = job.user /\ job'.pc = "next"
    BY <1>1 DEF FindUsersToAnonymize, DueInHand, TypeOK, Job
  <2> QED
    BY <1>1, <2>1, QuietStepsKeepDue DEF FindUsersToAnonymize, At
<1>2. CASE \E u \in Users : BeginUser(u)
  <2>1. PICK u \in Users : BeginUser(u)
    BY <1>2
  <2>2. job'.pc = "find" /\ job'.todo \subseteq job.todo /\ job'.user = u /\ u \in job.todo
    BY <2>1 DEF BeginUser
  <2>3. Marked(u) => asked'
    BY <2>1 DEF BeginUser
  <2>4. UNCHANGED <<account, overdue>>
    BY <2>1 DEF BeginUser
  <2> QED
    BY <2>2, <2>3, <2>4 DEF DueInHand, Passed, Marked, Exists, At
<1>3. CASE EndJob
  BY <1>3, QuietStepsKeepDue DEF EndJob, Idle, At
<1>4. CASE FindUser
  <2>1. CASE Marked(job.user)
    <3>1. asked
      BY <1>4, <2>1 DEF FindUser, DueInHand
    <3>2. job'.todo = job.todo /\ job'.user = job.user /\ job'.pc \in {"revoke", "update"}
      BY <1>4, <2>1 DEF FindUser, Goto, AfterFind, TypeOK, Job
    <3>3. job.todo \subseteq overdue
      BY DEF DueInHand
    <3> QED
      BY <1>4, <3>1, <3>2, <3>3, QuietStepsKeepDue DEF FindUser, At
  <2>2. CASE ~Marked(job.user)
    <3>1. job'.todo = job.todo /\ job'.user = None /\ job'.pc = "next"
      BY <1>4, <2>2 DEF FindUser, NextUser, TypeOK, Job
    <3>2. job.todo \subseteq overdue
      BY DEF DueInHand
    <3> QED
      BY <1>4, <3>1, <3>2, QuietStepsKeepDue DEF FindUser, At
  <2> QED
    BY <2>1, <2>2
<1>5. CASE RevokeToken
  <2>1. job'.todo = job.todo /\ job'.user \in {job.user, None} /\ job'.pc \in {"next", "update"}
    BY <1>5 DEF RevokeToken, Goto, NextUser, TypeOK, Job
  <2>2. job.todo \subseteq overdue /\ asked
    BY <1>5 DEF DueInHand, RevokeToken
  <2> QED
    BY <1>5, <2>1, <2>2, QuietStepsKeepDue DEF RevokeToken, At
<1>6. CASE AnonymizeUser
  <2>1. job'.todo = job.todo /\ job'.user = None /\ job'.pc = "next"
    BY <1>6 DEF AnonymizeUser, NextUser, TypeOK, Job
  <2>2. ASSUME NEW u \in Users PROVE Passed(u, 0)' => Passed(u, 0)
    <3>1. CASE u = job.user /\ Exists(u)
      <4>1. account[u] \in Row
        BY <3>1 DEF TypeOK, Exists
      <4>2. account'[u] = [account[u] EXCEPT !.isAnonymized = TRUE]
        BY <1>6, <3>1 DEF AnonymizeUser, TypeOK
      <4>3. account'[u].deletedAt = account[u].deletedAt
        BY <4>1, <4>2 DEF Row
      <4> QED
        BY <3>1, <4>3 DEF Passed, Marked, Exists
    <3>2. CASE ~(u = job.user /\ Exists(u))
      <4>1. account'[u] = account[u]
        BY <1>6, <3>2 DEF AnonymizeUser, TypeOK
      <4> QED
        BY <4>1 DEF Passed, Marked, Exists
    <3> QED
      BY <3>1, <3>2
  <2> QED
    BY <1>6, <2>1, <2>2 DEF AnonymizeUser, DueInHand, At
<1> QED
  BY <1>1, <1>2, <1>3, <1>4, <1>5, <1>6 DEF JobStep

\* An account becomes anonymized by an update of the job, and no other way.
LEMMA AnonymizedByJob ==
  ASSUME TypeOK, [Next]_vars, NEW u \in Users, ~Anonymized(u), Anonymized(u)'
  PROVE  At("update") /\ job.user = u
<1>1. AnonymizeUser
  <2>1. account' # account
    BY DEF Anonymized, Exists
  <2>2. CASE JobStep
    BY <2>1, <2>2
       DEF JobStep, FindUsersToAnonymize, BeginUser, EndJob, FindUser, RevokeToken
  <2>3. CASE ListFails \/ TransactionFails \/ PurgeFails \/ Crash \/ UNCHANGED vars
    BY <2>1, <2>3 DEF ListFails, TransactionFails, PurgeFails, Crash, Failing, vars
  <2> QED
    BY <2>2, <2>3, OthersAnonymizeNobody DEF Next
<1>2. CASE u # job.user
  BY <1>1, <1>2 DEF AnonymizeUser, TypeOK, Anonymized, Exists
<1> QED
  BY <1>1, <1>2 DEF AnonymizeUser

\* Only an account that was due at midnight, and whose deletion was asked for
\* at some moment of its transaction, is anonymized.
THEOREM OnlyDue == Spec => OnlyDueIsAnonymized
<1>1. Init => DueInHand
  BY DEF Init, DueInHand, Passed, Marked, Idle, At
<1>2. TypeOK /\ DueInHand /\ [Next]_vars => DueInHand'
  <2> SUFFICES ASSUME TypeOK, DueInHand, [Next]_vars PROVE DueInHand'
    OBVIOUS
  <2>1. CASE \E u \in Users :
               DeletionRequest(u) \/ CancelDeletionRequest(u) \/ AdminDeleteUser(u)
    BY <2>1, OwnersKeepDue
  <2>2. CASE Midnight
    BY <2>2 DEF Midnight, Idle, DueInHand, At
  <2>3. CASE JobStep
    BY <2>3, JobKeepsDue
  <2>4. CASE PurgeAnonymizedUsers
    <3>1. \A u \in Users : (Passed(u, 0)' => Passed(u, 0)) /\ (Marked(u)' => Marked(u))
      BY <2>4 DEF PurgeAnonymizedUsers, TypeOK, Passed, Marked, Exists
    <3>2. At("find") => job.user \in Users
      BY DEF TypeOK, At, Job
    <3> QED
      BY <2>4, <3>1, <3>2 DEF PurgeAnonymizedUsers, DueInHand, At
  <2>5. CASE ListFails \/ TransactionFails \/ PurgeFails \/ Crash
    <3>1. UNCHANGED <<account, overdue, asked>>
      BY <2>5 DEF ListFails, TransactionFails, PurgeFails, Crash, Failing
    <3>2. NextUser \/ job' = Idle \/ UNCHANGED job
      BY <2>5 DEF ListFails, TransactionFails, PurgeFails, Crash
    <3>3. CASE NextUser
      <4>1. job'.todo = job.todo /\ job'.user = None /\ job'.pc = "next"
        BY <3>3 DEF NextUser, TypeOK, Job
      <4> QED
        BY <3>1, <4>1, QuietStepsKeepDue DEF DueInHand, At
    <3>4. CASE job' = Idle
      BY <3>1, <3>4, QuietStepsKeepDue DEF Idle, At
    <3>5. CASE UNCHANGED job
      BY <3>1, <3>5 DEF DueInHand, Passed, Marked, Exists, At
    <3> QED
      BY <3>2, <3>3, <3>4, <3>5
  <2>6. CASE UNCHANGED vars
    BY <2>6 DEF vars, DueInHand, Passed, Marked, Exists, At
  <2> QED
    BY <2>1, <2>2, <2>3, <2>4, <2>5, <2>6 DEF Next
<1>3. TypeOK /\ DueInHand /\ [Next]_vars
      => [\A u \in Users : ~Anonymized(u) /\ Anonymized(u)' => u \in overdue /\ asked]_vars
  <2> SUFFICES ASSUME TypeOK, DueInHand, [Next]_vars, NEW u \in Users,
                      ~Anonymized(u), Anonymized(u)'
               PROVE  u \in overdue /\ asked
    OBVIOUS
  <2>1. At("update") /\ job.user = u
    BY AnonymizedByJob
  <2> QED
    BY <2>1, LifecycleAssumption DEF DueInHand
<1> QED
  BY <1>1, <1>2, <1>3, TypeCorrect, PTL DEF Spec, OnlyDueIsAnonymized

-----------------------------------------------------------------------------
(* Ratings.                                                                *)

\* The cardinality of the instance is that of everybody else.
LEMMA OneCardinality ==
  ASSUME NEW S
  PROVE  Rating!Cardinality(S) = Cardinality(S)
BY DEF Rating!Cardinality, Cardinality

\* What is in a sequence is of its kind.
LEMMA ElementOf ==
  ASSUME NEW S, NEW list \in Seq(S), NEW i \in 1 .. Len(list)
  PROVE  list[i] \in S
OBVIOUS

\* Those whom a list is about.
Evaluated(q) == {q.list[i].evaluated : i \in DOMAIN q.list}

\* The list of a request, and all it names.
LEMMA ListOfRequest ==
  ASSUME Rating!RatingsAssumption, NEW q \in Rating!Request
  PROVE  /\ q.list \in Seq([evaluated : Raters, note : Notes])
         /\ q.by \in Raters
         /\ DOMAIN q.list = 1 .. Len(q.list)
         /\ Rating!UserUids(q) \in Seq(Raters)
         /\ Len(Rating!UserUids(q)) = Len(q.list) + 1
         /\ Rating!ToSet(Rating!UserUids(q)) = Evaluated(q) \cup {q.by}
         /\ Evaluated(q) \subseteq Raters
<1>1. q.list \in Seq([evaluated : Raters, note : Notes]) /\ q.by \in Raters
  BY DEF Rating!RatingsAssumption, Rating!Request
<1>2. DOMAIN q.list = 1 .. Len(q.list) /\ Len(q.list) \in Nat
  BY <1>1
<1> DEFINE uids == [i \in DOMAIN q.list |-> q.list[i].evaluated]
<1>3. uids \in Seq(Raters) /\ Len(uids) = Len(q.list)
  <2>1. \A i \in DOMAIN q.list : q.list[i] \in [evaluated : Raters, note : Notes]
    BY <1>1, <1>2, ElementOf
  <2>2. uids \in [1 .. Len(q.list) -> Raters]
    BY <1>2, <2>1
  <2> HIDE DEF uids
  <2> QED
    BY <1>2, <2>2
<1>4. Rating!UserUids(q) = Append(uids, q.by)
  BY DEF Rating!UserUids
<1>5. /\ Append(uids, q.by) \in Seq(Raters)
      /\ Len(Append(uids, q.by)) = Len(q.list) + 1
      /\ DOMAIN Append(uids, q.by) = 1 .. Len(q.list) + 1
      /\ \A i \in 1 .. Len(q.list) : Append(uids, q.by)[i] = uids[i]
      /\ Append(uids, q.by)[Len(q.list) + 1] = q.by
  BY <1>1, <1>2, <1>3
<1>6. \A i \in 1 .. Len(q.list) : uids[i] = q.list[i].evaluated
  BY <1>2
<1> HIDE DEF uids
<1>7. {Append(uids, q.by)[i] : i \in 1 .. Len(q.list) + 1} = Evaluated(q) \cup {q.by}
  <2>1. \A i \in 1 .. Len(q.list) + 1 : i \in 1 .. Len(q.list) \/ i = Len(q.list) + 1
    BY <1>2
  <2>2. Len(q.list) + 1 \in 1 .. Len(q.list) + 1 /\ 1 .. Len(q.list) \subseteq 1 .. Len(q.list) + 1
    BY <1>2
  <2> QED
    BY <1>2, <1>5, <1>6, <2>1, <2>2 DEF Evaluated
<1>8. Rating!ToSet(Append(uids, q.by)) = Evaluated(q) \cup {q.by}
  BY <1>5, <1>7 DEF Rating!ToSet
<1>9. Evaluated(q) \subseteq Raters
  <2>1. \A i \in DOMAIN q.list : q.list[i] \in [evaluated : Raters, note : Notes]
    BY <1>1, <1>2, ElementOf
  <2> QED
    BY <2>1 DEF Evaluated
<1> QED
  BY <1>1, <1>2, <1>4, <1>5, <1>8, <1>9

\* As many players as uids: all whom the list names are seated, and the
\* evaluator is none of the evaluated.
LEMMA CountedOnce ==
  ASSUME Rating!RatingsAssumption, NEW q \in Rating!Request,
         Cardinality(Rating!ToSet(Rating!UserUids(q)) \cap Rating!Seated(seat))
           = Len(Rating!UserUids(q))
  PROVE  Rating!AllSeated(q, seat) /\ q.by \notin Evaluated(q)
<1> DEFINE n0 == Len(q.list)
           named == Rating!ToSet(Rating!UserUids(q))
           uids == [i \in 1 .. n0 |-> q.list[i].evaluated]
<1>1. /\ n0 \in Nat
      /\ Len(Rating!UserUids(q)) = n0 + 1
      /\ named = Evaluated(q) \cup {q.by}
      /\ DOMAIN q.list = 1 .. n0
  BY ListOfRequest
<1>2. IsFiniteSet(1 .. n0) /\ Cardinality(1 .. n0) = n0
  BY <1>1, FS_Interval
<1>3. uids \in Surjection(1 .. n0, Evaluated(q))
  BY <1>1 DEF Surjection, Evaluated
<1>4. IsFiniteSet(Evaluated(q)) /\ Cardinality(Evaluated(q)) <= n0
  BY <1>2, <1>3, FS_Surjection
<1>5. /\ IsFiniteSet(named)
      /\ Cardinality(named) = IF q.by \in Evaluated(q) THEN Cardinality(Evaluated(q))
                              ELSE Cardinality(Evaluated(q)) + 1
  <2> HIDE DEF named
  <2> QED
    BY <1>1, <1>4, FS_AddElement
<1> HIDE DEF uids
<1>6. Cardinality(named \cap Rating!Seated(seat)) <= Cardinality(named)
  <2>1. named \cap Rating!Seated(seat) \in SUBSET named
    OBVIOUS
  <2> HIDE DEF named
  <2> QED
    BY <1>5, <2>1, FS_Subset
<1>7. Cardinality(Evaluated(q)) \in Nat /\ Cardinality(named) \in Nat
  BY <1>4, <1>5, FS_CardinalityType
<1>8. q.by \notin Evaluated(q) /\ Cardinality(named) = n0 + 1
  <2> HIDE DEF named, n0
  <2>1. Cardinality(named \cap Rating!Seated(seat)) = n0 + 1
    BY <1>1 DEF named
  <2> QED
    BY <1>1, <1>4, <1>5, <1>6, <1>7, <2>1
<1>9. named \cap Rating!Seated(seat) = named
  <2>1. Cardinality(named \cap Rating!Seated(seat)) = n0 + 1
    BY <1>1
  <2>2. named \cap Rating!Seated(seat) \in SUBSET named
    OBVIOUS
  <2> HIDE DEF named, n0
  <2> QED
    BY <1>5, <1>8, <2>1, <2>2, FS_Subset
<1> QED
  BY <1>8, <1>9 DEF Rating!AllSeated

-----------------------------------------------------------------------------
\* What a request may rely on in each step.  Past the check it has met all whom
\* it names and does not name its own evaluator among the evaluated; the rows
\* it holds are not there yet; and where it goes on to the commit without
\* marking the seat, that seat is marked, or gone, or taken again.
RequestOK(q) ==
  /\ q.pc \in {"check", "insert"} => q.rows = {}
  /\ q.pc = "check" => (Rating!AllSeated(q, seat) => q.met)
  /\ q.pc # "check" => q.met /\ q.by \notin Evaluated(q)
  /\ q.rows \subseteq Evaluated(q)
  /\ \A v \in q.rows : rating[<<q.by, v>>] = NoNote
  /\ q.pc = "commit" => (seat[q.by] = "unrated" => q.by \in reseated)

RequestsOK == \A r \in Requests : Rating!InFlight(r) => RequestOK(sending[r])

\* No two open transactions of one evaluator hold the same row.
RowsApart ==
  \A r, p \in Requests :
    r # p /\ Rating!InFlight(r) /\ Rating!InFlight(p) /\ sending[r].by = sending[p].by
      => sending[r].rows \cap sending[p].rows = {}

RatingInv ==
  Rating!TypeOK /\ RequestsOK /\ RowsApart /\ Rating!RatersAreValidated

\* A request in flight is one of the type, and idle is none.
LEMMA RequestInFlight ==
  ASSUME Rating!TypeOK, NEW r \in Requests
  PROVE  /\ Rating!InFlight(r) <=> sending[r] \in Rating!Request
         /\ \A pc \in Rating!Steps : Rating!At(r, pc) => Rating!InFlight(r)
BY DEF Rating!TypeOK, Rating!InFlight, Rating!Idle, Rating!Request, Rating!Steps, Rating!At

LEMMA RatingInvInit ==
  ASSUME Rating!RatingsAssumption, Rating!Init
  PROVE  RatingInv
<1>1. Rating!TypeOK
  <2>1. seat \in [Raters -> {"none", "unrated", "rated"}]
    BY DEF Rating!Init
  <2>2. rating \in [Raters \X Raters -> Notes \cup {NoNote}]
    BY DEF Rating!Init
  <2>3. 0 \in 0 .. RatingFailures
    BY DEF Rating!RatingsAssumption
  <2> QED
    BY <2>1, <2>2, <2>3 DEF Rating!Init, Rating!TypeOK
<1>2. \A r \in Requests : ~Rating!InFlight(r)
  BY DEF Rating!Init, Rating!InFlight
<1>3. Rating!RatersAreValidated
  BY DEF Rating!Init, Rating!RatersAreValidated, Rating!Seated
<1> QED
  BY <1>1, <1>2, <1>3 DEF RatingInv, RequestsOK, RowsApart

\* One request moves on, or ends; seats and ratings stay as they are.
LEMMA RequestMoves ==
  ASSUME RatingInv, NEW r \in Requests, NEW q \in Rating!Request \cup {Rating!Idle},
         UNCHANGED seat /\ UNCHANGED rating /\ UNCHANGED over /\ UNCHANGED reseated,
         ratingFailures' \in 0 .. RatingFailures,
         sending' = [sending EXCEPT ![r] = q],
         q # Rating!Idle => RequestOK(q),
         \A p \in Requests \ {r} :
           q # Rating!Idle /\ Rating!InFlight(p) /\ sending[p].by = q.by
             => sending[p].rows \cap q.rows = {}
  PROVE  RatingInv'
<1>1. Rating!TypeOK'
  BY DEF RatingInv, Rating!TypeOK
<1>2. \A p \in Requests : sending'[p] = IF p = r THEN q ELSE sending[p]
  BY DEF RatingInv, Rating!TypeOK
<1>3. RequestsOK'
  <2> SUFFICES ASSUME NEW p \in Requests, Rating!InFlight(p)' PROVE RequestOK(sending[p])'
    BY DEF RequestsOK
  <2>1. RequestOK(sending'[p])
    BY <1>2 DEF RatingInv, RequestsOK, Rating!InFlight
  <2> QED
    BY <2>1 DEF RequestOK, Rating!AllSeated, Rating!Seated, Evaluated
<1>4. RowsApart'
  BY <1>2 DEF RatingInv, RowsApart, Rating!InFlight
<1>5. Rating!RatersAreValidated'
  BY DEF RatingInv, Rating!RatersAreValidated, Rating!Seated
<1> QED
  BY <1>1, <1>3, <1>4, <1>5 DEF RatingInv

\* A request that ends has nothing more to show for itself.
LEMMA RequestEnds ==
  ASSUME RatingInv, NEW r \in Requests,
         UNCHANGED seat /\ UNCHANGED rating /\ UNCHANGED over /\ UNCHANGED reseated,
         ratingFailures' \in 0 .. RatingFailures,
         sending' = [sending EXCEPT ![r] = Rating!Idle]
  PROVE  RatingInv'
BY RequestMoves

\* So does one that is refused.
LEMMA RefusedKeeps ==
  ASSUME RatingInv, NEW r \in Requests, Rating!Refuse(r)
  PROVE  RatingInv'
<1>1. /\ sending' = [sending EXCEPT ![r] = Rating!Idle]
      /\ UNCHANGED seat /\ UNCHANGED rating /\ UNCHANGED over /\ UNCHANGED reseated
      /\ ratingFailures' \in 0 .. RatingFailures
  BY DEF Rating!Refuse, Rating!Become, Rating!data, RatingInv, Rating!TypeOK
<1> QED
  BY <1>1, RequestEnds

\* The steps of a request before its transaction commits.
LEMMA WorkKeepsRatings ==
  ASSUME Rating!RatingsAssumption, RatingInv, NEW r \in Requests,
         \/ \E u \in Raters, list \in RatingLists : Rating!RatingsArrive(r, u, list)
         \/ Rating!CheckPlayers(r) \/ Rating!InsertRatings(r) \/ Rating!FindSeat(r)
         \/ Rating!AwaitFails(r)
  PROVE  RatingInv'
<1> DEFINE q == sending[r]
<1>t. /\ Rating!TypeOK /\ ratingFailures \in 0 .. RatingFailures
      /\ seat \in [Raters -> {"none", "unrated", "rated"}]
      /\ sending \in [Requests -> Rating!Request \cup {Rating!Idle}]
  BY DEF RatingInv, Rating!TypeOK
<1>1. CASE \E u \in Raters, list \in RatingLists : Rating!RatingsArrive(r, u, list)
  <2>1. PICK u \in Raters, list \in RatingLists : Rating!RatingsArrive(r, u, list)
    BY <1>1
  <2> DEFINE new == [pc |-> "check", by |-> u, list |-> list, rows |-> {}, met |-> FALSE]
             sent == [new EXCEPT !.met = Rating!AllSeated(new, seat)]
  <2>2. sent \in Rating!Request
    BY DEF Rating!Request, Rating!Steps, Rating!AllSeated
  <2>3. RequestOK(sent)
    BY DEF RequestOK, Rating!AllSeated, Rating!UserUids, Evaluated
  <2>4. /\ sending' = [sending EXCEPT ![r] = sent]
        /\ UNCHANGED seat /\ UNCHANGED rating /\ UNCHANGED over /\ UNCHANGED reseated
        /\ ratingFailures' \in 0 .. RatingFailures
    BY <1>t, <2>1 DEF Rating!RatingsArrive, Rating!Become, Rating!data
  <2>5. sent.rows = {}
    OBVIOUS
  <2> HIDE DEF sent
  <2>6. sent \in Rating!Request \cup {Rating!Idle}
    BY <2>2
  <2>7. \A p \in Requests \ {r} :
          sent # Rating!Idle /\ Rating!InFlight(p) /\ sending[p].by = sent.by
            => sending[p].rows \cap sent.rows = {}
    BY <2>5
  <2>8. sent # Rating!Idle => RequestOK(sent)
    BY <2>3
  <2> QED
    BY <2>4, <2>6, <2>7, <2>8, RequestMoves
<1>2. CASE Rating!CheckPlayers(r)
  <2>1. Rating!InFlight(r) /\ q \in Rating!Request /\ q.pc = "check"
    BY <1>2, <1>t, RequestInFlight DEF Rating!CheckPlayers, Rating!At, Rating!Steps
  <2>2. RequestOK(q)
    BY <2>1 DEF RatingInv, RequestsOK
  <2>3. CASE Cardinality(Rating!ToSet(Rating!UserUids(q)) \cap Rating!Seated(seat))
               = Len(Rating!UserUids(q))
    <3>1. Rating!AllSeated(q, seat) /\ q.by \notin Evaluated(q)
      BY <2>1, <2>3, CountedOnce
    <3> DEFINE new == [q EXCEPT !.pc = "insert"]
    <3>2. Rating!Goto(r, "insert") /\ UNCHANGED <<Rating!data, reseated, ratingFailures>>
      BY <1>2, <2>3, OneCardinality DEF Rating!CheckPlayers
    <3>3. /\ sending' = [sending EXCEPT ![r] = new]
          /\ UNCHANGED seat /\ UNCHANGED rating /\ UNCHANGED over /\ UNCHANGED reseated
          /\ ratingFailures' \in 0 .. RatingFailures
      BY <1>t, <3>2 DEF Rating!Goto, Rating!data
    <3>4. new \in Rating!Request
      BY <2>1 DEF Rating!Request, Rating!Steps
    <3>5. RequestOK(new) /\ new.rows = {}
      BY <2>1, <2>2, <3>1 DEF RequestOK, Evaluated, Rating!Request
    <3> HIDE DEF new
    <3>6. new \in Rating!Request \cup {Rating!Idle}
      BY <3>4
    <3>7. \A p \in Requests \ {r} :
            new # Rating!Idle /\ Rating!InFlight(p) /\ sending[p].by = new.by
              => sending[p].rows \cap new.rows = {}
      BY <3>5
    <3>8. new # Rating!Idle => RequestOK(new)
      BY <3>5
    <3> QED
      BY <3>3, <3>6, <3>7, <3>8, RequestMoves
  <2>4. CASE Cardinality(Rating!ToSet(Rating!UserUids(q)) \cap Rating!Seated(seat))
               # Len(Rating!UserUids(q))
    <3>1. Rating!Refuse(r)
      BY <1>2, <2>4, OneCardinality DEF Rating!CheckPlayers
    <3> QED
      BY <3>1, RefusedKeeps
  <2> QED
    BY <2>3, <2>4
<1>3. CASE Rating!InsertRatings(r)
  <2>1. Rating!InFlight(r) /\ q \in Rating!Request /\ q.pc = "insert"
    BY <1>3, <1>t, RequestInFlight DEF Rating!InsertRatings, Rating!At, Rating!Steps
  <2>2. RequestOK(q)
    BY <2>1 DEF RatingInv, RequestsOK
  <2> DEFINE rows == {v \in Evaluated(q) : rating[<<q.by, v>>] = NoNote}
             new == [q EXCEPT !.pc = "find", !.rows = rows]
  <2>3. /\ sending' = [sending EXCEPT ![r] = new]
        /\ UNCHANGED seat /\ UNCHANGED rating /\ UNCHANGED over /\ UNCHANGED reseated
        /\ ratingFailures' \in 0 .. RatingFailures
        /\ Evaluated(q) \cap Rating!Held(r, q.by) = {}
    BY <1>3, <1>t DEF Rating!InsertRatings, Rating!Become, Rating!data, Evaluated
  <2>4. rows \subseteq Raters
    BY <2>1, ListOfRequest
  <2>5. new \in Rating!Request
    BY <2>1, <2>4 DEF Rating!Request, Rating!Steps
  <2>6. new.rows = rows /\ new.by = q.by /\ new.list = q.list /\ new.met = q.met /\ new.pc = "find"
    BY <2>1 DEF Rating!Request
  <2> HIDE DEF new
  <2>7. RequestOK(new)
    BY <2>1, <2>2, <2>6 DEF RequestOK, Evaluated
  <2>8. ASSUME NEW p \in Requests \ {r}, Rating!InFlight(p), sending[p].by = q.by
        PROVE  sending[p].rows \cap rows = {}
    BY <2>3, <2>8 DEF Rating!Held
  <2> HIDE DEF rows
  <2>9. new \in Rating!Request \cup {Rating!Idle} /\ (new # Rating!Idle => RequestOK(new))
    BY <2>5, <2>7
  <2>10. \A p \in Requests \ {r} :
           new # Rating!Idle /\ Rating!InFlight(p) /\ sending[p].by = new.by
             => sending[p].rows \cap new.rows = {}
    BY <2>6, <2>8
  <2> QED
    BY <2>3, <2>9, <2>10, RequestMoves
<1>4. CASE Rating!FindSeat(r)
  <2>1. Rating!InFlight(r) /\ q \in Rating!Request /\ q.pc = "find"
    BY <1>4, <1>t, RequestInFlight DEF Rating!FindSeat, Rating!At, Rating!Steps
  <2>2. RequestOK(q)
    BY <2>1 DEF RatingInv, RequestsOK
  <2>3. CASE seat[q.by] = "none"
    <3>1. Rating!Refuse(r)
      BY <1>4, <2>3 DEF Rating!FindSeat
    <3> QED
      BY <3>1, RefusedKeeps
  <2>4. CASE seat[q.by] # "none"
    <3> DEFINE step == IF seat[q.by] = "rated" THEN "commit" ELSE "mark"
                  new == [q EXCEPT !.pc = step]
    <3>1. /\ sending' = [sending EXCEPT ![r] = new]
          /\ UNCHANGED seat /\ UNCHANGED rating /\ UNCHANGED over /\ UNCHANGED reseated
          /\ ratingFailures' \in 0 .. RatingFailures
      BY <1>4, <1>t, <2>4 DEF Rating!FindSeat, Rating!Goto, Rating!data
    <3>2. new \in Rating!Request \cup {Rating!Idle}
      BY <2>1 DEF Rating!Request, Rating!Steps
    <3>3. RequestOK(new)
      BY <2>1, <2>2 DEF RequestOK, Evaluated, Rating!Request
    <3>4. new.rows = q.rows /\ new.by = q.by
      BY <2>1 DEF Rating!Request
    <3> HIDE DEF new
    <3>5. \A p \in Requests \ {r} :
            new # Rating!Idle /\ Rating!InFlight(p) /\ sending[p].by = new.by
              => sending[p].rows \cap new.rows = {}
      BY <2>1, <3>4 DEF RatingInv, RowsApart
    <3>6. new # Rating!Idle => RequestOK(new)
      BY <3>3
    <3> QED
      BY <3>1, <3>2, <3>5, <3>6, RequestMoves
  <2> QED
    BY <2>3, <2>4
<1>5. CASE Rating!AwaitFails(r)
  <2>1. /\ sending' = [sending EXCEPT ![r] = Rating!Idle]
        /\ UNCHANGED seat /\ UNCHANGED rating /\ UNCHANGED over /\ UNCHANGED reseated
        /\ ratingFailures' \in 0 .. RatingFailures
    BY <1>5, <1>t DEF Rating!AwaitFails, Rating!Become, Rating!data, Rating!RatingsAssumption
  <2> QED
    BY <2>1, RequestEnds
<1> QED
  BY <1>1, <1>2, <1>3, <1>4, <1>5
-----------------------------------------------------------------------------
(* The commits, which are all that stores ratings.                         *)

\* What a commit of q makes of the ratings: the rows it holds are stored, and
\* the others stay.
LEMMA RatedRows ==
  ASSUME Rating!RatingsAssumption, Rating!TypeOK, NEW q \in Rating!Request, RequestOK(q)
  PROVE  /\ Rating!Rated(q) \in [Raters \X Raters -> Notes \cup {NoNote}]
         /\ \A u, v \in Raters :
              Rating!Rated(q)[<<u, v>>] # rating[<<u, v>>] => u = q.by /\ v \in q.rows
<1>1. rating \in [Raters \X Raters -> Notes \cup {NoNote}]
  BY DEF Rating!TypeOK
<1>2. q.list \in Seq([evaluated : Raters, note : Notes]) /\ DOMAIN q.list = 1 .. Len(q.list)
  BY ListOfRequest
<1> DEFINE place(p) == CHOOSE i \in DOMAIN q.list : q.list[i].evaluated = p[2]
<1>3. ASSUME NEW p \in Raters \X Raters, p[2] \in q.rows
      PROVE  q.list[place(p)].note \in Notes
  <2>1. place(p) \in DOMAIN q.list
    BY <1>3 DEF RequestOK, Evaluated
  <2>2. q.list[place(p)] \in [evaluated : Raters, note : Notes]
    BY <1>2, <2>1, ElementOf
  <2> QED
    BY <2>2
<1>4. \A p \in Raters \X Raters :
        Rating!Rated(q)[p] = IF p[1] = q.by /\ p[2] \in q.rows THEN q.list[place(p)].note
                             ELSE rating[p]
  BY DEF Rating!Rated
<1>5. Rating!Rated(q) = [p \in Raters \X Raters |-> Rating!Rated(q)[p]]
  BY DEF Rating!Rated
<1> HIDE DEF place
<1>6. \A p \in Raters \X Raters : Rating!Rated(q)[p] \in Notes \cup {NoNote}
  BY <1>1, <1>3, <1>4
<1>7. \A u, v \in Raters : <<u, v>> \in Raters \X Raters /\ <<u, v>>[1] = u /\ <<u, v>>[2] = v
  OBVIOUS
<1> QED
  BY <1>4, <1>5, <1>6, <1>7

\* A request stores its rows and is over.  The others keep what they rely on,
\* and so do the ratings, where the seat of the evaluator bears witness.
LEMMA CommitKeepsRatings ==
  ASSUME Rating!RatingsAssumption, RatingInv, NEW r \in Requests, Rating!InFlight(r),
         rating' = Rating!Rated(sending[r]),
         sending' = [sending EXCEPT ![r] = Rating!Idle],
         UNCHANGED over, UNCHANGED ratingFailures,
         \/ UNCHANGED seat /\ UNCHANGED reseated
            /\ (seat[sending[r].by] = "unrated" => sending[r].by \in reseated)
         \/ /\ seat' = [seat EXCEPT ![sending[r].by] = "rated"]
            /\ seat[sending[r].by] # "none"
            /\ reseated' = reseated \ {sending[r].by}
  PROVE  RatingInv'
<1> DEFINE q == sending[r]
<1>1. q \in Rating!Request /\ q.by \in Raters
  BY RequestInFlight DEF RatingInv, Rating!Request
<1>2. RequestOK(q)
  BY DEF RatingInv, RequestsOK
<1>3. /\ rating' \in [Raters \X Raters -> Notes \cup {NoNote}]
      /\ \A u, v \in Raters : rating'[<<u, v>>] # rating[<<u, v>>] => u = q.by /\ v \in q.rows
  BY <1>1, <1>2, RatedRows DEF RatingInv
<1>4. /\ seat \in [Raters -> {"none", "unrated", "rated"}]
      /\ seat' \in [Raters -> {"none", "unrated", "rated"}]
      /\ reseated' \subseteq Raters
  BY <1>1 DEF RatingInv, Rating!TypeOK
<1>5. Rating!TypeOK'
  BY <1>3, <1>4 DEF RatingInv, Rating!TypeOK
<1>6. /\ Rating!InFlight(r)' = FALSE
      /\ \A p \in Requests \ {r} : sending'[p] = sending[p]
  BY DEF RatingInv, Rating!TypeOK, Rating!InFlight
<1>7. \A u \in Raters : (seat'[u] = "none") <=> (seat[u] = "none")
  BY <1>1, <1>4
<1>8. \A u \in Raters : seat'[u] = "unrated" => seat[u] = "unrated"
  BY <1>1, <1>4
<1>9. \A u \in Raters : u \in reseated /\ seat'[u] = "unrated" => u \in reseated'
  BY <1>1, <1>4
<1>10. RequestsOK'
  <2> SUFFICES ASSUME NEW p \in Requests, Rating!InFlight(p)' PROVE RequestOK(sending[p])'
    BY DEF RequestsOK
  <2> DEFINE s == sending[p]
  <2>1. p # r /\ sending'[p] = s /\ Rating!InFlight(p)
    BY <1>6 DEF Rating!InFlight
  <2>2. s \in Rating!Request /\ s.by \in Raters /\ RequestOK(s) /\ Evaluated(s) \subseteq Raters
    BY <2>1, RequestInFlight, ListOfRequest DEF RatingInv, RequestsOK
  <2>3. Rating!Seated(seat') = Rating!Seated(seat)
    BY <1>7 DEF Rating!Seated
  <2>4. \A v \in s.rows : rating'[<<s.by, v>>] = NoNote
    <3> SUFFICES ASSUME NEW v \in s.rows PROVE rating'[<<s.by, v>>] = NoNote
      OBVIOUS
    <3>1. rating[<<s.by, v>>] = NoNote /\ v \in Raters
      BY <2>2 DEF RequestOK
    <3>2. s.by = q.by => v \notin q.rows
      BY <2>1 DEF RatingInv, RowsApart
    <3> QED
      BY <1>3, <2>2, <3>1, <3>2
  <2>5. s.pc = "commit" => (seat'[s.by] = "unrated" => s.by \in reseated')
    BY <1>8, <1>9, <2>2 DEF RequestOK
  <2> QED
    BY <2>1, <2>2, <2>3, <2>4, <2>5 DEF RequestOK, Rating!AllSeated, Evaluated
<1>11. RowsApart'
  BY <1>6 DEF RatingInv, RowsApart, Rating!InFlight
<1>12. Rating!RatersAreValidated'
  <2> SUFFICES ASSUME NEW u \in Raters, seat'[u] # "none", u \notin reseated',
                      NEW v \in Raters, rating'[<<u, v>>] # NoNote
               PROVE  seat'[u] = "rated"
    BY DEF Rating!RatersAreValidated, Rating!Seated
  <2>1. CASE u = q.by
    BY <1>4, <2>1
  <2>2. CASE u # q.by
    <3>1. rating[<<u, v>>] # NoNote /\ seat'[u] = seat[u] /\ u \notin reseated
      BY <1>3, <1>4, <2>2
    <3> QED
      BY <3>1 DEF RatingInv, Rating!RatersAreValidated, Rating!Seated
  <2> QED
    BY <2>1, <2>2
<1> QED
  BY <1>5, <1>10, <1>11, <1>12 DEF RatingInv

\* The two steps that store ratings.
LEMMA StoresKeepRatings ==
  ASSUME Rating!RatingsAssumption, RatingInv, NEW r \in Requests,
         Rating!CommitRatings(r) \/ Rating!MarkSeat(r)
  PROVE  RatingInv'
<1>1. CASE Rating!CommitRatings(r)
  <2>1. Rating!InFlight(r) /\ sending[r].pc = "commit"
    BY <1>1, RequestInFlight DEF RatingInv, Rating!CommitRatings, Rating!At, Rating!Steps
  <2>2. seat[sending[r].by] = "unrated" => sending[r].by \in reseated
    BY <2>1 DEF RatingInv, RequestsOK, RequestOK
  <2>3. /\ rating' = Rating!Rated(sending[r])
        /\ sending' = [sending EXCEPT ![r] = Rating!Idle]
        /\ UNCHANGED seat /\ UNCHANGED over /\ UNCHANGED reseated /\ UNCHANGED ratingFailures
    BY <1>1 DEF Rating!CommitRatings, Rating!Become
  <2> QED
    BY <2>1, <2>2, <2>3, CommitKeepsRatings
<1>2. CASE Rating!MarkSeat(r)
  <2>1. Rating!InFlight(r)
    BY <1>2, RequestInFlight DEF RatingInv, Rating!MarkSeat, Rating!At, Rating!Steps
  <2>2. CASE seat[sending[r].by] = "none"
    <3>1. Rating!Refuse(r)
      BY <1>2, <2>2 DEF Rating!MarkSeat
    <3> QED
      BY <3>1, RefusedKeeps
  <2>3. CASE seat[sending[r].by] # "none"
    <3>1. /\ rating' = Rating!Rated(sending[r])
          /\ sending' = [sending EXCEPT ![r] = Rating!Idle]
          /\ seat' = [seat EXCEPT ![sending[r].by] = "rated"]
          /\ reseated' = reseated \ {sending[r].by}
          /\ UNCHANGED over /\ UNCHANGED ratingFailures
      BY <1>2, <2>3 DEF Rating!MarkSeat, Rating!Become
    <3> QED
      BY <2>1, <2>3, <3>1, CommitKeepsRatings
  <2> QED
    BY <2>2, <2>3
<1> QED
  BY <1>1, <1>2

\* Players sit down and leave, and the session ends.
LEMMA SeatsKeepRatings ==
  ASSUME Rating!RatingsAssumption, RatingInv,
         (\E u \in Raters : Rating!Sit(u) \/ Rating!Rise(u)) \/ Rating!SessionEnds
  PROVE  RatingInv'
<1>t. /\ Rating!TypeOK
      /\ seat \in [Raters -> {"none", "unrated", "rated"}]
      /\ sending \in [Requests -> Rating!Request \cup {Rating!Idle}]
  BY DEF RatingInv, Rating!TypeOK
<1>1. CASE \E u \in Raters : Rating!Sit(u)
  <2>1. PICK u \in Raters : Rating!Sit(u)
    BY <1>1
  <2>2. /\ seat' = [seat EXCEPT ![u] = "unrated"] /\ reseated' = reseated \cup {u}
        /\ UNCHANGED rating /\ UNCHANGED over /\ UNCHANGED ratingFailures
        /\ sending' = [p \in Requests |->
             IF Rating!InFlight(p) /\ Rating!AllSeated(sending[p], seat')
             THEN [sending[p] EXCEPT !.met = TRUE] ELSE sending[p]]
    BY <2>1 DEF Rating!Sit, Rating!Observe
  <2>3. ASSUME NEW p \in Requests
        PROVE  /\ ~Rating!InFlight(p) => sending'[p] = Rating!Idle
               /\ Rating!InFlight(p) =>
                    /\ sending[p] \in Rating!Request /\ sending'[p] \in Rating!Request
                    /\ sending'[p].pc = sending[p].pc /\ sending'[p].by = sending[p].by
                    /\ sending'[p].list = sending[p].list /\ sending'[p].rows = sending[p].rows
                    /\ sending[p].met => sending'[p].met
                    /\ Rating!AllSeated(sending[p], seat') => sending'[p].met
    <3>1. sending'[p] = IF Rating!InFlight(p) /\ Rating!AllSeated(sending[p], seat')
                        THEN [sending[p] EXCEPT !.met = TRUE] ELSE sending[p]
      BY <2>2
    <3>2. CASE ~Rating!InFlight(p)
      BY <3>1, <3>2 DEF Rating!InFlight
    <3>3. CASE Rating!InFlight(p)
      <4>1. sending[p] \in Rating!Request
        BY <1>t, <3>3, RequestInFlight
      <4>2. CASE Rating!AllSeated(sending[p], seat')
        <5>1. sending'[p] = [sending[p] EXCEPT !.met = TRUE]
          BY <3>1, <3>3, <4>2
        <5> QED
          BY <3>3, <4>1, <5>1 DEF Rating!Request
      <4>3. CASE ~Rating!AllSeated(sending[p], seat')
        BY <3>1, <3>3, <4>1, <4>3
      <4> QED
        BY <4>2, <4>3
    <3> QED
      BY <3>2, <3>3
  <2>4. Rating!TypeOK'
    <3>1. sending' \in [Requests -> Rating!Request \cup {Rating!Idle}]
      BY <2>2, <2>3
    <3> QED
      BY <2>2, <3>1 DEF RatingInv, Rating!TypeOK
  <2>5. \A p \in Requests : Rating!InFlight(p)' <=> Rating!InFlight(p)
    BY <2>3 DEF Rating!InFlight, Rating!Idle, Rating!Request, Rating!Steps
  <2>6. RequestsOK'
    <3> SUFFICES ASSUME NEW p \in Requests, Rating!InFlight(p) PROVE RequestOK(sending[p])'
      BY <2>5 DEF RequestsOK
    <3> DEFINE q == sending[p]
               new == sending'[p]
    <3>1. /\ new.pc = q.pc /\ new.by = q.by /\ new.list = q.list /\ new.rows = q.rows
          /\ q.met => new.met
          /\ Rating!AllSeated(q, seat') => new.met
          /\ q.by \in Raters
      BY <2>3 DEF Rating!Request
    <3>2. RequestOK(q)
      BY DEF RatingInv, RequestsOK
    <3>3. Evaluated(new) = Evaluated(q)
      BY <3>1 DEF Evaluated
    <3>4. Rating!AllSeated(new, seat') => Rating!AllSeated(q, seat')
      BY <3>1 DEF Rating!AllSeated, Rating!UserUids
    <3>5. seat'[q.by] = "unrated" => q.by \in reseated' \/ seat[q.by] = "unrated"
      BY <1>t, <2>2, <3>1
    <3>6. UNCHANGED rating
      BY <2>2
    <3>7. Evaluated(sending[p])' = Evaluated(q)
      BY <3>3 DEF Evaluated
    <3>8. Rating!AllSeated(sending[p], seat)' => new.met
      BY <3>1, <3>4 DEF Rating!AllSeated, Rating!Seated, Rating!UserUids
    <3>9. /\ new.pc \in {"check", "insert"} => new.rows = {}
          /\ new.pc # "check" => new.met /\ new.by \notin Evaluated(q)
          /\ new.rows \subseteq Evaluated(q)
      BY <3>1, <3>2 DEF RequestOK
    <3>10. \A v \in new.rows : rating'[<<new.by, v>>] = NoNote
      BY <3>1, <3>2, <3>6 DEF RequestOK
    <3>11. new.pc = "commit" => (seat'[new.by] = "unrated" => new.by \in reseated')
      BY <2>2, <3>1, <3>2, <3>5 DEF RequestOK
    <3> QED
      BY <3>7, <3>8, <3>9, <3>10, <3>11 DEF RequestOK
  <2>7. RowsApart'
    BY <2>3, <2>5 DEF RatingInv, RowsApart
  <2>8. Rating!RatersAreValidated'
    BY <1>t, <2>2 DEF RatingInv, Rating!RatersAreValidated, Rating!Seated
  <2> QED
    BY <2>4, <2>6, <2>7, <2>8 DEF RatingInv
<1>2. CASE \E u \in Raters : Rating!Rise(u)
  <2>1. PICK u \in Raters : Rating!Rise(u)
    BY <1>2
  <2>2. /\ seat' = [seat EXCEPT ![u] = "none"]
        /\ UNCHANGED rating /\ UNCHANGED over /\ UNCHANGED sending
        /\ UNCHANGED reseated /\ UNCHANGED ratingFailures
    BY <2>1 DEF Rating!Rise
  <2>3. Rating!TypeOK' /\ RowsApart'
    BY <2>2 DEF RatingInv, Rating!TypeOK, RowsApart, Rating!InFlight
  <2>4. Rating!Seated(seat') \subseteq Rating!Seated(seat)
    BY <1>t, <2>2 DEF Rating!Seated
  <2>5. RequestsOK'
    <3> SUFFICES ASSUME NEW p \in Requests, Rating!InFlight(p) PROVE RequestOK(sending[p])'
      BY <2>2 DEF RequestsOK, Rating!InFlight
    <3>1. RequestOK(sending[p]) /\ sending[p].by \in Raters
      BY <1>t, RequestInFlight DEF RatingInv, RequestsOK, Rating!Request
    <3>2. seat'[sending[p].by] = "unrated" => seat[sending[p].by] = "unrated"
      BY <1>t, <2>2, <3>1
    <3> QED
      BY <2>2, <2>4, <3>1, <3>2 DEF RequestOK, Rating!AllSeated, Evaluated
  <2>6. Rating!RatersAreValidated'
    BY <1>t, <2>2 DEF RatingInv, Rating!RatersAreValidated, Rating!Seated
  <2> QED
    BY <2>3, <2>5, <2>6 DEF RatingInv
<1>3. CASE Rating!SessionEnds
  BY <1>3 DEF Rating!SessionEnds, RatingInv, Rating!TypeOK, RequestsOK, RequestOK, RowsApart,
    Rating!InFlight, Rating!AllSeated, Rating!Seated, Evaluated, Rating!RatersAreValidated
<1> QED
  BY <1>1, <1>2, <1>3

-----------------------------------------------------------------------------
\* The invariant is kept by every step.
LEMMA RatingInvStep ==
  ASSUME Rating!RatingsAssumption, RatingInv, [Rating!Next]_Rating!vars
  PROVE  RatingInv'
<1>1. CASE \E r \in Requests :
             \/ \E u \in Raters, list \in RatingLists : Rating!RatingsArrive(r, u, list)
             \/ Rating!Work(r)
  BY <1>1, WorkKeepsRatings, StoresKeepRatings DEF Rating!Work
<1>2. CASE (\E u \in Raters : Rating!Sit(u) \/ Rating!Rise(u)) \/ Rating!SessionEnds
  BY <1>2, SeatsKeepRatings
<1>3. CASE UNCHANGED Rating!vars
  <2>1. /\ UNCHANGED seat /\ UNCHANGED rating /\ UNCHANGED over /\ UNCHANGED sending
        /\ UNCHANGED reseated /\ UNCHANGED ratingFailures
    BY <1>3 DEF Rating!vars
  <2>2. Rating!TypeOK' /\ RowsApart'
    BY <2>1 DEF RatingInv, Rating!TypeOK, RowsApart, Rating!InFlight
  <2>3. RequestsOK' /\ Rating!RatersAreValidated'
    BY <2>1 DEF RatingInv, RequestsOK, RequestOK, Rating!InFlight, Rating!AllSeated,
      Rating!Seated, Evaluated, Rating!RatersAreValidated
  <2> QED
    BY <2>2, <2>3 DEF RatingInv
<1> QED
  BY <1>1, <1>2, <1>3 DEF Rating!Next

\* Ratings change at a commit alone, to what the request has in hand.
LEMMA RatingsChangeAtCommit ==
  ASSUME Rating!RatingsAssumption, RatingInv, [Rating!Next]_Rating!vars,
         rating' # rating
  PROVE  \E r \in Requests : Rating!InFlight(r) /\ sending[r].pc # "check"
                             /\ rating' = Rating!Rated(sending[r])
<1>1. PICK r \in Requests : Rating!CommitRatings(r) \/ Rating!MarkSeat(r)
  BY DEF Rating!Next, Rating!vars, Rating!Work, Rating!RatingsArrive, Rating!CheckPlayers,
    Rating!InsertRatings, Rating!FindSeat, Rating!AwaitFails, Rating!Refuse, Rating!data,
    Rating!Sit, Rating!Rise, Rating!SessionEnds
<1>2. Rating!InFlight(r) /\ sending[r].pc # "check"
  BY <1>1, RequestInFlight
    DEF RatingInv, Rating!CommitRatings, Rating!MarkSeat, Rating!At, Rating!Steps
<1>3. rating' = Rating!Rated(sending[r])
  BY <1>1 DEF Rating!CommitRatings, Rating!MarkSeat, Rating!Refuse, Rating!data
<1> QED
  BY <1>2, <1>3

\* Whoever has rated somebody has a seat that says so, unless he has taken a
\* new one since; and ratings are stored for players who were met together,
\* never over another, and never of oneself (createMany,
\* checkIfUsersArePlayers).
THEOREM RatingsEarned == Rating!Spec => RatingsAreEarned
<1> Rating!RatingsAssumption
  BY PartsAssumption
<1>1. Rating!Init => RatingInv
  BY RatingInvInit
<1>2. RatingInv /\ [Rating!Next]_Rating!vars => RatingInv'
  BY RatingInvStep
<1>3. RatingInv => Rating!RatersAreValidated
  BY DEF RatingInv
<1>4. RatingInv /\ [Rating!Next]_Rating!vars =>
        [\A u, v \in Raters :
           rating'[<<u, v>>] # rating[<<u, v>>] =>
             /\ rating[<<u, v>>] = NoNote /\ u # v
             /\ \E r \in Requests :
                  /\ Rating!InFlight(r) /\ sending[r].met
                  /\ {u, v} \subseteq Rating!ToSet(Rating!UserUids(sending[r]))]_Rating!vars
  <2> SUFFICES ASSUME RatingInv, [Rating!Next]_Rating!vars, NEW u \in Raters, NEW v \in Raters,
                      rating'[<<u, v>>] # rating[<<u, v>>]
               PROVE  /\ rating[<<u, v>>] = NoNote /\ u # v
                      /\ \E r \in Requests :
                           /\ Rating!InFlight(r) /\ sending[r].met
                           /\ {u, v} \subseteq Rating!ToSet(Rating!UserUids(sending[r]))
    OBVIOUS
  <2>1. PICK r \in Requests : Rating!InFlight(r) /\ sending[r].pc # "check"
                              /\ rating' = Rating!Rated(sending[r])
    BY RatingsChangeAtCommit
  <2>2. sending[r] \in Rating!Request /\ RequestOK(sending[r])
    BY <2>1, RequestInFlight DEF RatingInv, RequestsOK
  <2>3. u = sending[r].by /\ v \in sending[r].rows
    BY <2>1, <2>2, RatedRows DEF RatingInv
  <2>4. v \in Evaluated(sending[r]) /\ u # v /\ rating[<<u, v>>] = NoNote /\ sending[r].met
    BY <2>1, <2>2, <2>3 DEF RequestOK
  <2>5. {u, v} \subseteq Rating!ToSet(Rating!UserUids(sending[r]))
    BY <2>2, <2>3, <2>4, ListOfRequest
  <2> QED
    BY <2>1, <2>4, <2>5
<1> QED
  BY <1>1, <1>2, <1>3, <1>4, PTL
    DEF Rating!Spec, RatingsAreEarned, Rating!RatingsAreEarned, Rating!PlayersRatePlayers

-----------------------------------------------------------------------------
(* The preferences of a user (Preferences), whose instance is in           *)
(* MCAccountLifecycle.                                                     *)

\* The cardinality of this instance is that of everybody else, too.
LEMMA OneCount ==
  ASSUME NEW S
  PROVE  Preferred!Cardinality(S) = Cardinality(S)
BY DEF Preferred!Cardinality, Cardinality

\* The hours a list comes to make none superfluous and repeat none: of two that
\* are equal the later one is skipped, and so is one a recurrent one covers.
LEMMA ValidIsSettled ==
  ASSUME NEW list \in Seq(Preferred!Hour)
  PROVE  /\ Preferred!Valid(list) \in [Preferred!Hour -> Nat]
         /\ Preferred!Settled(Preferred!Valid(list))
<1> DEFINE kept(h) == {i \in Preferred!Kept(list) : list[i] = h}
<1>1. \A i, j \in Preferred!Kept(list) :
        /\ i \in Nat /\ list[i] \in Preferred!Hour
        /\ list[i] = list[j] => i = j
        /\ Preferred!Covers(list[j], list[i]) => list[i] = list[j]
  <2> SUFFICES ASSUME NEW i \in Preferred!Kept(list), NEW j \in Preferred!Kept(list)
               PROVE  /\ i \in Nat /\ list[i] \in Preferred!Hour
                      /\ list[i] = list[j] => i = j
                      /\ Preferred!Covers(list[j], list[i]) => list[i] = list[j]
    OBVIOUS
  <2>1. /\ i \in Nat /\ j \in Nat /\ i \in DOMAIN list /\ j \in DOMAIN list
        /\ list[i] \in Preferred!Hour
    BY DEF Preferred!Kept
  <2>2. /\ Preferred!Before(list, j, i) => ~Preferred!Covers(list[j], list[i])
        /\ Preferred!Before(list, i, j) => ~Preferred!Covers(list[i], list[j])
    BY <2>1 DEF Preferred!Kept
  <2>3. ASSUME list[i] = list[j]  PROVE  i = j
    <3>1. i < j \/ j < i \/ i = j
      BY <2>1
    <3> QED
      BY <2>2, <2>3, <3>1 DEF Preferred!Before, Preferred!Covers
  <2>4. ASSUME Preferred!Covers(list[j], list[i])  PROVE  list[i] = list[j]
    BY <2>2, <2>4 DEF Preferred!Before, Preferred!Covers
  <2> QED
    BY <2>1, <2>3, <2>4
<1>2. ASSUME NEW h \in Preferred!Hour
      PROVE  /\ kept(h) = {} \/ \E i \in Preferred!Kept(list) : list[i] = h /\ kept(h) = {i}
             /\ Cardinality(kept(h)) \in {0, 1}
             /\ Cardinality(kept(h)) # 0 => \E i \in Preferred!Kept(list) : list[i] = h
  <2>1. kept(h) = {} \/ \E i \in Preferred!Kept(list) : list[i] = h /\ kept(h) = {i}
    BY <1>1
  <2> HIDE DEF kept
  <2>2. CASE kept(h) = {}
    BY <2>1, <2>2, FS_EmptySet
  <2>3. CASE \E i \in Preferred!Kept(list) : list[i] = h /\ kept(h) = {i}
    BY <2>1, <2>3, FS_Singleton
  <2> QED
    BY <2>1, <2>2, <2>3
<1>3. Preferred!Valid(list) = [h \in Preferred!Hour |-> Cardinality(kept(h))]
  BY OneCount DEF Preferred!Valid
<1> HIDE DEF kept
<1>4. /\ Preferred!Valid(list) \in [Preferred!Hour -> Nat]
      /\ \A h \in Preferred!Hour : Preferred!Valid(list)[h] = Cardinality(kept(h))
  BY <1>2, <1>3
<1>5. ASSUME NEW h \in Preferred!Hour, NEW k \in Preferred!Hour \ {h},
             Preferred!Valid(list)[h] # 0, Preferred!Valid(list)[k] # 0
      PROVE  ~Preferred!Covers(k, h)
  <2>1. PICK i \in Preferred!Kept(list) : list[i] = h
    BY <1>2, <1>4, <1>5
  <2>2. PICK j \in Preferred!Kept(list) : list[j] = k
    BY <1>2, <1>4, <1>5
  <2> QED
    BY <1>1, <2>1, <2>2
<1>6. \A h \in Preferred!Hour : Preferred!Valid(list)[h] <= 1
  BY <1>2, <1>4
<1> QED
  BY <1>4, <1>5, <1>6 DEF Preferred!Settled

\* A request is about sports or about hours, and idle about neither.
LEMMA KindOfRequest ==
  ASSUME NEW r \in Requests
  PROVE  /\ Preferred!AboutSports(r) => Preferred!InFlight(r) /\ ~Preferred!AboutHours(r)
         /\ Preferred!AboutHours(r) => Preferred!InFlight(r)
<1>1. request[r] = Preferred!Idle => request[r].pc = "idle"
  BY DEF Preferred!Idle
<1> QED
  BY <1>1 DEF Preferred!AboutSports, Preferred!AboutHours, Preferred!InFlight

\* What a DELETE is sent with is a list of anything.
LEMMA EmptyList ==
  ASSUME NEW S
  PROVE  Preferred!NoList \in Seq(S)
BY DEF Preferred!NoList

\* What a list has is of its kind.
LEMMA EntryOf ==
  ASSUME NEW S, NEW list \in Seq(S), NEW i \in DOMAIN list
  PROVE  list[i] \in S
OBVIOUS

\* A new request is at its first step and leaves the others at theirs.
LEMMA ArrivalTypes ==
  ASSUME NEW pc \in Preferred!Steps, NEW list, NEW only \in BOOLEAN, NEW others,
         NEW r \in Requests,
         request \in [Requests -> Preferred!Request \cup {Preferred!Idle}],
         list \in SportLists \cup {Preferred!NoList} \cup [Preferred!Hour -> Nat],
         \A p \in others : Preferred!InFlight(p),
         Preferred!Arrive(r, pc, list, only, others)
  PROVE  /\ request' \in [Requests -> Preferred!Request \cup {Preferred!Idle}]
         /\ request'[r].pc = pc /\ request'[r].list = list
         /\ request'[r].alone => others = {}
         /\ \A p \in Requests \ {r} :
              /\ request'[p].pc = request[p].pc /\ request'[p].list = request[p].list
              /\ request'[p].alone => request[p].alone /\ p \notin others
         /\ UNCHANGED <<sports, modes, hours, preferred, prefFailures>>
<1>1. request' = [p \in Requests |->
        IF p = r THEN [pc |-> pc, list |-> list, only |-> only, alone |-> others = {}]
        ELSE IF p \in others THEN [request[p] EXCEPT !.alone = FALSE] ELSE request[p]]
  BY DEF Preferred!Arrive
<1>2. [pc |-> pc, list |-> list, only |-> only, alone |-> others = {}] \in Preferred!Request
  BY DEF Preferred!Request
<1>3. \A p \in Requests : Preferred!InFlight(p) => request[p] \in Preferred!Request
  BY DEF Preferred!InFlight
<1>4. \A p \in Requests : p \in others =>
        /\ [request[p] EXCEPT !.alone = FALSE] \in Preferred!Request
        /\ [request[p] EXCEPT !.alone = FALSE].pc = request[p].pc
        /\ [request[p] EXCEPT !.alone = FALSE].list = request[p].list
        /\ ~[request[p] EXCEPT !.alone = FALSE].alone
  BY <1>3 DEF Preferred!Request
<1>5. request' \in [Requests -> Preferred!Request \cup {Preferred!Idle}]
  BY <1>1, <1>2, <1>4
<1>6. ASSUME NEW p \in Requests \ {r}
      PROVE  /\ request'[p].pc = request[p].pc /\ request'[p].list = request[p].list
             /\ request'[p].alone => request[p].alone /\ p \notin others
  <2>1. CASE p \in others
    BY <1>1, <1>4, <2>1
  <2>2. CASE p \notin others
    BY <1>1, <2>2
  <2> QED
    BY <2>1, <2>2
<1>7. request'[r].pc = pc /\ request'[r].list = list /\ (request'[r].alone => others = {})
  BY <1>1
<1>8. UNCHANGED <<sports, modes, hours, preferred, prefFailures>>
  BY DEF Preferred!Arrive, Preferred!table
<1> QED
  BY <1>5, <1>6, <1>7, <1>8

\* A request at work is alone if none of its kind comes or has come beside it;
\* then what it has cleared is clear.
LoneHere(r) ==
  /\ Preferred!AboutSports(r) /\ request[r].alone =>
       /\ \A p \in Requests \ {r} : ~Preferred!AboutSports(p)
       /\ ~Preferred!At(r, "clear sports") => sports = {}
       /\ Preferred!At(r, "insert sports") => modes = {}
  /\ Preferred!AboutHours(r) /\ request[r].alone =>
       /\ \A p \in Requests \ {r} : ~Preferred!AboutHours(p)
       /\ Preferred!At(r, "insert hours") => hours = [h \in Preferred!Hour |-> 0]

LoneIsUndisturbed == \A r \in Requests : LoneHere(r)

\* The hours about to be inserted make none superfluous.
ListsInHand ==
  \A r \in Requests : Preferred!AboutHours(r) => Preferred!Settled(request[r].list)

\* The inductive invariant of ListsStayWhole.
PreferenceInv ==
  Preferred!TypeOK /\ Preferred!ModesComeTogether /\ LoneIsUndisturbed /\ ListsInHand

\* A list is sent, or the old one is to be deleted.
SportsAreSent(r) ==
  \E list \in SportLists \cup {Preferred!NoList}, only \in BOOLEAN :
    Preferred!SportsArrive(r, list, only)
HoursAreSent(r) ==
  \E list \in HourLists \cup {Preferred!NoList}, only \in BOOLEAN :
    Preferred!HoursArrive(r, list, only)

\* A new request takes being alone from those of its kind.
LEMMA ArrivalKeepsInv ==
  ASSUME PreferenceInv, NEW r \in Requests,
         SportsAreSent(r) \/ HoursAreSent(r)
  PROVE  PreferenceInv'
<1> USE DEF PreferenceInv, Preferred!TypeOK
<1>1. CASE SportsAreSent(r)
  <2>1. PICK list \in SportLists \cup {Preferred!NoList}, only \in BOOLEAN :
          Preferred!SportsArrive(r, list, only)
    BY <1>1 DEF SportsAreSent
  <2> DEFINE others == {p \in Requests : Preferred!AboutSports(p)}
  <2>2. Preferred!Arrive(r, "clear sports", list, only, others) /\ ~Preferred!InFlight(r)
    BY <2>1 DEF Preferred!SportsArrive, Preferred!Arrive
  <2>3. \A p \in others : Preferred!InFlight(p)
    BY KindOfRequest
  <2>4. r \notin others /\ ~Preferred!AboutHours(r)
    BY <2>2, KindOfRequest
  <2> HIDE DEF others
  <2>5. /\ request' \in [Requests -> Preferred!Request \cup {Preferred!Idle}]
        /\ request'[r].pc = "clear sports" /\ request'[r].list = list
        /\ request'[r].alone => others = {}
        /\ \A p \in Requests \ {r} :
             /\ request'[p].pc = request[p].pc /\ request'[p].list = request[p].list
             /\ request'[p].alone => request[p].alone /\ p \notin others
        /\ UNCHANGED <<sports, modes, hours, preferred, prefFailures>>
    BY <2>2, <2>3, ArrivalTypes DEF Preferred!Steps
  <2>6. Preferred!TypeOK'
    <3> SUFFICES ASSUME NEW p \in Requests
                 PROVE  /\ request'[p].pc \in {"clear sports", "clear modes", "insert sports"}
                             => request'[p].list \in SportLists \cup {Preferred!NoList}
                        /\ request'[p].pc \in {"clear hours", "insert hours"}
                             => request'[p].list \in [Preferred!Hour -> Nat]
                        /\ request'[p].pc = "insert sports"
                             => ~Preferred!Repeats(request'[p].list)
      BY <2>5 DEF Preferred!AboutSports, Preferred!AboutHours, Preferred!At
    <3>1. CASE p = r
      BY <2>5, <3>1
    <3>2. CASE p # r
      BY <2>5, <3>2 DEF Preferred!AboutSports, Preferred!AboutHours, Preferred!At
    <3> QED
      BY <3>1, <3>2
  <2>7. Preferred!ModesComeTogether'
    BY <2>5 DEF Preferred!ModesComeTogether, Preferred!ModesIn
  <2>8. ListsInHand'
    <3> SUFFICES ASSUME NEW p \in Requests, request'[p].pc \in {"clear hours", "insert hours"}
                 PROVE  Preferred!Settled(request'[p].list)
      BY DEF ListsInHand, Preferred!AboutHours, Preferred!Settled
    <3>1. CASE p = r
      BY <2>5, <3>1
    <3>2. CASE p # r
      BY <2>5, <3>2 DEF ListsInHand, Preferred!AboutHours
    <3> QED
      BY <3>1, <3>2
  <2>9. LoneIsUndisturbed'
    <3> SUFFICES ASSUME NEW p \in Requests
                 PROVE  LoneHere(p)'
      BY DEF LoneIsUndisturbed
    <3>1. CASE p = r
      BY <2>4, <2>5, <3>1 DEF LoneHere, Preferred!AboutSports, Preferred!AboutHours,
         Preferred!At, others
    <3>2. CASE p # r
      BY <2>4, <2>5, <3>2 DEF LoneIsUndisturbed, LoneHere, Preferred!AboutSports,
         Preferred!AboutHours, Preferred!At, others
    <3> QED
      BY <3>1, <3>2
  <2> QED
    BY <2>6, <2>7, <2>8, <2>9
<1>2. CASE HoursAreSent(r)
  <2>1. PICK list \in HourLists \cup {Preferred!NoList}, only \in BOOLEAN :
          Preferred!HoursArrive(r, list, only)
    BY <1>2 DEF HoursAreSent
  <2> DEFINE others == {p \in Requests : Preferred!AboutHours(p)}
  <2> DEFINE rows == Preferred!Valid(list)
  <2>2. Preferred!Arrive(r, "clear hours", rows, only, others) /\ ~Preferred!InFlight(r)
    BY <2>1 DEF Preferred!HoursArrive, Preferred!Arrive
  <2>3. \A p \in others : Preferred!InFlight(p)
    BY KindOfRequest
  <2>4. r \notin others /\ ~Preferred!AboutSports(r)
    BY <2>2, KindOfRequest
  <2>t. rows \in [Preferred!Hour -> Nat] /\ Preferred!Settled(rows)
    <3>1. CASE list = Preferred!NoList
      <4>1. list \in Seq(Preferred!Hour)
        BY <3>1, EmptyList
      <4> QED
        BY <4>1, ValidIsSettled
    <3>2. CASE list \in HourLists
      <4>1. list \in Seq(Preferred!Hour)
        BY <3>2, PartsAssumption DEF Preferred!HourListsAssumption
      <4> QED
        BY <4>1, ValidIsSettled
    <3> QED
      BY <3>1, <3>2
  <2> HIDE DEF others, rows
  <2>5. /\ request' \in [Requests -> Preferred!Request \cup {Preferred!Idle}]
        /\ request'[r].pc = "clear hours" /\ request'[r].list = rows
        /\ request'[r].alone => others = {}
        /\ \A p \in Requests \ {r} :
             /\ request'[p].pc = request[p].pc /\ request'[p].list = request[p].list
             /\ request'[p].alone => request[p].alone /\ p \notin others
        /\ UNCHANGED <<sports, modes, hours, preferred, prefFailures>>
    BY <2>2, <2>3, <2>t, ArrivalTypes DEF Preferred!Steps
  <2>6. Preferred!TypeOK'
    <3> SUFFICES ASSUME NEW p \in Requests
                 PROVE  /\ request'[p].pc \in {"clear sports", "clear modes", "insert sports"}
                             => request'[p].list \in SportLists \cup {Preferred!NoList}
                        /\ request'[p].pc \in {"clear hours", "insert hours"}
                             => request'[p].list \in [Preferred!Hour -> Nat]
                        /\ request'[p].pc = "insert sports"
                             => ~Preferred!Repeats(request'[p].list)
      BY <2>5 DEF Preferred!AboutSports, Preferred!AboutHours, Preferred!At
    <3>1. CASE p = r
      BY <2>5, <2>t, <3>1
    <3>2. CASE p # r
      BY <2>5, <3>2 DEF Preferred!AboutSports, Preferred!AboutHours, Preferred!At
    <3> QED
      BY <3>1, <3>2
  <2>7. Preferred!ModesComeTogether'
    BY <2>5 DEF Preferred!ModesComeTogether, Preferred!ModesIn
  <2>8. ListsInHand'
    <3> SUFFICES ASSUME NEW p \in Requests, request'[p].pc \in {"clear hours", "insert hours"}
                 PROVE  Preferred!Settled(request'[p].list)
      BY DEF ListsInHand, Preferred!AboutHours, Preferred!Settled
    <3>1. CASE p = r
      BY <2>5, <2>t, <3>1
    <3>2. CASE p # r
      BY <2>5, <3>2 DEF ListsInHand, Preferred!AboutHours
    <3> QED
      BY <3>1, <3>2
  <2>9. LoneIsUndisturbed'
    <3> SUFFICES ASSUME NEW p \in Requests
                 PROVE  LoneHere(p)'
      BY DEF LoneIsUndisturbed
    <3>1. CASE p = r
      BY <2>4, <2>5, <3>1 DEF LoneHere, Preferred!AboutSports, Preferred!AboutHours,
         Preferred!At, others
    <3>2. CASE p # r
      BY <2>4, <2>5, <3>2 DEF LoneIsUndisturbed, LoneHere, Preferred!AboutSports,
         Preferred!AboutHours, Preferred!At, others
    <3> QED
      BY <3>1, <3>2
  <2> QED
    BY <2>6, <2>7, <2>8, <2>9
<1> QED
  BY <1>1, <1>2

\* The sports and modes of a list.
LEMMA ListTypes ==
  ASSUME NEW list \in SportLists \cup {Preferred!NoList}
  PROVE  /\ Preferred!SportsOf(list) \subseteq Sports
         /\ Preferred!ModesOf(list) \subseteq Preferred!SportsOf(list) \X GameModes
<1>1. list \in Seq([sport : Sports, modes : SUBSET GameModes])
  BY PartsAssumption, EmptyList DEF Preferred!PreferencesAssumption
<1>2. \A i \in DOMAIN list : list[i] \in [sport : Sports, modes : SUBSET GameModes]
  BY <1>1, EntryOf
<1> QED
  BY <1>2 DEF Preferred!SportsOf, Preferred!ModesOf

\* A call either answers its request or goes on with it.
LEMMA WorkOnRequest ==
  ASSUME NEW r \in Requests, request \in [Requests -> Preferred!Request \cup {Preferred!Idle}],
         NEW pc \in Preferred!Steps, Preferred!InFlight(r),
         Preferred!Answer(r) \/ Preferred!Goto(r, pc)
  PROVE  /\ request' \in [Requests -> Preferred!Request \cup {Preferred!Idle}]
         /\ \A p \in Requests \ {r} : request'[p] = request[p]
         /\ Preferred!Answer(r) => request'[r].pc = "idle"
         /\ Preferred!Goto(r, pc) =>
              /\ request'[r].pc = pc /\ request'[r].list = request[r].list
              /\ request'[r].alone = request[r].alone
<1>1. CASE Preferred!Answer(r)
  <2>1. request' = [request EXCEPT ![r] = Preferred!Idle]
    BY <1>1 DEF Preferred!Answer
  <2>2. Preferred!Idle.pc = "idle" /\ "idle" \notin Preferred!Steps
    BY DEF Preferred!Idle, Preferred!Steps
  <2>3. Preferred!Goto(r, pc) => request'[r].pc = pc
    <3>1. request[r] \in Preferred!Request
      BY DEF Preferred!InFlight
    <3> QED
      BY <3>1 DEF Preferred!Goto, Preferred!Request
  <2> QED
    BY <2>1, <2>2, <2>3
<1>2. CASE Preferred!Goto(r, pc)
  <2>1. request[r] \in Preferred!Request
    BY DEF Preferred!InFlight
  <2>2. request' = [request EXCEPT ![r] = [@ EXCEPT !.pc = pc]]
    BY <1>2 DEF Preferred!Goto
  <2>3. [request[r] EXCEPT !.pc = pc] \in Preferred!Request
    BY <2>1 DEF Preferred!Request
  <2>4. /\ [request[r] EXCEPT !.pc = pc].pc = pc
        /\ [request[r] EXCEPT !.pc = pc].list = request[r].list
        /\ [request[r] EXCEPT !.pc = pc].alone = request[r].alone
    BY <2>1 DEF Preferred!Request
  <2>5. ~Preferred!Answer(r)
    <3>1. Preferred!Answer(r) => request'[r].pc = "idle"
      BY DEF Preferred!Answer, Preferred!Idle
    <3>2. request'[r].pc = pc /\ pc # "idle"
      BY <2>2, <2>4 DEF Preferred!Steps
    <3> QED
      BY <3>1, <3>2
  <2> QED
    BY <2>2, <2>3, <2>4, <2>5
<1> QED
  BY <1>1, <1>2

\* Who is at work on one kind of preference leaves the other kind alone.
LEMMA RestIsKept ==
  ASSUME PreferenceInv, NEW r \in Requests,
         \A p \in Requests \ {r} : request'[p] = request[p],
         \/ request'[r].pc = "idle"
         \/ Preferred!AboutSports(r) /\ Preferred!AboutSports(r)'
         \/ Preferred!AboutHours(r) /\ Preferred!AboutHours(r)',
         ~Preferred!AboutSports(r) => UNCHANGED <<sports, modes>>,
         ~Preferred!AboutHours(r) => UNCHANGED hours,
         NEW p \in Requests \ {r}
  PROVE  LoneHere(p)'
<1>1. LoneHere(p)
  BY DEF PreferenceInv, LoneIsUndisturbed
<1>2. request'[p] = request[p]
  OBVIOUS
<1>3. ASSUME NEW k \in Requests \ {p}
      PROVE  /\ Preferred!AboutSports(k)' => Preferred!AboutSports(k)
             /\ Preferred!AboutHours(k)' => Preferred!AboutHours(k)
  <2>1. CASE k = r
    BY <2>1 DEF Preferred!AboutSports, Preferred!AboutHours
  <2>2. CASE k # r
    BY <2>2 DEF Preferred!AboutSports, Preferred!AboutHours
  <2> QED
    BY <2>1, <2>2
<1>4. Preferred!AboutSports(p)' /\ request'[p].alone => UNCHANGED <<sports, modes>>
  BY <1>1, <1>2 DEF LoneHere, Preferred!AboutSports
<1>5. Preferred!AboutHours(p)' /\ request'[p].alone => UNCHANGED hours
  BY <1>1, <1>2 DEF LoneHere, Preferred!AboutHours
<1>6. Preferred!AboutSports(p)' /\ request'[p].alone =>
        /\ \A k \in Requests \ {p} : ~Preferred!AboutSports(k)'
        /\ ~Preferred!At(p, "clear sports")' => sports' = {}
        /\ Preferred!At(p, "insert sports")' => modes' = {}
  BY <1>1, <1>2, <1>3, <1>4 DEF LoneHere, Preferred!AboutSports, Preferred!At
<1>7. Preferred!AboutHours(p)' /\ request'[p].alone =>
        /\ \A k \in Requests \ {p} : ~Preferred!AboutHours(k)'
        /\ Preferred!At(p, "insert hours")' => hours' = [h \in Preferred!Hour |-> 0]
  BY <1>1, <1>2, <1>3, <1>5 DEF LoneHere, Preferred!AboutHours, Preferred!At
<1> QED
  BY <1>6, <1>7 DEF LoneHere

\* An answer is not a step to go on with.
LEMMA AnsweredIsNot ==
  ASSUME NEW r \in Requests, request \in [Requests -> Preferred!Request \cup {Preferred!Idle}],
         Preferred!InFlight(r), Preferred!Answer(r)
  PROVE  \A pc \in Preferred!Steps : ~Preferred!Goto(r, pc)
BY WorkOnRequest DEF Preferred!Steps

\* What is left of the invariant when a call has ended or gone on.
LEMMA CallKeepsInv ==
  ASSUME PreferenceInv, NEW r \in Requests, NEW pc \in Preferred!Steps, Preferred!InFlight(r),
         Preferred!Answer(r) \/ Preferred!Goto(r, pc),
         \/ Preferred!AboutSports(r) /\ UNCHANGED hours
              /\ pc \in {"clear sports", "clear modes", "insert sports"}
         \/ Preferred!AboutHours(r) /\ UNCHANGED <<sports, modes, preferred>>
              /\ pc \in {"clear hours", "insert hours"},
         Preferred!Goto(r, pc) /\ pc = "insert sports" => ~Preferred!Repeats(request[r].list),
         sports' \subseteq Sports, modes' \subseteq sports' \X GameModes,
         hours' \in [Preferred!Hour -> Nat], preferred' \in [Sports -> SUBSET GameModes],
         prefFailures' \in 0 .. PreferenceFailures,
         Preferred!ModesComeTogether',
         Preferred!Goto(r, pc) => LoneHere(r)'
  PROVE  PreferenceInv'
<1> USE DEF PreferenceInv, Preferred!TypeOK
<1>1. /\ request' \in [Requests -> Preferred!Request \cup {Preferred!Idle}]
      /\ \A p \in Requests \ {r} : request'[p] = request[p]
      /\ Preferred!Answer(r) => request'[r].pc = "idle"
      /\ Preferred!Goto(r, pc) =>
           /\ request'[r].pc = pc /\ request'[r].list = request[r].list
           /\ request'[r].alone = request[r].alone
  BY WorkOnRequest
<1>2. ASSUME NEW p \in Requests
      PROVE  /\ request'[p].pc \in {"clear sports", "clear modes", "insert sports"}
                  => request'[p].list \in SportLists \cup {Preferred!NoList}
             /\ request'[p].pc \in {"clear hours", "insert hours"}
                  => request'[p].list \in [Preferred!Hour -> Nat]
                     /\ Preferred!Settled(request'[p].list)
             /\ request'[p].pc = "insert sports" => ~Preferred!Repeats(request'[p].list)
  <2>1. CASE p # r
    BY <1>1, <2>1 DEF ListsInHand, Preferred!AboutSports, Preferred!AboutHours, Preferred!At
  <2>2. CASE p = r /\ Preferred!Answer(r)
    BY <1>1, <2>2
  <2>3. CASE p = r /\ Preferred!Goto(r, pc)
    BY <1>1, <2>3 DEF ListsInHand, Preferred!AboutSports, Preferred!AboutHours
  <2> QED
    BY <2>1, <2>2, <2>3
<1>3. Preferred!TypeOK'
  BY <1>1, <1>2 DEF Preferred!AboutSports, Preferred!AboutHours, Preferred!At
<1>4. ListsInHand'
  BY <1>2 DEF ListsInHand, Preferred!AboutHours, Preferred!Settled
<1>5. \/ request'[r].pc = "idle"
      \/ Preferred!AboutSports(r) /\ Preferred!AboutSports(r)'
      \/ Preferred!AboutHours(r) /\ Preferred!AboutHours(r)'
  BY <1>1 DEF Preferred!AboutSports, Preferred!AboutHours
<1>6. /\ ~Preferred!AboutSports(r) => UNCHANGED <<sports, modes>>
      /\ ~Preferred!AboutHours(r) => UNCHANGED hours
  OBVIOUS
<1>7. \A p \in Requests \ {r} : LoneHere(p)'
  BY <1>1, <1>5, <1>6, RestIsKept
<1>8. LoneHere(r)'
  BY <1>1 DEF LoneHere, Preferred!AboutSports, Preferred!AboutHours
<1> QED
  BY <1>3, <1>4, <1>7, <1>8 DEF LoneIsUndisturbed

\* Every call keeps the invariant.
LEMMA WorkKeepsInv ==
  ASSUME PreferenceInv, NEW r \in Requests, Preferred!Work(r) \/ Preferred!AwaitFails(r)
  PROVE  PreferenceInv'
<1> DEFINE q == request[r]
<1>t. /\ sports \subseteq Sports /\ modes \subseteq sports \X GameModes
      /\ hours \in [Preferred!Hour -> Nat] /\ preferred \in [Sports -> SUBSET GameModes]
      /\ prefFailures \in 0 .. PreferenceFailures
      /\ request \in [Requests -> Preferred!Request \cup {Preferred!Idle}]
      /\ Preferred!AboutSports(r) => q.list \in SportLists \cup {Preferred!NoList}
      /\ Preferred!AboutHours(r) => q.list \in [Preferred!Hour -> Nat]
      /\ LoneHere(r)
  BY DEF PreferenceInv, Preferred!TypeOK, LoneIsUndisturbed
<1>n. PreferenceFailures \in Nat
  BY PartsAssumption DEF Preferred!PreferencesAssumption
<1>m. Preferred!ModesComeTogether
  BY DEF PreferenceInv
<1>s. Preferred!Steps =
        {"clear sports", "clear modes", "insert sports", "clear hours", "insert hours"}
  BY DEF Preferred!Steps
<1>1. CASE Preferred!ClearSports(r)
  <2>1. /\ Preferred!AboutSports(r) /\ Preferred!InFlight(r) /\ Preferred!Goto(r, "clear modes")
        /\ sports' = {} /\ modes' = {k \in modes : k[1] \notin sports}
        /\ UNCHANGED <<hours, preferred, prefFailures>>
    BY <1>1, KindOfRequest DEF Preferred!ClearSports, Preferred!At, Preferred!AboutSports
  <2>2. modes' = {}
    BY <1>t, <2>1
  <2>3. Preferred!ModesComeTogether'
    BY <2>1 DEF Preferred!ModesComeTogether
  <2>4. LoneHere(r)'
    <3>1. /\ request'[r].pc = "clear modes" /\ request'[r].alone = request[r].alone
          /\ \A p \in Requests \ {r} : request'[p] = request[p]
      BY <1>t, <1>s, <2>1, WorkOnRequest
    <3> QED
      BY <1>t, <2>1, <2>2, <3>1 DEF LoneHere, Preferred!AboutSports, Preferred!AboutHours,
         Preferred!At
  <2> QED
    BY <1>t, <1>s, <2>1, <2>2, <2>3, <2>4, CallKeepsInv
<1>2. CASE Preferred!ClearModes(r)
  <2>1. /\ Preferred!AboutSports(r) /\ Preferred!InFlight(r) /\ ~Preferred!At(r, "clear sports")
        /\ Preferred!Answer(r) \/ Preferred!Goto(r, "insert sports")
        /\ modes' = {} /\ UNCHANGED <<sports, hours, preferred, prefFailures>>
    BY <1>2, KindOfRequest DEF Preferred!ClearModes, Preferred!At, Preferred!AboutSports
  <2>2. Preferred!Goto(r, "insert sports") => ~Preferred!Repeats(q.list)
    <3>1. CASE q.only \/ Preferred!Repeats(q.list)
      <4>1. Preferred!Answer(r)
        BY <1>2, <3>1 DEF Preferred!ClearModes
      <4>2. request'[r].pc = "idle"
        BY <1>t, <1>s, <2>1, <4>1, WorkOnRequest
      <4>3. Preferred!Goto(r, "insert sports") => request'[r].pc = "insert sports"
        BY <1>t, <1>s, <2>1, WorkOnRequest
      <4> QED
        BY <4>2, <4>3
    <3> QED
      BY <3>1
  <2>3. Preferred!ModesComeTogether'
    BY <2>1 DEF Preferred!ModesComeTogether, Preferred!ModesIn
  <2>4. ASSUME Preferred!Goto(r, "insert sports")  PROVE  LoneHere(r)'
    <3>1. /\ request'[r].pc = "insert sports" /\ request'[r].alone = request[r].alone
          /\ \A p \in Requests \ {r} : request'[p] = request[p]
      BY <1>t, <1>s, <2>1, <2>4, WorkOnRequest
    <3> QED
      BY <1>t, <2>1, <3>1 DEF LoneHere, Preferred!AboutSports, Preferred!AboutHours,
         Preferred!At
  <2>5. modes' \subseteq sports' \X GameModes
    BY <2>1
  <2> QED
    BY <1>t, <1>s, <2>1, <2>2, <2>3, <2>4, <2>5, CallKeepsInv
<1>3. CASE Preferred!InsertSports(r)
  <2>1. /\ Preferred!AboutSports(r) /\ Preferred!InFlight(r) /\ Preferred!Answer(r)
        /\ UNCHANGED <<hours, prefFailures>>
    BY <1>3, KindOfRequest DEF Preferred!InsertSports, Preferred!At, Preferred!AboutSports
  <2> DEFINE new == Preferred!SportsOf(q.list)
  <2> DEFINE theirs == Preferred!ModesOf(q.list)
  <2>2. new \subseteq Sports /\ theirs \subseteq new \X GameModes
    BY <1>t, <2>1, ListTypes
  <2>3. CASE new \cap sports # {}
    <3>1. UNCHANGED <<sports, modes, preferred>>
      BY <1>3, <2>3 DEF Preferred!InsertSports
    <3>2. Preferred!ModesComeTogether'
      BY <1>m, <3>1 DEF Preferred!ModesComeTogether, Preferred!ModesIn
    <3> QED
      BY <1>t, <1>s, <2>1, <3>1, <3>2, CallKeepsInv, AnsweredIsNot
  <2>4. CASE new \cap sports = {}
    <3>1. /\ sports' = sports \cup new /\ modes' = modes \cup theirs
          /\ preferred' = [s \in Sports |->
               IF s \in new THEN Preferred!ModesIn(theirs, s) ELSE preferred[s]]
      BY <1>3, <2>4 DEF Preferred!InsertSports
    <3> HIDE DEF new, theirs
    <3>2. preferred' \in [Sports -> SUBSET GameModes]
      BY <1>t, <3>1 DEF Preferred!ModesIn
    <3>3. ASSUME NEW s \in sports'
          PROVE  Preferred!ModesIn(modes', s) = {} \/ Preferred!ModesIn(modes', s) = preferred'[s]
      <4>1. CASE s \in new
        <5>1. Preferred!ModesIn(modes', s) = Preferred!ModesIn(theirs, s)
          BY <1>t, <2>4, <3>1, <4>1 DEF Preferred!ModesIn
        <5> QED
          BY <2>2, <3>1, <4>1, <5>1
      <4>2. CASE s \notin new
        <5>1. Preferred!ModesIn(modes', s) = Preferred!ModesIn(modes, s)
          BY <2>2, <3>1, <4>2 DEF Preferred!ModesIn
        <5>2. s \in sports /\ preferred'[s] = preferred[s]
          BY <1>t, <3>1, <3>3, <4>2
        <5> QED
          BY <1>m, <5>1, <5>2 DEF Preferred!ModesComeTogether
      <4> QED
        BY <4>1, <4>2
    <3>4. Preferred!ModesComeTogether'
      BY <3>3 DEF Preferred!ModesComeTogether, Preferred!ModesIn
    <3>5. sports' \subseteq Sports /\ modes' \subseteq sports' \X GameModes
      BY <1>t, <2>2, <3>1
    <3> QED
      BY <1>t, <1>s, <2>1, <3>2, <3>4, <3>5, CallKeepsInv, AnsweredIsNot
  <2> QED
    BY <2>3, <2>4
<1>4. CASE Preferred!ClearHours(r)
  <2>1. /\ Preferred!AboutHours(r) /\ Preferred!InFlight(r)
        /\ Preferred!Answer(r) \/ Preferred!Goto(r, "insert hours")
        /\ hours' = [h \in Preferred!Hour |-> 0]
        /\ UNCHANGED <<sports, modes, preferred, prefFailures>>
    BY <1>4, KindOfRequest DEF Preferred!ClearHours, Preferred!At, Preferred!AboutHours
  <2>2. Preferred!ModesComeTogether'
    BY <1>m, <2>1 DEF Preferred!ModesComeTogether, Preferred!ModesIn
  <2>3. ASSUME Preferred!Goto(r, "insert hours")  PROVE  LoneHere(r)'
    <3>1. /\ request'[r].pc = "insert hours" /\ request'[r].alone = request[r].alone
          /\ \A p \in Requests \ {r} : request'[p] = request[p]
      BY <1>t, <1>s, <2>1, <2>3, WorkOnRequest
    <3> QED
      BY <1>t, <2>1, <3>1 DEF LoneHere, Preferred!AboutSports, Preferred!AboutHours,
         Preferred!At
  <2>4. hours' \in [Preferred!Hour -> Nat]
    BY <2>1
  <2> QED
    BY <1>t, <1>s, <2>1, <2>2, <2>3, <2>4, CallKeepsInv
<1>5. CASE Preferred!InsertHours(r)
  <2>1. /\ Preferred!AboutHours(r) /\ Preferred!InFlight(r) /\ Preferred!Answer(r)
        /\ hours' = [h \in Preferred!Hour |-> hours[h] + q.list[h]]
        /\ UNCHANGED <<sports, modes, preferred, prefFailures>>
    BY <1>5, KindOfRequest DEF Preferred!InsertHours, Preferred!At, Preferred!AboutHours
  <2>2. Preferred!ModesComeTogether'
    BY <1>m, <2>1 DEF Preferred!ModesComeTogether, Preferred!ModesIn
  <2>3. hours' \in [Preferred!Hour -> Nat]
    BY <1>t, <2>1
  <2> QED
    BY <1>t, <1>s, <2>1, <2>2, <2>3, CallKeepsInv, AnsweredIsNot
<1>6. CASE Preferred!AwaitFails(r)
  <2>1. /\ Preferred!InFlight(r) /\ Preferred!Answer(r)
        /\ UNCHANGED <<sports, modes, hours, preferred>>
        /\ prefFailures' \in 0 .. PreferenceFailures
    BY <1>6, <1>t, <1>n DEF Preferred!AwaitFails, Preferred!table
  <2>2. Preferred!ModesComeTogether'
    BY <1>m, <2>1 DEF Preferred!ModesComeTogether, Preferred!ModesIn
  <2>3. Preferred!AboutSports(r) \/ Preferred!AboutHours(r)
    <3>1. request[r] \in Preferred!Request
      BY <1>t, <2>1 DEF Preferred!InFlight
    <3> QED
      BY <1>s, <3>1 DEF Preferred!Request, Preferred!AboutSports, Preferred!AboutHours
  <2>4. CASE Preferred!AboutSports(r)
    BY <1>t, <1>s, <2>1, <2>2, <2>4, CallKeepsInv, AnsweredIsNot
  <2>5. CASE Preferred!AboutHours(r)
    BY <1>t, <1>s, <2>1, <2>2, <2>5, CallKeepsInv, AnsweredIsNot
  <2> QED
    BY <2>3, <2>4, <2>5
<1> QED
  BY <1>1, <1>2, <1>3, <1>4, <1>5, <1>6 DEF Preferred!Work

\* What a step may be.
LEMMA NextIsWork ==
  ASSUME [Preferred!Next]_(Preferred!vars)
  PROVE  \/ UNCHANGED Preferred!vars
         \/ \E r \in Requests : Preferred!Work(r) \/ Preferred!AwaitFails(r)
         \/ \E r \in Requests : SportsAreSent(r) \/ HoursAreSent(r)
<1>1. CASE UNCHANGED Preferred!vars
  BY <1>1
<1>2. CASE Preferred!Next
  <2>1. TRUE \in BOOLEAN /\ FALSE \in BOOLEAN
    OBVIOUS
  <2> QED
    BY <1>2, <2>1 DEF Preferred!Next, SportsAreSent, HoursAreSent
<1> QED
  BY <1>1, <1>2

\* A request that is answered has done its work itself, or its await has failed.
LEMMA AnsweredByWork ==
  ASSUME PreferenceInv, [Preferred!Next]_(Preferred!vars), NEW r \in Requests,
         Preferred!InFlight(r), ~Preferred!InFlight(r)', prefFailures' = prefFailures
  PROVE  Preferred!Work(r)
<1>t. request \in [Requests -> Preferred!Request \cup {Preferred!Idle}]
  BY DEF PreferenceInv, Preferred!TypeOK
<1>1. request'[r] # request[r]
  BY DEF Preferred!InFlight
<1>2. ASSUME NEW p \in Requests, Preferred!Work(p) \/ Preferred!AwaitFails(p), p # r
      PROVE  FALSE
  <2>1. request'[r] = request[r]
    <3>1. \E q : request' = [request EXCEPT ![p] = q]
      BY <1>2 DEF Preferred!Work, Preferred!AwaitFails, Preferred!ClearSports, Preferred!ClearModes,
           Preferred!InsertSports, Preferred!ClearHours, Preferred!InsertHours, Preferred!Goto,
           Preferred!Answer
    <3> QED
      BY <1>t, <1>2, <3>1
  <2> QED
    BY <1>1, <2>1
<1>3. ~Preferred!AwaitFails(r)
  <2>1. PreferenceFailures \in Nat
    BY PartsAssumption DEF Preferred!PreferencesAssumption
  <2>2. prefFailures \in 0 .. PreferenceFailures
    BY DEF PreferenceInv, Preferred!TypeOK
  <2> QED
    BY <2>1, <2>2 DEF Preferred!AwaitFails
<1>4. ASSUME request'[r] = request[r] \/ request'[r] = [request[r] EXCEPT !.alone = FALSE]
      PROVE  FALSE
  <2>3. request[r] \in Preferred!Request /\ "idle" \notin Preferred!Steps
    BY <1>t DEF Preferred!InFlight, Preferred!Steps
  <2>4. request'[r].pc = request[r].pc /\ request[r].pc # "idle"
    BY <1>4, <2>3 DEF Preferred!Request
  <2>5. request'[r] = Preferred!Idle
    BY DEF Preferred!InFlight
  <2> QED
    BY <2>4, <2>5 DEF Preferred!Idle
<1>5. ~UNCHANGED Preferred!vars
  BY <1>1 DEF Preferred!vars
<1>6. CASE \E p \in Requests : Preferred!Work(p) \/ Preferred!AwaitFails(p)
  BY <1>2, <1>3, <1>6
<1>7. ASSUME NEW p \in Requests, NEW list, NEW only,
             Preferred!SportsArrive(p, list, only) \/ Preferred!HoursArrive(p, list, only)
      PROVE  FALSE
  <2>1. p # r
    BY <1>7 DEF Preferred!SportsArrive, Preferred!HoursArrive, Preferred!Arrive
  <2>2. request'[r] = request[r] \/ request'[r] = [request[r] EXCEPT !.alone = FALSE]
    BY <1>7, <2>1 DEF Preferred!SportsArrive, Preferred!HoursArrive, Preferred!Arrive
  <2> QED
    BY <1>4, <2>2
<1> QED
  BY <1>5, <1>6, <1>7, NextIsWork DEF SportsAreSent, HoursAreSent

\* A request that was alone to the end leaves what it was sent with.
LEMMA AloneIsSettled ==
  ASSUME PreferenceInv, [Preferred!Next]_(Preferred!vars), NEW r \in Requests, request[r].alone,
         prefFailures' = prefFailures, ~Preferred!InFlight(r)'
  PROVE  /\ Preferred!At(r, "insert sports") =>
              /\ sports' = Preferred!SportsOf(request[r].list)
              /\ modes' = Preferred!ModesOf(request[r].list)
         /\ Preferred!At(r, "insert hours") => Preferred!Settled(hours')
<1>1. ASSUME Preferred!At(r, "insert sports")
      PROVE  /\ sports' = Preferred!SportsOf(request[r].list)
             /\ modes' = Preferred!ModesOf(request[r].list)
  <2>1. Preferred!AboutSports(r) /\ ~Preferred!At(r, "clear sports")
    BY <1>1 DEF Preferred!At, Preferred!AboutSports
  <2>2. sports = {} /\ modes = {}
    BY <1>1, <2>1 DEF PreferenceInv, LoneIsUndisturbed, LoneHere
  <2>3. Preferred!InsertSports(r)
    BY <1>1, <2>1, KindOfRequest, AnsweredByWork DEF Preferred!Work, Preferred!ClearSports,
       Preferred!ClearModes, Preferred!ClearHours, Preferred!InsertHours, Preferred!At
  <2> QED
    BY <2>2, <2>3 DEF Preferred!InsertSports
<1>2. ASSUME Preferred!At(r, "insert hours")  PROVE  Preferred!Settled(hours')
  <2>1. Preferred!AboutHours(r)
    BY <1>2 DEF Preferred!At, Preferred!AboutHours
  <2>2. /\ hours = [h \in Preferred!Hour |-> 0]
        /\ Preferred!Settled(request[r].list) /\ request[r].list \in [Preferred!Hour -> Nat]
    BY <1>2, <2>1 DEF PreferenceInv, LoneIsUndisturbed, LoneHere, ListsInHand, Preferred!TypeOK
  <2>3. Preferred!InsertHours(r)
    BY <1>2, <2>1, KindOfRequest, AnsweredByWork DEF Preferred!Work, Preferred!ClearSports,
       Preferred!ClearModes, Preferred!ClearHours, Preferred!InsertSports, Preferred!At
  <2>4. ASSUME NEW h \in Preferred!Hour  PROVE  hours'[h] = request[r].list[h]
    <3>1. hours'[h] = hours[h] + request[r].list[h]
      BY <2>3 DEF Preferred!InsertHours
    <3>2. hours[h] = 0 /\ request[r].list[h] \in Nat
      BY <2>2
    <3> QED
      BY <3>1, <3>2
  <2> QED
    BY <2>2, <2>4 DEF Preferred!Settled
<1> QED
  BY <1>1, <1>2

\* Lists of sports and of hours are saved as a whole, as far as statements that
\* are in no transaction can do it: a sport has the modes it came with or none,
\* and a list that is saved with no other at work is what is there in the end
\* (createManyWithGameModes, createMany).
THEOREM ListsAreWhole == Preferred!Spec => ListsStayWhole
<1>1. Preferred!Init => PreferenceInv
  <2> SUFFICES ASSUME Preferred!Init  PROVE  PreferenceInv
    OBVIOUS
  <2>1. \A r \in Requests : request[r].pc = "idle"
    BY DEF Preferred!Init, Preferred!Idle
  <2>2. LoneIsUndisturbed /\ ListsInHand
    BY <2>1 DEF LoneIsUndisturbed, LoneHere, ListsInHand, Preferred!AboutSports, Preferred!AboutHours
  <2>3. Preferred!ModesComeTogether
    BY DEF Preferred!Init, Preferred!ModesComeTogether
  <2>4. Preferred!TypeOK
    <3>1. PreferenceFailures \in Nat
      BY PartsAssumption DEF Preferred!PreferencesAssumption
    <3>2. \A r \in Requests : ~Preferred!AboutSports(r) /\ ~Preferred!AboutHours(r)
                              /\ ~Preferred!At(r, "insert sports")
      BY <2>1 DEF Preferred!AboutSports, Preferred!AboutHours, Preferred!At
    <3>3. request \in [Requests -> Preferred!Request \cup {Preferred!Idle}]
      BY DEF Preferred!Init
    <3>4. sports = {} /\ modes = {} /\ prefFailures = 0
          /\ preferred \in [Sports -> SUBSET GameModes]
          /\ hours \in [Preferred!Hour -> Nat]
      BY DEF Preferred!Init
    <3>5. prefFailures \in 0 .. PreferenceFailures
      BY <3>1, <3>4
    <3>6. sports \subseteq Sports /\ modes \subseteq sports \X GameModes
      BY <3>4
    <3> QED
      BY <3>2, <3>3, <3>4, <3>5, <3>6 DEF Preferred!TypeOK
  <2> QED
    BY <2>2, <2>3, <2>4 DEF PreferenceInv
<1>2. PreferenceInv /\ [Preferred!Next]_(Preferred!vars) => PreferenceInv'
  <2> SUFFICES ASSUME PreferenceInv, [Preferred!Next]_(Preferred!vars)  PROVE  PreferenceInv'
    OBVIOUS
  <2>1. CASE UNCHANGED Preferred!vars
    <3>1. UNCHANGED <<sports, modes, hours, request, preferred, prefFailures>>
      BY <2>1 DEF Preferred!vars
    <3> QED
      BY <3>1 DEF PreferenceInv, Preferred!TypeOK, Preferred!ModesComeTogether, Preferred!ModesIn,
         LoneIsUndisturbed, LoneHere, ListsInHand, Preferred!AboutSports, Preferred!AboutHours,
         Preferred!At, Preferred!Settled
  <2> QED
    BY <2>1, NextIsWork, WorkKeepsInv, ArrivalKeepsInv
<1>3. PreferenceInv => Preferred!ModesComeTogether
  BY DEF PreferenceInv
<1> DEFINE Replaced == \A r \in Requests :
       Preferred!At(r, "insert sports") /\ request[r].alone /\ prefFailures' = prefFailures
           /\ ~Preferred!InFlight(r)'
         => sports' = Preferred!SportsOf(request[r].list)
              /\ modes' = Preferred!ModesOf(request[r].list)
<1> DEFINE SettledThen == \A r \in Requests :
       Preferred!At(r, "insert hours") /\ request[r].alone /\ prefFailures' = prefFailures
           /\ ~Preferred!InFlight(r)'
         => Preferred!Settled(hours')
<1>4. PreferenceInv /\ [Preferred!Next]_(Preferred!vars)
        => [Replaced]_(Preferred!vars) /\ [SettledThen]_(Preferred!vars)
  BY AloneIsSettled
<1>5. Preferred!SportsAreReplaced <=> [][Replaced]_(Preferred!vars)
  BY DEF Preferred!SportsAreReplaced
<1>6. Preferred!HoursAreSettled <=> [][SettledThen]_(Preferred!vars)
  BY DEF Preferred!HoursAreSettled
<1> HIDE DEF Replaced, SettledThen
<1> QED
  BY <1>1, <1>2, <1>3, <1>4, <1>5, <1>6, PTL DEF Preferred!Spec, ListsStayWhole,
     Preferred!ListsStayWhole

=============================================================================
