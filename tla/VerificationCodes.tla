--------------------------- MODULE VerificationCodes ---------------------------
(***************************************************************************)
(* The codes of EmailVerification of one user (AuthB2CService,             *)
(* UsersService): sending one to verify the address or to reset the        *)
(* password, following the link of a mail, and redeeming a code for a      *)
(* token.  All ways of sending share the one table, so each of them takes  *)
(* back what the others have sent.                                         *)
(*                                                                         *)
(* A transaction that deletes and inserts sees, when it deletes, the rows  *)
(* committed by then, so that its two statements are two steps.            *)
(***************************************************************************)
EXTENDS Naturals, FiniteSets

CONSTANTS
  CodeUids,     \* the uids EmailVerification may come to hold
  Resets,       \* how many tokens may be made of codes
  Requests,     \* the requests the server may be working on at one time
  MaxFailures   \* how many awaits may fail

VARIABLES
  verified,  \* Users.isEmailVerified
  code,      \* EmailVerification: what has become of each code
  made,      \* how many rows of UserTokens were made of codes
  request,   \* what each request in flight is doing
  before,    \* history: the codes that were there when the request for one came
  answered,  \* history: how many tokens have been handed out for each code
  failures   \* how many awaits have failed

vars == <<verified, code, made, request, before, answered, failures>>

-----------------------------------------------------------------------------
CodeStates == {"none", "fresh", "expired", "gone"}

\* "forgot" is sendCodeForPasswordResetRequest, and also what a registration
\* does once it has committed.
SendSteps == {"find", "clean", "delete", "insert"}
Steps == [resend |-> SendSteps, forgot |-> SendSteps \ {"clean"},
          verify |-> {"guard", "mark"}, redeem |-> {"look", "token", "drop"}]
Ops == {"resend", "forgot", "verify", "redeem"}

Idle == [op |-> "idle", pc |-> "idle", code |-> "none", seen |-> {}, known |-> {}]

Request ==
  [op : Ops, pc : UNION {Steps[o] : o \in Ops}, code : CodeUids \cup {"none"},
   seen : SUBSET CodeUids, known : SUBSET CodeUids]

InFlight(r) == request[r].op # "idle"
At(r, pc) == request[r].pc = pc
Live == {c \in CodeUids : code[c] \in {"fresh", "expired"}}

Init ==
  /\ verified \in BOOLEAN
  /\ code = [c \in CodeUids |-> "none"]
  /\ made = 0
  /\ request = [r \in Requests |-> Idle]
  /\ before = [c \in CodeUids |-> {}]
  /\ answered = [c \in CodeUids |-> 0]
  /\ failures = 0

-----------------------------------------------------------------------------
table == <<verified, code, made>>
history == <<before, answered>>

Become(r, q) == request' = [request EXCEPT ![r] = q]
Goto(r, pc) == request' = [request EXCEPT ![r].pc = pc]
Answer(r) == Become(r, Idle)
Refuse(r) == Answer(r) /\ UNCHANGED <<table, history, failures>>

Arrive(r, op, pc, c) ==
  /\ ~InFlight(r)
  /\ Become(r, [op |-> op, pc |-> pc, code |-> c, seen |-> {},
                known |-> IF op \in {"resend", "forgot"} THEN Live ELSE {}])
  /\ UNCHANGED <<table, history, failures>>

SendArrives(r, op) == Arrive(r, op, "find", "none")

\* A link that was mailed and a code that was mailed name the code, which may
\* have been taken back since.
VerifyArrives(r, c) == code[c] # "none" /\ Arrive(r, "verify", "guard", c)
RedeemArrives(r, c) == code[c] # "none" /\ Arrive(r, "redeem", "look", c)

Delete(S) == code' = [c \in CodeUids |-> IF c \in S /\ c \in Live THEN "gone" ELSE code[c]]

-----------------------------------------------------------------------------
(* resendVerificationCode, sendVerificationEmail, sendCodeForPasswordReset. *)

\* Only a resend wants the address not to be verified.
FindUser(r) ==
  /\ At(r, "find")
  /\ IF request[r].op = "resend" /\ verified
     THEN Refuse(r)
     ELSE /\ Goto(r, IF request[r].op = "resend" THEN "clean" ELSE "delete")
          /\ UNCHANGED <<table, history, failures>>

\* The deleteMany of resendVerificationCode, before any transaction.
CleanCodes(r) ==
  /\ At(r, "clean")
  /\ Delete(CodeUids)
  /\ Goto(r, "delete")
  /\ UNCHANGED <<verified, made, history, failures>>

\* Mutant: the transaction does not delete.
DeleteNoCodes(r) ==
  /\ At(r, "delete")
  /\ Goto(r, "insert")
  /\ UNCHANGED <<table, history, failures>>

\* The transaction opens with a deleteMany of the codes committed by now.
DeleteCodes(r) ==
  /\ At(r, "delete")
  /\ Become(r, [request[r] EXCEPT !.pc = "insert", !.seen = Live])
  /\ UNCHANGED <<table, history, failures>>

\* The insert of the new code, and the commit; the mail that follows changes
\* nothing here, and its failure neither.
InsertCode(r) ==
  LET q == request[r] IN
  /\ At(r, "insert")
  /\ \E c \in {d \in CodeUids : code[d] = "none"} :
       /\ code' = [d \in CodeUids |->
            IF d = c THEN "fresh" ELSE IF d \in q.seen /\ d \in Live THEN "gone" ELSE code[d]]
       /\ before' = [before EXCEPT ![c] = q.known]
  /\ Answer(r)
  /\ UNCHANGED <<verified, made, answered, failures>>

-----------------------------------------------------------------------------
(* The link: VerifyEmailGuard, then verifyEmailLink.                       *)

VerifyEmailGuard(r) ==
  /\ At(r, "guard")
  /\ IF code[request[r].code] = "fresh"
     THEN Goto(r, "mark") /\ UNCHANGED <<table, history, failures>>
     ELSE Refuse(r)

\* One transaction, whatever has become of the code since.
VerifyEmailLink(r) ==
  /\ At(r, "mark")
  /\ verified' = TRUE
  /\ Delete(CodeUids)
  /\ Answer(r)
  /\ UNCHANGED <<made, history, failures>>

-----------------------------------------------------------------------------
(* generateAccessTokenFromCode.                                            *)

FindCode(r) ==
  /\ At(r, "look")
  /\ IF code[request[r].code] = "fresh"
     THEN Goto(r, "token") /\ UNCHANGED <<table, history, failures>>
     ELSE Refuse(r)

InsertResetToken(r) ==
  /\ At(r, "token")
  /\ made < Resets
  /\ made' = made + 1
  /\ Goto(r, "drop")
  /\ UNCHANGED <<verified, code, history, failures>>

\* Mutant: deleteMany, which does not throw when the code is gone.
DropCodeIfAny(r) ==
  LET c == request[r].code IN
  /\ At(r, "drop")
  /\ Delete({c})
  /\ answered' = [answered EXCEPT ![c] = @ + 1]
  /\ Answer(r)
  /\ UNCHANGED <<verified, made, before, failures>>

\* The delete throws when the code is gone, and the token that is inserted
\* already is then handed to nobody.
DropCode(r) ==
  LET c == request[r].code IN
  /\ At(r, "drop")
  /\ IF c \notin Live THEN Refuse(r)
     ELSE /\ Delete({c})
          /\ answered' = [answered EXCEPT ![c] = @ + 1]
          /\ Answer(r)
          /\ UNCHANGED <<verified, made, before, failures>>

-----------------------------------------------------------------------------
\* A quarter of an hour has passed.
CodeExpires(c) ==
  /\ code[c] = "fresh"
  /\ code' = [code EXCEPT ![c] = "expired"]
  /\ UNCHANGED <<verified, made, request, history, failures>>

\* An await of the request rejects; an open transaction leaves nothing behind.
AwaitFails(r) ==
  /\ InFlight(r)
  /\ failures < MaxFailures
  /\ failures' = failures + 1
  /\ Answer(r)
  /\ UNCHANGED <<table, history>>

Work(r) ==
  \/ FindUser(r) \/ CleanCodes(r) \/ DeleteCodes(r) \/ InsertCode(r)
  \/ VerifyEmailGuard(r) \/ VerifyEmailLink(r)
  \/ FindCode(r) \/ InsertResetToken(r) \/ DropCode(r)

Next ==
  \/ \E r \in Requests :
       \/ \E op \in {"resend", "forgot"} : SendArrives(r, op)
       \/ \E c \in CodeUids : VerifyArrives(r, c) \/ RedeemArrives(r, c)
       \/ Work(r) \/ AwaitFails(r)
  \/ \E c \in CodeUids : CodeExpires(c)

Spec == Init /\ [][Next]_vars

-----------------------------------------------------------------------------
(* Properties.                                                             *)

\* Every row, request and history keeps its type.
TypeOK ==
  /\ verified \in BOOLEAN
  /\ code \in [CodeUids -> CodeStates]
  /\ made \in 0..Resets
  /\ \A r \in Requests : request[r] = Idle \/
       (request[r] \in Request /\ request[r].pc \in Steps[request[r].op])
  /\ before \in [CodeUids -> SUBSET CodeUids]
  /\ answered \in [CodeUids -> 0..Resets]
  /\ failures \in 0..MaxFailures

\* A code that was there when another one was asked for is dead once the other
\* one is there: only codes of requests that overlap live side by side, however
\* the transactions that send them interleave.
CodesSuperseded == \A c \in Live : before[c] \cap Live = {}

\* A code is handed out for at most one token, however often it is presented,
\* at once or again after a failure, and it is dead from then on
\* (generateAccessTokenFromCode inserts first and deletes last).
RedeemedOnce ==
  \A c \in CodeUids : answered[c] > 0 => answered[c] = 1 /\ c \notin Live

\* A code dies by its successor or by its use.
CodesDie == CodesSuperseded /\ RedeemedOnce
==============================================================================
