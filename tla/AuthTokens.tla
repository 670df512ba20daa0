------------------------------- MODULE AuthTokens -------------------------------
(***************************************************************************)
(* The sign-ins of the owner of one e-mail address: accounts made by a     *)
(* registration or by Google and Apple, the rows of UserTokens and         *)
(* RefreshTokens a sign-in leaves, and what refreshing, logging out and    *)
(* resetting the password do to them (AuthB2CService, AuthB2BService and   *)
(* the guards in front of them).  An address is written in several ways,   *)
(* and the column it is kept in tells capitals from small letters.         *)
(*                                                                         *)
(* Every await is a step.  The transactions of a refresh and of a logout   *)
(* touch the same rows in the opposite order, so their statements are      *)
(* steps too: a statement sees what is committed when it starts, waits for *)
(* the rows another transaction has locked, and of two transactions that   *)
(* wait for each other the database aborts one.                            *)
(***************************************************************************)
EXTENDS Naturals, FiniteSets

CONSTANTS
  Users,        \* the uids Users may come to hold
  AccessUids,   \* the uids UserTokens may come to hold
  RefreshUids,  \* the uids RefreshTokens may come to hold
  Spellings,    \* the ways the address is written
  Small,        \* the one in small letters
  Elsewhere,    \* some other address
  NoRow,        \* "there is no such row"
  Gone,         \* "the row has been deleted"
  Requests,     \* the requests the server may be working on at one time
  MaxFailures   \* how many awaits may fail

ASSUME AuthAssumption ==
  /\ NoRow \notin Users \cup AccessUids \cup RefreshUids \cup Spellings
  /\ Small \in Spellings /\ Elsewhere \notin Spellings
  /\ MaxFailures \in Nat

VARIABLES
  account,   \* Users: kind, isConnected and email by uid
  access,    \* UserTokens: the user and the sign-in of the token, by uid
  refresh,   \* RefreshTokens: the user, the sign-in and the token, by uid
  request,   \* what each request in flight is doing
  ended,     \* history: the sign-ins a logout or a reset had to end
  failures   \* how many awaits have failed

vars == <<account, access, refresh, request, ended, failures>>

-----------------------------------------------------------------------------
\* provider, and the type of the accounts of partners.
Kinds == {"LUDORA", "GOOGLE", "APPLE", "PARTNER"}

\* changed is a history: the owner has changed the e-mail address.
AccountRow ==
  [kind : Kinds, isConnected : BOOLEAN, email : Spellings \cup {Elsewhere}, changed : BOOLEAN]

\* A sign-in is named by the uid of the first access token made for it.  A
\* refresh token is named by the uid of the first row that held it: signing
\* again within one second gives the same token, so that a row may hold the
\* token of the row before it.
AccessRow == [user : Users, signIn : AccessUids]
RefreshRow == [user : Users, signIn : AccessUids, token : RefreshUids]

ASSUME RowAssumption ==
  /\ NoRow # Gone /\ NoRow \notin AccountRow
  /\ {NoRow, Gone} \cap (AccessRow \cup RefreshRow) = {}

\* The two logins, the registrations of a user and of a partner, and
\* createOrConnectGoogleUser and createOrConnectAppleUser.
SignInOps == {"login", "partnerLogin", "register", "partnerRegister", "google", "apple"}
Ops == SignInOps \cup {"exchange", "logout", "reset"}

SignInSteps == {"find", "create", "both", "access", "refresh"}
ExchangeSteps == {"record", "user", "old", "pick", "swap"}
ClearSteps == {"guard", "rows", "tokens", "clear"}

Steps ==
  [o \in Ops |-> CASE o \in SignInOps -> SignInSteps
                   [] o = "exchange" -> ExchangeSteps
                   [] OTHER -> ClearSteps]

Idle == [op |-> "idle", pc |-> "idle"]

\* email is the address as the client writes it and user whom the request acts
\* for; then the sign-in being made, the refresh token presented, its record and
\* the access row picked for the new token.  rows and tokens are what a logout
\* deletes, standing the sign-ins it has to end.
Request ==
  [op : Ops, pc : SignInSteps \cup ExchangeSteps \cup ClearSteps,
   email : Spellings \cup {NoRow}, user : Users \cup {NoRow}, signIn : AccessUids \cup {NoRow},
   token : RefreshUids \cup {NoRow}, record : RefreshUids \cup {NoRow},
   row : AccessUids \cup {NoRow}, rows : SUBSET AccessUids, tokens : SUBSET RefreshUids,
   standing : SUBSET AccessUids]

InFlight(r) == request[r].op # "idle"
At(r, pc) == request[r].pc = pc

Accounts == {u \in Users : account[u] # NoRow}
Holders(e) == {u \in Accounts : account[u].email = e}
AccessOf(u) == {a \in AccessUids : access[a] \notin {NoRow, Gone} /\ access[a].user = u}
Live == {x \in RefreshUids : refresh[x] \notin {NoRow, Gone}}
RefreshOf(u) == {x \in Live : refresh[x].user = u}

\* The rows a logout has locked by its deletes, and the record a refresh has.
LockedAccess == UNION {request[q].rows : q \in {p \in Requests : InFlight(p)}}
Renewing(r) == At(r, "pick") \/ At(r, "swap")
HeldRecords == {request[q].record : q \in {p \in Requests : Renewing(p)}}
LockedRefresh ==
  HeldRecords \cup UNION {request[q].tokens : q \in {p \in Requests : At(p, "clear")}}

\* The sign-ins of u that have got their refresh token, the last of the two.
Complete(u) == {refresh[x].signIn : x \in RefreshOf(u)}

Init ==
  /\ account = [u \in Users |-> NoRow]
  /\ access = [a \in AccessUids |-> NoRow]
  /\ refresh = [x \in RefreshUids |-> NoRow]
  /\ request = [r \in Requests |-> Idle]
  /\ ended = {}
  /\ failures = 0

-----------------------------------------------------------------------------
table == <<account, access, refresh>>

Become(r, q) == request' = [request EXCEPT ![r] = q]
Goto(r, pc) == request' = [request EXCEPT ![r].pc = pc]
Answer(r) == Become(r, Idle)
Refuse(r) == Answer(r) /\ UNCHANGED <<table, ended, failures>>

Arrives(r, op, pc, e, u, x) ==
  /\ ~InFlight(r)
  /\ Become(r, [op |-> op, pc |-> pc, email |-> e, user |-> u, signIn |-> NoRow, token |-> x,
                record |-> NoRow, row |-> NoRow, rows |-> {}, tokens |-> {}, standing |-> {}])
  /\ UNCHANGED <<table, ended, failures>>

\* The uids of new rows; what is left of them bounds the sign-ins and refreshes.
FreeAccess == {a \in AccessUids : access[a] = NoRow}
FreeRefresh == {x \in RefreshUids : refresh[x] = NoRow}

-----------------------------------------------------------------------------
(* Signing in.                                                             *)

SignInArrives(r, op, e) == Arrives(r, op, "find", e, NoRow, NoRow)

\* Google and the registration of a partner look for the address as it is
\* given, the rest for small letters.
LookedUp(q) == IF q.op \in {"google", "partnerRegister"} THEN q.email ELSE Small

\* The read a sign-in starts with.  The two logins want an account that is
\* there, Google takes any account with the address, Apple one of its own, and
\* the registrations none.
FindAccount(r) ==
  LET q == request[r]
      found == CASE q.op = "apple" -> {u \in Accounts : account[u].kind = "APPLE"}
                 [] q.op = "partnerLogin" -> {u \in Holders(Small) : account[u].kind = "PARTNER"}
                 [] OTHER -> Holders(LookedUp(q))
  IN
  /\ At(r, "find")
  /\ CASE found = {} /\ q.op \in {"login", "partnerLogin"} -> Refuse(r)
       [] found = {} -> Goto(r, "create") /\ UNCHANGED <<table, ended, failures>>
       [] q.op \in {"register", "partnerRegister"} /\ found # {} -> Refuse(r)
       [] OTHER ->
            /\ \E u \in found : Become(r, [q EXCEPT
                 !.pc = IF q.op = "login" THEN "both" ELSE "access", !.user = u])
            /\ UNCHANGED <<table, ended, failures>>

\* A sign-in of u with the access row a and the refresh row x, in one
\* transaction; another token of the same second takes the uid of no row.
InsertBoth(u, a, x) ==
  /\ access' = [access EXCEPT ![a] = [user |-> u, signIn |-> a]]
  /\ refresh' = [refresh EXCEPT ![x] = [user |-> u, signIn |-> a, token |-> x]]

\* Mutant: nobody puts the address in small letters.
AsGiven(q) == q.email

\* Google inserts the address as it is given, the rest in small letters
\* (UsersService.create).
Written(q) == IF q.op = "google" THEN q.email ELSE Small

NewAccount(q) ==
  [kind |-> CASE q.op = "google" -> "GOOGLE" [] q.op = "apple" -> "APPLE"
              [] q.op = "partnerRegister" -> "PARTNER" [] OTHER -> "LUDORA",
   isConnected |-> TRUE, email |-> Written(q), changed |-> FALSE]

\* Mutant: the column email is not unique.
CreateAccountAnyway(r) ==
  LET q == request[r] IN
  /\ At(r, "create")
  /\ \E u \in Users \ Accounts :
       /\ account' = [account EXCEPT ![u] = NewAccount(q)]
       /\ Become(r, [q EXCEPT !.pc = "access", !.user = u])
  /\ UNCHANGED <<access, refresh, ended, failures>>

\* The unique columns, email and appleId, refuse the second of two who have
\* both found no account; the registrations insert their tokens in the same
\* transaction.
CreateAccount(r) ==
  LET q == request[r]
      rivals == Holders(Written(q)) \cup
                  {u \in Accounts : q.op = "apple" /\ account[u].kind = "APPLE"}
  IN
  /\ At(r, "create")
  /\ \/ rivals # {} /\ Refuse(r)
     \/ /\ rivals = {}
        /\ \E u \in Users \ Accounts :
             /\ account' = [account EXCEPT ![u] = NewAccount(q)]
             /\ IF q.op \in {"google", "apple"}
                THEN /\ Become(r, [q EXCEPT !.pc = "access", !.user = u])
                     /\ UNCHANGED <<access, refresh>>
                ELSE /\ \E a \in FreeAccess, x \in FreeRefresh : InsertBoth(u, a, x)
                     /\ Answer(r)
        /\ UNCHANGED <<ended, failures>>

\* The transaction of login.
InsertTokens(r) ==
  LET u == request[r].user IN
  /\ At(r, "both")
  /\ IF u \notin Accounts THEN Refuse(r)
     ELSE /\ \E a \in FreeAccess, x \in FreeRefresh : InsertBoth(u, a, x)
          /\ Answer(r)
          /\ UNCHANGED <<account, ended, failures>>

\* Google, Apple and partners: two statements and no transaction around them.
InsertAccess(r) ==
  LET q == request[r] IN
  /\ At(r, "access")
  /\ IF q.user \notin Accounts THEN Refuse(r)
     ELSE \E a \in FreeAccess :
            /\ access' = [access EXCEPT ![a] = [user |-> q.user, signIn |-> a]]
            /\ Become(r, [q EXCEPT !.pc = "refresh", !.signIn = a])
            /\ UNCHANGED <<account, refresh, ended, failures>>

InsertRefresh(r) ==
  LET q == request[r] IN
  /\ At(r, "refresh")
  /\ IF q.user \notin Accounts THEN Refuse(r)
     ELSE \E x \in FreeRefresh :
            /\ refresh' = [refresh EXCEPT
                 ![x] = [user |-> q.user, signIn |-> q.signIn, token |-> x]]
            /\ Answer(r)
            /\ UNCHANGED <<account, access, ended, failures>>

-----------------------------------------------------------------------------
(* refreshToken.                                                           *)

\* A client presents a refresh token it has been given, which may be an old one.
ExchangeArrives(r, t) == refresh[t] # NoRow /\ Arrives(r, "exchange", "record", NoRow, NoRow, t)

\* The record that holds the token, unless it has expired.
FindRecord(r) ==
  LET q == request[r]
      holders == {x \in Live : refresh[x].token = q.token}
  IN
  /\ At(r, "record")
  /\ \/ Refuse(r)
     \/ /\ \E x \in holders : Become(r, [q EXCEPT !.pc = "user", !.record = x,
             !.user = refresh[x].user, !.signIn = refresh[x].signIn])
        /\ UNCHANGED <<table, ended, failures>>

FindActiveUser(r) ==
  LET u == request[r].user IN
  /\ At(r, "user")
  /\ IF u \in Accounts /\ account[u].isConnected
     THEN Goto(r, "old") /\ UNCHANGED <<table, ended, failures>>
     ELSE Refuse(r)

\* Mutant: the delete comes before the transaction.
DeleteOldFirst(r) ==
  LET x == request[r].record IN
  /\ At(r, "old")
  /\ x \notin LockedRefresh
  /\ IF x \in Live
     THEN /\ refresh' = [refresh EXCEPT ![x] = Gone]
          /\ Goto(r, "pick")
          /\ UNCHANGED <<account, access, ended, failures>>
     ELSE Refuse(r)

\* The transaction opens with the delete of the record, which throws when the
\* record is gone and otherwise keeps it locked.
DeleteOld(r) ==
  LET x == request[r].record IN
  /\ At(r, "old")
  /\ x \notin LockedRefresh
  /\ IF x \in Live
     THEN Goto(r, "pick") /\ UNCHANGED <<table, ended, failures>>
     ELSE Refuse(r)

\* findFirst, of any access token of the user.
PickAccess(r) ==
  LET q == request[r] IN
  /\ At(r, "pick")
  /\ \/ AccessOf(q.user) = {} /\ Goto(r, "swap")
     \/ \E a \in AccessOf(q.user) : Become(r, [q EXCEPT !.pc = "swap", !.row = a])
  /\ UNCHANGED <<table, ended, failures>>

\* Mutant: the new token is added and the record of the old one stays.
SwapKeepsOld(r) ==
  LET q == request[r] IN
  /\ At(r, "swap")
  /\ q.user \in Accounts
  /\ \E y \in FreeRefresh :
       refresh' = [refresh EXCEPT ![y] = [user |-> q.user, signIn |-> q.signIn, token |-> y]]
  /\ Answer(r)
  /\ UNCHANGED <<account, access, ended, failures>>

\* The rest of the transaction: a new record, with the token of the old one
\* when both have been signed within a second, and the row picked updated in
\* place, whichever sign-in it was made for; the update throws when it is gone.
Swap(r) ==
  LET q == request[r] IN
  /\ At(r, "swap")
  /\ q.row \notin LockedAccess
  /\ IF q.user \notin Accounts \/ (q.row # NoRow /\ access[q.row] = Gone)
     THEN Refuse(r)
     ELSE /\ \E y \in FreeRefresh : \E t \in {y, q.token} :
               refresh' = [refresh EXCEPT ![q.record] = Gone,
                 ![y] = [user |-> q.user, signIn |-> q.signIn, token |-> t]]
          /\ \E a \in IF q.row = NoRow THEN FreeAccess ELSE {q.row} :
               access' = [access EXCEPT ![a] = [user |-> q.user, signIn |-> q.signIn]]
          /\ Answer(r)
          /\ UNCHANGED <<account, ended, failures>>

-----------------------------------------------------------------------------
(* logout, logoutAllDevices and resetForgottenPassword, behind the guard.  *)

\* The guard has found the access token a; the sign-ins that are complete by
\* now are those the request has to end.
ClearArrives(r, op, a) ==
  /\ ~InFlight(r)
  /\ access[a] \notin {NoRow, Gone}
  /\ Become(r, [op |-> op, pc |-> "guard", email |-> NoRow, user |-> access[a].user,
                signIn |-> NoRow, token |-> NoRow, record |-> NoRow, row |-> NoRow,
                rows |-> {}, tokens |-> {}, standing |-> Complete(access[a].user)])
  /\ UNCHANGED <<table, ended, failures>>

\* The user the token names: the guard looks for it, and a reset once more.
FindTokenUser(r) ==
  /\ At(r, "guard")
  /\ IF request[r].user \in Accounts
     THEN Goto(r, "rows") /\ UNCHANGED <<table, ended, failures>>
     ELSE Refuse(r)

\* The first deleteMany has the rows it finds locked until the end.
DeleteAccess(r) ==
  LET q == request[r] IN
  /\ At(r, "rows")
  /\ AccessOf(q.user) \cap LockedAccess = {}
  /\ Become(r, [q EXCEPT !.pc = "tokens", !.rows = AccessOf(q.user)])
  /\ UNCHANGED <<table, ended, failures>>

\* Mutant: delete in the place of deleteMany.
DeleteOneRefresh(r) ==
  LET q == request[r] IN
  /\ At(r, "tokens")
  /\ \/ RefreshOf(q.user) = {} /\ Refuse(r)
     \/ /\ \E x \in RefreshOf(q.user) : Become(r, [q EXCEPT !.pc = "clear", !.tokens = {x}])
        /\ UNCHANGED <<table, ended, failures>>

\* The second one may have to wait for the records it finds.  A refresh whose
\* transaction is open now takes its sign-in out of reach.
DeleteRefresh(r) ==
  LET q == request[r]
      open == {request[p].signIn : p \in {p \in Requests : Renewing(p)}}
  IN
  /\ At(r, "tokens")
  /\ Become(r, [q EXCEPT !.pc = "clear", !.tokens = RefreshOf(q.user),
                         !.standing = q.standing \ open])
  /\ UNCHANGED <<table, ended, failures>>

\* The end of the transaction, of which the second delete has waited for the
\* refreshes that are open; a reset signs in again before it, or throws when
\* its user is gone.
Clear(r) ==
  LET q == request[r]
      access1 == [a \in AccessUids |-> IF a \in q.rows THEN Gone ELSE access[a]]
      refresh1 == [x \in RefreshUids |-> IF x \in q.tokens THEN Gone ELSE refresh[x]]
  IN
  /\ At(r, "clear")
  /\ q.tokens \cap HeldRecords = {}
  /\ \/ q.op = "reset" /\ q.user \notin Accounts /\ Refuse(r)
     \/ /\ \/ q.op = "logout" /\ access' = access1 /\ refresh' = refresh1
           \/ /\ q.op = "reset" /\ q.user \in Accounts
              /\ \E a \in FreeAccess, x \in FreeRefresh :
                   /\ access' = [access1 EXCEPT ![a] = [user |-> q.user, signIn |-> a]]
                   /\ refresh' = [refresh1 EXCEPT
                        ![x] = [user |-> q.user, signIn |-> a, token |-> x]]
        /\ ended' = ended \cup q.standing
        /\ Answer(r)
        /\ UNCHANGED <<account, failures>>

\* A refresh that waits for the access row of a logout, which waits for the
\* record of the refresh: the database aborts either.
DeadlockAborts(r) ==
  /\ \E q, p \in Requests :
       /\ r \in {p, q}
       /\ At(q, "swap") /\ At(p, "clear")
       /\ request[q].row \in request[p].rows
       /\ request[q].record \in request[p].tokens
  /\ Refuse(r)

-----------------------------------------------------------------------------
(* What the rest of the system does meanwhile.                             *)

\* deactivate; nothing sets isConnected again.
Deactivate(u) ==
  /\ u \in Accounts
  /\ account' = [account EXCEPT ![u].isConnected = FALSE]
  /\ UNCHANGED <<access, refresh, request, ended, failures>>

\* updateEmail, to another spelling or another address and back again, as it is
\* given, unless somebody has it already.
ChangeEmail(u, e) ==
  /\ u \in Accounts
  /\ e = Elsewhere \/ Holders(e) = {}
  /\ account' = [account EXCEPT ![u].email = e, ![u].changed = TRUE]
  /\ UNCHANGED <<access, refresh, request, ended, failures>>

\* The account is removed, and its rows with it.
RemoveAccount(u) ==
  /\ u \in Accounts
  /\ AccessOf(u) \cap LockedAccess = {}
  /\ RefreshOf(u) \cap LockedRefresh = {}
  /\ account' = [account EXCEPT ![u] = NoRow]
  /\ access' = [a \in AccessUids |-> IF a \in AccessOf(u) THEN Gone ELSE access[a]]
  /\ refresh' = [x \in RefreshUids |-> IF x \in RefreshOf(u) THEN Gone ELSE refresh[x]]
  /\ UNCHANGED <<request, ended, failures>>

\* An await of the request rejects; an open transaction leaves nothing behind.
AwaitFails(r) ==
  /\ InFlight(r)
  /\ failures < MaxFailures
  /\ failures' = failures + 1
  /\ Answer(r)
  /\ UNCHANGED <<table, ended>>

\* The next database call of the request r.
Work(r) ==
  \/ FindAccount(r) \/ CreateAccount(r) \/ InsertTokens(r) \/ InsertAccess(r) \/ InsertRefresh(r)
  \/ FindRecord(r) \/ FindActiveUser(r) \/ DeleteOld(r) \/ PickAccess(r) \/ Swap(r)
  \/ FindTokenUser(r) \/ DeleteAccess(r) \/ DeleteRefresh(r) \/ Clear(r)

Next ==
  \/ \E r \in Requests :
       \/ \E op \in SignInOps, e \in Spellings : SignInArrives(r, op, e)
       \/ \E t \in RefreshUids : ExchangeArrives(r, t)
       \/ \E op \in {"logout", "reset"}, a \in AccessUids : ClearArrives(r, op, a)
       \/ Work(r) \/ DeadlockAborts(r) \/ AwaitFails(r)
  \/ \E u \in Users :
       \/ Deactivate(u) \/ RemoveAccount(u)
       \/ \E e \in Spellings \cup {Elsewhere} : ChangeEmail(u, e)

Spec == Init /\ [][Next]_vars

-----------------------------------------------------------------------------
(* Properties.                                                             *)

\* What a request has in hand for the step it is at.
InHand(q) ==
  /\ q.pc \in Steps[q.op]
  /\ q.pc \in {"find", "create", "record"} \/ q.user \in Users
  /\ q.op \in SignInOps => q.email \in Spellings
  /\ q.op = "exchange" => q.token \in RefreshUids
  /\ q.pc \in {"refresh", "user", "old", "pick", "swap"} => q.signIn \in AccessUids
  /\ q.pc \in {"user", "old", "pick", "swap"} => q.record \in RefreshUids
  /\ q.op \in {"logout", "reset"} \/ q.standing = {}

\* Every row, request and history keeps its type, a request has in hand what its
\* step works on, and a token belongs to an account that is there (the foreign
\* keys of UserTokens and RefreshTokens).
TypeOK ==
  /\ account \in [Users -> AccountRow \cup {NoRow}]
  /\ access \in [AccessUids -> AccessRow \cup {NoRow, Gone}]
  /\ refresh \in [RefreshUids -> RefreshRow \cup {NoRow, Gone}]
  /\ request \in [Requests -> Request \cup {Idle}]
  /\ \A r \in Requests : InFlight(r) => InHand(request[r])
  /\ \A a \in AccessUids : access[a] \in AccessRow => access[a].user \in Accounts
  /\ \A x \in Live : refresh[x].user \in Accounts
  /\ ended \subseteq AccessUids
  /\ failures \in 0..MaxFailures

\* Two accounts have the address, whichever ways of signing up race for it,
\* only if they spell it differently, and one of them has capitals and got them
\* from Google or by a change of the address: what registers or signs in with
\* Apple finds the account that is there (register, createOrConnectGoogleUser,
\* createOrConnectAppleUser, updateEmail).
OneAccount ==
  \A u, v \in {w \in Accounts : account[w].email \in Spellings} : u # v =>
    /\ account[u].email # account[v].email
    /\ \E w \in {u, v} :
         account[w].email # Small /\ (account[w].kind = "GOOGLE" \/ account[w].changed)

\* Of one sign-in there is at most one refresh token at any time, however
\* often a client presents one token, at once or again after its answer was
\* lost: a refresh that does not find the record it has read gives up
\* (refreshToken, the delete inside its transaction).
OneTokenPerSignIn ==
  \A x, y \in Live : refresh[x].signIn = refresh[y].signIn => x = y

\* "Logout user by invalidating all tokens": a sign-in that was complete when
\* a logout or a reset came, and that no refresh was renewing at the moment of
\* its second delete, cannot be refreshed from then on, whatever was refreshed
\* meanwhile and with whichever token of before.
EndedIsOver == \A x \in Live : refresh[x].signIn \notin ended

\* A sign-in loses its refresh token to a logout, a reset or the removal of
\* the account and to nothing else: a refresh that fails at any await leaves
\* the token it was given (the transaction of refreshToken).
RefreshKeepsSignIn ==
  [][\A x \in Live :
       (\A y \in Live' : refresh'[y].signIn # refresh[x].signIn) =>
         \/ \E r \in Requests : At(r, "clear") /\ x \in request[r].tokens /\ ~At(r, "clear")'
         \/ account'[refresh[x].user] = NoRow]_vars
================================================================================
