--------------------------- MODULE AuthTokens_proofs ---------------------------
(***************************************************************************)
(* Proofs about AuthTokens, for any users, tokens, requests and failures,  *)
(* and about VerificationCodes, for any codes.                             *)
(***************************************************************************)
EXTENDS MCAuthTokens, FiniteSetTheorems, TLAPS

-----------------------------------------------------------------------------
(* What a request has in hand.                                             *)

AllSteps == SignInSteps \cup ExchangeSteps \cup ClearSteps

\* The steps each handler has.
LEMMA StepsOfOps ==
  /\ \A o \in SignInOps : Steps[o] = SignInSteps
  /\ Steps["exchange"] = ExchangeSteps
  /\ \A o \in {"logout", "reset"} : Steps[o] = ClearSteps
<1>1. Ops = SignInOps \cup {"exchange", "logout", "reset"}
  BY DEF Ops
<1>2. "exchange" \notin SignInOps /\ "logout" \notin SignInOps /\ "reset" \notin SignInOps
  BY DEF SignInOps
<1> QED
  BY <1>1, <1>2 DEF Steps

\* An idle request is at no step, and a request at a step is a Request.
LEMMA AtStep ==
  ASSUME TypeOK, NEW r \in Requests, NEW pc \in AllSteps, At(r, pc)
  PROVE  /\ InFlight(r) /\ request[r] \in Request /\ InHand(request[r])
         /\ pc \in SignInSteps => request[r].op \in SignInOps
         /\ pc \in ExchangeSteps => request[r].op = "exchange"
         /\ pc \in ClearSteps => request[r].op \in {"logout", "reset"}
<1>1. request[r] # Idle
  BY DEF At, Idle, AllSteps, SignInSteps, ExchangeSteps, ClearSteps
<1>2. request[r] \in Request /\ request[r].op \in Ops
  BY <1>1 DEF TypeOK, Request
<1>3. InFlight(r)
  BY <1>2 DEF InFlight, Ops, SignInOps
<1>4. InHand(request[r]) /\ pc \in Steps[request[r].op]
  BY <1>3 DEF TypeOK, InHand, At
<1>5. /\ SignInSteps \cap ExchangeSteps = {} /\ SignInSteps \cap ClearSteps = {}
      /\ ExchangeSteps \cap ClearSteps = {}
  BY DEF SignInSteps, ExchangeSteps, ClearSteps
<1> QED
  BY <1>2, <1>3, <1>4, <1>5, StepsOfOps DEF Ops

\* An idle request, or one that has in hand what its step works on.
WellFormed(q) == q = Idle \/ (q \in Request /\ InHand(q))

\* The step keeps what the request acts for.
Keeps(r) ==
  /\ request'[r].op = request[r].op /\ request'[r].user = request[r].user
  /\ request'[r].signIn = request[r].signIn /\ request'[r].token = request[r].token
  /\ request'[r].record = request[r].record /\ request'[r].standing = request[r].standing

\* A request that goes on to a step of its handler stays of its type.
LEMMA GotoMoves ==
  ASSUME TypeOK, NEW r \in Requests, NEW from \in AllSteps, At(r, from),
         NEW pc \in AllSteps, Goto(r, pc), pc \in Steps[request[r].op],
         from \notin {"find", "create", "record"} \/ pc \in {"find", "create", "record"},
         pc \in {"refresh", "user", "old", "pick", "swap"} => from \in {"user", "old", "pick", "swap"},
         pc # "refresh"
  PROVE  /\ \A s \in Requests \ {r} : request'[s] = request[s]
         /\ WellFormed(request'[r]) /\ request'[r].pc = pc /\ Keeps(r)
<1> DEFINE q == request[r]
           q1 == [q EXCEPT !.pc = pc]
<1>1. q \in Request /\ InHand(q)
  BY AtStep
<1>2. /\ q1 \in Request /\ q1.pc = pc
      /\ q1.op = q.op /\ q1.user = q.user /\ q1.signIn = q.signIn /\ q1.token = q.token
      /\ q1.record = q.record /\ q1.standing = q.standing /\ q1.email = q.email
  BY <1>1 DEF Request, AllSteps
<1>3. request'[r] = q1 /\ \A s \in Requests \ {r} : request'[s] = request[s]
  BY DEF Goto, TypeOK
<1> HIDE DEF q1
<1>4. InHand(q1)
  BY <1>1, <1>2 DEF InHand, At
<1> QED
  BY <1>2, <1>3, <1>4 DEF Keeps, WellFormed

\* Become changes the request r, and no other.
LEMMA BecomeMoves ==
  ASSUME TypeOK, NEW r \in Requests, NEW q, Become(r, q)
  PROVE  request'[r] = q /\ \A s \in Requests \ {r} : request'[s] = request[s]
BY DEF Become, TypeOK

-----------------------------------------------------------------------------
(* What the steps make of the requests.                                    *)

\* The sign-ins a logout still has to end.
Standing(r) == IF InFlight(r) THEN request[r].standing ELSE {}

\* How a request comes to the steps that matter, and what it takes along.
Moved(r) ==
  /\ \A s \in Requests \ {r} : request'[s] = request[s]
  /\ WellFormed(request'[r])
  /\ request'[r].pc = "refresh" => InsertAccess(r)
  /\ request'[r].pc = "user" => FindRecord(r)
  /\ request'[r].pc = "old" => FindActiveUser(r) /\ Keeps(r)
  /\ request'[r].pc = "pick" => DeleteOld(r) /\ Keeps(r)
  /\ request'[r].pc = "swap" => PickAccess(r) /\ Keeps(r)
  /\ request'[r].pc = "clear" => DeleteRefresh(r)
  /\ \/ request'[r] = Idle
     \/ request'[r].standing = {}
     \/ /\ InFlight(r) /\ request'[r].standing \subseteq request[r].standing
        /\ request'[r].user = request[r].user
     \/ /\ table' = table
        /\ request'[r].standing = Complete(request'[r].user)

\* A request that is answered is idle.
LEMMA AnswerMoves ==
  ASSUME TypeOK, NEW r \in Requests, Answer(r)
  PROVE  Moved(r)
<1>1. Idle.pc = "idle"
  BY DEF Idle
<1> QED
  BY <1>1, BecomeMoves DEF Answer, Moved, WellFormed

\* A request that arrives starts with what its handler has in hand.
LEMMA ArrivalMoves ==
  ASSUME TypeOK, NEW r \in Requests,
         \/ \E op \in SignInOps, e \in Spellings : SignInArrives(r, op, e)
         \/ \E t \in RefreshUids : ExchangeArrives(r, t)
         \/ \E op \in {"logout", "reset"}, a \in AccessUids : ClearArrives(r, op, a)
  PROVE  Moved(r)
<1> DEFINE q(op, pc, e, u, x, st) ==
      [op |-> op, pc |-> pc, email |-> e, user |-> u, signIn |-> NoRow, token |-> x,
       record |-> NoRow, row |-> NoRow, rows |-> {}, tokens |-> {}, standing |-> st]
<1>1. ASSUME NEW op \in SignInOps, NEW e \in Spellings, SignInArrives(r, op, e)
      PROVE  Moved(r)
  <2>1. Become(r, q(op, "find", e, NoRow, NoRow, {}))
    BY <1>1 DEF SignInArrives, Arrives
  <2>2. WellFormed(q(op, "find", e, NoRow, NoRow, {}))
    BY StepsOfOps DEF WellFormed, InHand, Request, Ops, SignInSteps, SignInOps
  <2> QED
    BY <2>1, <2>2, BecomeMoves DEF Moved
<1>2. ASSUME NEW t \in RefreshUids, ExchangeArrives(r, t)
      PROVE  Moved(r)
  <2>1. Become(r, q("exchange", "record", NoRow, NoRow, t, {}))
    BY <1>2 DEF ExchangeArrives, Arrives
  <2>2. WellFormed(q("exchange", "record", NoRow, NoRow, t, {}))
    BY StepsOfOps DEF WellFormed, InHand, Request, Ops, SignInOps, ExchangeSteps
  <2> QED
    BY <2>1, <2>2, BecomeMoves DEF Moved
<1>3. ASSUME NEW op \in {"logout", "reset"}, NEW a \in AccessUids, ClearArrives(r, op, a)
      PROVE  Moved(r)
  <2> DEFINE u == access[a].user
  <2>1. Become(r, q(op, "guard", NoRow, u, NoRow, Complete(u))) /\ table' = table
    BY <1>3 DEF ClearArrives, table
  <2>2. u \in Users /\ Complete(u) \subseteq AccessUids
    BY <1>3 DEF ClearArrives, TypeOK, AccessRow, RefreshRow, Complete, RefreshOf, Live
  <2> HIDE DEF u
  <2>3. WellFormed(q(op, "guard", NoRow, u, NoRow, Complete(u)))
    BY <2>2, StepsOfOps DEF WellFormed, InHand, Request, Ops, SignInOps, ClearSteps
  <2> QED
    BY <2>1, <2>3, BecomeMoves DEF Moved
<1> QED
  BY <1>1, <1>2, <1>3

\* A step of a sign-in.
LEMMA SignInMoves ==
  ASSUME TypeOK, NEW r \in Requests,
         \/ FindAccount(r) \/ CreateAccount(r) \/ InsertTokens(r)
         \/ InsertAccess(r) \/ InsertRefresh(r)
  PROVE  Moved(r)
<1> DEFINE q == request[r]
<1>1. \E from \in {"find", "create", "both", "access", "refresh"} : At(r, from)
  BY DEF FindAccount, CreateAccount, InsertTokens, InsertAccess, InsertRefresh
<1>2. /\ q \in Request /\ InHand(q) /\ q.op \in SignInOps /\ Steps[q.op] = SignInSteps
      /\ q.op # "exchange" /\ InFlight(r)
  BY <1>1, AtStep, StepsOfOps DEF AllSteps, SignInSteps, SignInOps
<1>3. CASE Answer(r)
  BY <1>3, AnswerMoves
<1>4. ASSUME NEW q1, Become(r, q1), q1 \in Request, InHand(q1), q1.op = q.op,
             \/ q1.pc \in {"create", "both", "access"}
             \/ q1.pc = "refresh" /\ InsertAccess(r)
      PROVE  Moved(r)
  <2>1. q1.standing = {}
    BY <1>2, <1>4 DEF InHand, SignInOps
  <2> QED
    BY <1>4, <2>1, BecomeMoves DEF Moved, WellFormed
<1>5. ASSUME NEW u \in Users, NEW pc \in {"both", "access"},
             Become(r, [q EXCEPT !.pc = pc, !.user = u])
      PROVE  Moved(r)
  <2> DEFINE q1 == [q EXCEPT !.pc = pc, !.user = u]
  <2>1. /\ q1 \in Request /\ q1.op = q.op /\ q1.pc = pc /\ q1.user = u
        /\ q1.standing = q.standing /\ q1.email = q.email
    BY <1>2 DEF Request, SignInSteps
  <2>2. Become(r, q1)
    BY <1>5
  <2> HIDE DEF q1
  <2>3. InHand(q1)
    BY <1>2, <2>1 DEF InHand, SignInSteps
  <2> QED
    BY <1>4, <1>5, <2>1, <2>2, <2>3
<1>6. CASE FindAccount(r)
  <2>1. CASE Goto(r, "create")
    <3>1. /\ \A s \in Requests \ {r} : request'[s] = request[s]
          /\ WellFormed(request'[r]) /\ request'[r].pc = "create" /\ Keeps(r)
      BY <1>2, <1>6, <2>1, GotoMoves DEF FindAccount, AllSteps, SignInSteps
    <3> QED
      BY <1>2, <3>1 DEF Moved, Keeps, InHand, SignInOps
  <2>2. ASSUME NEW u \in Accounts,
               Become(r, [q EXCEPT !.pc = IF q.op = "login" THEN "both" ELSE "access", !.user = u])
        PROVE  Moved(r)
    <3> DEFINE pc == IF q.op = "login" THEN "both" ELSE "access"
    <3>1. u \in Users /\ pc \in {"both", "access"}
      BY DEF Accounts
    <3> QED
      BY <1>5, <2>2, <3>1
  <2> DEFINE found == CASE q.op = "apple" -> {u \in Accounts : account[u].kind = "APPLE"}
                        [] q.op = "partnerLogin" ->
                             {u \in Holders(Small) : account[u].kind = "PARTNER"}
                        [] OTHER -> Holders(LookedUp(q))
  <2>3. found \subseteq Accounts
    BY DEF Holders
  <2>4. \/ Answer(r) \/ Goto(r, "create")
        \/ \E u \in found : Become(r, [q EXCEPT
             !.pc = IF q.op = "login" THEN "both" ELSE "access", !.user = u])
    BY <1>6 DEF FindAccount, Refuse
  <2> HIDE DEF found
  <2> QED
    BY <1>3, <2>1, <2>2, <2>3, <2>4
<1>7. CASE CreateAccount(r)
  <2>1. Answer(r) \/ \E u \in Users : Become(r, [q EXCEPT !.pc = "access", !.user = u])
    BY <1>7 DEF CreateAccount, Refuse
  <2>2. "access" \in {"both", "access"}
    OBVIOUS
  <2>3. ASSUME NEW u \in Users, Become(r, [q EXCEPT !.pc = "access", !.user = u])
        PROVE  Moved(r)
    BY <1>5, <2>2, <2>3, Zenon
  <2> QED
    BY <1>3, <2>1, <2>3
<1>8. CASE InsertTokens(r)
  BY <1>3, <1>8 DEF InsertTokens, Refuse
<1>9. CASE InsertAccess(r)
  <2>1. CASE Refuse(r)
    BY <1>3, <2>1 DEF Refuse
  <2>2. ASSUME NEW a \in FreeAccess, Become(r, [q EXCEPT !.pc = "refresh", !.signIn = a])
        PROVE  Moved(r)
    <3> DEFINE q1 == [q EXCEPT !.pc = "refresh", !.signIn = a]
    <3>1. a \in AccessUids /\ q.user \in Users
      BY <1>2, <1>9 DEF FreeAccess, InsertAccess, InHand, At
    <3>2. /\ q1 \in Request /\ q1.op = q.op /\ q1.pc = "refresh" /\ q1.user = q.user
          /\ q1.standing = q.standing /\ q1.signIn = a /\ q1.email = q.email
      BY <1>2, <3>1 DEF Request, SignInSteps
    <3> HIDE DEF q1
    <3>3. InHand(q1)
      BY <1>2, <3>1, <3>2 DEF InHand, SignInSteps
    <3> QED
      BY <1>4, <1>9, <2>2, <3>2, <3>3 DEF q1
  <2> QED
    BY <1>9, <2>1, <2>2 DEF InsertAccess
<1>10. CASE InsertRefresh(r)
  BY <1>3, <1>10 DEF InsertRefresh, Refuse
<1> QED
  BY <1>6, <1>7, <1>8, <1>9, <1>10

\* A step of a refresh.
LEMMA ExchangeMoves ==
  ASSUME TypeOK, NEW r \in Requests,
         FindRecord(r) \/ FindActiveUser(r) \/ DeleteOld(r) \/ PickAccess(r) \/ Swap(r)
  PROVE  Moved(r)
<1> DEFINE q == request[r]
<1>1. PICK from \in ExchangeSteps : At(r, from)
  BY DEF FindRecord, FindActiveUser, DeleteOld, PickAccess, Swap, ExchangeSteps
<1>2. /\ q \in Request /\ InHand(q) /\ q.op = "exchange" /\ Steps[q.op] = ExchangeSteps
      /\ InFlight(r) /\ q.standing = {}
  BY <1>1, AtStep, StepsOfOps DEF AllSteps, InHand
<1>3. CASE Answer(r)
  BY <1>3, AnswerMoves
<1>4. ASSUME NEW pc \in {"old", "pick", "swap"}, Goto(r, pc), from \in {"user", "old", "pick"},
             \/ pc = "old" /\ FindActiveUser(r)
             \/ pc = "pick" /\ DeleteOld(r)
             \/ pc = "swap" /\ PickAccess(r)
      PROVE  Moved(r)
  <2>1. /\ \A s \in Requests \ {r} : request'[s] = request[s]
        /\ WellFormed(request'[r]) /\ request'[r].pc = pc /\ Keeps(r)
    BY <1>1, <1>2, <1>4, GotoMoves DEF AllSteps, ExchangeSteps
  <2> QED
    BY <1>2, <1>4, <2>1 DEF Moved, Keeps
<1>5. CASE FindRecord(r)
  <2>1. ASSUME NEW x \in Live, Become(r, [q EXCEPT !.pc = "user", !.record = x,
                                  !.user = refresh[x].user, !.signIn = refresh[x].signIn])
        PROVE  Moved(r)
    <3> DEFINE u == refresh[x].user
               s == refresh[x].signIn
               q1 == [q EXCEPT !.pc = "user", !.record = x, !.user = u, !.signIn = s]
    <3>1. x \in RefreshUids /\ u \in Users /\ s \in AccessUids /\ q.token \in RefreshUids
      BY <1>2 DEF Live, TypeOK, RefreshRow, InHand
    <3> HIDE DEF u, s
    <3>2. /\ q1 \in Request /\ q1.op = q.op /\ q1.pc = "user" /\ q1.user = u /\ q1.record = x
          /\ q1.standing = q.standing /\ q1.signIn = s /\ q1.token = q.token
      BY <1>2, <3>1 DEF Request, ExchangeSteps
    <3> HIDE DEF q1
    <3>3. InHand(q1)
      BY <1>2, <3>1, <3>2 DEF InHand, ExchangeSteps, SignInOps
    <3>4. Become(r, q1)
      BY <2>1 DEF q1, u, s
    <3> QED
      BY <1>2, <1>5, <3>2, <3>3, <3>4, BecomeMoves DEF Moved, WellFormed
  <2> QED
    BY <1>3, <1>5, <2>1 DEF FindRecord, Refuse
<1>6. CASE FindActiveUser(r)
  BY <1>1, <1>3, <1>4, <1>6 DEF FindActiveUser, Refuse, At
<1>7. CASE DeleteOld(r)
  BY <1>1, <1>3, <1>4, <1>7 DEF DeleteOld, Refuse, At
<1>8. CASE PickAccess(r)
  <2>1. from = "pick"
    BY <1>1, <1>8 DEF PickAccess, At
  <2>2. ASSUME NEW a \in AccessOf(q.user), Become(r, [q EXCEPT !.pc = "swap", !.row = a])
        PROVE  Moved(r)
    <3> DEFINE q1 == [q EXCEPT !.pc = "swap", !.row = a]
    <3>1. /\ q1 \in Request /\ q1.op = q.op /\ q1.pc = "swap" /\ q1.user = q.user
          /\ q1.record = q.record /\ q1.standing = q.standing /\ q1.signIn = q.signIn
          /\ q1.token = q.token
      BY <1>2 DEF Request, ExchangeSteps, AccessOf
    <3>2. q.pc = "pick"
      BY <1>1, <2>1 DEF At
    <3> HIDE DEF q1
    <3>3. InHand(q1)
      BY <1>2, <3>1, <3>2 DEF InHand, ExchangeSteps, SignInOps
    <3>4. Become(r, q1)
      BY <2>2 DEF q1
    <3> QED
      BY <1>2, <1>8, <3>1, <3>3, <3>4, BecomeMoves DEF Moved, WellFormed, Keeps
  <2> QED
    BY <1>4, <1>8, <2>1, <2>2 DEF PickAccess
<1>9. CASE Swap(r)
  BY <1>3, <1>9 DEF Swap, Refuse
<1> QED
  BY <1>5, <1>6, <1>7, <1>8, <1>9

\* A step of a logout or of a reset.
LEMMA ClearMoves ==
  ASSUME TypeOK, NEW r \in Requests,
         FindTokenUser(r) \/ DeleteAccess(r) \/ DeleteRefresh(r) \/ Clear(r)
  PROVE  Moved(r)
<1> DEFINE q == request[r]
<1>1. PICK from \in ClearSteps : At(r, from)
  BY DEF FindTokenUser, DeleteAccess, DeleteRefresh, Clear, ClearSteps
<1>2. /\ q \in Request /\ InHand(q) /\ q.op \in {"logout", "reset"} /\ Steps[q.op] = ClearSteps
      /\ InFlight(r)
  BY <1>1, AtStep, StepsOfOps DEF AllSteps
<1>3. q.user \in Users
  BY <1>1, <1>2 DEF InHand, At, ClearSteps
<1>4. CASE Answer(r)
  BY <1>4, AnswerMoves
<1>5. ASSUME NEW q1 \in Request, Become(r, q1), q1.op = q.op, q1.user = q.user,
             q1.standing \subseteq q.standing, q1.pc \in {"rows", "tokens", "clear"},
             q1.pc = "clear" => DeleteRefresh(r)
      PROVE  Moved(r)
  <2>1. InHand(q1)
    BY <1>2, <1>3, <1>5 DEF InHand, ClearSteps, SignInOps
  <2> QED
    BY <1>2, <1>5, <2>1, BecomeMoves DEF Moved, WellFormed
<1>6. CASE FindTokenUser(r)
  <2>1. CASE Goto(r, "rows")
    <3>1. /\ \A s \in Requests \ {r} : request'[s] = request[s]
          /\ WellFormed(request'[r]) /\ request'[r].pc = "rows" /\ Keeps(r)
      BY <1>2, <1>6, <2>1, GotoMoves DEF FindTokenUser, AllSteps, ClearSteps
    <3> QED
      BY <1>2, <3>1 DEF Moved, Keeps
  <2> QED
    BY <1>4, <1>6, <2>1 DEF FindTokenUser, Refuse
<1>7. CASE DeleteAccess(r)
  <2> DEFINE q1 == [q EXCEPT !.pc = "tokens", !.rows = AccessOf(q.user)]
  <2>1. /\ q1 \in Request /\ q1.op = q.op /\ q1.pc = "tokens" /\ q1.user = q.user
        /\ q1.standing = q.standing
    <3>1. AccessOf(q.user) \subseteq AccessUids
      BY DEF AccessOf
    <3> QED
      BY <1>2, <3>1 DEF Request, ClearSteps
  <2>2. Become(r, q1)
    BY <1>7 DEF DeleteAccess
  <2> HIDE DEF q1
  <2> QED
    BY <1>5, <2>1, <2>2
<1>8. CASE DeleteRefresh(r)
  <2> DEFINE open == {request[p].signIn : p \in {p \in Requests : Renewing(p)}}
             q1 == [q EXCEPT !.pc = "clear", !.tokens = RefreshOf(q.user),
                             !.standing = q.standing \ open]
  <2>1. /\ q1 \in Request /\ q1.op = q.op /\ q1.pc = "clear" /\ q1.user = q.user
        /\ q1.standing \subseteq q.standing
    <3>1. RefreshOf(q.user) \subseteq RefreshUids
      BY DEF RefreshOf, Live
    <3> HIDE DEF open
    <3> QED
      BY <1>2, <3>1 DEF Request, ClearSteps
  <2>2. Become(r, q1)
    BY <1>8 DEF DeleteRefresh
  <2> HIDE DEF q1
  <2> QED
    BY <1>5, <1>8, <2>1, <2>2
<1>9. CASE Clear(r)
  BY <1>4, <1>9 DEF Clear, Refuse
<1> QED
  BY <1>6, <1>7, <1>8, <1>9

\* What the rest of the system does to an account.
AccountMoves(u) ==
  \/ Deactivate(u) \/ RemoveAccount(u)
  \/ \E e \in Spellings \cup {Elsewhere} : ChangeEmail(u, e)

\* A step changes one request at most.
LEMMA OneMoves ==
  ASSUME TypeOK, [Next]_vars
  PROVE  request' = request \/ \E r \in Requests : Moved(r)
<1>1. ASSUME NEW r \in Requests, AwaitFails(r) \/ DeadlockAborts(r)
      PROVE  Moved(r)
  BY <1>1, AnswerMoves DEF AwaitFails, DeadlockAborts, Refuse
<1>2. ASSUME NEW r \in Requests, Work(r)
      PROVE  Moved(r)
  BY <1>2, SignInMoves, ExchangeMoves, ClearMoves DEF Work
<1>3. ASSUME NEW u \in Users, AccountMoves(u)
      PROVE  request' = request
  BY <1>3 DEF AccountMoves, Deactivate, ChangeEmail, RemoveAccount
<1>4. CASE UNCHANGED vars
  BY <1>4 DEF vars
<1> QED
  BY <1>1, <1>2, <1>3, <1>4, ArrivalMoves DEF Next, AccountMoves

-----------------------------------------------------------------------------
(* What the steps make of the tables.                                      *)

\* A refresh token that was not there: a sign-in in two statements gets its
\* second, a refresh gets the successor of its record, or a sign-in is made.
NewToken(x) ==
  \/ \E r \in Requests : /\ InsertRefresh(r) /\ ended' = ended
                         /\ refresh'[x].user = request[r].user
                         /\ refresh'[x].signIn = request[r].signIn
  \/ \E r \in Requests : /\ Swap(r) /\ request'[r] = Idle /\ ended' = ended
                         /\ refresh'[x].user = request[r].user
                         /\ refresh'[x].signIn = request[r].signIn
                         /\ request[r].record = x \/ request[r].record \notin Live'
  \/ access[refresh'[x].signIn] = NoRow /\ access'[refresh'[x].signIn] # NoRow

AccessTable == [AccessUids -> AccessRow \cup {NoRow, Gone}]
RefreshTable == [RefreshUids -> RefreshRow \cup {NoRow, Gone}]

\* Rows stay as they are or go, and one may appear or change its sign-in.
AccessMoves ==
  /\ access' \in AccessTable
  /\ \A a \in AccessUids : access'[a] \in AccessRow => access'[a].user \in Accounts'
  /\ \A a \in AccessUids : access[a] # NoRow => access'[a] # NoRow

RefreshMoves ==
  /\ refresh' \in RefreshTable
  /\ \A x \in Live' : refresh'[x].user \in Accounts'
  /\ \A x \in RefreshUids : refresh[x] # NoRow => refresh'[x] # NoRow
  /\ \A x \in Live' : \/ x \in Live /\ refresh'[x] = refresh[x]
                      \/ refresh[x] = NoRow /\ NewToken(x)
  /\ \A x, y \in Live' : refresh[x] = NoRow /\ refresh[y] = NoRow => x = y

TablesMove ==
  /\ account' \in [Users -> AccountRow \cup {NoRow}]
  /\ AccessMoves /\ RefreshMoves

\* What may become of the access tokens in a step.
LEMMA AccessChange ==
  ASSUME TypeOK, NEW A \in AccessTable, \A a \in AccessUids : A[a] = access[a] \/ A[a] = Gone,
         \/ access' = A
         \/ \E a \in AccessUids, row \in AccessRow :
              row.user \in Accounts' /\ access' = [A EXCEPT ![a] = row],
         \A a \in AccessUids : A[a] \in AccessRow => A[a].user \in Accounts'
  PROVE  AccessMoves
<1>1. NoRow # Gone /\ NoRow \notin AccessRow
  BY RowAssumption
<1>2. CASE access' = A
  BY <1>1, <1>2 DEF AccessMoves
<1>3. ASSUME NEW a \in AccessUids, NEW row \in AccessRow,
             row.user \in Accounts', access' = [A EXCEPT ![a] = row]
      PROVE  AccessMoves
  <2>1. access'[a] = row /\ \A b \in AccessUids \ {a} : access'[b] = A[b]
    BY <1>3 DEF AccessTable
  <2>2. access' \in AccessTable
    BY <1>3 DEF AccessTable
  <2> QED
    BY <1>1, <1>3, <2>1, <2>2 DEF AccessMoves
<1> QED
  BY <1>2, <1>3

\* What may become of the refresh tokens in a step.
LEMMA RefreshChange ==
  ASSUME TypeOK, NEW X \in RefreshTable, \A x \in RefreshUids : X[x] = refresh[x] \/ X[x] = Gone,
         \/ refresh' = X
         \/ \E x \in FreeRefresh, row \in RefreshRow :
              row.user \in Accounts' /\ refresh' = [X EXCEPT ![x] = row] /\ NewToken(x),
         \A x \in RefreshUids : X[x] \in RefreshRow => X[x].user \in Accounts'
  PROVE  RefreshMoves
<1>1. NoRow # Gone /\ NoRow \notin RefreshRow /\ Gone \notin RefreshRow
  BY RowAssumption
<1>2. CASE refresh' = X
  BY <1>1, <1>2 DEF RefreshMoves, Live, RefreshTable
<1>3. ASSUME NEW x \in FreeRefresh, NEW row \in RefreshRow,
             row.user \in Accounts', refresh' = [X EXCEPT ![x] = row], NewToken(x)
      PROVE  RefreshMoves
  <2>1. x \in RefreshUids /\ refresh[x] = NoRow
    BY DEF FreeRefresh
  <2>2. refresh'[x] = row /\ \A y \in RefreshUids \ {x} : refresh'[y] = X[y]
    BY <1>3, <2>1 DEF RefreshTable
  <2>3. refresh' \in RefreshTable
    BY <1>3, <2>1 DEF RefreshTable
  <2>4. \A y \in Live' \ {x} : y \in Live /\ refresh'[y] = refresh[y] /\ refresh[y] # NoRow
    BY <2>2 DEF Live
  <2>5. \A y \in Live' : refresh'[y].user \in Accounts'
    BY <1>3, <2>2, <2>3 DEF Live, RefreshTable
  <2>6. \A y \in RefreshUids : refresh[y] # NoRow => refresh'[y] # NoRow
    BY <1>1, <2>1, <2>2
  <2> QED
    BY <1>3, <2>1, <2>3, <2>4, <2>5, <2>6 DEF RefreshMoves
<1> QED
  BY <1>2, <1>3

\* A sign-in of u, with the tables A and X as a logout leaves them.
LEMMA SignInRows ==
  ASSUME TypeOK, NEW u \in Users, NEW a \in FreeAccess, NEW x \in FreeRefresh,
         NEW A \in AccessTable, \A b \in AccessUids : A[b] = access[b] \/ A[b] = Gone,
         NEW X \in RefreshTable, \A y \in RefreshUids : X[y] = refresh[y] \/ X[y] = Gone,
         access' = [A EXCEPT ![a] = [user |-> u, signIn |-> a]],
         refresh' = [X EXCEPT ![x] = [user |-> u, signIn |-> a, token |-> x]],
         account' \in [Users -> AccountRow \cup {NoRow}], u \in Accounts',
         Accounts \subseteq Accounts'
  PROVE  TablesMove
<1>1. a \in AccessUids /\ access[a] = NoRow /\ x \in RefreshUids
  BY DEF FreeAccess, FreeRefresh
<1>2. /\ [user |-> u, signIn |-> a] \in AccessRow
      /\ [user |-> u, signIn |-> a, token |-> x] \in RefreshRow
  BY <1>1 DEF AccessRow, RefreshRow
<1>3. /\ access'[a] = [user |-> u, signIn |-> a]
      /\ refresh'[x] = [user |-> u, signIn |-> a, token |-> x]
  BY <1>1 DEF AccessTable, RefreshTable
<1>4. NewToken(x)
  BY <1>1, <1>2, <1>3, RowAssumption DEF NewToken
<1>5. \A b \in AccessUids : A[b] \in AccessRow => A[b].user \in Accounts'
  BY RowAssumption DEF TypeOK
<1>6. \A y \in RefreshUids : X[y] \in RefreshRow => X[y].user \in Accounts'
  BY RowAssumption DEF TypeOK, Live
<1>7. AccessMoves
  BY <1>1, <1>2, <1>5, AccessChange
<1>8. RefreshMoves
  BY <1>2, <1>4, <1>6, RefreshChange
<1> QED
  BY <1>7, <1>8 DEF TablesMove

\* Without a change of its own, a table is as it was.
LEMMA TablesStay ==
  ASSUME TypeOK
  PROVE  /\ access \in AccessTable /\ refresh \in RefreshTable
         /\ \A a \in AccessUids : access[a] \in AccessRow => access[a].user \in Accounts
         /\ \A x \in RefreshUids : refresh[x] \in RefreshRow => refresh[x].user \in Accounts
BY RowAssumption DEF TypeOK, AccessTable, RefreshTable, Live

\* Tables move if they stay and accounts only appear.
LEMMA UnchangedTables ==
  ASSUME TypeOK, UNCHANGED <<access, refresh>>,
         account' \in [Users -> AccountRow \cup {NoRow}], Accounts \subseteq Accounts'
  PROVE  TablesMove
<1>1. AccessMoves
  BY TablesStay, AccessChange
<1>2. RefreshMoves
  BY TablesStay, RefreshChange
<1> QED
  BY <1>1, <1>2 DEF TablesMove

\* The account a sign-in makes is a row, in small letters but for Google.
LEMMA NewAccountIsRow ==
  ASSUME NEW q \in Request, InHand(q), q.op \in SignInOps
  PROVE  /\ NewAccount(q) \in AccountRow /\ NewAccount(q).email = Written(q)
         /\ Written(q) \in Spellings
         /\ Written(q) = Small \/ NewAccount(q).kind = "GOOGLE"
<1> DEFINE kind == CASE q.op = "google" -> "GOOGLE" [] q.op = "apple" -> "APPLE"
                     [] q.op = "partnerRegister" -> "PARTNER" [] OTHER -> "LUDORA"
<1>1. kind \in Kinds
  BY DEF Kinds
<1>2. q.op = "google" => kind = "GOOGLE"
  OBVIOUS
<1>3. Written(q) \in Spellings /\ (q.op # "google" => Written(q) = Small)
  BY AuthAssumption DEF InHand, Written
<1>4. NewAccount(q) =
        [kind |-> kind, isConnected |-> TRUE, email |-> Written(q), changed |-> FALSE]
  BY DEF NewAccount
<1> HIDE DEF kind
<1> QED
  BY <1>1, <1>2, <1>3, <1>4 DEF AccountRow

\* A sign-in only adds rows.
LEMMA SignInTables ==
  ASSUME TypeOK, NEW r \in Requests,
         \/ FindAccount(r) \/ CreateAccount(r) \/ InsertTokens(r)
         \/ InsertAccess(r) \/ InsertRefresh(r)
  PROVE  TablesMove
<1> DEFINE q == request[r]
<1>1. \E from \in {"find", "create", "both", "access", "refresh"} : At(r, from)
  BY DEF FindAccount, CreateAccount, InsertTokens, InsertAccess, InsertRefresh
<1>2. q \in Request /\ InHand(q)
  BY <1>1, AtStep DEF AllSteps, SignInSteps
<1>3. CASE UNCHANGED table
  BY <1>3, UnchangedTables DEF table, Accounts, TypeOK
<1>4. CASE CreateAccount(r) /\ ~UNCHANGED table
  <2>1. PICK u \in Users \ Accounts :
          /\ account' = [account EXCEPT ![u] = NewAccount(q)]
          /\ \/ UNCHANGED <<access, refresh>>
             \/ \E a \in FreeAccess, x \in FreeRefresh : InsertBoth(u, a, x)
    BY <1>4 DEF CreateAccount, Refuse
  <2>2. At(r, "create")
    BY <1>4 DEF CreateAccount
  <2>3. NewAccount(q) \in AccountRow
    BY <1>2, <2>2, AtStep, NewAccountIsRow DEF AllSteps, SignInSteps
  <2>4. account' \in [Users -> AccountRow \cup {NoRow}] /\ u \in Accounts' /\ Accounts \subseteq Accounts'
    BY <2>1, <2>3, RowAssumption DEF TypeOK, Accounts
  <2>5. CASE \E a \in FreeAccess, x \in FreeRefresh : InsertBoth(u, a, x)
    BY <2>4, <2>5, TablesStay, SignInRows DEF InsertBoth
  <2> QED
    BY <2>1, <2>4, <2>5, UnchangedTables
<1>5. CASE InsertTokens(r) /\ ~UNCHANGED table
  <2>1. /\ q.user \in Accounts /\ UNCHANGED account
        /\ \E a \in FreeAccess, x \in FreeRefresh : InsertBoth(q.user, a, x)
    BY <1>5 DEF InsertTokens, Refuse
  <2>2. q.user \in Users /\ Accounts' = Accounts /\ account' \in [Users -> AccountRow \cup {NoRow}]
    BY <2>1 DEF Accounts, TypeOK
  <2> QED
    BY <2>1, <2>2, TablesStay, SignInRows DEF InsertBoth
<1>6. CASE InsertAccess(r) /\ ~UNCHANGED table
  <2>1. PICK a \in FreeAccess : /\ q.user \in Accounts /\ UNCHANGED <<account, refresh>>
                                /\ access' = [access EXCEPT ![a] = [user |-> q.user, signIn |-> a]]
    BY <1>6 DEF InsertAccess, Refuse
  <2>2. q.user \in Users /\ Accounts' = Accounts /\ account' \in [Users -> AccountRow \cup {NoRow}]
    BY <2>1 DEF Accounts, TypeOK
  <2>3. a \in AccessUids /\ [user |-> q.user, signIn |-> a] \in AccessRow
    BY <2>2 DEF FreeAccess, AccessRow
  <2>4. AccessMoves
    BY <2>1, <2>2, <2>3, TablesStay, AccessChange
  <2>5. RefreshMoves
    BY <2>1, <2>2, TablesStay, RefreshChange
  <2> QED
    BY <2>2, <2>4, <2>5 DEF TablesMove
<1>7. CASE InsertRefresh(r) /\ ~UNCHANGED table
  <2>1. PICK x \in FreeRefresh :
          /\ q.user \in Accounts /\ UNCHANGED <<account, access, ended>>
          /\ refresh' = [refresh EXCEPT ![x] = [user |-> q.user, signIn |-> q.signIn, token |-> x]]
    BY <1>7 DEF InsertRefresh, Refuse
  <2>2. q.user \in Users /\ Accounts' = Accounts /\ account' \in [Users -> AccountRow \cup {NoRow}]
    BY <2>1 DEF Accounts, TypeOK
  <2>3. x \in RefreshUids /\ q.signIn \in AccessUids
    BY <1>2, <1>7 DEF FreeRefresh, InHand, InsertRefresh, At
  <2>4. [user |-> q.user, signIn |-> q.signIn, token |-> x] \in RefreshRow
    BY <2>2, <2>3 DEF RefreshRow
  <2>5. refresh'[x] = [user |-> q.user, signIn |-> q.signIn, token |-> x]
    BY <2>1, <2>3 DEF TypeOK
  <2>6. NewToken(x)
    BY <1>7, <2>1, <2>5 DEF NewToken
  <2>7. AccessMoves
    BY <2>1, <2>2, TablesStay, AccessChange
  <2>8. RefreshMoves
    BY <2>1, <2>2, <2>4, <2>6, TablesStay, RefreshChange
  <2> QED
    BY <2>2, <2>7, <2>8 DEF TablesMove
<1> QED
  BY <1>3, <1>4, <1>5, <1>6, <1>7 DEF FindAccount, Refuse

\* A refresh replaces its record by one new token.
LEMMA SwapTables ==
  ASSUME TypeOK, NEW r \in Requests, Swap(r)
  PROVE  TablesMove
<1> DEFINE q == request[r]
<1>1. q \in Request /\ InHand(q) /\ q.op = "exchange"
  BY AtStep DEF Swap, AllSteps, ExchangeSteps
<1>2. CASE UNCHANGED table
  BY <1>2, UnchangedTables DEF table, Accounts, TypeOK
<1>3. CASE ~UNCHANGED table
  <2>1. /\ q.user \in Accounts /\ UNCHANGED <<account, ended>> /\ Answer(r)
        /\ \E y \in FreeRefresh : \E t \in {y, q.token} :
             refresh' = [refresh EXCEPT ![q.record] = Gone,
               ![y] = [user |-> q.user, signIn |-> q.signIn, token |-> t]]
        /\ \E a \in IF q.row = NoRow THEN FreeAccess ELSE {q.row} :
             access' = [access EXCEPT ![a] = [user |-> q.user, signIn |-> q.signIn]]
    BY <1>3 DEF Swap, Refuse
  <2>2. /\ q.user \in Users /\ q.signIn \in AccessUids /\ q.record \in RefreshUids
        /\ q.token \in RefreshUids
        /\ \A a \in IF q.row = NoRow THEN FreeAccess ELSE {q.row} : a \in AccessUids
    BY <1>1, <2>1 DEF Accounts, InHand, Swap, At, Request, FreeAccess
  <2>3. Accounts' = Accounts /\ account' \in [Users -> AccountRow \cup {NoRow}]
    BY <2>1 DEF Accounts, TypeOK
  <2>4. AccessMoves
    <3>1. [user |-> q.user, signIn |-> q.signIn] \in AccessRow
      BY <2>2 DEF AccessRow
    <3>2. PICK a \in AccessUids :
            access' = [access EXCEPT ![a] = [user |-> q.user, signIn |-> q.signIn]]
      BY <2>1, <2>2
    <3>3. /\ q.user \in Accounts'
          /\ \A b \in AccessUids : access[b] \in AccessRow => access[b].user \in Accounts'
      BY <2>1, <2>3, TablesStay
    <3>4. [user |-> q.user, signIn |-> q.signIn].user = q.user
      OBVIOUS
    <3> QED
      BY <3>1, <3>2, <3>3, <3>4, TablesStay, AccessChange
  <2>5. RefreshMoves
    <3>1. PICK y \in FreeRefresh, t \in RefreshUids :
            refresh' = [refresh EXCEPT ![q.record] = Gone,
               ![y] = [user |-> q.user, signIn |-> q.signIn, token |-> t]]
      BY <2>1, <2>2 DEF FreeRefresh
    <3> DEFINE X == [refresh EXCEPT ![q.record] = Gone]
               row == [user |-> q.user, signIn |-> q.signIn, token |-> t]
    <3>2. row \in RefreshRow /\ row.user = q.user /\ row.signIn = q.signIn
      BY <2>2 DEF RefreshRow
    <3>3. X \in RefreshTable /\ \A x \in RefreshUids : X[x] = refresh[x] \/ X[x] = Gone
      BY <2>2, TablesStay DEF RefreshTable
    <3>4. X[q.record] = Gone
      BY <2>2, TablesStay DEF RefreshTable
    <3>5. refresh' = [X EXCEPT ![y] = row]
      BY <3>1
    <3> HIDE DEF X, row
    <3>6. y \in RefreshUids /\ refresh'[y] = row
      BY <3>3, <3>5 DEF RefreshTable, FreeRefresh
    <3>7. q.record = y \/ q.record \notin Live'
      BY <2>2, <3>3, <3>4, <3>5 DEF RefreshTable, Live
    <3>8. request'[r] = Idle
      BY <2>1, BecomeMoves DEF Answer
    <3>9. NewToken(y)
      BY <2>1, <3>2, <3>6, <3>7, <3>8 DEF NewToken
    <3>10. \A x \in RefreshUids : X[x] \in RefreshRow => X[x].user \in Accounts'
      BY <2>3, <3>3, TablesStay, RowAssumption
    <3> QED
      BY <2>1, <2>3, <3>2, <3>3, <3>5, <3>9, <3>10, RefreshChange
  <2> QED
    BY <2>3, <2>4, <2>5 DEF TablesMove
<1> QED
  BY <1>2, <1>3

\* A logout and a reset only take tokens away.
LEMMA ClearTables ==
  ASSUME TypeOK, NEW r \in Requests, Clear(r)
  PROVE  TablesMove
<1> DEFINE q == request[r]
           A == [a \in AccessUids |-> IF a \in q.rows THEN Gone ELSE access[a]]
           X == [x \in RefreshUids |-> IF x \in q.tokens THEN Gone ELSE refresh[x]]
<1>1. /\ A \in AccessTable /\ \A a \in AccessUids : A[a] = access[a] \/ A[a] = Gone
      /\ X \in RefreshTable /\ \A x \in RefreshUids : X[x] = refresh[x] \/ X[x] = Gone
  BY TablesStay DEF AccessTable, RefreshTable
<1>2. CASE UNCHANGED table
  BY <1>2, UnchangedTables DEF table, Accounts, TypeOK
<1>3. CASE ~UNCHANGED table
  <2>1. /\ UNCHANGED account
        /\ \/ access' = A /\ refresh' = X
           \/ /\ q.user \in Accounts
              /\ \E a \in FreeAccess, x \in FreeRefresh :
                   /\ access' = [A EXCEPT ![a] = [user |-> q.user, signIn |-> a]]
                   /\ refresh' = [X EXCEPT ![x] = [user |-> q.user, signIn |-> a, token |-> x]]
    BY <1>3 DEF Clear, Refuse
  <2> HIDE DEF A, X
  <2>2. Accounts' = Accounts /\ account' \in [Users -> AccountRow \cup {NoRow}]
    BY <2>1 DEF Accounts, TypeOK
  <2>3. \A a \in AccessUids : A[a] \in AccessRow => A[a].user \in Accounts'
    BY <1>1, <2>2, TablesStay, RowAssumption
  <2>4. \A x \in RefreshUids : X[x] \in RefreshRow => X[x].user \in Accounts'
    BY <1>1, <2>2, TablesStay, RowAssumption
  <2>5. CASE access' = A /\ refresh' = X
    <3>1. AccessMoves
      BY <1>1, <2>3, <2>5, AccessChange
    <3>2. RefreshMoves
      BY <1>1, <2>4, <2>5, RefreshChange
    <3> QED
      BY <2>2, <3>1, <3>2 DEF TablesMove
  <2>6. CASE /\ q.user \in Accounts
             /\ \E a \in FreeAccess, x \in FreeRefresh :
                  /\ access' = [A EXCEPT ![a] = [user |-> q.user, signIn |-> a]]
                  /\ refresh' = [X EXCEPT ![x] = [user |-> q.user, signIn |-> a, token |-> x]]
    <3>1. q.user \in Users
      BY <2>6 DEF Accounts
    <3> QED
      BY <1>1, <2>2, <2>6, <3>1, SignInRows
  <2> QED
    BY <2>1, <2>5, <2>6
<1> QED
  BY <1>2, <1>3

\* Whoever is removed takes the tokens along.
LEMMA AccountTables ==
  ASSUME TypeOK, NEW u \in Users, AccountMoves(u)
  PROVE  TablesMove
<1>1. CASE Deactivate(u)
  <2>1. account[u] \in AccountRow /\ u \in Accounts
    BY <1>1 DEF Deactivate, Accounts, TypeOK
  <2>2. [account[u] EXCEPT !.isConnected = FALSE] \in AccountRow
    BY <2>1 DEF AccountRow
  <2>3. account' = [account EXCEPT ![u] = [account[u] EXCEPT !.isConnected = FALSE]]
    BY <1>1 DEF Deactivate
  <2>4. account' \in [Users -> AccountRow \cup {NoRow}] /\ Accounts \subseteq Accounts'
    BY <2>2, <2>3, RowAssumption DEF Accounts, TypeOK
  <2> QED
    BY <1>1, <2>4, UnchangedTables DEF Deactivate
<1>2. CASE RemoveAccount(u)
  <2>1. account' \in [Users -> AccountRow \cup {NoRow}] /\ Accounts \ {u} \subseteq Accounts'
    BY <1>2 DEF RemoveAccount, Accounts, TypeOK
  <2>2. /\ access' \in AccessTable
        /\ \A a \in AccessUids : \/ access'[a] = access[a] /\ a \notin AccessOf(u)
                                 \/ access'[a] = Gone
    BY <1>2, TablesStay DEF RemoveAccount, AccessTable
  <2>3. /\ refresh' \in RefreshTable
        /\ \A x \in RefreshUids : \/ refresh'[x] = refresh[x] /\ x \notin RefreshOf(u)
                                  \/ refresh'[x] = Gone
    BY <1>2, TablesStay DEF RemoveAccount, RefreshTable
  <2>4. \A a \in AccessUids : access'[a] \in AccessRow => access'[a].user \in Accounts'
    BY <2>1, <2>2, TablesStay, RowAssumption DEF AccessOf
  <2>5. \A x \in RefreshUids : refresh'[x] \in RefreshRow => refresh'[x].user \in Accounts'
    BY <2>1, <2>3, TablesStay, RowAssumption DEF RefreshOf, Live
  <2>6. AccessMoves
    BY <2>2, <2>4, AccessChange
  <2>7. RefreshMoves
    BY <2>3, <2>5, RefreshChange
  <2> QED
    BY <2>1, <2>6, <2>7 DEF TablesMove
<1>3. ASSUME NEW e \in Spellings \cup {Elsewhere}, ChangeEmail(u, e)
      PROVE  TablesMove
  <2>1. account[u] \in AccountRow /\ u \in Accounts
    BY <1>3 DEF ChangeEmail, Accounts, TypeOK
  <2>2. [account[u] EXCEPT !.email = e, !.changed = TRUE] \in AccountRow
    BY <2>1 DEF AccountRow
  <2>3. account' = [account EXCEPT ![u] = [account[u] EXCEPT !.email = e, !.changed = TRUE]]
    BY <1>3 DEF ChangeEmail
  <2>4. account' \in [Users -> AccountRow \cup {NoRow}] /\ Accounts \subseteq Accounts'
    BY <2>2, <2>3, RowAssumption DEF Accounts, TypeOK
  <2> QED
    BY <1>3, <2>4, UnchangedTables DEF ChangeEmail
<1> QED
  BY <1>1, <1>2, <1>3 DEF AccountMoves

\* Every step moves the tables in one of these ways.
LEMMA NextMovesTables ==
  ASSUME TypeOK, [Next]_vars
  PROVE  TablesMove
<1>1. CASE UNCHANGED table
  BY <1>1, UnchangedTables DEF table, Accounts, TypeOK
<1>2. ASSUME NEW r \in Requests, Work(r)
      PROVE  TablesMove
  BY <1>1, <1>2, SignInTables, SwapTables, ClearTables
     DEF Work, FindRecord, FindActiveUser, DeleteOld, PickAccess, FindTokenUser, DeleteAccess,
         DeleteRefresh, Refuse
<1>3. UNCHANGED vars => UNCHANGED table
  BY DEF vars, table
<1> QED
  BY <1>1, <1>2, <1>3, AccountTables
     DEF Next, AccountMoves, SignInArrives, ExchangeArrives, Arrives, ClearArrives, DeadlockAborts, AwaitFails,
         Refuse, table

\* A request moves, or it stays where it is.
LEMMA StaysOrMoves ==
  ASSUME TypeOK, [Next]_vars, NEW r \in Requests
  PROVE  request'[r] = request[r] \/ Moved(r)
BY OneMoves DEF Moved

\* What ends a sign-in ends the tokens it has in hand.
LEMMA EndedMoves ==
  ASSUME TypeOK, [Next]_vars
  PROVE  \/ ended' = ended
         \/ \E r \in Requests :
              /\ At(r, "clear") /\ ended' = ended \cup request[r].standing
              /\ \A x \in request[r].tokens : refresh[x] # NoRow => x \notin Live'
<1>1. ASSUME NEW r \in Requests, Clear(r), ended' # ended
      PROVE  /\ At(r, "clear") /\ ended' = ended \cup request[r].standing
             /\ \A x \in request[r].tokens : refresh[x] # NoRow => x \notin Live'
  <2> DEFINE q == request[r]
             X == [x \in RefreshUids |-> IF x \in q.tokens THEN Gone ELSE refresh[x]]
  <2>1. /\ At(r, "clear") /\ ended' = ended \cup q.standing
        /\ \/ refresh' = X
           \/ \E a \in FreeAccess, x \in FreeRefresh : refresh' =
                [X EXCEPT ![x] = [user |-> q.user, signIn |-> a, token |-> x]]
    BY <1>1 DEF Clear, Refuse
  <2>2. /\ X = [x \in RefreshUids |-> X[x]]
        /\ \A x \in RefreshUids : x \in q.tokens => X[x] = Gone
    OBVIOUS
  <2> HIDE DEF X
  <2>3. ASSUME NEW x \in RefreshUids, x \in q.tokens, refresh[x] # NoRow
        PROVE  refresh'[x] = Gone
    BY <2>1, <2>2, <2>3 DEF FreeRefresh
  <2> QED
    BY <2>1, <2>3 DEF Live
<1> QED
  BY <1>1
     DEF Next, vars, Work, SignInArrives, ExchangeArrives, Arrives, ClearArrives, DeadlockAborts,
         AwaitFails, FindAccount, CreateAccount, InsertTokens, InsertAccess, InsertRefresh,
         FindRecord, FindActiveUser, DeleteOld, PickAccess, Swap, FindTokenUser, DeleteAccess,
         DeleteRefresh, Refuse, Deactivate, ChangeEmail, RemoveAccount

\* A step leaves the table of requests a table, and counts its failure if any.
LEMMA RequestsAndFailures ==
  ASSUME TypeOK, [Next]_vars
  PROVE  /\ request' = [r \in Requests |-> request'[r]]
         /\ failures' = failures \/ (failures < MaxFailures /\ failures' = failures + 1)
<1> DEFINE Goal ==
      /\ request' = [r \in Requests |-> request'[r]]
      /\ failures' = failures \/ (failures < MaxFailures /\ failures' = failures + 1)
<1> HIDE DEF Goal
<1>1. request = [r \in Requests |-> request[r]]
  BY DEF TypeOK
<1>2. ASSUME NEW r \in Requests, NEW q, Become(r, q)
      PROVE  request' = [p \in Requests |-> request'[p]]
  BY <1>1, <1>2 DEF Become
<1>3. ASSUME NEW r \in Requests, NEW pc, Goto(r, pc)
      PROVE  request' = [p \in Requests |-> request'[p]]
  BY <1>1, <1>3 DEF Goto
<1>4. ASSUME NEW r \in Requests, Refuse(r)
      PROVE  Goal
  BY <1>2, <1>4 DEF Refuse, Answer, Goal
<1>5. ASSUME NEW r \in Requests,
             \/ \E op \in SignInOps, e \in Spellings : SignInArrives(r, op, e)
             \/ \E x \in RefreshUids : ExchangeArrives(r, x)
             \/ \E op \in {"logout", "reset"}, a \in AccessUids : ClearArrives(r, op, a)
             \/ DeadlockAborts(r) \/ AwaitFails(r)
      PROVE  Goal
  <2>1. CASE \/ \E op \in SignInOps, e \in Spellings : SignInArrives(r, op, e)
             \/ \E x \in RefreshUids : ExchangeArrives(r, x)
    BY <1>2, <2>1 DEF SignInArrives, ExchangeArrives, Arrives, Goal
  <2>2. CASE \E op \in {"logout", "reset"}, a \in AccessUids : ClearArrives(r, op, a)
    BY <1>2, <2>2 DEF ClearArrives, Goal
  <2>3. CASE DeadlockAborts(r)
    BY <1>2, <1>4, <2>3 DEF DeadlockAborts, Answer, Goal
  <2>4. CASE AwaitFails(r)
    BY <1>2, <2>4 DEF AwaitFails, Answer, Goal
  <2> QED
    BY <1>5, <2>1, <2>2, <2>3, <2>4
<1>6. ASSUME NEW r \in Requests,
             \/ FindAccount(r) \/ CreateAccount(r) \/ InsertTokens(r)
             \/ InsertAccess(r) \/ InsertRefresh(r)
      PROVE  Goal
  <2>1. CASE FindAccount(r)
    BY <1>2, <1>3, <1>4, <2>1 DEF FindAccount, Answer, Goal
  <2>2. CASE CreateAccount(r)
    BY <1>2, <1>3, <1>4, <2>2 DEF CreateAccount, Answer, Goal
  <2>3. CASE InsertTokens(r)
    BY <1>2, <1>3, <1>4, <2>3 DEF InsertTokens, Answer, Goal
  <2>4. CASE InsertAccess(r)
    BY <1>2, <1>3, <1>4, <2>4 DEF InsertAccess, Answer, Goal
  <2>5. CASE InsertRefresh(r)
    BY <1>2, <1>3, <1>4, <2>5 DEF InsertRefresh, Answer, Goal
  <2> QED
    BY <1>6, <2>1, <2>2, <2>3, <2>4, <2>5
<1>7. ASSUME NEW r \in Requests,
             FindRecord(r) \/ FindActiveUser(r) \/ DeleteOld(r) \/ PickAccess(r) \/ Swap(r)
      PROVE  Goal
  <2>1. CASE FindRecord(r)
    BY <1>2, <1>3, <1>4, <2>1 DEF FindRecord, Answer, Goal
  <2>2. CASE FindActiveUser(r)
    BY <1>2, <1>3, <1>4, <2>2 DEF FindActiveUser, Answer, Goal
  <2>3. CASE DeleteOld(r)
    BY <1>2, <1>3, <1>4, <2>3 DEF DeleteOld, Answer, Goal
  <2>4. CASE PickAccess(r)
    BY <1>2, <1>3, <1>4, <2>4 DEF PickAccess, Answer, Goal
  <2>5. CASE Swap(r)
    BY <1>2, <1>3, <1>4, <2>5 DEF Swap, Answer, Goal
  <2> QED
    BY <1>7, <2>1, <2>2, <2>3, <2>4, <2>5
<1>8. ASSUME NEW r \in Requests,
             FindTokenUser(r) \/ DeleteAccess(r) \/ DeleteRefresh(r) \/ Clear(r)
      PROVE  Goal
  <2>1. CASE FindTokenUser(r)
    BY <1>2, <1>3, <1>4, <2>1 DEF FindTokenUser, Answer, Goal
  <2>2. CASE DeleteAccess(r)
    BY <1>2, <1>3, <1>4, <2>2 DEF DeleteAccess, Answer, Goal
  <2>3. CASE DeleteRefresh(r)
    BY <1>2, <1>3, <1>4, <2>3 DEF DeleteRefresh, Answer, Goal
  <2>4. CASE Clear(r)
    BY <1>2, <1>3, <1>4, <2>4 DEF Clear, Answer, Goal
  <2> QED
    BY <1>8, <2>1, <2>2, <2>3, <2>4
<1>9. ASSUME NEW u \in Users, AccountMoves(u)
      PROVE  Goal
  BY <1>1, <1>9 DEF AccountMoves, Deactivate, ChangeEmail, RemoveAccount, Goal
<1>10. ASSUME UNCHANGED vars
       PROVE  Goal
  BY <1>1, <1>10 DEF vars, Goal
<1>11. ASSUME NEW r \in Requests, Work(r)
       PROVE  Goal
  BY <1>6, <1>7, <1>8, <1>11 DEF Work
<1>12. ASSUME Next
       PROVE  Goal
  BY <1>5, <1>9, <1>11, <1>12 DEF Next, AccountMoves
<1>13. Goal
  BY <1>10, <1>12
<1> QED
  BY <1>13 DEF Goal

\* Tables, requests and histories keep their types.
THEOREM TypeCorrect == Spec => []TypeOK
<1>1. Init => TypeOK
  BY AuthAssumption, RowAssumption DEF Init, TypeOK, InFlight, Idle, Live
<1>2. ASSUME TypeOK, [Next]_vars
      PROVE  TypeOK'
  <2>1. /\ account' \in [Users -> AccountRow \cup {NoRow}]
        /\ access' \in [AccessUids -> AccessRow \cup {NoRow, Gone}]
        /\ refresh' \in [RefreshUids -> RefreshRow \cup {NoRow, Gone}]
        /\ \A a \in AccessUids : access'[a] \in AccessRow => access'[a].user \in Accounts'
        /\ \A x \in Live' : refresh'[x].user \in Accounts'
    BY <1>2, NextMovesTables
       DEF TablesMove, AccessMoves, RefreshMoves, AccessTable, RefreshTable
  <2>2. request' \in [Requests -> Request \cup {Idle}]
    <3>1. \A r \in Requests : request'[r] \in Request \cup {Idle}
      BY <1>2, StaysOrMoves DEF TypeOK, Moved, WellFormed
    <3>2. request' = [r \in Requests |-> request'[r]]
      BY <1>2, RequestsAndFailures
    <3> QED
      BY <3>1, <3>2
  <2>3. \A r \in Requests : InFlight(r)' => InHand(request'[r])
    BY <1>2, StaysOrMoves DEF TypeOK, Moved, WellFormed, InFlight, Idle
  <2>4. ended' \subseteq AccessUids
    BY <1>2, EndedMoves, AtStep DEF TypeOK, Request, AllSteps, ClearSteps
  <2>5. failures' \in 0..MaxFailures
    <3>1. failures' = failures \/ (failures < MaxFailures /\ failures' = failures + 1)
      BY <1>2, RequestsAndFailures
    <3> QED
      BY <1>2, <3>1, AuthAssumption DEF TypeOK
  <2> QED
    BY <2>1, <2>2, <2>3, <2>4, <2>5 DEF TypeOK
<1> QED
  BY <1>1, <1>2, PTL DEF Spec

-----------------------------------------------------------------------------
(* One account.                                                            *)

\* An account with capitals in its address has them from Google or from a
\* change of the address.
CapitalsAreExcused ==
  \A u \in Accounts : account[u].email \in Spellings =>
    \/ account[u].email = Small \/ account[u].kind = "GOOGLE" \/ account[u].changed

\* No two accounts spell the address in one way: the column is unique.
EmailsAreUnique ==
  \A u, v \in Accounts :
    account[u].email \in Spellings /\ account[u].email = account[v].email => u = v

AccountInv == CapitalsAreExcused /\ EmailsAreUnique

\* The invariant speaks of the accounts alone, and survives the loss of some.
LEMMA AccountsLost ==
  ASSUME AccountInv,
         \A u \in Accounts' :
           /\ u \in Accounts /\ account'[u].email = account[u].email
           /\ account'[u].kind = account[u].kind /\ account'[u].changed = account[u].changed
  PROVE  AccountInv'
BY DEF AccountInv, CapitalsAreExcused, EmailsAreUnique

\* An account that is made, or gets another address, keeps the invariant when
\* nobody has the address and its capitals are excused.
LEMMA AccountWritten ==
  ASSUME AccountInv, NEW u \in Users, NEW row,
         account \in [Users -> AccountRow \cup {NoRow}],
         account' = [account EXCEPT ![u] = row],
         row.email \in Spellings =>
           /\ Holders(row.email) = {}
           /\ row.email = Small \/ row.kind = "GOOGLE" \/ row.changed
  PROVE  AccountInv'
<1>1. account'[u] = row /\ \A v \in Users \ {u} : account'[v] = account[v]
  OBVIOUS
<1>2. \A v \in Accounts' \ {u} : v \in Accounts /\ v \in Users
  BY <1>1 DEF Accounts
<1>3. CapitalsAreExcused'
  BY <1>1, <1>2 DEF AccountInv, CapitalsAreExcused
<1>4. \A v \in Accounts' \ {u} : row.email \in Spellings => account[v].email # row.email
  BY <1>2 DEF Holders
<1>5. EmailsAreUnique'
  <2> SUFFICES ASSUME NEW v \in Accounts', NEW w \in Accounts', v # w,
                      account'[v].email \in Spellings, account'[v].email = account'[w].email
               PROVE  FALSE
    BY DEF EmailsAreUnique
  <2>1. CASE v = u
    BY <1>1, <1>2, <1>4, <2>1
  <2>2. CASE w = u
    BY <1>1, <1>2, <1>4, <2>2
  <2>3. CASE v # u /\ w # u
    BY <1>1, <1>2, <2>3 DEF AccountInv, EmailsAreUnique
  <2> QED
    BY <2>1, <2>2, <2>3
<1> QED
  BY <1>3, <1>5 DEF AccountInv

\* Two accounts of one address spell it differently, and one of them has
\* capitals that Google or a change of the address brought, whichever ways of
\* signing up race for it (register, createOrConnectGoogleUser,
\* createOrConnectAppleUser, updateEmail).
THEOREM AddressHasOneAccount == Spec => []OneAccount
<1>1. Init => AccountInv
  BY DEF Init, AccountInv, CapitalsAreExcused, EmailsAreUnique, Accounts
<1>2. TypeOK /\ AccountInv /\ [Next]_vars => AccountInv'
  <2> SUFFICES ASSUME TypeOK, AccountInv, [Next]_vars
               PROVE  AccountInv'
    OBVIOUS
  <2>1. CASE UNCHANGED account
    BY <2>1, AccountsLost DEF Accounts
  <2>2. ASSUME NEW r \in Requests, CreateAccount(r), ~UNCHANGED account
        PROVE  AccountInv'
    <3> DEFINE q == request[r]
    <3>1. /\ At(r, "create") /\ Holders(Written(q)) = {}
          /\ \E u \in Users : account' = [account EXCEPT ![u] = NewAccount(q)]
      BY <2>2 DEF CreateAccount, Refuse, table
    <3>2. /\ NewAccount(q).email = Written(q)
          /\ Written(q) = Small \/ NewAccount(q).kind = "GOOGLE"
      BY <3>1, AtStep, NewAccountIsRow DEF AllSteps, SignInSteps
    <3> QED
      BY <3>1, <3>2, AccountWritten DEF TypeOK
  <2>3. ASSUME NEW u \in Users, Deactivate(u) \/ RemoveAccount(u)
        PROVE  AccountInv'
    <3>1. CASE Deactivate(u)
      <4>1. account[u] \in AccountRow
        BY <3>1 DEF Deactivate, Accounts, TypeOK
      <4>2. \A v \in Users \ {u} : account'[v] = account[v]
        BY <3>1 DEF Deactivate, TypeOK
      <4>3. account'[u] = [account[u] EXCEPT !.isConnected = FALSE]
        BY <3>1 DEF Deactivate, TypeOK
      <4>4. /\ account'[u].email = account[u].email /\ account'[u].kind = account[u].kind
            /\ account'[u].changed = account[u].changed
        BY <4>1, <4>3 DEF AccountRow
      <4>5. u \in Accounts
        BY <3>1 DEF Deactivate
      <4> QED
        BY <4>2, <4>4, <4>5, AccountsLost DEF Accounts
    <3>2. CASE RemoveAccount(u)
      BY <3>2, AccountsLost DEF RemoveAccount, Accounts, TypeOK
    <3> QED
      BY <2>3, <3>1, <3>2
  <2>4. ASSUME NEW u \in Users, NEW e \in Spellings \cup {Elsewhere}, ChangeEmail(u, e)
        PROVE  AccountInv'
    <3> DEFINE row == [account[u] EXCEPT !.email = e, !.changed = TRUE]
    <3>1. account[u] \in AccountRow /\ account' = [account EXCEPT ![u] = row]
      BY <2>4 DEF ChangeEmail, Accounts, TypeOK
    <3>2. row.email = e /\ row.changed
      BY <3>1 DEF AccountRow
    <3>3. e \in Spellings => Holders(e) = {}
      BY <2>4, AuthAssumption DEF ChangeEmail
    <3> HIDE DEF row
    <3> QED
      BY <3>1, <3>2, <3>3, AccountWritten DEF TypeOK
  <2> QED
    BY <2>1, <2>2, <2>3, <2>4
       DEF Next, vars, Work, SignInArrives, ExchangeArrives, Arrives,
           ClearArrives, DeadlockAborts, AwaitFails, FindAccount, InsertTokens, InsertAccess,
           InsertRefresh, FindRecord, FindActiveUser, DeleteOld, PickAccess, Swap,
           FindTokenUser, DeleteAccess, DeleteRefresh, Clear, Refuse, table
<1>3. AccountInv => OneAccount
  BY DEF AccountInv, CapitalsAreExcused, EmailsAreUnique, OneAccount
<1> QED
  BY <1>1, <1>2, <1>3, TypeCorrect, PTL DEF Spec

-----------------------------------------------------------------------------
(* The sign-ins and their tokens.                                          *)

\* A sign-in has got its name from an access row.
Named(s) == access[s] # NoRow

NamesAreGiven ==
  /\ \A x \in Live : Named(refresh[x].signIn)
  /\ \A r \in Requests : \A s \in Standing(r) : Named(s)
  /\ \A s \in ended : Named(s)
  /\ \A r \in Requests : At(r, "refresh") => Named(request[r].signIn)

\* Nothing else knows the sign-in that is about to get its refresh token.
NewSignInIsFresh ==
  \A r \in Requests : At(r, "refresh") =>
    /\ \A x \in Live : refresh[x].signIn # request[r].signIn
    /\ request[r].signIn \notin ended
    /\ \A p \in Requests :
         /\ request[r].signIn \notin Standing(p)
         /\ At(p, "refresh") /\ request[p].signIn = request[r].signIn => p = r

\* The record a refresh has read is the one it names, or is gone.
RecordInHand ==
  \A r \in Requests : request[r].pc \in {"user", "old", "pick", "swap"} =>
    /\ refresh[request[r].record] # NoRow
    /\ request[r].record \in Live =>
         /\ refresh[request[r].record].signIn = request[r].signIn
         /\ refresh[request[r].record].user = request[r].user

\* An open refresh has a record to itself.
RecordIsHeld ==
  \A r \in Requests : Renewing(r) =>
    /\ request[r].record \in Live
    /\ \A p \in Requests : Renewing(p) /\ request[p].record = request[r].record => p = r

\* The sign-ins a logout has to end are of its user.
StandingBelongs ==
  \A p \in Requests, x \in Live :
    refresh[x].signIn \in Standing(p) => refresh[x].user = request[p].user

\* A logout that waits for its end has the tokens of all it has to end, and no
\* refresh is open for one of them.
ClearCovers ==
  \A p \in Requests : At(p, "clear") =>
    /\ \A x \in Live : refresh[x].signIn \in Standing(p) => x \in request[p].tokens
    /\ \A r \in Requests : Renewing(r) => request[r].signIn \notin Standing(p)

TokenInv ==
  /\ NamesAreGiven /\ NewSignInIsFresh /\ RecordInHand /\ RecordIsHeld
  /\ StandingBelongs /\ ClearCovers /\ OneTokenPerSignIn /\ EndedIsOver

\* The sign-in of a new token: one that waits for its second statement, that of
\* a record which is gone with the step, or a new one.
Succeeds(x, r) ==
  /\ Renewing(r) /\ request[r].record \in Live /\ request[r].record \notin Live'
  /\ refresh[request[r].record].signIn = refresh'[x].signIn
  /\ refresh[request[r].record].user = refresh'[x].user
  /\ request[r].signIn = refresh'[x].signIn
  /\ request'[r] = Idle /\ ended' = ended

\* A refresh token that is new is that of a sign-in that has just named itself, or
\* replaces the record of a refresh.
LEMMA NewTokenNames ==
  ASSUME TypeOK, TokenInv, [Next]_vars, NEW x \in Live', refresh[x] = NoRow
  PROVE  \/ \E r \in Requests : /\ At(r, "refresh") /\ request'[r] = Idle /\ ended' = ended
                                /\ request[r].signIn = refresh'[x].signIn
         \/ \E r \in Requests : Succeeds(x, r)
         \/ ~Named(refresh'[x].signIn) /\ access'[refresh'[x].signIn] # NoRow
<1>1. NewToken(x)
  BY NextMovesTables DEF TablesMove, RefreshMoves, Live
<1>2. ASSUME NEW r \in Requests, InsertRefresh(r), ended' = ended,
             refresh'[x].signIn = request[r].signIn
      PROVE  At(r, "refresh") /\ request'[r] = Idle
  BY <1>2, BecomeMoves DEF InsertRefresh, Refuse, Answer
<1>3. ASSUME NEW r \in Requests, Swap(r), request'[r] = Idle, ended' = ended,
             refresh'[x].user = request[r].user, refresh'[x].signIn = request[r].signIn,
             request[r].record = x \/ request[r].record \notin Live'
      PROVE  Succeeds(x, r)
  <2>1. Renewing(r) /\ At(r, "swap")
    BY <1>3 DEF Swap, Renewing
  <2>2. request[r].record \in Live /\ request[r].record # x
    BY <2>1 DEF TokenInv, RecordIsHeld, Live
  <2>3. /\ refresh[request[r].record].signIn = request[r].signIn
        /\ refresh[request[r].record].user = request[r].user
    BY <2>1, <2>2 DEF TokenInv, RecordInHand, At
  <2> QED
    BY <1>3, <2>1, <2>2, <2>3 DEF Succeeds
<1>4. ASSUME access[refresh'[x].signIn] = NoRow, access'[refresh'[x].signIn] # NoRow
      PROVE  ~Named(refresh'[x].signIn) /\ access'[refresh'[x].signIn] # NoRow
  BY <1>4 DEF Named
<1> QED
  BY <1>1, <1>2, <1>3, <1>4 DEF NewToken

\* The sign-ins a request has to end were those before the step, or are those of
\* its user now.
LEMMA StandingMoves ==
  ASSUME TypeOK, [Next]_vars, NEW p \in Requests, NEW s \in Standing(p)'
  PROVE  \/ s \in Standing(p) /\ request'[p].user = request[p].user
         \/ /\ table' = table
            /\ \E y \in Live : refresh[y].signIn = s /\ refresh[y].user = request'[p].user
<1>1. InFlight(p)' /\ s \in request'[p].standing
  BY DEF Standing
<1>2. request'[p] # Idle
  BY <1>1 DEF InFlight, Idle
<1>3. CASE request'[p] = request[p]
  BY <1>3 DEF Standing, InFlight
<1>4. CASE Moved(p)
  BY <1>1, <1>2, <1>4 DEF Moved, Standing, Complete, RefreshOf
<1> QED
  BY <1>3, <1>4, StaysOrMoves

\* A sign-in in two statements is named by a row that was free.
LEMMA NewSignIn ==
  ASSUME TypeOK, [Next]_vars, NEW r \in Requests, At(r, "refresh")',
         request'[r] # request[r]
  PROVE  /\ ~Named(request'[r].signIn) /\ access'[request'[r].signIn] # NoRow
         /\ request'[r].signIn \in AccessUids
         /\ UNCHANGED <<refresh, ended>>
<1>1. InsertAccess(r) /\ request'[r] # Idle
  BY StaysOrMoves DEF Moved, At, Idle
<1>2. ~Refuse(r)
  BY <1>1, BecomeMoves DEF Refuse, Answer
<1>3. PICK a \in FreeAccess :
        /\ access' = [access EXCEPT ![a] = [user |-> request[r].user, signIn |-> a]]
        /\ Become(r, [request[r] EXCEPT !.pc = "refresh", !.signIn = a])
        /\ UNCHANGED <<refresh, ended>> /\ request[r].user \in Accounts
  BY <1>1, <1>2 DEF InsertAccess
<1>4. request[r] \in Request
  BY <1>1, AtStep DEF InsertAccess, AllSteps, SignInSteps
<1>5. [request[r] EXCEPT !.pc = "refresh", !.signIn = a].signIn = a
  BY <1>4 DEF Request
<1>6. request'[r].signIn = a
  BY <1>3, <1>5, BecomeMoves
<1>7. [user |-> request[r].user, signIn |-> a] \in AccessRow
  BY <1>3 DEF AccessRow, FreeAccess, Accounts
<1>8. access'[a] # NoRow
  BY <1>3, <1>7, RowAssumption DEF FreeAccess, TypeOK
<1> QED
  BY <1>3, <1>6, <1>8 DEF FreeAccess, Named

\* What has a name keeps it, and is not what gets one now.
LEMMA NamesStay ==
  ASSUME TypeOK, [Next]_vars, NEW s \in AccessUids, Named(s)
  PROVE  access'[s] # NoRow
BY NextMovesTables DEF TablesMove, AccessMoves, Named

\* The sign-ins that are known are uids of access rows.
LEMMA SignInsAreUids ==
  ASSUME TypeOK
  PROVE  /\ \A x \in Live : refresh[x].signIn \in AccessUids
         /\ \A r \in Requests : Standing(r) \subseteq AccessUids
         /\ ended \subseteq AccessUids
         /\ \A r \in Requests : At(r, "refresh") => request[r].signIn \in AccessUids
<1>1. \A x \in Live : refresh[x].signIn \in AccessUids
  BY DEF Live, TypeOK, RefreshRow
<1>2. \A r \in Requests : Standing(r) \subseteq AccessUids
  BY DEF Standing, TypeOK, Request, InFlight, Idle
<1>3. \A r \in Requests : At(r, "refresh") => request[r].signIn \in AccessUids
  BY AtStep DEF AllSteps, SignInSteps, InHand, At
<1> QED
  BY <1>1, <1>2, <1>3 DEF TypeOK

\* A token that is there was there before, or is new.
LEMMA OldOrNew ==
  ASSUME TypeOK, [Next]_vars, NEW x \in Live'
  PROVE  \/ x \in Live /\ refresh'[x] = refresh[x]
         \/ refresh[x] = NoRow
BY NextMovesTables DEF TablesMove, RefreshMoves

\* A step keeps NamesAreGiven.
LEMMA NextKeepsNames ==
  ASSUME TypeOK, TokenInv, [Next]_vars
  PROVE  NamesAreGiven'
<1> USE SignInsAreUids, NamesStay DEF TokenInv, NamesAreGiven
<1>1. ASSUME NEW x \in Live'
      PROVE  access'[refresh'[x].signIn] # NoRow
  <2>1. CASE x \in Live /\ refresh'[x] = refresh[x]
    BY <2>1
  <2>2. CASE refresh[x] = NoRow
    BY <2>2, NewTokenNames DEF Succeeds
  <2> QED
    BY <2>1, <2>2, OldOrNew
<1>2. ASSUME NEW r \in Requests, NEW s \in Standing(r)'
      PROVE  access'[s] # NoRow
  BY <1>2, StandingMoves
<1>3. ASSUME NEW s \in ended'
      PROVE  access'[s] # NoRow
  <2>1. s \in ended \/ \E r \in Requests : s \in Standing(r)
    BY EndedMoves, AtStep DEF Standing, AllSteps, ClearSteps
  <2> QED
    BY <2>1
<1>4. ASSUME NEW r \in Requests, At(r, "refresh")'
      PROVE  access'[request'[r].signIn] # NoRow
  <2>1. CASE request'[r] = request[r]
    BY <1>4, <2>1 DEF At
  <2> QED
    BY <1>4, <2>1, NewSignIn
<1> QED
  BY <1>1, <1>2, <1>3, <1>4 DEF Named

\* A sign-in with a name that waits for its token meets none in the new state.
LEMMA NextKeepsFresh ==
  ASSUME TypeOK, TokenInv, [Next]_vars
  PROVE  NewSignInIsFresh'
<1> SUFFICES ASSUME NEW r \in Requests, At(r, "refresh")'
             PROVE  /\ \A x \in Live' : refresh'[x].signIn # request'[r].signIn
                    /\ request'[r].signIn \notin ended'
                    /\ \A p \in Requests :
                         /\ request'[r].signIn \notin Standing(p)'
                         /\ At(p, "refresh")' /\ request'[p].signIn = request'[r].signIn => p = r
  BY DEF NewSignInIsFresh
<1> DEFINE s == request'[r].signIn
<1>1. ended' = ended \/ \E p \in Requests : At(p, "clear") /\ ended' = ended \cup Standing(p)
  BY EndedMoves, AtStep DEF Standing, AllSteps, ClearSteps
<1>2. CASE request'[r] = request[r]
  <2>1. At(r, "refresh") /\ Named(s) /\ s \in AccessUids /\ s = request[r].signIn
    BY <1>2, SignInsAreUids DEF TokenInv, NamesAreGiven, At
  <2>2. /\ \A x \in Live : refresh[x].signIn # s
        /\ s \notin ended
        /\ \A p \in Requests :
             /\ s \notin Standing(p)
             /\ At(p, "refresh") /\ request[p].signIn = s => p = r
    BY <2>1 DEF TokenInv, NewSignInIsFresh
  <2> HIDE DEF s
  <2>3. request'[r] # Idle
    BY DEF At, Idle
  <2>4. ASSUME NEW x \in Live', refresh'[x].signIn = s
        PROVE  FALSE
    <3>1. CASE x \in Live /\ refresh'[x] = refresh[x]
      BY <2>2, <2>4, <3>1
    <3>2. CASE refresh[x] = NoRow
      BY <2>1, <2>2, <2>3, <2>4, <3>2, NewTokenNames DEF Succeeds
    <3> QED
      BY <3>1, <3>2, OldOrNew
  <2>5. s \notin ended'
    BY <1>1, <2>2
  <2>6. ASSUME NEW p \in Requests, s \in Standing(p)'
        PROVE  FALSE
    BY <2>2, <2>6, StandingMoves
  <2>7. ASSUME NEW p \in Requests, At(p, "refresh")', request'[p].signIn = s
        PROVE  p = r
    <3>1. CASE request'[p] = request[p]
      BY <2>2, <2>7, <3>1 DEF At
    <3>2. CASE request'[p] # request[p]
      BY <2>1, <2>7, <3>2, NewSignIn
    <3> QED
      BY <3>1, <3>2
  <2> QED
    BY <2>4, <2>5, <2>6, <2>7 DEF s
<1>3. CASE request'[r] # request[r]
  <2>1. ~Named(s) /\ UNCHANGED <<refresh, ended>>
    BY <1>3, NewSignIn
  <2> HIDE DEF s
  <2>2. \A p \in Requests \ {r} : request'[p] = request[p]
    BY <1>3, StaysOrMoves DEF Moved
  <2>3. \A x \in Live' : refresh'[x].signIn # s
    BY <2>1 DEF TokenInv, NamesAreGiven, Live
  <2>4. s \notin ended'
    BY <2>1 DEF TokenInv, NamesAreGiven
  <2>5. ASSUME NEW p \in Requests, s \in Standing(p)'
        PROVE  FALSE
    BY <2>1, <2>5, StandingMoves DEF TokenInv, NamesAreGiven
  <2>6. ASSUME NEW p \in Requests, At(p, "refresh")', request'[p].signIn = s
        PROVE  p = r
    BY <2>1, <2>2, <2>6 DEF TokenInv, NamesAreGiven, At
  <2> QED
    BY <2>3, <2>4, <2>5, <2>6 DEF s
<1> QED
  BY <1>2, <1>3

\* Two statements, a renewal and a new sign-in each add the token of a sign-in
\* that has none left.
LEMMA NextKeepsOneToken ==
  ASSUME TypeOK, TokenInv, [Next]_vars
  PROVE  OneTokenPerSignIn'
<1> SUFFICES ASSUME NEW x \in Live', NEW y \in Live', refresh'[x].signIn = refresh'[y].signIn
             PROVE  x = y
  BY DEF OneTokenPerSignIn
<1>1. ASSUME NEW v \in Live', NEW w \in Live', refresh'[v].signIn = refresh'[w].signIn,
             refresh[v] = NoRow, w \in Live, refresh'[w] = refresh[w]
      PROVE  FALSE
  <2>1. ASSUME NEW r \in Requests, At(r, "refresh"), request[r].signIn = refresh'[v].signIn
        PROVE  FALSE
    BY <1>1, <2>1 DEF TokenInv, NewSignInIsFresh
  <2>2. ASSUME NEW r \in Requests, Succeeds(v, r)
        PROVE  FALSE
    BY <1>1, <2>2 DEF TokenInv, OneTokenPerSignIn, Succeeds
  <2>3. Named(refresh[w].signIn)
    BY <1>1 DEF TokenInv, NamesAreGiven
  <2> QED
    BY <1>1, <2>1, <2>2, <2>3, NewTokenNames
<1>2. CASE refresh[x] = NoRow /\ refresh[y] = NoRow
  BY <1>2, NextMovesTables DEF TablesMove, RefreshMoves
<1>3. CASE x \in Live /\ refresh'[x] = refresh[x] /\ y \in Live /\ refresh'[y] = refresh[y]
  BY <1>3 DEF TokenInv, OneTokenPerSignIn
<1> QED
  BY <1>1, <1>2, <1>3, OldOrNew

\* A step keeps EndedIsOver: a new token is of no sign-in that has been ended.
LEMMA NextKeepsEnded ==
  ASSUME TypeOK, TokenInv, [Next]_vars
  PROVE  EndedIsOver'
<1> SUFFICES ASSUME NEW x \in Live', refresh'[x].signIn \in ended'
             PROVE  FALSE
  BY DEF EndedIsOver
<1> DEFINE s == refresh'[x].signIn
<1>1. s \in ended \/ \E r \in Requests :
                       /\ At(r, "clear") /\ s \in Standing(r)
                       /\ \A y \in request[r].tokens : refresh[y] # NoRow => y \notin Live'
  BY EndedMoves, AtStep DEF Standing, AllSteps, ClearSteps
<1>2. s \in ended \/ Named(s)
  BY <1>1 DEF TokenInv, NamesAreGiven
<1>3. CASE x \in Live /\ refresh'[x] = refresh[x]
  <2>1. s \notin ended
    BY <1>3 DEF TokenInv, EndedIsOver
  <2>2. PICK r \in Requests : /\ At(r, "clear") /\ s \in Standing(r)
                              /\ \A y \in request[r].tokens : refresh[y] # NoRow => y \notin Live'
    BY <1>1, <2>1
  <2>3. x \in request[r].tokens
    BY <1>3, <2>2 DEF TokenInv, ClearCovers
  <2> QED
    BY <1>3, <2>2, <2>3 DEF Live
<1>4. CASE refresh[x] = NoRow
  <2>1. ASSUME NEW r \in Requests, At(r, "refresh"), ended' = ended, request[r].signIn = s
        PROVE  FALSE
    BY <2>1 DEF TokenInv, NewSignInIsFresh
  <2>2. ASSUME NEW r \in Requests, Succeeds(x, r)
        PROVE  FALSE
    BY <2>2 DEF TokenInv, EndedIsOver, Succeeds
  <2>3. Named(s)
    BY <1>2 DEF TokenInv, NamesAreGiven
  <2> QED
    BY <1>4, <2>1, <2>2, <2>3, NewTokenNames
<1> QED
  BY <1>3, <1>4, OldOrNew

-----------------------------------------------------------------------------
(* The records of the refreshes.                                           *)

\* A token goes with a refresh that has its successor ready, with a logout that
\* has it in hand or with the account.
LEMMA GoneMoves ==
  ASSUME TypeOK, TokenInv, [Next]_vars, NEW x \in Live, x \notin Live'
  PROVE  \/ \E p \in Requests : /\ At(p, "swap") /\ request[p].record = x /\ request'[p] = Idle
                                /\ \E y \in Live' : refresh'[y].signIn = request[p].signIn
         \/ \E p \in Requests : /\ At(p, "clear") /\ x \in request[p].tokens
                                /\ x \notin HeldRecords /\ request'[p] = Idle
         \/ x \notin HeldRecords /\ account'[refresh[x].user] = NoRow
<1>1. x \in RefreshUids /\ refresh[x] \in RefreshRow
  BY DEF Live, TypeOK
<1>2. refresh' # refresh
  BY DEF Live
<1>3. ASSUME NEW y \in FreeRefresh, NEW row, refresh' = [refresh EXCEPT ![y] = row]
      PROVE  FALSE
  BY <1>1, <1>3 DEF FreeRefresh, Live, TypeOK
<1>4. ASSUME NEW r \in Requests, Swap(r)
      PROVE  /\ At(r, "swap") /\ request[r].record = x /\ request'[r] = Idle
             /\ \E y \in Live' : refresh'[y].signIn = request[r].signIn
  <2> DEFINE q == request[r]
  <2>1. PICK y, t :
          /\ y \in FreeRefresh
          /\ refresh' = [refresh EXCEPT ![q.record] = Gone,
               ![y] = [user |-> q.user, signIn |-> q.signIn, token |-> t]]
          /\ t \in {y, q.token} /\ Answer(r) /\ At(r, "swap") /\ q.user \in Accounts
    BY <1>2, <1>4 DEF Swap, Refuse, table
  <2>2. q \in Request /\ InHand(q) /\ q.op = "exchange"
    BY <2>1, AtStep DEF AllSteps, ExchangeSteps
  <2>3. q.record = x
    BY <1>1, <2>1 DEF FreeRefresh, Live, TypeOK
  <2>4. /\ q.user \in Users /\ q.signIn \in AccessUids /\ t \in RefreshUids
        /\ y \in RefreshUids
    BY <2>1, <2>2 DEF InHand, At, FreeRefresh, Accounts
  <2> DEFINE row == [user |-> q.user, signIn |-> q.signIn, token |-> t]
  <2>5. row \in RefreshRow /\ row.signIn = q.signIn
    BY <2>4 DEF RefreshRow
  <2>6. refresh'[y] = row
    BY <2>1, <2>4 DEF TypeOK
  <2>7. y \in Live'
    BY <2>4, <2>5, <2>6, RowAssumption DEF Live
  <2>8. request'[r] = Idle
    BY <2>1, BecomeMoves DEF Answer
  <2> QED
    BY <2>1, <2>3, <2>5, <2>6, <2>7, <2>8
<1>5. ASSUME NEW r \in Requests, Clear(r)
      PROVE  /\ At(r, "clear") /\ x \in request[r].tokens
             /\ x \notin HeldRecords /\ request'[r] = Idle
  <2> DEFINE q == request[r]
             X == [y \in RefreshUids |-> IF y \in q.tokens THEN Gone ELSE refresh[y]]
  <2>1. /\ At(r, "clear") /\ q.tokens \cap HeldRecords = {} /\ Answer(r)
        /\ \/ refresh' = X
           \/ \E a \in FreeAccess, y \in FreeRefresh : refresh' =
                [X EXCEPT ![y] = [user |-> q.user, signIn |-> a, token |-> y]]
    BY <1>2, <1>5 DEF Clear, Refuse, table
  <2>2. X = [y \in RefreshUids |-> X[y]] /\ (x \notin q.tokens => X[x] = refresh[x])
    BY <1>1
  <2> HIDE DEF X
  <2>3. x \in q.tokens
    BY <1>1, <2>1, <2>2 DEF FreeRefresh, Live
  <2> QED
    BY <2>1, <2>3, BecomeMoves DEF Answer
<1>6. ASSUME NEW u \in Users, RemoveAccount(u)
      PROVE  x \notin HeldRecords /\ account'[refresh[x].user] = NoRow
  <2>1. x \in RefreshOf(u)
    BY <1>1, <1>6 DEF RemoveAccount, Live
  <2> QED
    BY <1>6, <2>1 DEF RemoveAccount, RefreshOf, LockedRefresh, TypeOK
<1>7. ASSUME NEW r \in Requests, CreateAccount(r) \/ InsertTokens(r) \/ InsertRefresh(r)
      PROVE  FALSE
  BY <1>2, <1>3, <1>7 DEF CreateAccount, InsertTokens, InsertRefresh, InsertBoth, Refuse, table
<1> QED
  BY <1>2, <1>4, <1>5, <1>6, <1>7
     DEF Next, vars, Work, SignInArrives, ExchangeArrives, Arrives, ClearArrives, DeadlockAborts,
         AwaitFails, FindAccount, InsertAccess, FindRecord, FindActiveUser, DeleteOld,
         PickAccess, FindTokenUser, DeleteAccess, DeleteRefresh, Refuse, Deactivate, ChangeEmail,
         table

\* How a refresh comes to be open: it is so already, or it has just deleted a
\* record that nobody has locked.
LEMMA RenewingBefore ==
  ASSUME TypeOK, [Next]_vars, NEW r \in Requests, Renewing(r)', request'[r] # request[r]
  PROVE  /\ request'[r].record = request[r].record /\ request'[r].signIn = request[r].signIn
         /\ table' = table
         /\ \/ Renewing(r)
            \/ At(r, "old") /\ request[r].record \in Live /\ request[r].record \notin LockedRefresh
<1>1. Moved(r) /\ request'[r] # Idle
  BY StaysOrMoves DEF Renewing, At, Idle
<1>2. CASE request'[r].pc = "pick"
  <2>1. DeleteOld(r) /\ Keeps(r) /\ ~Refuse(r)
    BY <1>1, <1>2, BecomeMoves DEF Moved, Refuse, Answer
  <2> QED
    BY <2>1 DEF DeleteOld, Keeps
<1>3. CASE request'[r].pc = "swap"
  BY <1>1, <1>3 DEF Moved, PickAccess, Keeps, Renewing
<1> QED
  BY <1>2, <1>3 DEF Renewing, At

\* A step keeps RecordInHand.
LEMMA NextKeepsRecord ==
  ASSUME TypeOK, TokenInv, [Next]_vars
  PROVE  RecordInHand'
<1> SUFFICES ASSUME NEW r \in Requests, request'[r].pc \in {"user", "old", "pick", "swap"}
             PROVE  /\ refresh'[request'[r].record] # NoRow
                    /\ request'[r].record \in Live' =>
                         /\ refresh'[request'[r].record].signIn = request'[r].signIn
                         /\ refresh'[request'[r].record].user = request'[r].user
  BY DEF RecordInHand
<1>1. CASE request'[r] = request[r]
  <2>1. request[r].record \in RefreshUids
    <3>1. \E pc \in {"user", "old", "pick", "swap"} : At(r, pc)
      BY <1>1 DEF At
    <3> QED
      BY <3>1, AtStep DEF AllSteps, ExchangeSteps, InHand, At
  <2>2. refresh[request[r].record] # NoRow
    BY <1>1 DEF TokenInv, RecordInHand
  <2>3. refresh'[request[r].record] # NoRow
    BY <2>1, <2>2, NextMovesTables DEF TablesMove, RefreshMoves
  <2>4. request[r].record \in Live' =>
          request[r].record \in Live /\ refresh'[request[r].record] = refresh[request[r].record]
    BY <2>2, OldOrNew
  <2> QED
    BY <1>1, <2>3, <2>4 DEF TokenInv, RecordInHand
<1>2. CASE request'[r] # request[r]
  <2>1. Moved(r) /\ request'[r] # Idle
    BY <1>2, StaysOrMoves DEF Idle
  <2>2. ~Refuse(r)
    BY <2>1, BecomeMoves DEF Refuse, Answer
  <2>3. CASE request'[r].pc = "user"
    <3>1. FindRecord(r)
      BY <2>1, <2>3 DEF Moved
    <3>2. PICK x \in Live :
            /\ Become(r, [request[r] EXCEPT !.pc = "user", !.record = x,
                          !.user = refresh[x].user, !.signIn = refresh[x].signIn])
            /\ UNCHANGED table
      BY <2>2, <3>1 DEF FindRecord
    <3>3. request[r] \in Request
      BY <3>1, AtStep DEF FindRecord, AllSteps, ExchangeSteps
    <3> DEFINE q1 == [request[r] EXCEPT !.pc = "user", !.record = x,
                        !.user = refresh[x].user, !.signIn = refresh[x].signIn]
    <3>4. q1.record = x /\ q1.user = refresh[x].user /\ q1.signIn = refresh[x].signIn
      BY <3>3 DEF Request
    <3>5. request'[r] = q1
      BY <3>2, BecomeMoves
    <3> HIDE DEF q1
    <3> QED
      BY <3>2, <3>4, <3>5 DEF table, Live
  <2>4. CASE request'[r].pc \in {"old", "pick", "swap"}
    <3>1. /\ Keeps(r) /\ UNCHANGED table
          /\ request[r].pc \in {"user", "old", "pick"}
      BY <2>1, <2>2, <2>4 DEF Moved, FindActiveUser, DeleteOld, PickAccess, At
    <3> QED
      BY <3>1 DEF Keeps, TokenInv, RecordInHand, table, Live
  <2> QED
    BY <2>3, <2>4
<1> QED
  BY <1>1, <1>2

\* A step keeps RecordIsHeld: others wait for the lock on the record.
LEMMA NextKeepsHeld ==
  ASSUME TypeOK, TokenInv, [Next]_vars
  PROVE  RecordIsHeld'
<1>1. ASSUME NEW r \in Requests, Renewing(r)'
      PROVE  request'[r].record \in Live'
  <2>1. CASE request'[r] = request[r]
    <3>1. /\ Renewing(r) /\ request[r].record \in Live /\ request[r].record \in HeldRecords
          /\ request'[r] # Idle
      BY <1>1, <2>1 DEF Renewing, At, TokenInv, RecordIsHeld, HeldRecords, Idle
    <3>2. ASSUME NEW p \in Requests, At(p, "swap"), request[p].record = request[r].record,
                 request'[p] = Idle
          PROVE  FALSE
      BY <3>1, <3>2 DEF TokenInv, RecordIsHeld, Renewing
    <3> QED
      BY <2>1, <3>1, <3>2, GoneMoves
  <2>2. CASE request'[r] # request[r]
    BY <1>1, <2>2, RenewingBefore DEF TokenInv, RecordIsHeld, table, Live
  <2> QED
    BY <2>1, <2>2
<1>2. ASSUME NEW r \in Requests, NEW p \in Requests, Renewing(r)', Renewing(p)',
             request'[p].record = request'[r].record, request'[r] = request[r], r # p
      PROVE  FALSE
  <2>1. Renewing(r) /\ request[r].record \in HeldRecords
    BY <1>2 DEF Renewing, At, HeldRecords
  <2>2. Renewing(p) => request[p].record # request[r].record
    BY <1>2, <2>1 DEF TokenInv, RecordIsHeld
  <2>3. CASE request'[p] = request[p]
    BY <1>2, <2>2, <2>3 DEF Renewing, At
  <2>4. CASE request'[p] # request[p]
    BY <1>2, <2>1, <2>2, <2>4, RenewingBefore DEF LockedRefresh
  <2> QED
    BY <2>3, <2>4
<1>3. ASSUME NEW r \in Requests, NEW p \in Requests, r # p
      PROVE  request'[r] = request[r] \/ request'[p] = request[p]
  BY <1>3, StaysOrMoves DEF Moved
<1> QED
  BY <1>1, <1>2, <1>3 DEF RecordIsHeld

-----------------------------------------------------------------------------
(* The sign-ins a logout has to end.                                       *)

\* A step keeps StandingBelongs.
LEMMA NextKeepsBelongs ==
  ASSUME TypeOK, TokenInv, [Next]_vars
  PROVE  StandingBelongs'
<1> SUFFICES ASSUME NEW p \in Requests, NEW x \in Live', refresh'[x].signIn \in Standing(p)'
             PROVE  refresh'[x].user = request'[p].user
  BY DEF StandingBelongs
<1> DEFINE s == refresh'[x].signIn
<1>1. CASE s \in Standing(p) /\ request'[p].user = request[p].user
  <2>1. CASE x \in Live /\ refresh'[x] = refresh[x]
    BY <1>1, <2>1 DEF TokenInv, StandingBelongs
  <2>2. CASE refresh[x] = NoRow
    <3>1. ASSUME NEW r \in Requests, At(r, "refresh"), request[r].signIn = s
          PROVE  FALSE
      BY <1>1, <3>1 DEF TokenInv, NewSignInIsFresh
    <3>2. ASSUME NEW r \in Requests, Succeeds(x, r)
          PROVE  refresh'[x].user = request'[p].user
      BY <1>1, <3>2 DEF TokenInv, StandingBelongs, Succeeds
    <3>3. Named(s)
      BY <1>1 DEF TokenInv, NamesAreGiven
    <3> QED
      BY <2>2, <3>1, <3>2, <3>3, NewTokenNames
  <2> QED
    BY <2>1, <2>2, OldOrNew
<1>2. CASE /\ table' = table
           /\ \E y \in Live : refresh[y].signIn = s /\ refresh[y].user = request'[p].user
  BY <1>2 DEF TokenInv, OneTokenPerSignIn, table, Live
<1> QED
  BY <1>1, <1>2, StandingMoves

\* A step keeps ClearCovers: what stands when the second delete runs is in its list.
LEMMA NextKeepsCover ==
  ASSUME TypeOK, TokenInv, [Next]_vars
  PROVE  ClearCovers'
<1> SUFFICES ASSUME NEW p \in Requests, At(p, "clear")'
             PROVE  /\ \A x \in Live' : refresh'[x].signIn \in Standing(p)' =>
                                          x \in request'[p].tokens
                    /\ \A r \in Requests : Renewing(r)' =>
                                          request'[r].signIn \notin Standing(p)'
  BY DEF ClearCovers
<1>1. CASE request'[p] = request[p]
  <2>1. At(p, "clear") /\ Standing(p)' = Standing(p)
    BY <1>1 DEF At, Standing, InFlight
  <2>2. ASSUME NEW x \in Live', refresh'[x].signIn \in Standing(p)
        PROVE  x \in request[p].tokens
    <3> DEFINE s == refresh'[x].signIn
    <3>1. CASE x \in Live /\ refresh'[x] = refresh[x]
      BY <2>1, <2>2, <3>1 DEF TokenInv, ClearCovers
    <3>2. CASE refresh[x] = NoRow
      <4>1. ASSUME NEW r \in Requests, At(r, "refresh"), request[r].signIn = s
            PROVE  FALSE
        BY <2>2, <4>1 DEF TokenInv, NewSignInIsFresh
      <4>2. ASSUME NEW r \in Requests, Succeeds(x, r)
            PROVE  FALSE
        BY <2>1, <2>2, <4>2 DEF TokenInv, ClearCovers, Succeeds
      <4>3. Named(s)
        BY <2>2 DEF TokenInv, NamesAreGiven
      <4> QED
        BY <3>2, <4>1, <4>2, <4>3, NewTokenNames
    <3> QED
      BY <3>1, <3>2, OldOrNew
  <2>3. ASSUME NEW r \in Requests, Renewing(r)', request'[r].signIn \in Standing(p)
        PROVE  FALSE
    <3>1. CASE request'[r] = request[r]
      BY <2>1, <2>3, <3>1 DEF TokenInv, ClearCovers, Renewing, At
    <3>2. CASE request'[r] # request[r]
      <4>1. request[r].signIn \in Standing(p) /\ ~Renewing(r)
        BY <2>1, <2>3, <3>2, RenewingBefore DEF TokenInv, ClearCovers
      <4>2. /\ At(r, "old") /\ request[r].record \in Live
            /\ request[r].record \notin LockedRefresh
        BY <2>3, <3>2, <4>1, RenewingBefore
      <4>3. refresh[request[r].record].signIn = request[r].signIn
        BY <4>2 DEF TokenInv, RecordInHand, At
      <4>4. request[r].record \in request[p].tokens
        BY <2>1, <4>1, <4>2, <4>3 DEF TokenInv, ClearCovers
      <4> QED
        BY <2>1, <4>2, <4>4 DEF LockedRefresh
    <3> QED
      BY <3>1, <3>2
  <2> QED
    BY <1>1, <2>1, <2>2, <2>3
<1>2. CASE request'[p] # request[p]
  <2> DEFINE q == request[p]
             open == {request[r].signIn : r \in {r \in Requests : Renewing(r)}}
  <2>1. DeleteRefresh(p) /\ \A r \in Requests \ {p} : request'[r] = request[r]
    BY <1>2, StaysOrMoves DEF Moved, At
  <2>2. q \in Request /\ InFlight(p)
    BY <2>1, AtStep DEF DeleteRefresh, AllSteps, ClearSteps
  <2>3. /\ request'[p] = [q EXCEPT !.pc = "clear", !.tokens = RefreshOf(q.user),
                                   !.standing = q.standing \ open]
        /\ UNCHANGED table
    BY <2>1, BecomeMoves DEF DeleteRefresh
  <2>4. request'[p].tokens = RefreshOf(q.user) /\ request'[p].standing = q.standing \ open
    <3> HIDE DEF open
    <3> QED
      BY <2>2, <2>3 DEF Request
  <2>5. Standing(p)' \subseteq Standing(p) \ open
    BY <2>2, <2>4 DEF Standing
  <2>6. ASSUME NEW x \in Live', refresh'[x].signIn \in Standing(p)'
        PROVE  x \in request'[p].tokens
    BY <2>3, <2>4, <2>5, <2>6 DEF TokenInv, StandingBelongs, RefreshOf, table, Live
  <2>7. ASSUME NEW r \in Requests, Renewing(r)'
        PROVE  request'[r].signIn \notin Standing(p)'
    <3>1. r # p
      BY <2>7 DEF Renewing, At
    <3>2. Renewing(r) /\ request'[r] = request[r]
      BY <2>1, <2>7, <3>1 DEF Renewing, At
    <3> QED
      BY <2>5, <3>2
  <2> QED
    BY <2>6, <2>7
<1> QED
  BY <1>1, <1>2

-----------------------------------------------------------------------------
(* The theorems.                                                           *)

\* What every step keeps of sign-ins, tokens and requests.
LEMMA TokensAreSound == Spec => []TokenInv
<1>1. Init => TokenInv
  BY DEF Init, TokenInv, NamesAreGiven, NewSignInIsFresh, RecordInHand, RecordIsHeld,
         StandingBelongs, ClearCovers, OneTokenPerSignIn, EndedIsOver, Live, Standing, InFlight,
         At, Idle, Renewing
<1>2. TypeOK /\ TokenInv /\ [Next]_vars => TokenInv'
  BY NextKeepsNames, NextKeepsFresh, NextKeepsRecord, NextKeepsHeld, NextKeepsBelongs,
     NextKeepsCover, NextKeepsOneToken, NextKeepsEnded DEF TokenInv
<1> QED
  BY <1>1, <1>2, TypeCorrect, PTL DEF Spec

\* A sign-in has one refresh token at most, however often a client presents a
\* token (refreshToken, the delete inside its transaction).
THEOREM SignInHasOneToken == Spec => []OneTokenPerSignIn
BY TokensAreSound, PTL DEF TokenInv

\* A sign-in that a logout or a reset has ended is not refreshed from then on
\* (logout, resetForgottenPassword).
THEOREM EndedStaysOver == Spec => []EndedIsOver
BY TokensAreSound, PTL DEF TokenInv

\* A sign-in loses its token to a logout, a reset or the removal of the account
\* only (the transaction of refreshToken).
THEOREM SignInsAreKept == Spec => RefreshKeepsSignIn
<1> DEFINE A == \A x \in Live :
      (\A y \in Live' : refresh'[y].signIn # refresh[x].signIn) =>
        \/ \E r \in Requests : At(r, "clear") /\ x \in request[r].tokens /\ ~At(r, "clear")'
        \/ account'[refresh[x].user] = NoRow
<1>1. TypeOK /\ TokenInv /\ [Next]_vars => [A]_vars
  <2> SUFFICES ASSUME TypeOK, TokenInv, [Next]_vars, NEW x \in Live,
                      \A y \in Live' : refresh'[y].signIn # refresh[x].signIn
               PROVE  \/ \E r \in Requests :
                           At(r, "clear") /\ x \in request[r].tokens /\ ~At(r, "clear")'
                      \/ account'[refresh[x].user] = NoRow
    OBVIOUS
  <2>1. x \notin Live'
    BY OldOrNew DEF Live
  <2>2. ASSUME NEW p \in Requests, At(p, "swap"), request[p].record = x
        PROVE  refresh[x].signIn = request[p].signIn
    BY <2>2 DEF TokenInv, RecordInHand, At
  <2>3. \A p \in Requests : request'[p] = Idle => ~At(p, "clear")'
    BY DEF At, Idle
  <2> QED
    BY <2>1, <2>2, <2>3, GoneMoves
<1> QED
  BY <1>1, TypeCorrect, TokensAreSound, PTL DEF Spec, RefreshKeepsSignIn

-----------------------------------------------------------------------------
(* The codes of VerificationCodes.                                           *)

CodeSteps == UNION {Codes!Steps[o] : o \in Codes!Ops}

\* What a request knows of the codes, C, and of the tokens made of them, m: the
\* codes that were there when it came have been sent; at the insert it deletes
\* those of them that still live; it has made a token when it comes to the drop.
Fit(q, C, m) ==
  \/ q = Codes!Idle
  \/ /\ q \in Codes!Request /\ q.pc \in Codes!Steps[q.op]
     /\ \A c \in q.known : C[c] # "none"
     /\ q.op \in {"verify", "redeem"} => q.code \in CodeUids /\ C[q.code] # "none"
     /\ q.pc = "insert" => \A c \in q.known : C[c] \in {"fresh", "expired"} => c \in q.seen
     /\ q.pc = "drop" => m > 0

CodesFit ==
  /\ code \in [CodeUids -> Codes!CodeStates]
  /\ made \in 0..Resets
  /\ codeRequest = [r \in Requests |-> codeRequest[r]]
  /\ \A r \in Requests : Fit(codeRequest[r], code, made)

\* A code has been sent before another one whose sender knew of it, and at most
\* one of the two lives; a code that was handed out was so once and is gone.
CodesInv ==
  /\ CodesFit
  /\ before \in [CodeUids -> SUBSET CodeUids]
  /\ \A c \in CodeUids : \A d \in before[c] : code[d] # "none"
  /\ Codes!CodesSuperseded
  /\ answered \in [CodeUids -> 0..Resets]
  /\ \A c \in CodeUids : answered[c] > 0 => answered[c] = 1 /\ code[c] = "gone"

\* What may become of the codes C: one that was sent is not unsent, and one that
\* is gone stays gone.
Later(C, D) ==
  /\ D \in [CodeUids -> Codes!CodeStates]
  /\ \A c \in CodeUids : C[c] # "none" =>
       /\ D[c] # "none"
       /\ D[c] \in {"fresh", "expired"} => C[c] \in {"fresh", "expired"}

\* What a request knows stays true.
LEMMA FitLater ==
  ASSUME NEW q, NEW C, NEW D, NEW m \in Nat, NEW n \in Nat, m <= n, Later(C, D), Fit(q, C, m)
  PROVE  Fit(q, D, n)
<1>1. CASE q = Codes!Idle
  BY <1>1 DEF Fit
<1>2. CASE q # Codes!Idle
  <2>1. q \in Codes!Request /\ q.known \subseteq CodeUids
    BY <1>2 DEF Fit, Codes!Request
  <2> QED
    BY <1>2, <2>1 DEF Fit, Later
<1> QED
  BY <1>1, <1>2

\* The steps of the handlers are disjoint.
LEMMA StepsOfCodes ==
  /\ Codes!Steps["resend"] = {"find", "clean", "delete", "insert"}
  /\ Codes!Steps["forgot"] = {"find", "delete", "insert"}
  /\ Codes!Steps["verify"] = {"guard", "mark"}
  /\ Codes!Steps["redeem"] = {"look", "token", "drop"}
  /\ CodeSteps = {"find", "clean", "delete", "insert", "guard", "mark", "look", "token", "drop"}
<1>1. /\ Codes!Steps["resend"] = {"find", "clean", "delete", "insert"}
      /\ Codes!Steps["forgot"] = {"find", "delete", "insert"}
      /\ Codes!Steps["verify"] = {"guard", "mark"}
      /\ Codes!Steps["redeem"] = {"look", "token", "drop"}
  BY DEF Codes!Steps, Codes!SendSteps
<1> QED
  BY <1>1 DEF CodeSteps, Codes!Ops

\* A request at a step is in the handler the step belongs to.
LEMMA AtCodeStep ==
  ASSUME CodesFit, NEW r \in Requests, NEW pc \in CodeSteps, Codes!At(r, pc)
  PROVE  /\ codeRequest[r] \in Codes!Request /\ codeRequest[r] # Codes!Idle
         /\ codeRequest[r].pc \in Codes!Steps[codeRequest[r].op]
         /\ pc \in {"find", "clean", "delete", "insert"} => codeRequest[r].op \in {"resend", "forgot"}
         /\ pc \in {"guard", "mark"} => codeRequest[r].op = "verify"
         /\ pc \in {"look", "token", "drop"} => codeRequest[r].op = "redeem"
<1>1. codeRequest[r] # Codes!Idle
  BY StepsOfCodes DEF Codes!At, Codes!Idle
<1>2. codeRequest[r] \in Codes!Request /\ codeRequest[r].pc \in Codes!Steps[codeRequest[r].op]
  BY <1>1 DEF CodesFit, Fit
<1>3. codeRequest[r].op \in Codes!Ops
  BY <1>2 DEF Codes!Request
<1> QED
  BY <1>1, <1>2, <1>3, StepsOfCodes DEF Codes!At, Codes!Ops

\* A step moves one request, to q, and the codes to a later state.
LEMMA MovesFit ==
  ASSUME CodesFit, NEW r \in Requests, NEW q, codeRequest' = [codeRequest EXCEPT ![r] = q],
         Later(code, code'), made' \in 0..Resets, made <= made', Fit(q, code', made')
  PROVE  CodesFit'
<1>1. made \in Nat /\ made' \in Nat
  BY CodesAssumption DEF CodesFit
<1>2. /\ codeRequest' = [p \in Requests |-> codeRequest'[p]]
      /\ codeRequest'[r] = q /\ \A p \in Requests \ {r} : codeRequest'[p] = codeRequest[p]
  BY DEF CodesFit
<1>3. \A p \in Requests : Fit(codeRequest'[p], code', made')
  BY <1>1, <1>2, FitLater DEF CodesFit
<1> QED
  BY <1>2, <1>3 DEF CodesFit, Later

\* The request r goes on to pc, with what it has in hand.
LEMMA GoesOn ==
  ASSUME CodesFit, NEW r \in Requests, NEW from \in CodeSteps, Codes!At(r, from),
         NEW pc \in Codes!Steps[codeRequest[r].op], Codes!Goto(r, pc), pc \notin {"insert", "drop"},
         Later(code, code'), made' \in 0..Resets, made <= made'
  PROVE  CodesFit'
<1> DEFINE q == [codeRequest[r] EXCEPT !.pc = pc]
<1>1. codeRequest[r] \in Codes!Request /\ Fit(codeRequest[r], code, made)
  BY AtCodeStep DEF CodesFit
<1>2. codeRequest[r] # Codes!Idle
  BY AtCodeStep
<1>3. pc \in UNION {Codes!Steps[o] : o \in Codes!Ops}
  BY <1>1 DEF Codes!Request
<1>4. /\ q \in Codes!Request /\ q.pc = pc /\ q.op = codeRequest[r].op
      /\ q.known = codeRequest[r].known /\ q.code = codeRequest[r].code
  BY <1>1, <1>3 DEF Codes!Request
<1>5. codeRequest' = [codeRequest EXCEPT ![r] = q]
  BY DEF Codes!Goto, CodesFit
<1> HIDE DEF q
<1>6. Fit(q, code, made)
  BY <1>1, <1>2, <1>4 DEF Fit
<1>7. Fit(q, code', made')
  BY <1>6, FitLater, CodesAssumption DEF CodesFit
<1> QED
  BY <1>5, <1>7, MovesFit

\* The request r is answered.
LEMMA AnswerFits ==
  ASSUME CodesFit, NEW r \in Requests, Codes!Answer(r),
         Later(code, code'), made' \in 0..Resets, made <= made'
  PROVE  CodesFit'
BY MovesFit DEF Codes!Answer, Codes!Become, Fit

\* What does not change is a later state of itself.
LEMMA StaysLater ==
  ASSUME CodesFit, UNCHANGED <<code, made>>
  PROVE  Later(code, code') /\ made' \in 0..Resets /\ made <= made'
BY CodesAssumption DEF CodesFit, Later

\* A delete takes back what it finds.
LEMMA DeleteLater ==
  ASSUME CodesFit, NEW S, Codes!Delete(S)
  PROVE  Later(code, code') /\ \A c \in CodeUids : code'[c] = code[c] \/ code'[c] = "gone"
BY DEF CodesFit, Later, Codes!Delete, Codes!Live, Codes!CodeStates

\* A refusal changes nothing but its request.
LEMMA RefuseFits ==
  ASSUME CodesFit, NEW r \in Requests, Codes!Refuse(r)
  PROVE  CodesFit' /\ UNCHANGED <<code, before, answered>>
BY AnswerFits, StaysLater DEF Codes!Refuse, Codes!table, Codes!history

\* A request that arrives knows the codes that live.
LEMMA ArrivalFits ==
  ASSUME CodesFit, NEW r \in Requests,
         \/ \E op \in {"resend", "forgot"} : Codes!SendArrives(r, op)
         \/ \E c \in CodeUids : Codes!VerifyArrives(r, c) \/ Codes!RedeemArrives(r, c)
  PROVE  CodesFit' /\ UNCHANGED <<code, before, answered>>
<1>1. ASSUME NEW op \in Codes!Ops, NEW pc \in Codes!Steps[op], NEW c \in CodeUids \cup {"none"},
             pc \notin {"insert", "drop"},
             op \in {"verify", "redeem"} => c \in CodeUids /\ code[c] # "none",
             Codes!Arrive(r, op, pc, c)
      PROVE  CodesFit' /\ UNCHANGED <<code, before, answered>>
  <2> DEFINE q == [op |-> op, pc |-> pc, code |-> c, seen |-> {},
                   known |-> IF op \in {"resend", "forgot"} THEN Codes!Live ELSE {}]
  <2>1. /\ codeRequest' = [codeRequest EXCEPT ![r] = q]
        /\ UNCHANGED <<verified, code, made, before, answered>>
    BY <1>1 DEF Codes!Arrive, Codes!Become, Codes!table, Codes!history
  <2>2. q.known \subseteq Codes!Live /\ Codes!Live \subseteq CodeUids
    BY DEF Codes!Live
  <2>3. q \in Codes!Request
    BY <2>2 DEF Codes!Request
  <2>4. q.op = op /\ q.pc = pc /\ q.code = c
    OBVIOUS
  <2> HIDE DEF q
  <2>5. Fit(q, code, made)
    BY <1>1, <2>2, <2>3, <2>4 DEF Fit, Codes!Live
  <2>6. CodesFit'
    BY <2>1, <2>5, MovesFit, StaysLater
  <2> QED
    BY <2>1, <2>6
<1>2. \E op \in Codes!Ops : \E pc \in Codes!Steps[op], c \in CodeUids \cup {"none"} :
        /\ pc \notin {"insert", "drop"}
        /\ op \in {"verify", "redeem"} => c \in CodeUids /\ code[c] # "none"
        /\ Codes!Arrive(r, op, pc, c)
  BY StepsOfCodes DEF Codes!SendArrives, Codes!VerifyArrives, Codes!RedeemArrives, Codes!Ops
<1> QED
  BY <1>1, <1>2

\* A new code takes back the codes the transaction has deleted.
LEMMA InsertFits ==
  ASSUME CodesFit, NEW r \in Requests, Codes!InsertCode(r)
  PROVE  /\ CodesFit' /\ Later(code, code') /\ answered' = answered
         /\ codeRequest[r].known \subseteq CodeUids
         /\ \E c \in CodeUids :
              /\ code[c] = "none" /\ before' = [before EXCEPT ![c] = codeRequest[r].known]
              /\ \A d \in codeRequest[r].known : code'[d] \notin {"fresh", "expired"}
              /\ \A d \in CodeUids \ {c} : code'[d] = code[d] \/ code'[d] = "gone"
<1> DEFINE q == codeRequest[r]
<1>1. /\ q \in Codes!Request /\ q.op \in {"resend", "forgot"}
      /\ Codes!At(r, "insert") /\ Fit(q, code, made) /\ q # Codes!Idle
  BY AtCodeStep, StepsOfCodes DEF Codes!InsertCode, CodesFit
<1>2. PICK c \in CodeUids :
        /\ code[c] = "none"
        /\ code' = [d \in CodeUids |->
             IF d = c THEN "fresh" ELSE IF d \in q.seen /\ d \in Codes!Live THEN "gone" ELSE code[d]]
        /\ before' = [before EXCEPT ![c] = q.known]
  BY DEF Codes!InsertCode
<1>3. Later(code, code')
  BY <1>2 DEF Later, CodesFit, Codes!CodeStates, Codes!Live
<1>4. CodesFit'
  BY <1>3, AnswerFits, CodesAssumption DEF Codes!InsertCode, CodesFit
<1>5. /\ q.known \subseteq CodeUids
      /\ \A d \in q.known : code[d] # "none" /\ (d \in Codes!Live => d \in q.seen)
  BY <1>1 DEF Fit, Codes!Request, Codes!At, Codes!Live
<1>6. \A d \in q.known : code'[d] \notin {"fresh", "expired"}
  BY <1>2, <1>5 DEF Codes!Live
<1>7. answered' = answered
  BY DEF Codes!InsertCode
<1> QED
  BY <1>2, <1>3, <1>4, <1>5, <1>6, <1>7

\* A code that is dropped is handed out, if it is there to be deleted.
LEMMA DropFits ==
  ASSUME CodesFit, NEW r \in Requests, Codes!DropCode(r)
  PROVE  /\ CodesFit' /\ Later(code, code') /\ before' = before
         /\ \A c \in CodeUids : code'[c] = code[c] \/ code'[c] = "gone"
         /\ \/ answered' = answered
            \/ \E c \in Codes!Live : /\ code'[c] = "gone" /\ made > 0
                                      /\ answered' = [answered EXCEPT ![c] = @ + 1]
<1> DEFINE c == codeRequest[r].code
<1>1. /\ codeRequest[r] \in Codes!Request /\ codeRequest[r].op = "redeem"
      /\ Codes!At(r, "drop") /\ Fit(codeRequest[r], code, made) /\ codeRequest[r] # Codes!Idle
  BY AtCodeStep, StepsOfCodes DEF Codes!DropCode, CodesFit
<1>2. CASE Codes!Refuse(r)
  BY <1>2, RefuseFits, StaysLater DEF Codes!Refuse, Codes!table, Codes!history
<1>3. CASE ~Codes!Refuse(r)
  <2>1. /\ c \in Codes!Live /\ Codes!Delete({c}) /\ Codes!Answer(r)
        /\ answered' = [answered EXCEPT ![c] = @ + 1] /\ before' = before /\ made' = made
    BY <1>3 DEF Codes!DropCode
  <2>2. made > 0
    BY <1>1 DEF Fit, Codes!At
  <2>3. code'[c] = "gone"
    BY <2>1 DEF Codes!Delete, Codes!Live
  <2>4. Later(code, code') /\ \A d \in CodeUids : code'[d] = code[d] \/ code'[d] = "gone"
    BY <2>1, DeleteLater
  <2>5. CodesFit'
    BY <2>1, <2>4, AnswerFits, CodesAssumption DEF CodesFit
  <2> QED
    BY <2>1, <2>2, <2>3, <2>4, <2>5
<1> QED
  BY <1>2, <1>3

\* The other steps, which at most delete.
LEMMA OthersFit ==
  ASSUME CodesFit, NEW r \in Requests,
         \/ Codes!FindUser(r) \/ Codes!CleanCodes(r) \/ Codes!DeleteCodes(r)
         \/ Codes!VerifyEmailGuard(r) \/ Codes!VerifyEmailLink(r)
         \/ Codes!FindCode(r) \/ Codes!InsertResetToken(r) \/ Codes!AwaitFails(r)
  PROVE  /\ CodesFit' /\ Later(code, code') /\ UNCHANGED <<before, answered>>
         /\ \A c \in CodeUids : code'[c] = code[c] \/ code'[c] = "gone"
<1> DEFINE Goal == /\ CodesFit' /\ Later(code, code') /\ UNCHANGED <<before, answered>>
                   /\ \A c \in CodeUids : code'[c] = code[c] \/ code'[c] = "gone"
<1> HIDE DEF Goal
<1>1. ASSUME Codes!Refuse(r)
      PROVE  Goal
  BY <1>1, RefuseFits, StaysLater DEF Codes!Refuse, Codes!table, Codes!history, Goal
<1>2. ASSUME NEW from \in CodeSteps, Codes!At(r, from), NEW pc \in Codes!Steps[codeRequest[r].op],
             pc \notin {"insert", "drop"}, Codes!Goto(r, pc),
             UNCHANGED <<verified, code, made, before, answered>>
      PROVE  Goal
  BY <1>2, GoesOn, StaysLater DEF Goal
<1>3. ASSUME Codes!FindUser(r)
      PROVE  Goal
  <2>1. Codes!At(r, "find") /\ codeRequest[r].op \in {"resend", "forgot"} /\ "find" \in CodeSteps
    BY <1>3, AtCodeStep, StepsOfCodes DEF Codes!FindUser
  <2> QED
    BY <1>1, <1>2, <1>3, <2>1, StepsOfCodes DEF Codes!FindUser, Codes!table, Codes!history
<1>4. ASSUME Codes!CleanCodes(r)
      PROVE  Goal
  <2>1. Codes!At(r, "clean") /\ codeRequest[r].op \in {"resend", "forgot"} /\ "clean" \in CodeSteps
    BY <1>4, AtCodeStep, StepsOfCodes DEF Codes!CleanCodes
  <2>2. Later(code, code') /\ \A c \in CodeUids : code'[c] = code[c] \/ code'[c] = "gone"
    BY <1>4, DeleteLater DEF Codes!CleanCodes
  <2>3. CodesFit'
    BY <1>4, <2>1, <2>2, GoesOn, StepsOfCodes, CodesAssumption DEF Codes!CleanCodes, CodesFit
  <2> QED
    BY <1>4, <2>2, <2>3 DEF Codes!CleanCodes, Codes!history, Goal
<1>5. ASSUME Codes!DeleteCodes(r)
      PROVE  Goal
  <2> DEFINE q == [codeRequest[r] EXCEPT !.pc = "insert", !.seen = Codes!Live]
  <2>1. /\ codeRequest[r] \in Codes!Request /\ codeRequest[r].op \in {"resend", "forgot"}
        /\ codeRequest[r] # Codes!Idle /\ Fit(codeRequest[r], code, made)
    BY <1>5, AtCodeStep, StepsOfCodes DEF Codes!DeleteCodes, CodesFit
  <2>2. Codes!Live \subseteq CodeUids
    BY DEF Codes!Live
  <2>3. "insert" \in CodeSteps /\ "insert" \in Codes!Steps[codeRequest[r].op]
    BY <2>1, StepsOfCodes
  <2>4. /\ q \in Codes!Request /\ q.op = codeRequest[r].op /\ q.pc = "insert"
        /\ q.known = codeRequest[r].known /\ q.seen = Codes!Live
    BY <2>1, <2>2, <2>3 DEF Codes!Request, CodeSteps
  <2>5. /\ codeRequest' = [codeRequest EXCEPT ![r] = q]
        /\ UNCHANGED <<verified, code, made, before, answered>>
    BY <1>5 DEF Codes!DeleteCodes, Codes!Become, Codes!table, Codes!history
  <2> HIDE DEF q
  <2>6. codeRequest[r].known \subseteq CodeUids
    BY <2>1 DEF Codes!Request
  <2>7. Fit(q, code, made)
    BY <2>1, <2>3, <2>4, <2>6 DEF Fit, Codes!Live
  <2> QED
    BY <2>5, <2>7, MovesFit, StaysLater DEF Goal
<1>6. ASSUME Codes!VerifyEmailGuard(r)
      PROVE  Goal
  <2>1. Codes!At(r, "guard") /\ codeRequest[r].op = "verify" /\ "guard" \in CodeSteps
    BY <1>6, AtCodeStep, StepsOfCodes DEF Codes!VerifyEmailGuard
  <2> QED
    BY <1>1, <1>2, <1>6, <2>1, StepsOfCodes DEF Codes!VerifyEmailGuard, Codes!table, Codes!history
<1>7. ASSUME Codes!VerifyEmailLink(r)
      PROVE  Goal
  <2>1. Later(code, code') /\ \A c \in CodeUids : code'[c] = code[c] \/ code'[c] = "gone"
    BY <1>7, DeleteLater DEF Codes!VerifyEmailLink
  <2>2. CodesFit'
    BY <1>7, <2>1, AnswerFits, CodesAssumption DEF Codes!VerifyEmailLink, CodesFit
  <2> QED
    BY <1>7, <2>1, <2>2 DEF Codes!VerifyEmailLink, Codes!history, Goal
<1>8. ASSUME Codes!FindCode(r)
      PROVE  Goal
  <2>1. Codes!At(r, "look") /\ codeRequest[r].op = "redeem" /\ "look" \in CodeSteps
    BY <1>8, AtCodeStep, StepsOfCodes DEF Codes!FindCode
  <2> QED
    BY <1>1, <1>2, <1>8, <2>1, StepsOfCodes DEF Codes!FindCode, Codes!table, Codes!history
<1>9. ASSUME Codes!InsertResetToken(r)
      PROVE  Goal
  <2> DEFINE q == [codeRequest[r] EXCEPT !.pc = "drop"]
  <2>1. /\ codeRequest[r] \in Codes!Request /\ codeRequest[r].op = "redeem"
        /\ codeRequest[r] # Codes!Idle /\ Fit(codeRequest[r], code, made)
    BY <1>9, AtCodeStep, StepsOfCodes DEF Codes!InsertResetToken, CodesFit
  <2>2. "drop" \in CodeSteps /\ "drop" \in Codes!Steps[codeRequest[r].op]
    BY <2>1, StepsOfCodes
  <2>3. /\ q \in Codes!Request /\ q.op = codeRequest[r].op /\ q.pc = "drop"
        /\ q.known = codeRequest[r].known /\ q.code = codeRequest[r].code
    BY <2>1, <2>2 DEF Codes!Request, CodeSteps
  <2>4. /\ codeRequest' = [codeRequest EXCEPT ![r] = q] /\ made' = made + 1 /\ made < Resets
        /\ UNCHANGED <<verified, code, before, answered>>
    BY <1>9 DEF Codes!InsertResetToken, Codes!Goto, Codes!history, CodesFit
  <2> HIDE DEF q
  <2>5. made' \in 0..Resets /\ made <= made' /\ made' > 0
    BY <2>4, CodesAssumption DEF CodesFit
  <2>6. Fit(q, code', made')
    BY <2>1, <2>2, <2>3, <2>4, <2>5 DEF Fit
  <2>7. Later(code, code')
    BY <2>4 DEF Later, CodesFit
  <2> QED
    BY <2>4, <2>5, <2>6, <2>7, MovesFit DEF Goal
<1>10. ASSUME Codes!AwaitFails(r)
       PROVE  Goal
  BY <1>10, AnswerFits, StaysLater DEF Codes!AwaitFails, Codes!table, Codes!history, Goal
<1>11. Goal
  BY <1>3, <1>4, <1>5, <1>6, <1>7, <1>8, <1>9, <1>10
<1> QED
  BY <1>11 DEF Goal

\* Codes that only die leave what was said of them true.
LEMMA DyingKeepsInv ==
  ASSUME CodesInv, CodesFit', UNCHANGED <<before, answered>>,
         \A c \in CodeUids : \/ code'[c] = code[c] \/ code'[c] = "gone"
                             \/ code[c] = "fresh" /\ code'[c] = "expired"
  PROVE  CodesInv'
BY DEF CodesInv, Codes!CodesSuperseded, Codes!Live, CodesFit

\* The codes in transactions of their own: an insert is of a code that nobody
\* knew, a drop hands out a code that nobody had.
LEMMA NextKeepsCodes ==
  ASSUME CodesInv, Codes!Next
  PROVE  CodesInv'
<1>1. ASSUME NEW r \in Requests,
             \/ \E op \in {"resend", "forgot"} : Codes!SendArrives(r, op)
             \/ \E c \in CodeUids : Codes!VerifyArrives(r, c) \/ Codes!RedeemArrives(r, c)
      PROVE  CodesInv'
  BY <1>1, ArrivalFits, DyingKeepsInv DEF CodesInv
<1>2. ASSUME NEW r \in Requests,
             \/ Codes!FindUser(r) \/ Codes!CleanCodes(r) \/ Codes!DeleteCodes(r)
             \/ Codes!VerifyEmailGuard(r) \/ Codes!VerifyEmailLink(r)
             \/ Codes!FindCode(r) \/ Codes!InsertResetToken(r) \/ Codes!AwaitFails(r)
      PROVE  CodesInv'
  BY <1>2, OthersFit, DyingKeepsInv DEF CodesInv
<1>3. ASSUME NEW r \in Requests, Codes!InsertCode(r)
      PROVE  CodesInv'
  <2> DEFINE known == codeRequest[r].known
  <2>1. CodesFit /\ CodesFit' /\ answered' = answered /\ known \subseteq CodeUids
    BY <1>3, InsertFits DEF CodesInv
  <2>2. PICK c \in CodeUids :
          /\ code[c] = "none" /\ before' = [before EXCEPT ![c] = known]
          /\ \A d \in known : code'[d] \notin {"fresh", "expired"}
          /\ \A d \in CodeUids \ {c} : code'[d] = code[d] \/ code'[d] = "gone"
    BY <1>3, InsertFits DEF CodesInv
  <2>3. \A d \in known : code[d] # "none" /\ code'[d] # "none"
    <3>1. Codes!At(r, "insert") /\ "insert" \in CodeSteps
      BY <1>3, StepsOfCodes DEF Codes!InsertCode
    <3>2. \A d \in known : code[d] # "none"
      BY <2>1, <3>1, AtCodeStep DEF CodesFit, Fit
    <3> QED
      BY <2>1, <2>2, <3>2
  <2> HIDE DEF known
  <2>4. /\ before' \in [CodeUids -> SUBSET CodeUids] /\ before'[c] = known
        /\ \A d \in CodeUids \ {c} : before'[d] = before[d]
    BY <2>1, <2>2 DEF CodesInv
  <2>5. \A a \in CodeUids : \A d \in before'[a] : code'[d] # "none"
    BY <2>2, <2>3, <2>4 DEF CodesInv
  <2>6. ASSUME NEW a \in CodeUids, code'[a] \in {"fresh", "expired"}, NEW d \in before'[a]
        PROVE  code'[d] \notin {"fresh", "expired"}
    <3>1. CASE a = c
      BY <2>2, <2>4, <2>6, <3>1
    <3>2. CASE a # c
      <4>1. code'[a] = code[a] /\ d \in before[a] /\ d \in CodeUids
        BY <2>2, <2>4, <2>6, <3>2 DEF CodesInv
      <4>2. d # c /\ code[d] \notin {"fresh", "expired"}
        BY <2>2, <2>6, <4>1 DEF CodesInv, Codes!CodesSuperseded, Codes!Live
      <4> QED
        BY <2>2, <4>1, <4>2
    <3> QED
      BY <3>1, <3>2
  <2>7. Codes!CodesSuperseded'
    BY <2>6 DEF Codes!CodesSuperseded, Codes!Live
  <2>8. \A a \in CodeUids : answered'[a] > 0 => answered'[a] = 1 /\ code'[a] = "gone"
    BY <2>1, <2>2 DEF CodesInv
  <2> QED
    BY <2>1, <2>4, <2>5, <2>7, <2>8 DEF CodesInv
<1>4. ASSUME NEW r \in Requests, Codes!DropCode(r)
      PROVE  CodesInv'
  <2>1. /\ CodesFit /\ CodesFit' /\ before' = before
        /\ \A c \in CodeUids : code'[c] = code[c] \/ code'[c] = "gone"
    BY <1>4, DropFits DEF CodesInv
  <2>2. CASE answered' = answered
    BY <2>1, <2>2, DyingKeepsInv
  <2>3. ASSUME NEW c \in Codes!Live, code'[c] = "gone", made > 0,
               answered' = [answered EXCEPT ![c] = @ + 1]
        PROVE  CodesInv'
    <3>1. c \in CodeUids /\ code[c] # "gone"
      BY <2>3 DEF Codes!Live
    <3>2. answered[c] = 0 /\ 1 \in 0..Resets
      BY <2>1, <2>3, <3>1, CodesAssumption DEF CodesInv, CodesFit
    <3>3. /\ answered' \in [CodeUids -> 0..Resets] /\ answered'[c] = 1
          /\ \A d \in CodeUids \ {c} : answered'[d] = answered[d]
      BY <2>3, <3>1, <3>2 DEF CodesInv
    <3>4. \A a \in CodeUids : answered'[a] > 0 => answered'[a] = 1 /\ code'[a] = "gone"
      BY <2>1, <2>3, <3>3 DEF CodesInv
    <3> QED
      BY <2>1, <3>3, <3>4 DEF CodesInv, Codes!CodesSuperseded, Codes!Live, CodesFit
  <2> QED
    BY <1>4, <2>1, <2>2, <2>3, DropFits
<1>5. ASSUME NEW c \in CodeUids, Codes!CodeExpires(c)
      PROVE  CodesInv'
  <2>1. /\ code[c] = "fresh" /\ code' = [code EXCEPT ![c] = "expired"]
        /\ UNCHANGED <<made, codeRequest, before, answered>>
    BY <1>5 DEF Codes!CodeExpires, Codes!history
  <2>2. Later(code, code')
    BY <2>1 DEF CodesInv, CodesFit, Later, Codes!CodeStates
  <2>3. made \in Nat /\ made <= made
    BY CodesAssumption DEF CodesInv, CodesFit
  <2>4. CodesFit'
    BY <2>1, <2>2, <2>3, FitLater DEF CodesInv, CodesFit, Later
  <2> QED
    BY <2>1, <2>4, DyingKeepsInv DEF CodesInv, CodesFit
<1> QED
  BY <1>1, <1>2, <1>3, <1>4, <1>5 DEF Codes!Next, Codes!Work

\* However the transactions that send codes interleave, however often a code is
\* presented, and whatever fails: a code is dead once a later one is there, and
\* is handed out for one token at most (sendVerificationEmail,
\* sendCodeForPasswordReset, generateAccessTokenFromCode).
THEOREM OldCodesAreDead == PartsSpec => []CodesDie
<1>1. PartsInit => CodesInv
  <2> SUFFICES ASSUME PartsInit
               PROVE  CodesInv
    OBVIOUS
  <2>1. CodesFit
    BY CodesAssumption DEF PartsInit, Codes!Init, CodesFit, Fit, Codes!CodeStates
  <2> QED
    BY <2>1, CodesAssumption DEF PartsInit, Codes!Init, CodesInv, Codes!CodesSuperseded, Codes!Live
<1>2. CodesInv /\ [PartsNext]_<<part, vars, codeVars>> => CodesInv'
  <2> SUFFICES ASSUME CodesInv, [PartsNext]_<<part, vars, codeVars>>
               PROVE  CodesInv'
    OBVIOUS
  <2>1. CASE UNCHANGED codeVars
    BY <2>1
       DEF codeVars, CodesInv, CodesFit, Fit, Codes!CodesSuperseded, Codes!Live
  <2> QED
    BY <2>1, NextKeepsCodes DEF PartsNext
<1>3. CodesInv => CodesDie
  BY DEF CodesInv, CodesDie, Codes!CodesDie, Codes!RedeemedOnce, Codes!Live
<1> QED
  BY <1>1, <1>2, <1>3, PTL DEF PartsSpec

=============================================================================
