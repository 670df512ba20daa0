---------------------------- MODULE ConnectAccounts ----------------------------
(***************************************************************************)
(* The Stripe account of a partner (PaymentService): opened and closed by  *)
(* two calls to Stripe that no transaction binds to the row of             *)
(* PartnerBillingConfig, while the webhook account.updated writes to the   *)
(* same row what Stripe thinks of the account (WebhooksService).           *)
(*                                                                         *)
(* Stripe may do what it is asked and the answer get lost.  Its events     *)
(* come late, more than once and in any order.                             *)
(***************************************************************************)
EXTENDS Naturals, Sequences, FiniteSets

CONSTANTS
  Accounts,     \* the accounts Stripe may come to open (acct_...)
  NoAccount,    \* stripeAccountId is null
  Requests,     \* the requests the server may be working on at one time
  MaxEvents,    \* how many times the standing of an account may change
  MaxFailures   \* how many awaits may fail

ConnectAssumption ==
  /\ NoAccount \notin Accounts
  /\ MaxEvents \in Nat
  /\ MaxFailures \in Nat

VARIABLES
  billing,    \* PartnerBillingConfig of the partner: account, status, and whether the row is there
  stripe,     \* the accounts at Stripe
  events,     \* the events account.updated, oldest first
  request,    \* what each request in flight is doing
  delivered,  \* history: the last event delivered, while none came out of turn
  dropped,    \* history: an event has found no row, or an account came after another
  broken,     \* history: the accounts at hand when an await failed
  rivals,     \* history: the accounts of requests that opened them side by side
  forgotten,  \* history: the accounts the row named when the clear of another came
  failures    \* how many awaits have failed

vars ==
  <<billing, stripe, events, request, delivered, dropped, broken, rivals, forgotten, failures>>

-----------------------------------------------------------------------------
Standings == {"incomplete", "active", "restricted", "rejected"}
StripeAccountStatus == {"PENDING", "ACTIVE", "RESTRICTED", "DISABLED"}

\* What handleAccountUpdated makes of charges_enabled, payouts_enabled and
\* disabled_reason; the enum of the column has no REJECTED.
StatusOf ==
  [incomplete |-> "PENDING", active |-> "ACTIVE",
   restricted |-> "RESTRICTED", rejected |-> "REJECTED"]

Event == [account : Accounts, standing : Standings]

\* The end of the events, once one of them has come out of turn.
OutOfTurn == MaxEvents + 1

Steps == {"find", "open", "save", "found", "close", "clear"}
Idle == [pc |-> "idle", account |-> NoAccount, alone |-> TRUE]
Request == [pc : Steps, account : Accounts \cup {NoAccount}, alone : BOOLEAN]

InFlight(r) == request[r].pc # "idle"
At(r, pc) == request[r].pc = pc
Opening(r) == request[r].pc \in {"find", "open", "save"}

Init ==
  /\ billing = [row |-> FALSE, account |-> NoAccount, status |-> "PENDING"]
  /\ stripe = [a \in Accounts |-> "none"]
  /\ events = <<>>
  /\ request = [r \in Requests |-> Idle]
  /\ delivered = 0
  /\ dropped = FALSE
  /\ broken = {}
  /\ rivals = {}
  /\ forgotten = {}
  /\ failures = 0

-----------------------------------------------------------------------------
(* The partner.                                                            *)

hist == <<delivered, dropped, broken, rivals, forgotten, failures>>

Goto(r, pc) == request' = [request EXCEPT ![r].pc = pc]
Answer(r) == request' = [request EXCEPT ![r] = Idle]

\* POST stripe-connect-account; alone is lost to any other that is opening one.
ConnectArrives(r) ==
  /\ ~InFlight(r)
  /\ LET others == {p \in Requests : Opening(p)} IN
     request' = [p \in Requests |->
       IF p = r THEN [pc |-> "find", account |-> NoAccount, alone |-> others = {}]
       ELSE IF p \in others THEN [request[p] EXCEPT !.alone = FALSE] ELSE request[p]]
  /\ UNCHANGED <<billing, stripe, events, hist>>

FindNoAccount(r) ==
  /\ At(r, "find")
  /\ IF billing.account = NoAccount THEN Goto(r, "open") ELSE Answer(r)
  /\ UNCHANGED <<billing, stripe, events, hist>>

\* stripe.accounts.create.
OpenAccount(r) ==
  /\ At(r, "open")
  /\ \E a \in Accounts :
       /\ stripe[a] = "none"
       /\ stripe' = [stripe EXCEPT ![a] = "incomplete"]
       /\ request' = [request EXCEPT ![r].pc = "save", ![r].account = a]
  /\ UNCHANGED <<billing, events, hist>>

\* Mutant: the update of the upsert leaves the account that is there.
SaveFirstAccount(r) ==
  /\ At(r, "save")
  /\ billing' = IF billing.row THEN billing
                ELSE [row |-> TRUE, account |-> request[r].account, status |-> "PENDING"]
  /\ dropped' = (dropped \/ billing.row)
  /\ rivals' = IF request[r].alone THEN rivals ELSE rivals \cup {request[r].account}
  /\ Answer(r)
  /\ UNCHANGED <<stripe, events, delivered, broken, forgotten, failures>>

\* The upsert: a row that is there gets the account and keeps its status.
SaveAccount(r) ==
  /\ At(r, "save")
  /\ billing' = IF billing.row THEN [billing EXCEPT !.account = request[r].account]
                ELSE [row |-> TRUE, account |-> request[r].account, status |-> "PENDING"]
  /\ dropped' = (dropped \/ billing.row)
  /\ rivals' = IF request[r].alone THEN rivals ELSE rivals \cup {request[r].account}
  /\ Answer(r)
  /\ UNCHANGED <<stripe, events, delivered, broken, forgotten, failures>>

\* deleteStripeConnectAccount.  No endpoint calls it yet.
DisconnectArrives(r) ==
  /\ ~InFlight(r)
  /\ request' = [request EXCEPT ![r] = [pc |-> "found", account |-> NoAccount, alone |-> TRUE]]
  /\ UNCHANGED <<billing, stripe, events, hist>>

FindAccount(r) ==
  /\ At(r, "found")
  /\ IF billing.account = NoAccount THEN Answer(r)
     ELSE request' = [request EXCEPT ![r].pc = "close", ![r].account = billing.account]
  /\ UNCHANGED <<billing, stripe, events, hist>>

\* Mutant: the answer of Stripe is not waited for.
CloseUnawaited(r) ==
  /\ At(r, "close")
  /\ stripe' = [stripe EXCEPT ![request[r].account] = "deleted"]
  /\ Answer(r)
  /\ UNCHANGED <<billing, events, hist>>

\* stripe.accounts.del, which throws for an account that is no longer there.
CloseAccount(r) ==
  LET a == request[r].account IN
  /\ At(r, "close")
  /\ IF stripe[a] = "deleted" THEN Answer(r) /\ UNCHANGED stripe
     ELSE stripe' = [stripe EXCEPT ![a] = "deleted"] /\ Goto(r, "clear")
  /\ UNCHANGED <<billing, events, hist>>

\* Whatever account the row names by now is forgotten, and the status kept.
ClearAccount(r) ==
  /\ At(r, "clear")
  /\ billing' = [billing EXCEPT !.account = NoAccount]
  /\ forgotten' = forgotten \cup ({billing.account} \ {NoAccount, request[r].account})
  /\ Answer(r)
  /\ UNCHANGED <<stripe, events, delivered, dropped, broken, rivals, failures>>

\* An await fails.  A call to Stripe may have been carried out all the same.
AwaitFails(r) ==
  LET a == request[r].account IN
  /\ InFlight(r)
  /\ failures < MaxFailures
  /\ failures' = failures + 1
  /\ \/ stripe' = stripe /\ broken' = broken \cup ({a} \ {NoAccount})
     \/ /\ At(r, "close") /\ stripe[a] # "deleted"
        /\ stripe' = [stripe EXCEPT ![a] = "deleted"]
        /\ broken' = broken \cup {a}
     \/ /\ At(r, "open")
        /\ \E b \in Accounts :
             /\ stripe[b] = "none"
             /\ stripe' = [stripe EXCEPT ![b] = "incomplete"]
             /\ broken' = broken \cup {b}
  /\ Answer(r)
  /\ UNCHANGED <<billing, events, delivered, dropped, rivals, forgotten>>

-----------------------------------------------------------------------------
(* Stripe.                                                                 *)

Live == {a \in Accounts : stripe[a] \notin {"none", "deleted"}}

\* The partner fills in a form, or a deadline passes.
StripeChanges(a, standing) ==
  /\ a \in Live
  /\ standing # stripe[a]
  /\ Len(events) < MaxEvents
  /\ stripe' = [stripe EXCEPT ![a] = standing]
  /\ events' = Append(events, [account |-> a, standing |-> standing])
  /\ UNCHANGED <<billing, request, hist>>

\* What an event says of the turn it comes in.
Hear(i) ==
  /\ delivered' = IF i \in {delivered, delivered + 1} THEN i ELSE OutOfTurn
  /\ dropped' = (dropped \/ events[i].account # billing.account)
  /\ UNCHANGED <<stripe, events, request, broken, rivals, forgotten, failures>>

\* Mutant: a status is written once and for all.
HandleFirstUpdate(i) ==
  /\ IF events[i].account = billing.account /\ events[i].standing # "rejected"
        /\ billing.status = "PENDING"
     THEN billing' = [billing EXCEPT !.status = StatusOf[events[i].standing]]
     ELSE UNCHANGED billing
  /\ Hear(i)

\* handleAccountUpdated: the update throws where no row names the account, and
\* where the status is none of the enum; either error is logged and the event
\* acknowledged.
HandleAccountUpdated(i) ==
  /\ IF /\ events[i].account = billing.account
        /\ StatusOf[events[i].standing] \in StripeAccountStatus
     THEN billing' = [billing EXCEPT !.status = StatusOf[events[i].standing]]
     ELSE UNCHANGED billing
  /\ Hear(i)

Work(r) ==
  \/ FindNoAccount(r) \/ OpenAccount(r) \/ SaveAccount(r)
  \/ FindAccount(r) \/ CloseAccount(r) \/ ClearAccount(r)

Next ==
  \/ \E r \in Requests : ConnectArrives(r) \/ DisconnectArrives(r) \/ Work(r) \/ AwaitFails(r)
  \/ \E a \in Accounts, standing \in Standings : StripeChanges(a, standing)
  \/ \E i \in 1 .. Len(events) : HandleAccountUpdated(i)

Spec == Init /\ [][Next]_vars

-----------------------------------------------------------------------------
(* Properties.                                                             *)

\* The row, the accounts and the requests keep their types, and a request that
\* has an account at hand has it from Stripe.
TypeOK ==
  /\ billing \in [row : BOOLEAN, account : Accounts \cup {NoAccount},
                  status : StripeAccountStatus]
  /\ ~billing.row => billing.account = NoAccount /\ billing.status = "PENDING"
  /\ stripe \in [Accounts -> Standings \cup {"none", "deleted"}]
  /\ events \in Seq(Event) /\ Len(events) <= MaxEvents
  /\ request \in [Requests -> Request \cup {Idle}]
  /\ \A r \in Requests :
       At(r, "save") \/ At(r, "close") \/ At(r, "clear") =>
         request[r].account \in Accounts /\ stripe[request[r].account] # "none"
  /\ delivered \in 0 .. OutOfTurn /\ dropped \in BOOLEAN
  /\ broken \subseteq Accounts /\ rivals \subseteq Accounts /\ forgotten \subseteq Accounts
  /\ failures \in 0 .. MaxFailures

\* The row names an account that is gone from Stripe only until the request
\* that closed it clears the row, unless an await has failed in between: such a
\* partner can neither open an account ("already exists") nor close it.
ClosedIsCleared ==
  \A a \in Accounts :
    stripe[a] = "deleted" /\ billing.account = a =>
      a \in broken \/ \E r \in Requests : At(r, "clear") /\ request[r].account = a

\* An account at Stripe is the one of the row, or about to be, unless an await
\* failed on its way or two requests opened accounts side by side: both find
\* none, and the row names the account of the last.  A close that began before
\* the last was saved may then clear the row of a third.
NoLostAccount ==
  /\ Live \subseteq
       {billing.account} \cup {request[r].account : r \in {p \in Requests : At(p, "save")}}
         \cup broken \cup rivals \cup forgotten
  /\ forgotten # {} => rivals # {}

\* The row names the account that Stripe has, but for accidents of these kinds
\* (createStripeConnectAccount, deleteStripeConnectAccount).
RowNamesTheAccount == NoLostAccount /\ ClosedIsCleared

\* What Stripe has said so far, rejections left out.
Accepted == {i \in 1 .. Len(events) : i <= delivered /\ events[i].standing # "rejected"}

\* A partner with one account, whose events have come in turn, has the status
\* of the last event that was no rejection: a rejection leaves the status that
\* was there, ACTIVE as the case may be.
StatusFollowsStripe ==
  \/ dropped \/ delivered = OutOfTurn
  \/ billing.status =
       IF Accepted = {} THEN "PENDING"
       ELSE StatusOf[events[CHOOSE i \in Accepted : \A j \in Accepted : j <= i].standing]
=============================================================================
