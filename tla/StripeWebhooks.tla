---------------------------- MODULE StripeWebhooks ----------------------------
(***************************************************************************)
(* The webhook of Stripe (WebhooksService), for the events of one payment  *)
(* intent and of the account of its partner: what becomes of the Payments  *)
(* and Refunds rows, of PartnerBillingConfig, and of the rows of           *)
(* Stripe_events that make the processing idempotent.                      *)
(*                                                                         *)
(* Stripe delivers an event until it is answered with a 2xx.  It may       *)
(* deliver one twice, also while the first delivery is still at work, and  *)
(* events in another order than they happened.  The process may die with   *)
(* deliveries in flight.                                                   *)
(***************************************************************************)
EXTENDS Naturals, Sequences, FiniteSets, SequencesExt

CONSTANTS
  Events,       \* the events (evt_...)
  Refunds,      \* the refunds of the payment (re_...)
  Scenarios,    \* what the payment intent and the events may be
  Deliveries,   \* the deliveries the server may be working on at one time
  MaxFailures   \* how many awaits may fail, and crashes happen

PaymentTypes == {"succeeded", "failed", "refunded", "disputed"}

\* account.updated, by what the account says of itself.
AccountTypes == {"active", "restricted", "rejected", "incomplete"}

EventTypes == PaymentTypes \cup AccountTypes

\* What charge.refunds.data says: the status of each refund in it.  The list
\* is empty, or not there at all, for a charge that is sent without it.
RefundStates == {"null", "pending", "requires_action", "succeeded", "failed", "canceled"}
RefundLists == UNION {[R -> RefundStates] : R \in SUBSET Refunds}

ASSUME WebhookAssumption ==
  /\ Scenarios \subseteq [metadata : BOOLEAN, type : [Events -> EventTypes],
                          refunds : [Events -> RefundLists]]
  /\ MaxFailures \in Nat

VARIABLES
  type,       \* the type of each event
  refunds,    \* charge.refunds.data of each event
  metadata,   \* the payment intent has sessionUid, userUid and partnerUid
  emitted,    \* the events that have happened at Stripe, oldest first
  acked,      \* the events Stripe has a 2xx for
  event,      \* Stripe_events: the status by id
  payment,    \* Payments.status of the payment intent
  parties,    \* the session, the user and the partner its metadata names exist
  refund,     \* Refunds.status of each refund, by stripeRefundId
  account,    \* PartnerBillingConfig.stripeAccountStatus
  delivery,   \* what each delivery in flight is doing
  left,       \* the refunds the loop of each delivery has not come to
  handled,    \* history: the events whose handler has run to its end
  ordered,    \* history: one delivery at a time, in the order of the events
  failures    \* how many awaits have failed

stripe == <<type, refunds, metadata, emitted>>
rows == <<payment, parties, refund, account>>
vars == <<stripe, acked, event, rows, delivery, left, handled, ordered, failures>>

-----------------------------------------------------------------------------
Steps == {"find", "record", "pay", "fail", "lookup", "refund", "list", "dispute",
          "account", "processed", "catch"}

\* The first database call of the handler of each type.
Handler ==
  [t \in EventTypes |->
     CASE t = "succeeded" -> "pay"
       [] t = "failed"    -> "fail"
       [] t = "refunded"  -> "lookup"
       [] t = "disputed"  -> "dispute"
       [] OTHER           -> "account"]

\* The enum StripeAccountStatus, and what handleAccountUpdated wants to save.
StripeAccountStatus == {"PENDING", "ACTIVE", "RESTRICTED", "DISABLED"}

\* The enum RefundStatus, and what handleChargeRefunded wants to save:
\* status?.toUpperCase() || 'PENDING'.
RefundStatus == {"PENDING", "SUCCEEDED", "FAILED", "CANCELED"}

RefundStatusOf ==
  [null |-> "PENDING", pending |-> "PENDING", requires_action |-> "REQUIRES_ACTION",
   succeeded |-> "SUCCEEDED", failed |-> "FAILED", canceled |-> "CANCELED"]

StatusOf ==
  [active |-> "ACTIVE", restricted |-> "RESTRICTED", rejected |-> "REJECTED",
   incomplete |-> "PENDING"]

Idle == [pc |-> "idle"]
Delivery == [pc : Steps, event : Events]

InFlight(d) == delivery[d] # Idle
At(d, pc) == delivery[d].pc = pc
Emitted == ToSet(emitted)
Happened(types) == \E e \in Emitted : type[e] \in types

Init ==
  /\ \E s \in Scenarios :
       metadata = s.metadata /\ type = s.type /\ refunds = s.refunds
  /\ emitted = << >>
  /\ acked = {}
  /\ event = [e \in Events |-> "none"]
  /\ payment = "none"
  /\ parties = TRUE
  /\ refund = [r \in Refunds |-> "none"]
  /\ account = "PENDING"
  /\ delivery = [d \in Deliveries |-> Idle]
  /\ left = [d \in Deliveries |-> {}]
  /\ handled = {}
  /\ ordered = TRUE
  /\ failures = 0

-----------------------------------------------------------------------------
(* Stripe.                                                                 *)

\* A payment intent fails any number of times before it succeeds, once; it
\* is refunded, and disputed, after that.  An account changes at any time.
StripeEmits(e) ==
  /\ e \notin Emitted
  /\ type[e] \in {"succeeded", "failed"} => ~Happened({"succeeded"})
  /\ type[e] \in {"refunded", "disputed"} => Happened({"succeeded"})
  /\ emitted' = Append(emitted, e)
  /\ UNCHANGED <<type, refunds, metadata, acked, event, rows, delivery, left>>
  /\ UNCHANGED <<handled, ordered, failures>>

\* Nothing is in flight, and every event before e has its 2xx.
InTurn(e) ==
  /\ \A d \in Deliveries : ~InFlight(d)
  /\ \A i, j \in 1..Len(emitted) : i < j /\ emitted[j] = e => emitted[i] \in acked

\* A first delivery, a retry, or a duplicate.
StripeDelivers(d, e) ==
  /\ e \in Emitted
  /\ ~InFlight(d)
  /\ delivery' = [delivery EXCEPT ![d] = [pc |-> "find", event |-> e]]
  /\ ordered' = (ordered /\ InTurn(e))
  /\ UNCHANGED <<stripe, acked, event, rows, left, handled, failures>>

\* The session or the user of a payment goes while there is no row of it; the
\* foreign keys of the row, once it is there, keep them (onDelete: Restrict).
PartyDeleted ==
  /\ parties
  /\ payment = "none"
  /\ parties' = FALSE
  /\ UNCHANGED <<stripe, acked, event, payment, refund, account, delivery, left>>
  /\ UNCHANGED <<handled, ordered, failures>>

-----------------------------------------------------------------------------
(* processStripeEvent, up to the switch on the type.                       *)

Goto(d, pc) == delivery' = [delivery EXCEPT ![d].pc = pc]

Answer(d, ok) ==
  /\ delivery' = [delivery EXCEPT ![d] = Idle]
  /\ acked' = IF ok THEN acked \cup {delivery[d].event} ELSE acked

\* "Idempotency Check": an event on record as PROCESSED is ignored.
FindEvent(d) ==
  /\ At(d, "find")
  /\ IF event[delivery[d].event] = "PROCESSED"
     THEN Answer(d, TRUE)
     ELSE Goto(d, "record") /\ UNCHANGED acked
  /\ UNCHANGED <<stripe, event, rows, left, handled, ordered, failures>>

\* The upsert sets PROCESSING, whatever the row says by now.
RecordEvent(d) ==
  /\ At(d, "record")
  /\ event' = [event EXCEPT ![delivery[d].event] = "PROCESSING"]
  /\ Goto(d, Handler[type[delivery[d].event]])
  /\ UNCHANGED <<stripe, acked, rows, left, handled, ordered, failures>>

-----------------------------------------------------------------------------
(* The handlers.                                                           *)

\* The handler goes on to pc; when it returns, the event is handled.
Continue(d, pc) ==
  /\ Goto(d, pc)
  /\ handled' = IF pc = "processed" THEN handled \cup {delivery[d].event} ELSE handled
  /\ UNCHANGED <<stripe, acked, event, parties, ordered, failures>>

\* An update of the row of the payment throws when there is none.
UpdatePayment(d, status, pc) ==
  /\ payment' = IF payment = "none" THEN "none" ELSE status
  /\ Continue(d, IF payment = "none" THEN "catch" ELSE pc)
  /\ UNCHANGED <<refund, account>>

\* Mutant: a payment intent without metadata is an error.
HandlePaymentIntentSucceededStrict(d) ==
  LET created == metadata /\ (payment # "none" \/ parties) IN
  /\ At(d, "pay")
  /\ payment' = IF created THEN "SUCCESS" ELSE payment
  /\ Continue(d, IF created THEN "processed" ELSE "catch")
  /\ UNCHANGED <<refund, account, left>>

\* Without the metadata no row is made, and the event is done.  With it a row
\* becomes SUCCESS, also one that is REFUNDED or DISPUTED; the first row needs
\* the session, the user and the partner, and the foreign keys refuse it, on
\* every retry, when one of them is gone.
HandlePaymentIntentSucceeded(d) ==
  LET refused == metadata /\ payment = "none" /\ ~parties IN
  /\ At(d, "pay")
  /\ payment' = IF metadata /\ ~refused THEN "SUCCESS" ELSE payment
  /\ Continue(d, IF refused THEN "catch" ELSE "processed")
  /\ UNCHANGED <<refund, account, left>>

HandlePaymentIntentFailed(d) ==
  At(d, "fail") /\ UpdatePayment(d, "FAILED", "processed") /\ UNCHANGED left

HandleChargeDisputeCreated(d) ==
  At(d, "dispute") /\ UpdatePayment(d, "DISPUTED", "processed") /\ UNCHANGED left

\* Mutant: a refund of a payment that is disputed is set aside.
FindRefundedUndisputed(d) ==
  /\ At(d, "lookup")
  /\ Continue(d, IF payment \in {"none", "DISPUTED"} THEN "processed" ELSE "refund")
  /\ UNCHANGED <<payment, refund, account, left>>

\* handleChargeRefunded: a refund of a payment that is not on record yet is
\* dropped, and counts as processed.
FindRefunded(d) ==
  /\ At(d, "lookup")
  /\ Continue(d, IF payment = "none" THEN "processed" ELSE "refund")
  /\ UNCHANGED <<payment, refund, account, left>>

\* The loop is skipped for a charge without a list of refunds.
RefundPayment(d) ==
  LET listed == DOMAIN refunds[delivery[d].event] IN
  /\ At(d, "refund")
  /\ UpdatePayment(d, "REFUNDED", IF listed = {} THEN "processed" ELSE "list")
  /\ left' = IF payment = "none" THEN left ELSE [left EXCEPT ![d] = listed]

\* Mutant: only the first refund of the list is looked at.
UpsertFirstRefund(d) ==
  /\ At(d, "list")
  /\ \E r \in left[d] :
       LET status == RefundStatusOf[refunds[delivery[d].event][r]] IN
       /\ refund' = IF status \in RefundStatus THEN [refund EXCEPT ![r] = status] ELSE refund
       /\ Continue(d, IF status \in RefundStatus THEN "processed" ELSE "catch")
  /\ left' = [left EXCEPT ![d] = {}]
  /\ UNCHANGED <<payment, account>>

\* The upsert throws, on every retry, for a status that the enum does not have.
UpsertRefundRow(d, r) ==
  LET status == RefundStatusOf[refunds[delivery[d].event][r]] IN
  \/ /\ status \in RefundStatus
     /\ refund' = [refund EXCEPT ![r] = status]
     /\ left' = [left EXCEPT ![d] = @ \ {r}]
     /\ Continue(d, IF left[d] = {r} THEN "processed" ELSE "list")
  \/ /\ status \notin RefundStatus
     /\ left' = [left EXCEPT ![d] = {}]
     /\ Continue(d, "catch")
     /\ UNCHANGED refund

\* One round of the loop, for the refunds of the list in any order.
UpsertRefund(d) ==
  /\ At(d, "list")
  /\ \E r \in left[d] : UpsertRefundRow(d, r)
  /\ UNCHANGED <<payment, account>>

\* An update that fails, for an unknown account or with a status the enum
\* does not have, is logged and goes for processed.
HandleAccountUpdated(d) ==
  LET status == StatusOf[type[delivery[d].event]] IN
  /\ At(d, "account")
  /\ account' = IF status \in StripeAccountStatus THEN status ELSE account
  /\ Continue(d, "processed")
  /\ UNCHANGED <<payment, refund, left>>

-----------------------------------------------------------------------------
(* processStripeEvent, after the switch.                                   *)

MarkProcessed(d) ==
  /\ At(d, "processed")
  /\ event' = [event EXCEPT ![delivery[d].event] = "PROCESSED"]
  /\ Answer(d, TRUE)
  /\ UNCHANGED <<stripe, rows, left, handled, ordered, failures>>

\* Mutant: the error is logged and not thrown again.
MarkFailedSwallowed(d) ==
  /\ At(d, "catch")
  /\ event' = [event EXCEPT ![delivery[d].event] = "FAILED"]
  /\ Answer(d, TRUE)
  /\ UNCHANGED <<stripe, rows, left, handled, ordered, failures>>

\* The catch block: FAILED, and the error again, so that Stripe retries.
MarkFailed(d) ==
  /\ At(d, "catch")
  /\ event' = [event EXCEPT ![delivery[d].event] = "FAILED"]
  /\ Answer(d, FALSE)
  /\ UNCHANGED <<stripe, rows, left, handled, ordered, failures>>

\* An await rejects: inside the try block it leads to the catch block, before
\* it and in the catch block itself to a 500.  handleAccountUpdated has a try
\* block of its own, which logs the error and goes on.
AwaitFails(d) ==
  /\ InFlight(d)
  /\ failures < MaxFailures
  /\ failures' = failures + 1
  /\ \/ /\ delivery[d].pc \in {"find", "record", "catch"}
        /\ Answer(d, FALSE)
        /\ UNCHANGED handled
     \/ /\ delivery[d].pc = "account"
        /\ Goto(d, "processed")
        /\ handled' = handled \cup {delivery[d].event}
        /\ UNCHANGED acked
     \/ /\ delivery[d].pc \notin {"find", "record", "catch", "account"}
        /\ Goto(d, "catch")
        /\ UNCHANGED <<acked, handled>>
  /\ left' = [left EXCEPT ![d] = {}]
  /\ UNCHANGED <<stripe, event, rows, ordered>>

\* The process dies, with every delivery in it; Stripe will retry them.
Crash ==
  /\ \E d \in Deliveries : InFlight(d)
  /\ failures < MaxFailures
  /\ failures' = failures + 1
  /\ delivery' = [d \in Deliveries |-> Idle]
  /\ left' = [d \in Deliveries |-> {}]
  /\ UNCHANGED <<stripe, acked, event, rows, handled, ordered>>

\* The next database call of the delivery d.
Work(d) ==
  \/ FindEvent(d) \/ RecordEvent(d)
  \/ HandlePaymentIntentSucceeded(d) \/ HandlePaymentIntentFailed(d)
  \/ FindRefunded(d) \/ RefundPayment(d) \/ UpsertRefund(d)
  \/ HandleChargeDisputeCreated(d) \/ HandleAccountUpdated(d)
  \/ MarkProcessed(d) \/ MarkFailed(d)

Next ==
  \/ \E e \in Events : StripeEmits(e) \/ \E d \in Deliveries : StripeDelivers(d, e)
  \/ \E d \in Deliveries : Work(d) \/ AwaitFails(d)
  \/ PartyDeleted
  \/ Crash

Spec == Init /\ [][Next]_vars

\* Node keeps running the handlers, and Stripe keeps delivering an event that
\* it has no 2xx for.
FairSpec ==
  /\ Spec
  /\ \A d \in Deliveries : WF_vars(Work(d))
  /\ \A e \in Events : SF_vars(e \notin acked /\ \E d \in Deliveries : StripeDelivers(d, e))

-----------------------------------------------------------------------------
(* Properties.                                                             *)

\* Every row, delivery and history keeps its type; an event has a row before
\* its handler runs.
TypeOK ==
  /\ type \in [Events -> EventTypes] /\ refunds \in [Events -> RefundLists]
  /\ metadata \in BOOLEAN /\ ordered \in BOOLEAN /\ parties \in BOOLEAN
  /\ emitted \in Seq(Events)
  /\ acked \subseteq Emitted /\ handled \subseteq Emitted
  /\ event \in [Events -> {"none", "PROCESSING", "PROCESSED", "FAILED"}]
  /\ payment \in {"none", "SUCCESS", "FAILED", "REFUNDED", "DISPUTED"}
  /\ refund \in [Refunds -> RefundStatus \cup {"none"}]
  /\ account \in StripeAccountStatus
  /\ delivery \in [Deliveries -> Delivery \cup {Idle}]
  /\ left \in [Deliveries -> SUBSET Refunds]
  /\ \A d \in Deliveries : InFlight(d) /\ ~At(d, "find") /\ ~At(d, "record") =>
       event[delivery[d].event] # "none"
  /\ failures \in 0..MaxFailures

\* Stripe is answered with a 2xx for an event whose handler has run to its
\* end, in this delivery or in an earlier one: no failure and no crash makes
\* an event disappear half-way.
AckedWasHandled == acked \subseteq handled

\* The database refuses what the handler of e writes, however often it is run:
\* the row of a payment whose session, user or partner is gone, and the row of
\* a refund in a status that RefundStatus does not have.
Refused(e) ==
  \/ type[e] = "succeeded" /\ metadata /\ payment = "none" /\ ~parties
  \/ /\ type[e] = "refunded" /\ payment # "none"
     /\ \E r \in DOMAIN refunds[e] : RefundStatusOf[refunds[e][r]] \notin RefundStatus

\* The event that says a payment was made is dealt with in the end, whatever
\* fails in between, and so is each refund, but for those the database refuses:
\* these alone are retried for ever.
MoneyEventsAreHandled ==
  \A e \in Events : type[e] \in {"succeeded", "refunded"} =>
    (e \in Emitted ~> e \in acked \/ Refused(e))

\* What the payment is, going by its last event.
Image(e) ==
  CASE type[e] = "succeeded" -> "SUCCESS"
    [] type[e] = "refunded"  -> "REFUNDED"
    [] type[e] = "disputed"  -> "DISPUTED"
    [] type[e] = "failed"    -> "FAILED"

\* The payment event Stripe has emitted last, by its place in emitted.
IsLatest(i) ==
  /\ type[emitted[i]] \in PaymentTypes
  /\ \A j \in DOMAIN emitted : j > i => type[emitted[j]] \notin PaymentTypes

\* The event e has the refund r in its list, and the last one that has.
Lists(e, r) == type[e] = "refunded" /\ r \in DOMAIN refunds[e]

IsLatestOf(i, r) ==
  /\ Lists(emitted[i], r)
  /\ \A j \in DOMAIN emitted : j > i => ~Lists(emitted[j], r)

RefundImage(e, r) == RefundStatusOf[refunds[e][r]]

\* As long as deliveries have come one at a time and in order, the rows of the
\* payment and of its refunds agree with what Stripe said last whenever Stripe
\* has nothing left to deliver, in spite of retries, and of crashes in the
\* middle of a handler.  A refund that no charge was sent with has no row.
PaymentFollowsStripe ==
  (ordered /\ metadata /\ Emitted = acked /\ \A d \in Deliveries : ~InFlight(d))
  => /\ \A i \in DOMAIN emitted : IsLatest(i) => payment = Image(emitted[i])
     /\ \A i \in DOMAIN emitted, r \in Refunds :
          IsLatestOf(i, r) => refund[r] = RefundImage(emitted[i], r)
     /\ \A r \in Refunds :
          refund[r] # "none" => \E i \in DOMAIN emitted : Lists(emitted[i], r)
=============================================================================
