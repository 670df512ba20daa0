------------------------- MODULE StripeWebhooks_proofs -------------------------
(***************************************************************************)
(* Theorems about StripeWebhooks, for any events, deliveries at work and   *)
(* number of failures and crashes.                                         *)
(***************************************************************************)
EXTENDS StripeWebhooks, TLAPS

\* The type of event each step of a handler deals with.
DealsWith ==
  [pay |-> {"succeeded"}, fail |-> {"failed"}, lookup |-> {"refunded"},
   refund |-> {"refunded"}, list |-> {"refunded"}, dispute |-> {"disputed"},
   account |-> AccountTypes]

RightHandler ==
  \A d \in Deliveries : InFlight(d) =>
    /\ delivery[d].event \in Emitted
    /\ delivery[d].pc \in DOMAIN DealsWith =>
         type[delivery[d].event] \in DealsWith[delivery[d].pc]

\* Stripe emits an event once, and a refund or a dispute after the success.
EmittedInOrder ==
  /\ \A i, j \in DOMAIN emitted : emitted[i] = emitted[j] => i = j
  /\ \A j \in DOMAIN emitted : type[emitted[j]] \in {"refunded", "disputed"} =>
       \E i \in DOMAIN emitted : i < j /\ type[emitted[i]] = "succeeded"

TypeInv == TypeOK /\ RightHandler /\ EmittedInOrder

\* What AckedWasHandled rests on: the row of an event says PROCESSED, and a
\* delivery is about to say so, only when the handler has run to its end.
AckInv ==
  /\ \A d \in Deliveries : At(d, "processed") => delivery[d].event \in handled
  /\ \A e \in Events : event[e] = "PROCESSED" => e \in acked
  /\ AckedWasHandled

\* What deliveries in order mean: one is in flight at a time, it is of the
\* oldest event without a 2xx or finds its event PROCESSED, and Stripe has a
\* 2xx for the first events it has emitted and for no other.
OneAtATime ==
  \A c, d \in Deliveries : InFlight(c) /\ InFlight(d) => c = d

AckedIsPrefix ==
  \A i, j \in DOMAIN emitted : i < j /\ emitted[j] \in acked => emitted[i] \in acked

EarlierAreAcked(e) ==
  \A i, j \in DOMAIN emitted : i < j /\ emitted[j] = e => emitted[i] \in acked

OrderInv ==
  ordered =>
    /\ OneAtATime
    /\ AckedIsPrefix
    /\ \A e \in acked : event[e] = "PROCESSED"
    /\ \A d \in Deliveries : InFlight(d) => EarlierAreAcked(delivery[d].event)
    /\ \A d \in Deliveries : InFlight(d) /\ ~At(d, "find") => delivery[d].event \notin acked

\* The last payment event with a 2xx, and the first event without one.
IsLatestAcked(i) ==
  /\ emitted[i] \in acked
  /\ type[emitted[i]] \in PaymentTypes
  /\ \A j \in DOMAIN emitted :
       j > i /\ emitted[j] \in acked => type[emitted[j]] \notin PaymentTypes

IsNext(j) ==
  /\ emitted[j] \notin acked
  /\ \A i \in DOMAIN emitted : i < j => emitted[i] \in acked

\* A delivery of the event j has written the payment and stopped short.
Begun ==
  \E j \in DOMAIN emitted :
    IsNext(j) /\ type[emitted[j]] \in PaymentTypes /\ payment = Image(emitted[j])

\* The payment follows the last event with a 2xx, or the one after it whose
\* handler has got as far as its write; a handler that is through has written.
PaymentIsLatest ==
  \A i \in DOMAIN emitted : IsLatestAcked(i) => payment = Image(emitted[i]) \/ Begun

SuccessHasRow == \A e \in acked : type[e] = "succeeded" => payment # "none"

HandlerHasWritten(d) ==
  LET e == delivery[d].event IN
  /\ At(d, "processed") /\ type[e] \in PaymentTypes => payment = Image(e)
  /\ At(d, "list") => payment = "REFUNDED"

PayInv ==
  ordered /\ metadata =>
    PaymentIsLatest /\ SuccessHasRow /\ \A d \in Deliveries : HandlerHasWritten(d)

\* The same of a refund, for the last event with a 2xx that lists it.
IsLatestAckedOf(i, r) ==
  /\ emitted[i] \in acked
  /\ Lists(emitted[i], r)
  /\ \A j \in DOMAIN emitted : j > i /\ emitted[j] \in acked => ~Lists(emitted[j], r)

RefundBegun(r) ==
  \E j \in DOMAIN emitted :
    IsNext(j) /\ Lists(emitted[j], r) /\ refund[r] = RefundImage(emitted[j], r)

RefundIsLatest(r) ==
  \A i \in DOMAIN emitted :
    IsLatestAckedOf(i, r) => refund[r] = RefundImage(emitted[i], r) \/ RefundBegun(r)

RefundIsListed(r) ==
  refund[r] # "none" => \E i \in DOMAIN emitted : Lists(emitted[i], r)

\* The loop over a list has written what is not left of it.
LoopHasWritten(d) ==
  LET e == delivery[d].event
      Written(R) == \A r \in R : refund[r] = RefundImage(e, r) IN
  /\ At(d, "processed") /\ type[e] = "refunded" => Written(DOMAIN refunds[e])
  /\ At(d, "list") => left[d] \subseteq DOMAIN refunds[e] /\ Written(DOMAIN refunds[e] \ left[d])

RefundInv ==
  ordered /\ metadata =>
    /\ \A r \in Refunds : RefundIsLatest(r) /\ RefundIsListed(r)
    /\ \A d \in Deliveries : LoopHasWritten(d)

-----------------------------------------------------------------------------
(* The deliveries.                                                         *)

\* A delivery at a step is in flight, for an event.
LEMMA InFlightIsDelivery ==
  ASSUME TypeOK, NEW d \in Deliveries
  PROVE  /\ InFlight(d) => delivery[d] \in Delivery
         /\ ~InFlight(d) => delivery[d] = Idle
         /\ \A pc \in Steps : At(d, pc) => InFlight(d)
  BY DEF TypeOK, InFlight, At, Idle, Delivery, Steps

\* A delivery that goes on to pc keeps its event.
LEMMA GotoMoves ==
  ASSUME TypeOK, NEW d \in Deliveries, InFlight(d), NEW pc \in Steps, Goto(d, pc)
  PROVE  /\ delivery' \in [Deliveries -> Delivery \cup {Idle}]
         /\ delivery'[d].pc = pc /\ delivery'[d].event = delivery[d].event
         /\ delivery'[d] # Idle
         /\ \A c \in Deliveries : c # d => delivery'[c] = delivery[c]
<1> DEFINE n == [delivery[d] EXCEPT !.pc = pc]
<1>1. delivery[d] \in Delivery
  BY InFlightIsDelivery
<1>2. n \in Delivery /\ n.pc = pc /\ n.event = delivery[d].event
  BY <1>1 DEF Delivery
<1>3. delivery' = [delivery EXCEPT ![d] = n]
  BY DEF Goto, TypeOK
<1>4. n # Idle
  BY <1>2 DEF Idle, Steps
<1> HIDE DEF n
<1> QED
  BY <1>2, <1>3, <1>4 DEF TypeOK

\* A delivery that is answered frees its place.
LEMMA AnswerMoves ==
  ASSUME TypeOK, NEW d \in Deliveries, NEW ok, Answer(d, ok)
  PROVE  /\ delivery' \in [Deliveries -> Delivery \cup {Idle}]
         /\ delivery'[d] = Idle
         /\ \A c \in Deliveries : c # d => delivery'[c] = delivery[c]
  BY DEF Answer, TypeOK

\* A place that is free is at no step.
LEMMA IdleIsNowhere == \A pc \in Steps : Idle.pc # pc
  BY DEF Idle, Steps

\* The image of an event is a status of the payment.
LEMMA ImageOfType ==
  ASSUME NEW e
  PROVE  /\ type[e] = "succeeded" => Image(e) = "SUCCESS"
         /\ type[e] = "refunded" => Image(e) = "REFUNDED"
         /\ type[e] = "disputed" => Image(e) = "DISPUTED"
         /\ type[e] = "failed" => Image(e) = "FAILED"
  BY DEF Image

-----------------------------------------------------------------------------
(* Types.                                                                  *)

\* A delivery that goes on within its types.
LEMMA GotoKeepsType ==
  ASSUME TypeInv, NEW d \in Deliveries, InFlight(d), NEW pc \in Steps, Goto(d, pc),
         pc \in DOMAIN DealsWith => type[delivery[d].event] \in DealsWith[pc],
         UNCHANGED <<stripe, acked, ordered>>,
         handled' \subseteq Emitted,
         event' \in [Events -> {"none", "PROCESSING", "PROCESSED", "FAILED"}],
         \A e \in Events : event[e] # "none" => event'[e] # "none",
         pc \notin {"find", "record"} => event'[delivery[d].event] # "none",
         payment' \in {"none", "SUCCESS", "FAILED", "REFUNDED", "DISPUTED"},
         refund' \in [Refunds -> RefundStatus \cup {"none"}], account' \in StripeAccountStatus,
         parties' \in BOOLEAN, left' \in [Deliveries -> SUBSET Refunds],
         failures' \in 0..MaxFailures
  PROVE  TypeInv'
<1>1. /\ delivery' \in [Deliveries -> Delivery \cup {Idle}]
      /\ delivery'[d].pc = pc /\ delivery'[d].event = delivery[d].event
      /\ \A c \in Deliveries : c # d => delivery'[c] = delivery[c]
  BY GotoMoves DEF TypeInv
<1>2. /\ UNCHANGED <<type, refunds, metadata, emitted>>
      /\ Emitted' = Emitted
  BY DEF stripe, Emitted
<1>3. RightHandler'
  BY <1>1, <1>2 DEF TypeInv, RightHandler, InFlight
<1>4. EmittedInOrder'
  BY <1>2 DEF TypeInv, EmittedInOrder
<1>5. \A c \in Deliveries : InFlight(c)' /\ ~At(c, "find")' /\ ~At(c, "record")' =>
        event'[delivery'[c].event] # "none"
  <2> SUFFICES ASSUME NEW c \in Deliveries, c # d, InFlight(c),
                      ~At(c, "find"), ~At(c, "record")
               PROVE  event'[delivery[c].event] # "none"
    BY <1>1 DEF InFlight, At
  <2>1. delivery[c].event \in Events
    BY InFlightIsDelivery DEF TypeInv, Delivery
  <2> QED
    BY <2>1 DEF TypeInv, TypeOK
<1>6. TypeOK'
  BY <1>1, <1>2, <1>5 DEF TypeInv, TypeOK
<1> QED
  BY <1>3, <1>4, <1>6 DEF TypeInv

\* A delivery that is answered.
LEMMA AnswerKeepsType ==
  ASSUME TypeInv, NEW d \in Deliveries, InFlight(d), NEW ok, Answer(d, ok),
         UNCHANGED <<stripe, ordered, handled, rows>>,
         left' \in [Deliveries -> SUBSET Refunds],
         event' \in [Events -> {"none", "PROCESSING", "PROCESSED", "FAILED"}],
         \A e \in Events : event[e] # "none" => event'[e] # "none",
         failures' \in 0..MaxFailures
  PROVE  TypeInv'
<1>1. /\ delivery' \in [Deliveries -> Delivery \cup {Idle}]
      /\ delivery'[d] = Idle
      /\ \A c \in Deliveries : c # d => delivery'[c] = delivery[c]
  BY AnswerMoves DEF TypeInv
<1>2. /\ UNCHANGED <<type, refunds, metadata, emitted>>
      /\ Emitted' = Emitted
  BY DEF stripe, Emitted
<1>3. RightHandler'
  BY <1>1, <1>2 DEF TypeInv, RightHandler, InFlight
<1>4. EmittedInOrder'
  BY <1>2 DEF TypeInv, EmittedInOrder
<1>5. \A c \in Deliveries : InFlight(c)' /\ ~At(c, "find")' /\ ~At(c, "record")' =>
        event'[delivery'[c].event] # "none"
  <2> SUFFICES ASSUME NEW c \in Deliveries, c # d, InFlight(c),
                      ~At(c, "find"), ~At(c, "record")
               PROVE  event'[delivery[c].event] # "none"
    BY <1>1 DEF InFlight, At
  <2>1. delivery[c].event \in Events
    BY InFlightIsDelivery DEF TypeInv, Delivery
  <2> QED
    BY <2>1 DEF TypeInv, TypeOK
<1>6. acked' \subseteq Emitted
  BY DEF TypeInv, TypeOK, RightHandler, Answer
<1>7. TypeOK'
  BY <1>1, <1>2, <1>5, <1>6 DEF TypeInv, TypeOK, rows
<1> QED
  BY <1>3, <1>4, <1>7 DEF TypeInv

\* At a step of a handler, the event has a row and the type of the handler.
LEMMA AtHandler ==
  ASSUME TypeInv, NEW d \in Deliveries, NEW pc \in Steps, At(d, pc)
  PROVE  /\ InFlight(d) /\ delivery[d].event \in Events /\ delivery[d].event \in Emitted
         /\ pc \notin {"find", "record"} => event[delivery[d].event] # "none"
         /\ pc \in DOMAIN DealsWith => type[delivery[d].event] \in DealsWith[pc]
<1>1. InFlight(d) /\ delivery[d] \in Delivery
  BY InFlightIsDelivery DEF TypeInv
<1> QED
  BY <1>1 DEF TypeInv, TypeOK, RightHandler, Delivery, At

\* The type of an event is a type.
LEMMA TypeOfEvent ==
  ASSUME WebhookAssumption, TypeOK, NEW e \in Events
  PROVE  type[e] \in EventTypes
  BY DEF TypeOK

\* A handler that goes on, without a write or with one.
LEMMA ContinueKeepsType ==
  ASSUME TypeInv, NEW d \in Deliveries, NEW from \in Steps, At(d, from),
         from \notin {"find", "record"},
         NEW pc \in {"refund", "list", "processed", "catch"},
         pc \in DOMAIN DealsWith => type[delivery[d].event] \in DealsWith[pc],
         Continue(d, pc),
         payment' \in {"none", "SUCCESS", "FAILED", "REFUNDED", "DISPUTED"},
         refund' \in [Refunds -> RefundStatus \cup {"none"}], account' \in StripeAccountStatus,
         left' \in [Deliveries -> SUBSET Refunds]
  PROVE  TypeInv'
<1>1. /\ InFlight(d) /\ delivery[d].event \in Emitted
      /\ event[delivery[d].event] # "none"
  BY AtHandler
<1>2. handled' \subseteq Emitted
  BY <1>1 DEF Continue, TypeInv, TypeOK
<1>3. pc \in Steps
  BY DEF Steps
<1> QED
  BY <1>1, <1>2, <1>3, GotoKeepsType DEF Continue, TypeInv, TypeOK

\* The list of an event is of refunds.
LEMMA ListIsOfRefunds ==
  ASSUME TypeOK, NEW e \in Events
  PROVE  DOMAIN refunds[e] \subseteq Refunds
  BY DEF TypeOK, RefundLists

\* No database call leaves the types.
LEMMA WorkKeepsType ==
  ASSUME WebhookAssumption, TypeInv, NEW d \in Deliveries, Work(d)
  PROVE  TypeInv'
<1> USE DEF Steps
<1>1. CASE FindEvent(d)
  <2>1. InFlight(d)
    BY <1>1, AtHandler DEF FindEvent
  <2>2. CASE Answer(d, TRUE)
    BY <1>1, <2>1, <2>2, AnswerKeepsType DEF FindEvent, rows, TypeInv, TypeOK
  <2>3. CASE Goto(d, "record") /\ UNCHANGED acked
    BY <1>1, <2>1, <2>3, GotoKeepsType DEF FindEvent, rows, TypeInv, TypeOK, DealsWith
  <2> QED
    BY <1>1, <2>2, <2>3 DEF FindEvent
<1>2. CASE RecordEvent(d)
  <2> DEFINE e == delivery[d].event
             pc == Handler[type[e]]
  <2>1. InFlight(d) /\ e \in Events
    BY <1>2, AtHandler DEF RecordEvent
  <2>2. type[e] \in EventTypes
    BY <2>1, TypeOfEvent DEF TypeInv
  <2>3. pc \in Steps /\ pc \notin {"find", "record"}
        /\ pc \in DOMAIN DealsWith /\ type[e] \in DealsWith[pc]
    BY <2>2 DEF Handler, DealsWith, EventTypes, PaymentTypes, AccountTypes
  <2>4. /\ event' \in [Events -> {"none", "PROCESSING", "PROCESSED", "FAILED"}]
        /\ \A x \in Events : event[x] # "none" => event'[x] # "none"
        /\ event'[e] # "none"
    BY <1>2, <2>1 DEF RecordEvent, TypeInv, TypeOK
  <2>5. Goto(d, pc)
    BY <1>2 DEF RecordEvent
  <2> HIDE DEF pc
  <2> QED
    BY <1>2, <2>1, <2>3, <2>4, <2>5, GotoKeepsType DEF RecordEvent, rows, TypeInv, TypeOK
<1>3. CASE HandlePaymentIntentSucceeded(d)
  BY <1>3, ContinueKeepsType DEF HandlePaymentIntentSucceeded, TypeInv, TypeOK, DealsWith
<1>4. CASE HandlePaymentIntentFailed(d)
  BY <1>4, ContinueKeepsType
     DEF HandlePaymentIntentFailed, UpdatePayment, TypeInv, TypeOK, DealsWith
<1>5. CASE FindRefunded(d)
  <2>1. type[delivery[d].event] = "refunded"
    BY <1>5, AtHandler DEF FindRefunded, DealsWith
  <2> QED
    BY <1>5, <2>1, ContinueKeepsType DEF FindRefunded, TypeInv, TypeOK, DealsWith
<1>6. CASE RefundPayment(d)
  <2> DEFINE listed == DOMAIN refunds[delivery[d].event]
             pc == IF payment = "none" THEN "catch"
                   ELSE IF listed = {} THEN "processed" ELSE "list"
  <2>1. type[delivery[d].event] = "refunded" /\ delivery[d].event \in Events
    BY <1>6, AtHandler DEF RefundPayment, DealsWith
  <2>2. left' \in [Deliveries -> SUBSET Refunds]
    BY <1>6, <2>1, ListIsOfRefunds DEF RefundPayment, TypeInv, TypeOK
  <2>3. Continue(d, pc) /\ pc \in {"list", "processed", "catch"}
    BY <1>6 DEF RefundPayment, UpdatePayment
  <2>4. /\ payment' \in {"none", "SUCCESS", "FAILED", "REFUNDED", "DISPUTED"}
        /\ UNCHANGED <<refund, account>> /\ At(d, "refund")
    BY <1>6 DEF RefundPayment, UpdatePayment
  <2> HIDE DEF pc
  <2> QED
    BY <2>1, <2>2, <2>3, <2>4, ContinueKeepsType DEF TypeInv, TypeOK, DealsWith
<1>7. CASE UpsertRefund(d)
  <2>1. type[delivery[d].event] = "refunded"
    BY <1>7, AtHandler DEF UpsertRefund, DealsWith
  <2>2. PICK r \in left[d] : UpsertRefundRow(d, r)
    BY <1>7 DEF UpsertRefund, UpsertRefundRow
  <2>3. /\ refund' \in [Refunds -> RefundStatus \cup {"none"}]
        /\ left' \in [Deliveries -> SUBSET Refunds]
    BY <2>2 DEF UpsertRefundRow, TypeInv, TypeOK
  <2>4. PICK pc \in {"list", "processed", "catch"} : Continue(d, pc)
    BY <2>2 DEF UpsertRefundRow
  <2>5. At(d, "list") /\ UNCHANGED <<payment, account>>
    BY <1>7 DEF UpsertRefund
  <2> QED
    BY <2>1, <2>3, <2>4, <2>5, ContinueKeepsType DEF TypeInv, TypeOK, DealsWith
<1>8. CASE HandleChargeDisputeCreated(d)
  BY <1>8, ContinueKeepsType
     DEF HandleChargeDisputeCreated, UpdatePayment, TypeInv, TypeOK, DealsWith
<1>9. CASE HandleAccountUpdated(d)
  <2>1. account' \in StripeAccountStatus
    BY <1>9 DEF HandleAccountUpdated, TypeInv, TypeOK
  <2> QED
    BY <1>9, <2>1, ContinueKeepsType DEF HandleAccountUpdated, TypeInv, TypeOK, DealsWith
<1>10. CASE MarkProcessed(d)
  <2>1. InFlight(d) /\ delivery[d].event \in Events
    BY <1>10, AtHandler DEF MarkProcessed
  <2>2. /\ event' \in [Events -> {"none", "PROCESSING", "PROCESSED", "FAILED"}]
        /\ \A x \in Events : event[x] # "none" => event'[x] # "none"
    BY <1>10, <2>1 DEF MarkProcessed, TypeInv, TypeOK
  <2> QED
    BY <1>10, <2>1, <2>2, AnswerKeepsType DEF MarkProcessed, rows, TypeInv, TypeOK
<1>11. CASE MarkFailed(d)
  <2>1. InFlight(d) /\ delivery[d].event \in Events
    BY <1>11, AtHandler DEF MarkFailed
  <2>2. /\ event' \in [Events -> {"none", "PROCESSING", "PROCESSED", "FAILED"}]
        /\ \A x \in Events : event[x] # "none" => event'[x] # "none"
    BY <1>11, <2>1 DEF MarkFailed, TypeInv, TypeOK
  <2> QED
    BY <1>11, <2>1, <2>2, AnswerKeepsType DEF MarkFailed, rows, TypeInv, TypeOK
<1> QED
  BY <1>1, <1>2, <1>3, <1>4, <1>5, <1>6, <1>7, <1>8, <1>9, <1>10, <1>11 DEF Work

\* Appending an event keeps the others in their places.
LEMMA EmitAppends ==
  ASSUME TypeOK, NEW e \in Events, emitted' = Append(emitted, e)
  PROVE  /\ emitted' \in Seq(Events)
         /\ DOMAIN emitted = 1..Len(emitted)
         /\ DOMAIN emitted' = 1..(Len(emitted) + 1)
         /\ \A i \in DOMAIN emitted : emitted'[i] = emitted[i]
         /\ emitted'[Len(emitted) + 1] = e
         /\ Emitted' = Emitted \cup {e}
         /\ Len(emitted) \in Nat
<1>1. /\ emitted \in Seq(Events) /\ emitted' \in Seq(Events)
      /\ Len(emitted) \in Nat
      /\ DOMAIN emitted = 1..Len(emitted)
      /\ DOMAIN emitted' = 1..(Len(emitted) + 1)
      /\ \A i \in 1..Len(emitted) : emitted'[i] = emitted[i]
      /\ emitted'[Len(emitted) + 1] = e
  BY DEF TypeOK
<1>2. Emitted' = Emitted \cup {e}
  BY <1>1 DEF Emitted, ToSet
<1> QED
  BY <1>1, <1>2

\* What Stripe does keeps the types, and the order the events happen in.
LEMMA StripeKeepsType ==
  ASSUME WebhookAssumption, TypeInv, NEW e \in Events,
         StripeEmits(e) \/ \E d \in Deliveries : StripeDelivers(d, e)
  PROVE  TypeInv'
<1>1. CASE StripeEmits(e)
  <2>1. /\ emitted' \in Seq(Events)
        /\ DOMAIN emitted = 1..Len(emitted)
        /\ DOMAIN emitted' = 1..(Len(emitted) + 1)
        /\ \A i \in DOMAIN emitted : emitted'[i] = emitted[i]
        /\ emitted'[Len(emitted) + 1] = e
        /\ Emitted' = Emitted \cup {e}
        /\ Len(emitted) \in Nat
    BY <1>1, EmitAppends DEF StripeEmits, TypeInv
  <2>2. /\ UNCHANGED <<type, refunds, metadata, acked, event, rows, delivery, left>>
        /\ UNCHANGED <<payment, parties, refund, account, handled, ordered, failures>>
    BY <1>1 DEF StripeEmits, rows
  <2>3. e \notin Emitted /\ \A i \in DOMAIN emitted : emitted[i] # e
    BY <1>1 DEF StripeEmits, Emitted, ToSet
  <2>4. type[e] \in {"refunded", "disputed"} =>
          \E i \in DOMAIN emitted : type[emitted[i]] = "succeeded"
    BY <1>1 DEF StripeEmits, Happened, Emitted, ToSet
  <2>5. \A i, j \in DOMAIN emitted' : emitted'[i] = emitted'[j] => i = j
    BY <2>1, <2>3 DEF TypeInv, EmittedInOrder
  <2>6. ASSUME NEW j \in DOMAIN emitted', type[emitted'[j]] \in {"refunded", "disputed"}
        PROVE  \E i \in DOMAIN emitted' : i < j /\ type[emitted'[i]] = "succeeded"
    <3>1. CASE j \in DOMAIN emitted
      <4>1. PICK i \in DOMAIN emitted : i < j /\ type[emitted[i]] = "succeeded"
        BY <2>1, <2>6, <3>1 DEF TypeInv, EmittedInOrder
      <4> QED
        BY <2>1, <4>1
    <3>2. CASE j = Len(emitted) + 1
      <4>1. PICK i \in DOMAIN emitted : type[emitted[i]] = "succeeded"
        BY <2>1, <2>4, <2>6, <3>2
      <4> QED
        BY <2>1, <3>2, <4>1
    <3> QED
      BY <2>1, <3>1, <3>2
  <2>7. EmittedInOrder'
    BY <2>2, <2>5, <2>6 DEF EmittedInOrder
  <2>8. RightHandler'
    BY <2>1, <2>2 DEF TypeInv, RightHandler, InFlight
  <2>9. TypeOK'
    BY <2>1, <2>2 DEF TypeInv, TypeOK, InFlight, At
  <2> QED
    BY <2>7, <2>8, <2>9 DEF TypeInv
<1>2. ASSUME NEW d \in Deliveries, StripeDelivers(d, e)
      PROVE  TypeInv'
  <2> DEFINE n == [pc |-> "find", event |-> e]
  <2>1. n \in Delivery /\ n.pc = "find" /\ n.event = e
    BY DEF Delivery, Steps
  <2>2. /\ delivery' = [delivery EXCEPT ![d] = n] /\ e \in Emitted
        /\ UNCHANGED <<type, refunds, metadata, emitted, acked, event, left>>
        /\ UNCHANGED <<payment, parties, refund, account, handled, failures>>
        /\ ordered' \in BOOLEAN
    BY <1>2 DEF StripeDelivers, stripe, rows, TypeInv, TypeOK
  <2> HIDE DEF n
  <2>3. /\ delivery' \in [Deliveries -> Delivery \cup {Idle}]
        /\ delivery'[d] = n
        /\ \A c \in Deliveries : c # d => delivery'[c] = delivery[c]
    BY <2>1, <2>2 DEF TypeInv, TypeOK
  <2>4. Emitted' = Emitted
    BY <2>2 DEF Emitted
  <2>5. RightHandler'
    BY <2>1, <2>2, <2>3, <2>4 DEF TypeInv, RightHandler, InFlight, DealsWith
  <2>6. TypeOK'
    BY <2>1, <2>2, <2>3, <2>4 DEF TypeInv, TypeOK, InFlight, At
  <2>7. EmittedInOrder'
    BY <2>2 DEF TypeInv, EmittedInOrder
  <2> QED
    BY <2>5, <2>6, <2>7 DEF TypeInv
<1> QED
  BY <1>1, <1>2

\* Failures and crashes keep the types.
LEMMA FailureKeepsType ==
  ASSUME WebhookAssumption, TypeInv, Crash \/ \E d \in Deliveries : AwaitFails(d)
  PROVE  TypeInv'
<1>1. failures' \in 0..MaxFailures
  <2>1. failures < MaxFailures /\ failures' = failures + 1
    BY DEF Crash, AwaitFails
  <2>2. failures \in Nat /\ MaxFailures \in Nat
    BY DEF TypeInv, TypeOK, WebhookAssumption
  <2> QED
    BY <2>1, <2>2
<1>2. CASE Crash
  <2>1. /\ \A d \in Deliveries : delivery'[d] = Idle
        /\ delivery' \in [Deliveries -> Delivery \cup {Idle}]
        /\ UNCHANGED <<type, refunds, metadata, emitted, acked, event>>
        /\ UNCHANGED <<payment, parties, refund, account, handled, ordered>>
        /\ left' \in [Deliveries -> SUBSET Refunds]
    BY <1>2 DEF Crash, stripe, rows
  <2>2. Emitted' = Emitted
    BY <2>1 DEF Emitted
  <2> QED
    BY <1>1, <2>1, <2>2 DEF TypeInv, TypeOK, RightHandler, EmittedInOrder, InFlight
<1>3. ASSUME NEW d \in Deliveries, AwaitFails(d)
      PROVE  TypeInv'
  <2>1. /\ InFlight(d)
        /\ UNCHANGED <<stripe, event, rows, payment, parties, refund, account, ordered>>
        /\ left' \in [Deliveries -> SUBSET Refunds]
    BY <1>3 DEF AwaitFails, rows, TypeInv, TypeOK
  <2>2. delivery[d].event \in Emitted
    BY <2>1 DEF TypeInv, RightHandler
  <2>3. CASE Answer(d, FALSE) /\ UNCHANGED handled
    BY <1>1, <2>1, <2>3, AnswerKeepsType DEF TypeInv, TypeOK
  <2>4. CASE /\ delivery[d].pc = "account" /\ Goto(d, "processed")
             /\ handled' = handled \cup {delivery[d].event}
             /\ UNCHANGED acked
    <3>1. event[delivery[d].event] # "none"
      BY <2>1, <2>4 DEF TypeInv, TypeOK, At
    <3>2. handled' \subseteq Emitted
      BY <2>2, <2>4 DEF TypeInv, TypeOK
    <3> QED
      BY <1>1, <2>1, <2>4, <3>1, <3>2, GotoKeepsType DEF TypeInv, TypeOK, Steps, DealsWith
  <2>5. CASE /\ delivery[d].pc \notin {"find", "record", "catch", "account"}
             /\ Goto(d, "catch")
             /\ UNCHANGED <<acked, handled>>
    <3>1. event[delivery[d].event] # "none"
      BY <2>1, <2>5 DEF TypeInv, TypeOK, At
    <3> QED
      BY <1>1, <2>1, <2>5, <3>1, GotoKeepsType DEF TypeInv, TypeOK, Steps, DealsWith
  <2> QED
    BY <1>3, <2>3, <2>4, <2>5 DEF AwaitFails
<1> QED
  BY <1>2, <1>3

\* Nothing has happened yet.
LEMMA InitType == ASSUME WebhookAssumption, Init PROVE TypeInv
<1>1. Emitted = {} /\ DOMAIN emitted = {} /\ emitted \in Seq(Events)
  BY DEF Init, Emitted, ToSet
<1>2. \A d \in Deliveries : delivery[d] = Idle
  BY DEF Init
<1> QED
  BY <1>1, <1>2 DEF Init, TypeInv, TypeOK, RightHandler, EmittedInOrder, InFlight,
                    WebhookAssumption, StripeAccountStatus

\* A row that goes is none of the webhook's own.
LEMMA PartyKeepsType == ASSUME TypeInv, PartyDeleted PROVE TypeInv'
<1>1. /\ UNCHANGED <<type, refunds, metadata, emitted, acked, event, payment, refund, account>>
      /\ UNCHANGED <<delivery, left, handled, ordered, failures>>
      /\ parties' \in BOOLEAN /\ Emitted' = Emitted
  BY DEF PartyDeleted, stripe, Emitted
<1> QED
  BY <1>1 DEF TypeInv, TypeOK, RightHandler, EmittedInOrder, InFlight, At

\* TypeInv is inductive.
LEMMA NextType == ASSUME WebhookAssumption, TypeInv, [Next]_vars PROVE TypeInv'
<1>1. CASE UNCHANGED vars
  BY <1>1 DEF vars, stripe, rows, TypeInv, TypeOK, RightHandler, EmittedInOrder, Emitted,
              InFlight, At
<1> QED
  BY <1>1, WorkKeepsType, StripeKeepsType, FailureKeepsType, PartyKeepsType DEF Next

\* Every row, delivery and history of the webhook keeps its type, and an event
\* has a row before its handler runs.
THEOREM TypeCorrect == Spec => []TypeOK
<1>1. TypeInv => TypeOK
  BY DEF TypeInv
<1> QED
  BY <1>1, WebhookAssumption, InitType, NextType, PTL DEF Spec

-----------------------------------------------------------------------------
(* A 2xx says that the handler has run to its end.                         *)

\* What a step must leave of AckInv for the delivery it moves.
LEMMA GotoKeepsAck ==
  ASSUME TypeInv, AckInv, NEW d \in Deliveries, InFlight(d), NEW pc \in Steps, Goto(d, pc),
         UNCHANGED <<acked>>, handled \subseteq handled',
         pc = "processed" => delivery[d].event \in handled',
         \A e \in Events : event'[e] = "PROCESSED" => event[e] = "PROCESSED"
  PROVE  AckInv'
<1>1. /\ delivery'[d].pc = pc /\ delivery'[d].event = delivery[d].event
      /\ \A c \in Deliveries : c # d => delivery'[c] = delivery[c]
  BY GotoMoves DEF TypeInv
<1> QED
  BY <1>1 DEF AckInv, AckedWasHandled, At

\* An answer with a 2xx is for an event that has been handled.
LEMMA AnswerKeepsAck ==
  ASSUME TypeInv, AckInv, NEW d \in Deliveries, NEW ok, Answer(d, ok),
         UNCHANGED <<handled>>,
         ok => delivery[d].event \in handled,
         \A e \in Events : event'[e] = "PROCESSED" => e \in acked'
  PROVE  AckInv'
<1>1. /\ delivery'[d] = Idle
      /\ \A c \in Deliveries : c # d => delivery'[c] = delivery[c]
  BY AnswerMoves DEF TypeInv
<1>2. \A c \in Deliveries : At(c, "processed")' => delivery'[c].event \in handled'
  BY <1>1, IdleIsNowhere DEF AckInv, At, Steps
<1>3. AckedWasHandled'
  BY DEF AckInv, AckedWasHandled, Answer
<1> QED
  BY <1>2, <1>3 DEF AckInv

\* AckInv is inductive: the switch on the type ends in processed for every
\* handler that returns, and nothing else leads there.
LEMMA NextKeepsAck ==
  ASSUME WebhookAssumption, TypeInv, AckInv, [Next]_vars
  PROVE  AckInv'
<1> USE DEF Steps
<1>1. ASSUME NEW e \in Events, StripeEmits(e)
      PROVE  AckInv'
  BY <1>1 DEF StripeEmits, AckInv, AckedWasHandled, At
<1>2. ASSUME NEW e \in Events, NEW d \in Deliveries, StripeDelivers(d, e)
      PROVE  AckInv'
  <2>1. /\ delivery'[d].pc = "find"
        /\ \A c \in Deliveries : c # d => delivery'[c] = delivery[c]
    BY <1>2 DEF StripeDelivers, TypeInv, TypeOK
  <2> QED
    BY <1>2, <2>1 DEF StripeDelivers, AckInv, AckedWasHandled, At
<1>3. ASSUME NEW d \in Deliveries, NEW pc \in Steps, InFlight(d), Continue(d, pc)
      PROVE  AckInv'
    <2>1. /\ handled \subseteq handled'
          /\ pc = "processed" => delivery[d].event \in handled'
          /\ Goto(d, pc) /\ UNCHANGED <<acked, event>>
      BY <1>3 DEF Continue
    <2> QED
      BY <1>3, <2>1, GotoKeepsAck
<1>4. ASSUME NEW d \in Deliveries, FindEvent(d)
      PROVE  AckInv'
  <2>1. InFlight(d) /\ delivery[d].event \in Events
    BY <1>4, AtHandler DEF FindEvent
  <2>2. CASE Answer(d, TRUE) /\ event[delivery[d].event] = "PROCESSED"
    <3>1. delivery[d].event \in handled
      BY <2>1, <2>2 DEF AckInv, AckedWasHandled
    <3>2. \A e \in Events : event'[e] = "PROCESSED" => e \in acked'
      BY <1>4, <2>2 DEF FindEvent, AckInv, Answer
    <3> QED
      BY <1>4, <2>2, <3>1, <3>2, AnswerKeepsAck DEF FindEvent
  <2>3. CASE Goto(d, "record") /\ UNCHANGED acked
    BY <1>4, <2>1, <2>3, GotoKeepsAck DEF FindEvent
  <2> QED
    BY <1>4, <2>2, <2>3 DEF FindEvent
<1>5. ASSUME NEW d \in Deliveries, RecordEvent(d)
      PROVE  AckInv'
  <2> DEFINE pc == Handler[type[delivery[d].event]]
  <2>1. InFlight(d) /\ delivery[d].event \in Events
    BY <1>5, AtHandler DEF RecordEvent
  <2>2. type[delivery[d].event] \in EventTypes
    BY <1>5, <2>1, TypeOfEvent DEF TypeInv
  <2>3. pc \in Steps /\ pc # "processed"
    BY <2>2 DEF Handler, EventTypes, PaymentTypes, AccountTypes
  <2>4. Goto(d, pc) /\ UNCHANGED <<acked, handled>>
    BY <1>5 DEF RecordEvent
  <2>5. \A e \in Events : event'[e] = "PROCESSED" => event[e] = "PROCESSED"
    BY <1>5 DEF RecordEvent, TypeInv, TypeOK
  <2> HIDE DEF pc
  <2> QED
    BY <2>1, <2>3, <2>4, <2>5, GotoKeepsAck
<1>6. ASSUME NEW d \in Deliveries, MarkProcessed(d)
      PROVE  AckInv'
  <2>1. /\ delivery[d].event \in handled /\ Answer(d, TRUE) /\ UNCHANGED handled
        /\ event' = [event EXCEPT ![delivery[d].event] = "PROCESSED"]
    BY <1>6 DEF MarkProcessed, AckInv
  <2>2. \A e \in Events : event'[e] = "PROCESSED" => e \in acked'
    BY <2>1 DEF AckInv, Answer, TypeInv, TypeOK
  <2> QED
    BY <2>1, <2>2, AnswerKeepsAck
<1>7. ASSUME NEW d \in Deliveries, MarkFailed(d)
      PROVE  AckInv'
  <2>1. /\ Answer(d, FALSE) /\ UNCHANGED handled
        /\ event' = [event EXCEPT ![delivery[d].event] = "FAILED"]
    BY <1>7 DEF MarkFailed
  <2>2. \A e \in Events : event'[e] = "PROCESSED" => e \in acked'
    BY <2>1 DEF AckInv, Answer, TypeInv, TypeOK
  <2> QED
    BY <2>1, <2>2, AnswerKeepsAck
<1>8. ASSUME NEW d \in Deliveries, AwaitFails(d)
      PROVE  AckInv'
  <2>1. InFlight(d) /\ UNCHANGED event
    BY <1>8 DEF AwaitFails
  <2>2. CASE Answer(d, FALSE) /\ UNCHANGED handled
    <3>1. \A e \in Events : event'[e] = "PROCESSED" => e \in acked'
      BY <2>1, <2>2 DEF AckInv, Answer
    <3> QED
      BY <2>2, <3>1, AnswerKeepsAck
  <2>3. CASE /\ Goto(d, "processed") /\ UNCHANGED acked
             /\ handled' = handled \cup {delivery[d].event}
    BY <2>1, <2>3, GotoKeepsAck
  <2>4. CASE Goto(d, "catch") /\ UNCHANGED <<acked, handled>>
    BY <2>1, <2>4, GotoKeepsAck
  <2> QED
    BY <1>8, <2>2, <2>3, <2>4 DEF AwaitFails
<1>9. CASE Crash
  <2>1. \A d \in Deliveries : delivery'[d] = Idle
    BY <1>9 DEF Crash
  <2> QED
    BY <1>9, <2>1, IdleIsNowhere DEF Crash, AckInv, AckedWasHandled, At
<1>10. CASE UNCHANGED vars
  BY <1>10 DEF vars, AckInv, AckedWasHandled, At
<1>11. ASSUME NEW d \in Deliveries, Work(d)
       PROVE  AckInv'
  <2>1. CASE HandlePaymentIntentSucceeded(d)
    BY <1>3, <2>1, AtHandler DEF HandlePaymentIntentSucceeded
  <2>2. CASE HandlePaymentIntentFailed(d) \/ HandleChargeDisputeCreated(d) \/ RefundPayment(d)
    BY <1>3, <2>2, AtHandler
       DEF HandlePaymentIntentFailed, HandleChargeDisputeCreated, RefundPayment, UpdatePayment
  <2>3. CASE FindRefunded(d) \/ HandleAccountUpdated(d)
    BY <1>3, <2>3, AtHandler DEF FindRefunded, HandleAccountUpdated
  <2>4. CASE UpsertRefund(d)
    BY <1>3, <2>4, AtHandler DEF UpsertRefund, UpsertRefundRow
  <2> QED
    BY <1>4, <1>5, <1>6, <1>7, <1>11, <2>1, <2>2, <2>3, <2>4 DEF Work
<1>12. CASE PartyDeleted
  BY <1>12 DEF PartyDeleted, AckInv, AckedWasHandled, At
<1> QED
  BY <1>1, <1>2, <1>8, <1>9, <1>10, <1>11, <1>12 DEF Next

\* Stripe has a 2xx for an event only when its handler has run to its end, in
\* whatever order events are delivered, however many deliveries of one event
\* are at work, and whatever fails or dies in the middle of them.
THEOREM AckedIsHandled == Spec => []AckedWasHandled
<1>1. Init => AckInv
  <2> SUFFICES ASSUME Init PROVE AckInv
    OBVIOUS
  <2>1. \A d \in Deliveries : delivery[d] = Idle
    BY DEF Init
  <2> QED
    BY <2>1, IdleIsNowhere DEF Init, AckInv, AckedWasHandled, At, Steps
<1>2. AckInv => AckedWasHandled
  BY DEF AckInv
<1> QED
  BY <1>1, <1>2, WebhookAssumption, InitType, NextType, NextKeepsAck, PTL DEF Spec

-----------------------------------------------------------------------------
(* Deliveries one at a time and in order.                                  *)

\* A delivery that goes on past the check, for an event without a 2xx.
LEMMA GotoKeepsOrder ==
  ASSUME TypeInv, OrderInv, NEW d \in Deliveries, InFlight(d),
         NEW pc \in Steps, Goto(d, pc), UNCHANGED <<stripe, acked, ordered>>,
         ordered => delivery[d].event \notin acked,
         \A e \in acked : event'[e] = event[e]
  PROVE  OrderInv'
<1> SUFFICES ASSUME ordered
             PROVE  OrderInv'
  BY DEF OrderInv
<1>1. /\ delivery'[d].pc = pc /\ delivery'[d].event = delivery[d].event
      /\ \A c \in Deliveries : c # d => delivery'[c] = delivery[c]
  BY GotoMoves DEF TypeInv
<1>2. UNCHANGED <<emitted, acked>>
  BY DEF stripe
<1>3. OneAtATime'
  BY <1>1 DEF OrderInv, OneAtATime, InFlight
<1>4. AckedIsPrefix'
  BY <1>2 DEF OrderInv, AckedIsPrefix
<1>5. \A e \in acked' : event'[e] = "PROCESSED"
  BY DEF OrderInv
<1>6. \A c \in Deliveries : InFlight(c)' => EarlierAreAcked(delivery[c].event)'
  BY <1>1, <1>2 DEF OrderInv, EarlierAreAcked, InFlight
<1>7. \A c \in Deliveries : InFlight(c)' /\ ~At(c, "find")' => delivery'[c].event \notin acked'
  BY <1>1 DEF OrderInv, InFlight, At
<1> QED
  BY <1>3, <1>4, <1>5, <1>6, <1>7 DEF OrderInv

\* A delivery that is answered, with a 2xx only for an event that is PROCESSED.
LEMMA AnswerKeepsOrder ==
  ASSUME TypeInv, OrderInv, NEW d \in Deliveries, InFlight(d),
         NEW ok, Answer(d, ok), UNCHANGED <<stripe, ordered>>,
         ok => event'[delivery[d].event] = "PROCESSED",
         ordered => \A e \in acked : event'[e] = "PROCESSED"
  PROVE  OrderInv'
<1> SUFFICES ASSUME ordered
             PROVE  OrderInv'
  BY DEF OrderInv
<1>1. /\ delivery'[d] = Idle
      /\ \A c \in Deliveries : c # d => delivery'[c] = delivery[c]
  BY AnswerMoves DEF TypeInv
<1>2. /\ UNCHANGED emitted
      /\ acked \subseteq acked'
      /\ acked' \subseteq acked \cup {delivery[d].event}
      /\ ok \/ acked' = acked
  BY DEF stripe, Answer
<1>3. \A c \in Deliveries : InFlight(c)' => FALSE
  BY <1>1 DEF OrderInv, OneAtATime, InFlight
<1>4. AckedIsPrefix'
  <2>1. EarlierAreAcked(delivery[d].event)
    BY DEF OrderInv
  <2> QED
    BY <1>2, <2>1 DEF OrderInv, AckedIsPrefix, EarlierAreAcked
<1>5. \A e \in acked' : event'[e] = "PROCESSED"
  BY <1>2
<1> QED
  BY <1>3, <1>4, <1>5 DEF OrderInv, OneAtATime

\* OrderInv is inductive.  An event has its 2xx and its row PROCESSED at once,
\* and only a delivery of the event itself takes the row back.
LEMMA NextKeepsOrder ==
  ASSUME WebhookAssumption, TypeInv, AckInv, OrderInv, [Next]_vars
  PROVE  OrderInv'
<1> USE DEF Steps
<1>1. ASSUME NEW e \in Events, StripeEmits(e)
      PROVE  OrderInv'
  <2>1. /\ DOMAIN emitted = 1..Len(emitted)
        /\ DOMAIN emitted' = 1..(Len(emitted) + 1)
        /\ \A i \in DOMAIN emitted : emitted'[i] = emitted[i]
        /\ emitted'[Len(emitted) + 1] = e
        /\ Len(emitted) \in Nat
    BY <1>1, EmitAppends DEF StripeEmits, TypeInv
  <2>2. UNCHANGED <<acked, event, delivery, ordered>>
    BY <1>1 DEF StripeEmits
  <2>3. e \notin Emitted
    BY <1>1 DEF StripeEmits
  <2>4. e \notin acked
    BY <2>3 DEF TypeInv, TypeOK
  <2>5. \A d \in Deliveries : InFlight(d) => delivery[d].event # e
    BY <2>3 DEF TypeInv, RightHandler
  <2>6. ASSUME ordered PROVE AckedIsPrefix'
    <3> SUFFICES ASSUME NEW i \in DOMAIN emitted', NEW j \in DOMAIN emitted',
                        i < j, emitted'[j] \in acked
                 PROVE  emitted'[i] \in acked
      BY <2>2 DEF AckedIsPrefix
    <3>1. j \in DOMAIN emitted /\ i \in DOMAIN emitted
      BY <2>1, <2>4
    <3> QED
      BY <2>1, <2>6, <3>1 DEF OrderInv, AckedIsPrefix
  <2>7. ASSUME ordered, NEW d \in Deliveries, InFlight(d)
        PROVE  EarlierAreAcked(delivery[d].event)'
    <3> SUFFICES ASSUME NEW i \in DOMAIN emitted', NEW j \in DOMAIN emitted',
                        i < j, emitted'[j] = delivery[d].event
                 PROVE  emitted'[i] \in acked
      BY <2>2 DEF EarlierAreAcked
    <3>1. j \in DOMAIN emitted /\ i \in DOMAIN emitted
      BY <2>1, <2>5, <2>7
    <3> QED
      BY <2>1, <2>7, <3>1 DEF OrderInv, EarlierAreAcked
  <2> QED
    BY <2>2, <2>6, <2>7 DEF OrderInv, OneAtATime, InFlight, At
<1>2. ASSUME NEW e \in Events, NEW d \in Deliveries, StripeDelivers(d, e)
      PROVE  OrderInv'
  <2> SUFFICES ASSUME ordered'
               PROVE  OrderInv'
    BY DEF OrderInv
  <2>1. /\ ordered /\ InTurn(e) /\ UNCHANGED <<emitted, acked, event>>
        /\ delivery' = [delivery EXCEPT ![d] = [pc |-> "find", event |-> e]]
    BY <1>2 DEF StripeDelivers, stripe
  <2>2. /\ delivery'[d].pc = "find" /\ delivery'[d].event = e
        /\ \A c \in Deliveries : c # d => delivery'[c] = Idle
    BY <2>1 DEF TypeInv, TypeOK, InTurn, InFlight
  <2>3. OneAtATime'
    BY <2>2 DEF OneAtATime, InFlight
  <2>4. AckedIsPrefix'
    BY <2>1 DEF OrderInv, AckedIsPrefix
  <2>5. \A c \in Deliveries : InFlight(c)' => EarlierAreAcked(delivery[c].event)'
    <3>1. EarlierAreAcked(e)
      BY <2>1 DEF EarlierAreAcked, InTurn, TypeInv, TypeOK
    <3>2. \A c \in Deliveries : InFlight(c)' => delivery'[c].event = e
      BY <2>2 DEF InFlight
    <3>3. \A c \in Deliveries : delivery'[c].event = e => EarlierAreAcked(delivery[c].event)'
      BY <2>1, <3>1 DEF EarlierAreAcked
    <3> QED
      BY <3>2, <3>3
  <2>6. \A c \in Deliveries : InFlight(c)' /\ ~At(c, "find")' => delivery'[c].event \notin acked'
    BY <2>2 DEF InFlight, At
  <2> QED
    BY <2>1, <2>3, <2>4, <2>5, <2>6 DEF OrderInv
<1>3. ASSUME NEW d \in Deliveries, NEW pc \in Steps, InFlight(d), ~At(d, "find"),
             Goto(d, pc), UNCHANGED <<stripe, acked, event, ordered>>
      PROVE  OrderInv'
  BY <1>3, GotoKeepsOrder DEF OrderInv
<1>4. ASSUME NEW d \in Deliveries, FindEvent(d)
      PROVE  OrderInv'
  <2>1. /\ InFlight(d) /\ delivery[d].event \in Events
        /\ UNCHANGED <<stripe, event, ordered>>
    BY <1>4, AtHandler DEF FindEvent
  <2>2. CASE Answer(d, TRUE) /\ event[delivery[d].event] = "PROCESSED"
    BY <2>1, <2>2, AnswerKeepsOrder DEF OrderInv
  <2>3. CASE Goto(d, "record") /\ UNCHANGED acked /\ event[delivery[d].event] # "PROCESSED"
    <3>1. ordered => delivery[d].event \notin acked
      BY <2>3 DEF OrderInv
    <3> QED
      BY <2>1, <2>3, <3>1, GotoKeepsOrder
  <2> QED
    BY <1>4, <2>2, <2>3 DEF FindEvent
<1>5. ASSUME NEW d \in Deliveries, RecordEvent(d)
      PROVE  OrderInv'
  <2> DEFINE pc == Handler[type[delivery[d].event]]
  <2>1. InFlight(d) /\ delivery[d].event \in Events /\ ~At(d, "find")
    BY <1>5, AtHandler DEF RecordEvent, At
  <2>2. type[delivery[d].event] \in EventTypes
    BY <1>5, <2>1, TypeOfEvent DEF TypeInv
  <2>3. pc \in Steps
    BY <2>2 DEF Handler, EventTypes, PaymentTypes, AccountTypes
  <2>4. /\ Goto(d, pc) /\ UNCHANGED <<stripe, acked, ordered>>
        /\ event' = [event EXCEPT ![delivery[d].event] = "PROCESSING"]
    BY <1>5 DEF RecordEvent
  <2>5. ordered => delivery[d].event \notin acked
    BY <2>1 DEF OrderInv
  <2> HIDE DEF pc
  <2>6. CASE ordered
    <3>1. \A e \in acked : event'[e] = event[e]
      BY <2>4, <2>5, <2>6 DEF TypeInv, TypeOK
    <3> QED
      BY <2>1, <2>3, <2>4, <2>5, <3>1, GotoKeepsOrder
  <2>7. CASE ~ordered
    BY <2>4, <2>7 DEF OrderInv
  <2> QED
    BY <2>6, <2>7
<1>6. ASSUME NEW d \in Deliveries, MarkProcessed(d)
      PROVE  OrderInv'
  <2>1. /\ InFlight(d) /\ delivery[d].event \in Events
        /\ Answer(d, TRUE) /\ UNCHANGED <<stripe, ordered>>
        /\ event' = [event EXCEPT ![delivery[d].event] = "PROCESSED"]
    BY <1>6, AtHandler DEF MarkProcessed
  <2>2. /\ event'[delivery[d].event] = "PROCESSED"
        /\ ordered => \A e \in acked : event'[e] = "PROCESSED"
    BY <2>1 DEF OrderInv, TypeInv, TypeOK
  <2> QED
    BY <2>1, <2>2, AnswerKeepsOrder
<1>7. ASSUME NEW d \in Deliveries, MarkFailed(d)
      PROVE  OrderInv'
  <2>1. /\ InFlight(d) /\ delivery[d].event \in Events /\ ~At(d, "find")
        /\ Answer(d, FALSE) /\ UNCHANGED <<stripe, ordered>>
        /\ event' = [event EXCEPT ![delivery[d].event] = "FAILED"]
    BY <1>7, AtHandler DEF MarkFailed, At
  <2>2. ordered => delivery[d].event \notin acked
    BY <2>1 DEF OrderInv
  <2>3. ordered => \A e \in acked : event'[e] = "PROCESSED"
    BY <2>1, <2>2 DEF OrderInv, TypeInv, TypeOK
  <2> QED
    BY <2>1, <2>3, AnswerKeepsOrder
<1>8. ASSUME NEW d \in Deliveries, AwaitFails(d)
      PROVE  OrderInv'
  <2>1. InFlight(d) /\ UNCHANGED <<stripe, event, ordered>>
    BY <1>8 DEF AwaitFails
  <2>2. CASE Answer(d, FALSE)
    BY <2>1, <2>2, AnswerKeepsOrder DEF OrderInv
  <2>3. CASE ~At(d, "find") /\ (Goto(d, "processed") \/ Goto(d, "catch")) /\ UNCHANGED acked
    BY <1>3, <2>1, <2>3
  <2> QED
    BY <1>8, <2>2, <2>3 DEF AwaitFails, At
<1>9. CASE Crash
  <2>1. /\ \A d \in Deliveries : ~InFlight(d)'
        /\ UNCHANGED <<emitted, acked, event, ordered>>
    BY <1>9 DEF Crash, InFlight, stripe
  <2> QED
    BY <2>1 DEF OrderInv, OneAtATime, AckedIsPrefix
<1>10. CASE UNCHANGED vars
  BY <1>10 DEF vars, stripe, OrderInv, OneAtATime, AckedIsPrefix, EarlierAreAcked, InFlight, At
<1>11. ASSUME NEW d \in Deliveries, NEW pc \in Steps, NEW from \in Steps, At(d, from),
              from # "find", Continue(d, pc)
       PROVE  OrderInv'
  <2>1. InFlight(d) /\ ~At(d, "find")
    BY <1>11, AtHandler DEF At
  <2> QED
    BY <1>3, <1>11, <2>1 DEF Continue
<1>12. ASSUME NEW d \in Deliveries, Work(d)
       PROVE  OrderInv'
  <2>1. CASE HandlePaymentIntentSucceeded(d)
    BY <1>11, <2>1 DEF HandlePaymentIntentSucceeded
  <2>2. CASE HandlePaymentIntentFailed(d) \/ HandleChargeDisputeCreated(d) \/ RefundPayment(d)
    BY <1>11, <2>2
       DEF HandlePaymentIntentFailed, HandleChargeDisputeCreated, RefundPayment, UpdatePayment
  <2>3. CASE FindRefunded(d) \/ HandleAccountUpdated(d)
    BY <1>11, <2>3 DEF FindRefunded, HandleAccountUpdated
  <2>4. CASE UpsertRefund(d)
    BY <1>11, <2>4 DEF UpsertRefund, UpsertRefundRow
  <2> QED
    BY <1>4, <1>5, <1>6, <1>7, <1>12, <2>1, <2>2, <2>3, <2>4 DEF Work
<1>13. CASE PartyDeleted
  BY <1>13 DEF PartyDeleted, stripe, OrderInv, OneAtATime, AckedIsPrefix, EarlierAreAcked,
               InFlight, At
<1> QED
  BY <1>1, <1>2, <1>8, <1>9, <1>10, <1>12, <1>13 DEF Next

-----------------------------------------------------------------------------
(* The payment follows Stripe.                                             *)

\* With deliveries in order, a delivery past the check is at work on the
\* oldest event without a 2xx.
LEMMA WorksOnNext ==
  ASSUME TypeInv, OrderInv, ordered, NEW d \in Deliveries, InFlight(d), ~At(d, "find")
  PROVE  \E j \in DOMAIN emitted : emitted[j] = delivery[d].event /\ IsNext(j)
<1>1. PICK j \in DOMAIN emitted : emitted[j] = delivery[d].event
  BY DEF TypeInv, RightHandler, Emitted, ToSet
<1>2. EarlierAreAcked(delivery[d].event) /\ delivery[d].event \notin acked
  BY DEF OrderInv
<1> QED
  BY <1>1, <1>2 DEF IsNext, EarlierAreAcked

\* A refund and a dispute find the row of the payment they are about.
LEMMA PaymentExists ==
  ASSUME TypeInv, OrderInv, PayInv, ordered, metadata,
         NEW d \in Deliveries, InFlight(d), ~At(d, "find"),
         type[delivery[d].event] \in {"refunded", "disputed"}
  PROVE  payment # "none"
<1>1. PICK j \in DOMAIN emitted : emitted[j] = delivery[d].event /\ IsNext(j)
  BY WorksOnNext
<1>2. PICK i \in DOMAIN emitted : i < j /\ type[emitted[i]] = "succeeded"
  BY <1>1 DEF TypeInv, EmittedInOrder
<1>3. emitted[i] \in acked
  BY <1>1, <1>2 DEF IsNext
<1> QED
  BY <1>2, <1>3 DEF PayInv, SuccessHasRow

\* The order of the events, the answers and the images stay as they are.
LEMMA OrderStays ==
  ASSUME UNCHANGED <<stripe, acked>>
  PROVE  /\ DOMAIN emitted' = DOMAIN emitted
         /\ \A i : IsLatestAcked(i)' <=> IsLatestAcked(i)
         /\ \A i : IsNext(i)' <=> IsNext(i)
         /\ \A i : Image(emitted[i])' = Image(emitted[i])
<1>1. UNCHANGED <<type, emitted, acked>>
  BY DEF stripe
<1> QED
  BY <1>1 DEF IsLatestAcked, IsNext, Image

\* A delivery that goes on, and writes if at all the image of its event.
LEMMA GotoKeepsPay ==
  ASSUME TypeInv, OrderInv, PayInv, NEW d \in Deliveries, InFlight(d),
         NEW pc \in Steps, Goto(d, pc), UNCHANGED <<stripe, acked, ordered>>,
         NEW e, e = delivery[d].event,
         \/ UNCHANGED payment
         \/ /\ ~At(d, "find") /\ type[e] \in PaymentTypes
            /\ payment' = Image(e) /\ payment' # "none",
         ordered /\ metadata /\ pc = "processed" /\ type[e] \in PaymentTypes =>
           payment' = Image(e),
         ordered /\ metadata /\ pc = "list" => payment' = "REFUNDED"
  PROVE  PayInv'
<1> SUFFICES ASSUME ordered, metadata
             PROVE  PayInv'
  BY DEF PayInv, stripe
<1>1. /\ delivery'[d].pc = pc /\ delivery'[d].event = e
      /\ \A c \in Deliveries : c # d => delivery'[c] = delivery[c]
  BY GotoMoves DEF TypeInv
<1>2. UNCHANGED <<type, emitted, acked>>
  BY DEF stripe
<1>3. PaymentIsLatest'
  <2>1. /\ DOMAIN emitted' = DOMAIN emitted
        /\ \A i : IsLatestAcked(i)' <=> IsLatestAcked(i)
        /\ \A i : IsNext(i)' <=> IsNext(i)
        /\ \A i : Image(emitted[i])' = Image(emitted[i])
    BY OrderStays
  <2>2. CASE UNCHANGED payment
    <3>1. Begun' <=> Begun
      BY <1>2, <2>1, <2>2 DEF Begun
    <3> QED
      BY <2>1, <2>2, <3>1 DEF PayInv, PaymentIsLatest
  <2>3. CASE /\ ~At(d, "find") /\ type[e] \in PaymentTypes
             /\ payment' = Image(e) /\ payment' # "none"
    <3>1. PICK j \in DOMAIN emitted : emitted[j] = e /\ IsNext(j)
      BY <2>3, WorksOnNext
    <3>2. Image(emitted[j])' = payment'
      BY <2>1, <2>3, <3>1
    <3>3. Begun'
      BY <1>2, <2>1, <2>3, <3>1, <3>2 DEF Begun
    <3> QED
      BY <3>3 DEF PaymentIsLatest
  <2> QED
    BY <2>2, <2>3
<1>4. SuccessHasRow'
  BY <1>2 DEF PayInv, SuccessHasRow
<1>5. \A c \in Deliveries : HandlerHasWritten(c)'
  <2>1. Image(e)' = Image(e)
    BY <1>1, <1>2 DEF Image
  <2>2. HandlerHasWritten(d)'
    BY <1>1, <1>2, <2>1 DEF HandlerHasWritten, At, Image
  <2>3. ASSUME NEW c \in Deliveries, c # d
        PROVE  HandlerHasWritten(c)'
    <3>1. delivery'[c] = Idle
      BY <1>1, <2>3, InFlightIsDelivery DEF TypeInv, OrderInv, OneAtATime
    <3> QED
      BY <3>1, IdleIsNowhere DEF HandlerHasWritten, At, Steps
  <2> QED
    BY <2>2, <2>3
<1> QED
  BY <1>3, <1>4, <1>5 DEF PayInv

\* A step that leaves the rows and the answers alone, and no delivery at work
\* that was not.
LEMMA QuietKeepsPay ==
  ASSUME TypeInv, PayInv, UNCHANGED <<stripe, acked, ordered, payment>>,
         \A c \in Deliveries : delivery'[c] \in {delivery[c], Idle}
  PROVE  PayInv'
<1> SUFFICES ASSUME ordered, metadata
             PROVE  PayInv'
  BY DEF PayInv, stripe
<1>1. UNCHANGED <<type, emitted, acked>>
  BY DEF stripe
<1>2. PaymentIsLatest'
  <2>1. /\ DOMAIN emitted' = DOMAIN emitted
        /\ \A i : IsLatestAcked(i)' <=> IsLatestAcked(i)
        /\ \A i : IsNext(i)' <=> IsNext(i)
        /\ \A i : Image(emitted[i])' = Image(emitted[i])
    BY OrderStays
  <2>2. Begun' <=> Begun
    BY <1>1, <2>1 DEF Begun
  <2> QED
    BY <2>1, <2>2 DEF PayInv, PaymentIsLatest
<1>3. SuccessHasRow'
  BY <1>1 DEF PayInv, SuccessHasRow
<1>4. ASSUME NEW c \in Deliveries
      PROVE  HandlerHasWritten(c)'
  <2>1. CASE delivery'[c] = delivery[c]
    BY <1>1, <2>1 DEF PayInv, HandlerHasWritten, At, Image
  <2>2. CASE delivery'[c] = Idle
    BY <2>2, IdleIsNowhere DEF HandlerHasWritten, At, Steps
  <2> QED
    BY <2>1, <2>2
<1> QED
  BY <1>2, <1>3, <1>4 DEF PayInv

\* With the 2xx for its event, what a handler has written is the latest.
LEMMA MarkKeepsPay ==
  ASSUME TypeInv, OrderInv, PayInv, NEW d \in Deliveries, MarkProcessed(d)
  PROVE  PayInv'
<1> SUFFICES ASSUME ordered, metadata
             PROVE  PayInv'
  BY DEF PayInv, MarkProcessed, stripe
<1> DEFINE e == delivery[d].event
<1>1. /\ InFlight(d) /\ ~At(d, "find") /\ At(d, "processed") /\ e \in Events
  BY AtHandler DEF MarkProcessed, At, Steps
<1>2. /\ delivery'[d] = Idle
      /\ \A c \in Deliveries : c # d => delivery'[c] = delivery[c]
      /\ UNCHANGED <<type, emitted, payment>> /\ acked' = acked \cup {e}
  BY AnswerMoves DEF MarkProcessed, TypeInv, Answer, stripe, rows
<1>3. PICK j \in DOMAIN emitted : emitted[j] = e /\ IsNext(j)
  BY <1>1, WorksOnNext
<1>4. HandlerHasWritten(d)
  BY DEF PayInv
<1>5. \A i, k \in DOMAIN emitted : emitted[i] = emitted[k] => i = k
  BY DEF TypeInv, EmittedInOrder
<1>6. DOMAIN emitted \subseteq Nat
  <2>1. emitted \in Seq(Events)
    BY DEF TypeInv, TypeOK
  <2> QED
    BY <2>1
<1>7. \A i \in DOMAIN emitted : emitted[i] \in acked => i < j
  <2> SUFFICES ASSUME NEW i \in DOMAIN emitted, emitted[i] \in acked, ~(i < j)
               PROVE  FALSE
    OBVIOUS
  <2>1. i # j
    BY <1>3 DEF IsNext
  <2>2. j < i
    BY <1>6, <2>1
  <2>3. emitted[j] \in acked
    BY <2>2 DEF OrderInv, AckedIsPrefix
  <2> QED
    BY <1>3, <2>3 DEF IsNext
<1>8. ASSUME NEW i \in DOMAIN emitted, IsLatestAcked(i)'
      PROVE  payment = Image(emitted[i])
  <2>1. /\ emitted[i] \in acked \cup {e} /\ type[emitted[i]] \in PaymentTypes
        /\ \A k \in DOMAIN emitted :
             k > i /\ emitted[k] \in acked \cup {e} => type[emitted[k]] \notin PaymentTypes
    BY <1>2, <1>8 DEF IsLatestAcked
  <2>2. CASE emitted[i] = e
    BY <1>1, <1>4, <2>1, <2>2 DEF HandlerHasWritten
  <2>3. CASE emitted[i] \in acked
    <3>1. j > i
      BY <1>6, <1>7, <2>3
    <3>2. type[e] \notin PaymentTypes
      BY <1>3, <2>1, <3>1
    <3>3. IsLatestAcked(i)
      BY <2>1, <2>3 DEF IsLatestAcked
    <3>4. ~Begun
      <4> SUFFICES ASSUME NEW k \in DOMAIN emitted, IsNext(k), type[emitted[k]] \in PaymentTypes
                   PROVE  FALSE
        BY DEF Begun
      <4>1. k # j
        BY <1>3, <3>2
      <4>2. k < j \/ j < k
        BY <1>6, <4>1
      <4> QED
        BY <1>3, <4>2 DEF IsNext
    <3> QED
      BY <3>3, <3>4 DEF PayInv, PaymentIsLatest
  <2> QED
    BY <2>1, <2>2, <2>3
<1>9. PaymentIsLatest'
  <2>1. \A i : Image(emitted[i])' = Image(emitted[i])
    BY <1>2 DEF Image
  <2> QED
    BY <1>2, <1>8, <2>1 DEF PaymentIsLatest
<1>10. SuccessHasRow'
  <2>1. type[e] = "succeeded" => payment # "none"
    BY <1>1, <1>4, ImageOfType DEF HandlerHasWritten, PaymentTypes
  <2> QED
    BY <1>2, <2>1 DEF PayInv, SuccessHasRow
<1>11. ASSUME NEW c \in Deliveries
       PROVE  HandlerHasWritten(c)'
  <2>1. delivery'[c] = Idle
    BY <1>1, <1>2, InFlightIsDelivery DEF TypeInv, OrderInv, OneAtATime
  <2> QED
    BY <2>1, IdleIsNowhere DEF HandlerHasWritten, At, Steps
<1> QED
  BY <1>9, <1>10, <1>11 DEF PayInv

\* An event that happens at Stripe has no 2xx, and is next only when all the
\* others have one.
LEMMA EmitKeepsPay ==
  ASSUME TypeInv, PayInv, NEW e \in Events, StripeEmits(e)
  PROVE  PayInv'
<1> SUFFICES ASSUME ordered, metadata
             PROVE  PayInv'
  BY DEF PayInv, StripeEmits
<1>1. /\ DOMAIN emitted = 1..Len(emitted)
      /\ DOMAIN emitted' = 1..(Len(emitted) + 1)
      /\ \A i \in DOMAIN emitted : emitted'[i] = emitted[i]
      /\ emitted'[Len(emitted) + 1] = e
      /\ Len(emitted) \in Nat
  BY EmitAppends DEF StripeEmits, TypeInv
<1>2. UNCHANGED <<type, acked, delivery, payment>>
  BY DEF StripeEmits, rows
<1>3. e \notin acked
  BY DEF StripeEmits, TypeInv, TypeOK
<1>4. ASSUME NEW i \in DOMAIN emitted', IsLatestAcked(i)'
      PROVE  payment' = Image(emitted[i])' \/ Begun'
  <2>1. /\ emitted'[i] \in acked /\ type[emitted'[i]] \in PaymentTypes
        /\ \A k \in DOMAIN emitted' :
             k > i /\ emitted'[k] \in acked => type[emitted'[k]] \notin PaymentTypes
    BY <1>2, <1>4 DEF IsLatestAcked
  <2>2. i \in DOMAIN emitted
    BY <1>1, <1>3, <2>1
  <2>3. emitted'[i] = emitted[i]
    BY <1>1, <2>2
  <2>4. IsLatestAcked(i)
    BY <1>1, <2>1, <2>2 DEF IsLatestAcked
  <2>5. CASE payment = Image(emitted[i])
    <3>1. Image(emitted[i])' = Image(emitted[i])
      BY <1>2, <2>3 DEF Image
    <3> QED
      BY <1>2, <2>5, <3>1
  <2>6. CASE Begun
    <3>1. PICK j \in DOMAIN emitted :
            IsNext(j) /\ type[emitted[j]] \in PaymentTypes /\ payment = Image(emitted[j])
      BY <2>6 DEF Begun
    <3>2. j \in DOMAIN emitted' /\ emitted'[j] = emitted[j]
      BY <1>1
    <3>3. IsNext(j)'
      <4> SUFFICES ASSUME NEW k \in DOMAIN emitted', k < j
                   PROVE  emitted'[k] \in acked
        BY <1>2, <3>1, <3>2 DEF IsNext
      <4>1. k \in DOMAIN emitted
        BY <1>1
      <4> QED
        BY <1>1, <3>1, <4>1 DEF IsNext
    <3>4. Image(emitted[j])' = Image(emitted[j])
      BY <1>2, <3>2 DEF Image
    <3> QED
      BY <1>2, <3>1, <3>2, <3>3, <3>4 DEF Begun
  <2> QED
    BY <2>2, <2>4, <2>5, <2>6 DEF PayInv, PaymentIsLatest
<1>5. PaymentIsLatest'
  BY <1>4 DEF PaymentIsLatest
<1>6. SuccessHasRow'
  BY <1>2 DEF PayInv, SuccessHasRow
<1>7. \A c \in Deliveries : HandlerHasWritten(c)'
  BY <1>2 DEF PayInv, HandlerHasWritten, At, Image
<1> QED
  BY <1>5, <1>6, <1>7 DEF PayInv

\* A handler that goes on writes the image of its event or nothing, and is not
\* through before it has written.
LEMMA HandlerKeepsPay ==
  ASSUME WebhookAssumption, TypeInv, OrderInv, PayInv, NEW d \in Deliveries,
         \/ HandlePaymentIntentSucceeded(d) \/ HandlePaymentIntentFailed(d)
         \/ FindRefunded(d) \/ RefundPayment(d) \/ UpsertRefund(d)
         \/ HandleChargeDisputeCreated(d) \/ HandleAccountUpdated(d)
  PROVE  PayInv'
<1> USE DEF Steps, DealsWith
<1> DEFINE e == delivery[d].event
<1>1. /\ type[e] = "succeeded" => Image(e) = "SUCCESS"
      /\ type[e] = "refunded" => Image(e) = "REFUNDED"
      /\ type[e] = "disputed" => Image(e) = "DISPUTED"
      /\ type[e] = "failed" => Image(e) = "FAILED"
  BY DEF Image, PaymentTypes
<1>2. CASE HandlePaymentIntentSucceeded(d)
  <2>1. /\ InFlight(d) /\ ~At(d, "find") /\ type[e] = "succeeded"
    BY <1>2, AtHandler DEF HandlePaymentIntentSucceeded, At
  <2>2. /\ UNCHANGED <<stripe, acked, ordered>>
        /\ \/ ~metadata /\ UNCHANGED payment /\ Goto(d, "processed")
           \/ UNCHANGED payment /\ Goto(d, "catch")
           \/ payment' = "SUCCESS" /\ Goto(d, "processed")
    BY <1>2 DEF HandlePaymentIntentSucceeded, Continue
  <2> QED
    BY <1>1, <2>1, <2>2, GotoKeepsPay DEF PaymentTypes
<1>3. CASE HandlePaymentIntentFailed(d)
  <2>1. /\ InFlight(d) /\ ~At(d, "find") /\ type[e] = "failed"
    BY <1>3, AtHandler DEF HandlePaymentIntentFailed, At
  <2>2. /\ UNCHANGED <<stripe, acked, ordered>>
        /\ \/ payment = "none" /\ UNCHANGED payment /\ Goto(d, "catch")
           \/ payment' = "FAILED" /\ Goto(d, "processed")
    BY <1>3 DEF HandlePaymentIntentFailed, UpdatePayment, Continue
  <2> QED
    BY <1>1, <2>1, <2>2, GotoKeepsPay DEF PaymentTypes
<1>4. CASE HandleChargeDisputeCreated(d)
  <2>1. /\ InFlight(d) /\ ~At(d, "find") /\ type[e] = "disputed"
    BY <1>4, AtHandler DEF HandleChargeDisputeCreated, At
  <2>2. /\ UNCHANGED <<stripe, acked, ordered>>
        /\ \/ payment = "none" /\ UNCHANGED payment /\ Goto(d, "catch")
           \/ payment' = "DISPUTED" /\ Goto(d, "processed")
    BY <1>4 DEF HandleChargeDisputeCreated, UpdatePayment, Continue
  <2> QED
    BY <1>1, <2>1, <2>2, GotoKeepsPay DEF PaymentTypes
<1>5. CASE FindRefunded(d)
  <2>1. /\ InFlight(d) /\ ~At(d, "find") /\ type[e] = "refunded"
    BY <1>5, AtHandler DEF FindRefunded, At
  <2>2. ordered /\ metadata => payment # "none"
    BY <2>1, PaymentExists
  <2>3. /\ UNCHANGED <<stripe, acked, ordered, payment>>
        /\ \/ payment = "none" /\ Goto(d, "processed")
           \/ Goto(d, "refund")
    BY <1>5 DEF FindRefunded, Continue
  <2> QED
    BY <2>1, <2>2, <2>3, GotoKeepsPay
<1>6. CASE RefundPayment(d)
  <2>1. /\ InFlight(d) /\ ~At(d, "find") /\ type[e] = "refunded"
    BY <1>6, AtHandler DEF RefundPayment, At
  <2>2. /\ UNCHANGED <<stripe, acked, ordered>>
        /\ \/ payment = "none" /\ UNCHANGED payment /\ Goto(d, "catch")
           \/ payment' = "REFUNDED" /\ (Goto(d, "list") \/ Goto(d, "processed"))
    BY <1>6 DEF RefundPayment, UpdatePayment, Continue
  <2> QED
    BY <1>1, <2>1, <2>2, GotoKeepsPay DEF PaymentTypes
<1>7. CASE UpsertRefund(d)
  <2>1. /\ InFlight(d) /\ ~At(d, "find") /\ At(d, "list") /\ type[e] = "refunded"
    BY <1>7, AtHandler DEF UpsertRefund, At
  <2>2. /\ UNCHANGED <<stripe, acked, ordered, payment>>
        /\ Goto(d, "list") \/ Goto(d, "processed") \/ Goto(d, "catch")
    BY <1>7 DEF UpsertRefund, UpsertRefundRow, Continue
  <2>3. ordered /\ metadata => payment = "REFUNDED"
    BY <2>1 DEF PayInv, HandlerHasWritten
  <2> QED
    BY <1>1, <2>1, <2>2, <2>3, GotoKeepsPay
<1>8. CASE HandleAccountUpdated(d)
  <2>1. /\ InFlight(d) /\ ~At(d, "find") /\ type[e] \in AccountTypes
    BY <1>8, AtHandler DEF HandleAccountUpdated, At
  <2>2. /\ UNCHANGED <<stripe, acked, ordered, payment, refund>>
        /\ Goto(d, "processed")
    BY <1>8 DEF HandleAccountUpdated, Continue
  <2>3. type[e] \notin PaymentTypes /\ type[e] # "refunded"
    BY <2>1 DEF AccountTypes, PaymentTypes
  <2> QED
    BY <2>1, <2>2, <2>3, GotoKeepsPay
<1> QED
  BY <1>2, <1>3, <1>4, <1>5, <1>6, <1>7, <1>8

\* PayInv is inductive.
LEMMA NextKeepsPay ==
  ASSUME WebhookAssumption, TypeInv, AckInv, OrderInv, PayInv, [Next]_vars
  PROVE  PayInv'
<1> USE DEF Steps
<1>1. ASSUME NEW e \in Events, NEW d \in Deliveries, StripeDelivers(d, e)
      PROVE  PayInv'
  <2> DEFINE n == [pc |-> "find", event |-> e]
  <2>1. /\ delivery' = [delivery EXCEPT ![d] = n]
        /\ UNCHANGED <<stripe, acked, payment>>
        /\ ordered' => ordered
    BY <1>1 DEF StripeDelivers, rows
  <2> SUFFICES ASSUME ordered', ordered, metadata
               PROVE  PayInv'
    BY <2>1 DEF PayInv, stripe
  <2>2. /\ delivery'[d].pc = "find"
        /\ \A c \in Deliveries : c # d => delivery'[c] = delivery[c]
    BY <2>1 DEF TypeInv, TypeOK
  <2>3. UNCHANGED <<type, emitted, acked>>
    BY <2>1 DEF stripe
  <2>4. PaymentIsLatest'
    <3>1. /\ DOMAIN emitted' = DOMAIN emitted
          /\ \A i : IsLatestAcked(i)' <=> IsLatestAcked(i)
          /\ \A i : IsNext(i)' <=> IsNext(i)
          /\ \A i : Image(emitted[i])' = Image(emitted[i])
      BY <2>1, OrderStays
    <3>2. Begun' <=> Begun
      BY <2>1, <2>3, <3>1 DEF Begun
    <3> QED
      BY <2>1, <3>1, <3>2 DEF PayInv, PaymentIsLatest
  <2>5. SuccessHasRow'
    BY <2>1, <2>3 DEF PayInv, SuccessHasRow
  <2>6. HandlerHasWritten(d)'
    BY <2>2 DEF HandlerHasWritten, At
  <2>7. \A c \in Deliveries : c # d => HandlerHasWritten(c)'
    BY <2>1, <2>2, <2>3 DEF PayInv, HandlerHasWritten, At, Image
  <2> QED
    BY <2>4, <2>5, <2>6, <2>7 DEF PayInv
<1>2. ASSUME NEW d \in Deliveries, FindEvent(d)
      PROVE  PayInv'
  <2>1. /\ InFlight(d) /\ delivery[d].event \in Events
        /\ UNCHANGED <<stripe, event, payment, ordered>>
    BY <1>2, AtHandler DEF FindEvent, rows
  <2>2. CASE Answer(d, TRUE) /\ event[delivery[d].event] = "PROCESSED"
    <3>1. UNCHANGED acked
      BY <2>1, <2>2 DEF AckInv, Answer
    <3>2. \A c \in Deliveries : delivery'[c] \in {delivery[c], Idle}
      BY <2>2, AnswerMoves DEF TypeInv
    <3> QED
      BY <2>1, <3>1, <3>2, QuietKeepsPay
  <2>3. CASE Goto(d, "record") /\ UNCHANGED acked
    BY <2>1, <2>3, GotoKeepsPay
  <2> QED
    BY <1>2, <2>2, <2>3 DEF FindEvent
<1>3. ASSUME NEW d \in Deliveries, RecordEvent(d)
      PROVE  PayInv'
  <2> DEFINE pc == Handler[type[delivery[d].event]]
  <2>1. InFlight(d) /\ delivery[d].event \in Events
    BY <1>3, AtHandler DEF RecordEvent
  <2>2. type[delivery[d].event] \in EventTypes
    BY <2>1, TypeOfEvent DEF TypeInv
  <2>3. pc \in Steps /\ pc \notin {"processed", "list"}
    BY <2>2 DEF Handler, EventTypes, PaymentTypes, AccountTypes
  <2>4. Goto(d, pc) /\ UNCHANGED <<stripe, acked, ordered, payment>>
    BY <1>3 DEF RecordEvent, rows
  <2> HIDE DEF pc
  <2> QED
    BY <2>1, <2>3, <2>4, GotoKeepsPay
<1>4. ASSUME NEW d \in Deliveries, MarkFailed(d)
      PROVE  PayInv'
  <2>1. UNCHANGED <<stripe, acked, ordered, payment>>
    BY <1>4 DEF MarkFailed, Answer, rows
  <2>2. \A c \in Deliveries : delivery'[c] \in {delivery[c], Idle}
    BY <1>4, AnswerMoves DEF MarkFailed, TypeInv
  <2> QED
    BY <2>1, <2>2, QuietKeepsPay
<1>5. ASSUME NEW d \in Deliveries, AwaitFails(d)
      PROVE  PayInv'
  <2>1. InFlight(d) /\ UNCHANGED <<stripe, payment, ordered>>
    BY <1>5 DEF AwaitFails, rows
  <2>2. CASE Answer(d, FALSE)
    <3>1. \A c \in Deliveries : delivery'[c] \in {delivery[c], Idle}
      BY <2>2, AnswerMoves DEF TypeInv
    <3> QED
      BY <2>1, <2>2, <3>1, QuietKeepsPay DEF Answer
  <2>3. CASE At(d, "account") /\ Goto(d, "processed") /\ UNCHANGED acked
    <3>1. type[delivery[d].event] \in AccountTypes
      BY <2>3, AtHandler DEF DealsWith
    <3>2. type[delivery[d].event] \notin PaymentTypes /\ type[delivery[d].event] # "refunded"
      BY <3>1 DEF AccountTypes, PaymentTypes
    <3> QED
      BY <2>1, <2>3, <3>2, GotoKeepsPay
  <2>4. CASE Goto(d, "catch") /\ UNCHANGED acked
    BY <2>1, <2>4, GotoKeepsPay
  <2> QED
    BY <1>5, <2>2, <2>3, <2>4 DEF AwaitFails, At
<1>6. CASE Crash
  <2>1. /\ \A c \in Deliveries : delivery'[c] = Idle
        /\ UNCHANGED <<stripe, acked, ordered, payment>>
    BY <1>6 DEF Crash, rows
  <2> QED
    BY <2>1, QuietKeepsPay
<1>7. CASE UNCHANGED vars \/ PartyDeleted
  <2>1. UNCHANGED <<stripe, acked, ordered, payment, delivery>>
    BY <1>7 DEF vars, rows, PartyDeleted
  <2> QED
    BY <2>1, QuietKeepsPay
<1>8. ASSUME NEW d \in Deliveries, Work(d)
      PROVE  PayInv'
  BY <1>2, <1>3, <1>4, <1>8, HandlerKeepsPay, MarkKeepsPay DEF Work
<1> QED
  BY <1>1, <1>5, <1>6, <1>7, <1>8, EmitKeepsPay DEF Next

-----------------------------------------------------------------------------
(* The refunds follow Stripe.                                              *)

\* The order of the events, the answers and the lists stay as they are.
LEMMA ListsStay ==
  ASSUME UNCHANGED <<stripe, acked>>
  PROVE  /\ UNCHANGED <<type, refunds, metadata, emitted, acked>>
         /\ DOMAIN emitted' = DOMAIN emitted
         /\ \A i, r : IsLatestAckedOf(i, r)' <=> IsLatestAckedOf(i, r)
         /\ \A i : IsNext(i)' <=> IsNext(i)
         /\ \A i, r : Lists(emitted[i], r)' <=> Lists(emitted[i], r)
         /\ \A i, r : RefundImage(emitted[i], r)' = RefundImage(emitted[i], r)
<1>1. UNCHANGED <<type, refunds, metadata, emitted, acked>>
  BY DEF stripe
<1> QED
  BY <1>1 DEF IsLatestAckedOf, IsNext, Lists, RefundImage

\* A row of a refund that no step has touched.
LEMMA RefundStays ==
  ASSUME UNCHANGED <<stripe, acked>>, NEW r \in Refunds, refund'[r] = refund[r],
         RefundIsLatest(r), RefundIsListed(r)
  PROVE  RefundIsLatest(r)' /\ RefundIsListed(r)'
<1>1. RefundBegun(r)' <=> RefundBegun(r)
  BY ListsStay DEF RefundBegun
<1> QED
  BY <1>1, ListsStay DEF RefundIsLatest, RefundIsListed

\* A delivery that goes on, with its loop over or at what is left of the list.
LEMMA GotoKeepsRefunds ==
  ASSUME TypeInv, OrderInv, NEW d \in Deliveries, InFlight(d),
         NEW pc \in Steps, Goto(d, pc), UNCHANGED <<stripe, acked>>,
         ordered, metadata,
         \A r \in Refunds : RefundIsLatest(r)' /\ RefundIsListed(r)',
         NEW e, e = delivery[d].event,
         pc = "processed" /\ type[e] = "refunded" =>
           \A r \in DOMAIN refunds[e] : refund'[r] = RefundImage(e, r),
         pc = "list" =>
           /\ left'[d] \subseteq DOMAIN refunds[e]
           /\ \A r \in DOMAIN refunds[e] \ left'[d] : refund'[r] = RefundImage(e, r)
  PROVE  RefundInv'
<1>1. /\ delivery'[d].pc = pc /\ delivery'[d].event = e
      /\ \A c \in Deliveries : c # d => delivery'[c] = delivery[c]
  BY GotoMoves DEF TypeInv
<1>2. LoopHasWritten(d)'
  BY <1>1, ListsStay DEF LoopHasWritten, At, RefundImage
<1>3. ASSUME NEW c \in Deliveries, c # d
      PROVE  LoopHasWritten(c)'
  <2>1. delivery'[c] = Idle
    BY <1>1, <1>3, InFlightIsDelivery DEF TypeInv, OrderInv, OneAtATime
  <2> QED
    BY <2>1, IdleIsNowhere DEF LoopHasWritten, At, Steps
<1> QED
  BY <1>2, <1>3 DEF RefundInv

\* A step that leaves the rows and the answers alone, and no delivery at work
\* that was not.
LEMMA QuietKeepsRefunds ==
  ASSUME TypeInv, RefundInv, UNCHANGED <<stripe, acked, ordered, refund>>,
         \A c \in Deliveries :
           delivery'[c] = Idle \/ (delivery'[c] = delivery[c] /\ left'[c] = left[c])
  PROVE  RefundInv'
<1> SUFFICES ASSUME ordered, metadata
             PROVE  RefundInv'
  BY DEF RefundInv, stripe
<1>1. \A r \in Refunds : RefundIsLatest(r)' /\ RefundIsListed(r)'
  BY RefundStays DEF RefundInv
<1>2. ASSUME NEW c \in Deliveries
      PROVE  LoopHasWritten(c)'
  <2>1. CASE delivery'[c] = delivery[c] /\ left'[c] = left[c]
    BY <2>1, ListsStay DEF RefundInv, LoopHasWritten, At, RefundImage
  <2>2. CASE delivery'[c] = Idle
    BY <2>2, IdleIsNowhere DEF LoopHasWritten, At, Steps
  <2> QED
    BY <2>1, <2>2
<1> QED
  BY <1>1, <1>2 DEF RefundInv

\* A round of the loop writes what the event says of one refund.
LEMMA UpsertKeepsRefunds ==
  ASSUME TypeInv, OrderInv, RefundInv, NEW d \in Deliveries, UpsertRefund(d)
  PROVE  RefundInv'
<1> DEFINE e == delivery[d].event
<1>1. /\ InFlight(d) /\ ~At(d, "find") /\ At(d, "list") /\ type[e] = "refunded"
      /\ e \in Events
  BY AtHandler DEF UpsertRefund, At, Steps, DealsWith
<1>2. PICK r \in left[d] : UpsertRefundRow(d, r)
  BY DEF UpsertRefund
<1>3. UNCHANGED <<stripe, acked, ordered>>
  BY <1>2 DEF UpsertRefundRow, Continue
<1> SUFFICES ASSUME ordered, metadata
             PROVE  RefundInv'
  BY <1>3 DEF RefundInv, stripe
<1>4. /\ left[d] \subseteq DOMAIN refunds[e] /\ r \in Refunds
      /\ \A x \in DOMAIN refunds[e] \ left[d] : refund[x] = RefundImage(e, x)
  BY <1>1, <1>2 DEF RefundInv, LoopHasWritten, TypeInv, TypeOK
<1>5. CASE UNCHANGED refund /\ Goto(d, "catch")
  <2>1. \A x \in Refunds : RefundIsLatest(x)' /\ RefundIsListed(x)'
    BY <1>3, <1>5, RefundStays DEF RefundInv
  <2> QED
    BY <1>1, <1>3, <1>5, <2>1, GotoKeepsRefunds DEF Steps
<1>6. CASE /\ refund' = [refund EXCEPT ![r] = RefundImage(e, r)]
           /\ left' = [left EXCEPT ![d] = @ \ {r}]
           /\ Goto(d, IF left[d] = {r} THEN "processed" ELSE "list")
  <2>1. /\ refund'[r] = RefundImage(e, r)
        /\ \A x \in Refunds : x # r => refund'[x] = refund[x]
        /\ left'[d] = left[d] \ {r}
    BY <1>4, <1>6 DEF TypeInv, TypeOK
  <2>2. DOMAIN refunds[e] \subseteq Refunds
    BY <1>1, ListIsOfRefunds DEF TypeInv
  <2>3. PICK j \in DOMAIN emitted : emitted[j] = e /\ IsNext(j)
    BY <1>1, WorksOnNext
  <2>4. Lists(emitted[j], r)
    BY <1>1, <1>2, <1>4, <2>3 DEF Lists
  <2>5. RefundIsLatest(r)' /\ RefundIsListed(r)'
    <3>1. /\ j \in DOMAIN emitted' /\ IsNext(j)' /\ Lists(emitted[j], r)'
          /\ RefundImage(emitted[j], r)' = RefundImage(e, r)
      BY <1>3, <2>3, <2>4, ListsStay
    <3>2. RefundBegun(r)'
      BY <2>1, <3>1 DEF RefundBegun
    <3> QED
      BY <3>1, <3>2 DEF RefundIsLatest, RefundIsListed
  <2>6. \A x \in Refunds : x # r => RefundIsLatest(x)' /\ RefundIsListed(x)'
    BY <1>3, <2>1, RefundStays DEF RefundInv
  <2>7. \A x \in DOMAIN refunds[e] \ left'[d] : refund'[x] = RefundImage(e, x)
    BY <1>4, <2>1, <2>2
  <2>8. left'[d] \subseteq DOMAIN refunds[e]
    BY <1>4, <2>1
  <2>9. left[d] = {r} => left'[d] = {}
    BY <2>1
  <2> DEFINE pc == IF left[d] = {r} THEN "processed" ELSE "list"
  <2>10. pc \in Steps /\ Goto(d, pc)
    BY <1>6 DEF Steps
  <2>11. /\ pc = "processed" => \A x \in DOMAIN refunds[e] : refund'[x] = RefundImage(e, x)
    BY <2>7, <2>9
  <2>12. \A x \in Refunds : RefundIsLatest(x)' /\ RefundIsListed(x)'
    BY <2>5, <2>6
  <2> HIDE DEF pc
  <2> QED
    BY <1>1, <1>3, <2>7, <2>8, <2>10, <2>11, <2>12, GotoKeepsRefunds
<1> QED
  BY <1>2, <1>5, <1>6 DEF UpsertRefundRow, Continue, RefundImage

\* With the 2xx for its event, what a loop has written is the latest.
LEMMA MarkKeepsRefunds ==
  ASSUME TypeInv, OrderInv, RefundInv, NEW d \in Deliveries, MarkProcessed(d)
  PROVE  RefundInv'
<1> SUFFICES ASSUME ordered, metadata
             PROVE  RefundInv'
  BY DEF RefundInv, MarkProcessed, stripe
<1> DEFINE e == delivery[d].event
<1>1. /\ InFlight(d) /\ ~At(d, "find") /\ At(d, "processed") /\ e \in Events
  BY AtHandler DEF MarkProcessed, At, Steps
<1>2. /\ delivery'[d] = Idle
      /\ \A c \in Deliveries : c # d => delivery'[c] = delivery[c]
      /\ UNCHANGED <<type, refunds, emitted, refund>> /\ acked' = acked \cup {e}
  BY AnswerMoves DEF MarkProcessed, TypeInv, Answer, stripe, rows
<1>3. PICK j \in DOMAIN emitted : emitted[j] = e /\ IsNext(j)
  BY <1>1, WorksOnNext
<1>4. LoopHasWritten(d)
  BY DEF RefundInv
<1>5. DOMAIN emitted \subseteq Nat
  <2>1. emitted \in Seq(Events)
    BY DEF TypeInv, TypeOK
  <2> QED
    BY <2>1
<1>6. \A i \in DOMAIN emitted : emitted[i] \in acked => i < j
  <2> SUFFICES ASSUME NEW i \in DOMAIN emitted, emitted[i] \in acked, ~(i < j)
               PROVE  FALSE
    OBVIOUS
  <2>1. i # j
    BY <1>3 DEF IsNext
  <2>2. j < i
    BY <1>5, <2>1
  <2>3. emitted[j] \in acked
    BY <2>2 DEF OrderInv, AckedIsPrefix
  <2> QED
    BY <1>3, <2>3 DEF IsNext
<1>7. ASSUME NEW r \in Refunds, NEW i \in DOMAIN emitted, IsLatestAckedOf(i, r)'
      PROVE  refund[r] = RefundImage(emitted[i], r)
  <2>1. /\ emitted[i] \in acked \cup {e} /\ Lists(emitted[i], r)
        /\ \A k \in DOMAIN emitted :
             k > i /\ emitted[k] \in acked \cup {e} => ~Lists(emitted[k], r)
    BY <1>2, <1>7 DEF IsLatestAckedOf, Lists
  <2>2. CASE emitted[i] = e
    BY <1>1, <1>4, <2>1, <2>2 DEF LoopHasWritten, Lists
  <2>3. CASE emitted[i] \in acked
    <3>1. j > i
      BY <1>5, <1>6, <2>3
    <3>2. ~Lists(e, r)
      BY <1>3, <2>1, <3>1
    <3>3. IsLatestAckedOf(i, r)
      BY <2>1, <2>3 DEF IsLatestAckedOf
    <3>4. ~RefundBegun(r)
      <4> SUFFICES ASSUME NEW k \in DOMAIN emitted, IsNext(k), Lists(emitted[k], r)
                   PROVE  FALSE
        BY DEF RefundBegun
      <4>1. k # j
        BY <1>3, <3>2
      <4>2. k < j \/ j < k
        BY <1>5, <4>1
      <4> QED
        BY <1>3, <4>2 DEF IsNext
    <3> QED
      BY <3>3, <3>4 DEF RefundInv, RefundIsLatest
  <2> QED
    BY <2>1, <2>2, <2>3
<1>8. \A r \in Refunds : RefundIsLatest(r)'
  BY <1>2, <1>7 DEF RefundIsLatest, RefundImage
<1>9. \A r \in Refunds : RefundIsListed(r)'
  BY <1>2 DEF RefundInv, RefundIsListed, Lists
<1>10. ASSUME NEW c \in Deliveries
       PROVE  LoopHasWritten(c)'
  <2>1. delivery'[c] = Idle
    BY <1>1, <1>2, InFlightIsDelivery DEF TypeInv, OrderInv, OneAtATime
  <2> QED
    BY <2>1, IdleIsNowhere DEF LoopHasWritten, At, Steps
<1> QED
  BY <1>8, <1>9, <1>10 DEF RefundInv

\* An event that happens at Stripe has no 2xx, and is next only when all the
\* others have one.
LEMMA EmitKeepsRefunds ==
  ASSUME TypeInv, RefundInv, NEW e \in Events, StripeEmits(e)
  PROVE  RefundInv'
<1> SUFFICES ASSUME ordered, metadata
             PROVE  RefundInv'
  BY DEF RefundInv, StripeEmits
<1>1. /\ DOMAIN emitted = 1..Len(emitted)
      /\ DOMAIN emitted' = 1..(Len(emitted) + 1)
      /\ \A i \in DOMAIN emitted : emitted'[i] = emitted[i]
      /\ emitted'[Len(emitted) + 1] = e
      /\ Len(emitted) \in Nat
  BY EmitAppends DEF StripeEmits, TypeInv
<1>2. UNCHANGED <<type, refunds, acked, delivery, left, refund>>
  BY DEF StripeEmits, rows
<1>3. e \notin acked
  BY DEF StripeEmits, TypeInv, TypeOK
<1>4. ASSUME NEW r \in Refunds, NEW i \in DOMAIN emitted', IsLatestAckedOf(i, r)'
      PROVE  refund'[r] = RefundImage(emitted[i], r)' \/ RefundBegun(r)'
  <2>1. /\ emitted'[i] \in acked /\ Lists(emitted'[i], r)
        /\ \A k \in DOMAIN emitted' :
             k > i /\ emitted'[k] \in acked => ~Lists(emitted'[k], r)
    BY <1>2, <1>4 DEF IsLatestAckedOf, Lists
  <2>2. i \in DOMAIN emitted
    BY <1>1, <1>3, <2>1
  <2>3. emitted'[i] = emitted[i]
    BY <1>1, <2>2
  <2>4. IsLatestAckedOf(i, r)
    BY <1>1, <2>1, <2>2 DEF IsLatestAckedOf
  <2>5. CASE refund[r] = RefundImage(emitted[i], r)
    BY <1>2, <2>3, <2>5 DEF RefundImage
  <2>6. CASE RefundBegun(r)
    <3>1. PICK j \in DOMAIN emitted :
            IsNext(j) /\ Lists(emitted[j], r) /\ refund[r] = RefundImage(emitted[j], r)
      BY <2>6 DEF RefundBegun
    <3>2. j \in DOMAIN emitted' /\ emitted'[j] = emitted[j]
      BY <1>1
    <3>3. IsNext(j)'
      <4> SUFFICES ASSUME NEW k \in DOMAIN emitted', k < j
                   PROVE  emitted'[k] \in acked
        BY <1>2, <3>1, <3>2 DEF IsNext
      <4>1. k \in DOMAIN emitted
        BY <1>1
      <4> QED
        BY <1>1, <3>1, <4>1 DEF IsNext
    <3>4. Lists(emitted[j], r)' /\ refund'[r] = RefundImage(emitted[j], r)'
      BY <1>2, <3>1, <3>2 DEF Lists, RefundImage
    <3> QED
      BY <3>2, <3>3, <3>4 DEF RefundBegun
  <2> QED
    BY <2>2, <2>4, <2>5, <2>6 DEF RefundInv, RefundIsLatest
<1>5. \A r \in Refunds : RefundIsLatest(r)'
  BY <1>4 DEF RefundIsLatest
<1>6. ASSUME NEW r \in Refunds
      PROVE  RefundIsListed(r)'
  <2> SUFFICES ASSUME refund[r] # "none"
               PROVE  \E i \in DOMAIN emitted' : Lists(emitted[i], r)'
    BY <1>2 DEF RefundIsListed
  <2>1. PICK i \in DOMAIN emitted : Lists(emitted[i], r)
    BY DEF RefundInv, RefundIsListed
  <2> QED
    BY <1>1, <1>2, <2>1 DEF Lists
<1>7. \A c \in Deliveries : LoopHasWritten(c)'
  BY <1>2 DEF RefundInv, LoopHasWritten, At, RefundImage
<1> QED
  BY <1>5, <1>6, <1>7 DEF RefundInv

\* RefundInv is inductive: a loop that is cut short is run again before the
\* next event, and a refund is found on record by the payment it is of.
LEMMA NextKeepsRefunds ==
  ASSUME WebhookAssumption, TypeInv, AckInv, OrderInv, PayInv, RefundInv, [Next]_vars
  PROVE  RefundInv'
<1> USE DEF Steps, DealsWith
<1>1. ASSUME NEW d \in Deliveries, NEW pc \in Steps, InFlight(d), Goto(d, pc),
             UNCHANGED <<stripe, acked, ordered, refund>>,
             pc # "list",
             ordered /\ metadata /\ pc = "processed" /\ type[delivery[d].event] = "refunded" =>
               DOMAIN refunds[delivery[d].event] = {}
      PROVE  RefundInv'
  <2> SUFFICES ASSUME ordered, metadata
               PROVE  RefundInv'
    BY <1>1 DEF RefundInv, stripe
  <2>1. \A r \in Refunds : RefundIsLatest(r)' /\ RefundIsListed(r)'
    BY <1>1, RefundStays DEF RefundInv
  <2> QED
    BY <1>1, <2>1, GotoKeepsRefunds
<1>2. ASSUME NEW e \in Events, NEW d \in Deliveries, StripeDelivers(d, e)
      PROVE  RefundInv'
  <2> DEFINE n == [pc |-> "find", event |-> e]
  <2>1. /\ delivery' = [delivery EXCEPT ![d] = n]
        /\ UNCHANGED <<stripe, acked, refund, left>>
        /\ ordered' => ordered
    BY <1>2 DEF StripeDelivers, rows
  <2> SUFFICES ASSUME ordered', ordered, metadata
               PROVE  RefundInv'
    BY <2>1 DEF RefundInv, stripe
  <2>2. /\ delivery'[d].pc = "find"
        /\ \A c \in Deliveries : c # d => delivery'[c] = delivery[c]
    BY <2>1 DEF TypeInv, TypeOK
  <2>3. \A r \in Refunds : RefundIsLatest(r)' /\ RefundIsListed(r)'
    BY <2>1, RefundStays DEF RefundInv
  <2>4. LoopHasWritten(d)'
    BY <2>2 DEF LoopHasWritten, At
  <2>5. \A c \in Deliveries : c # d => LoopHasWritten(c)'
    BY <2>1, <2>2, ListsStay DEF RefundInv, LoopHasWritten, At, RefundImage
  <2> QED
    BY <2>3, <2>4, <2>5 DEF RefundInv
<1>3. ASSUME NEW d \in Deliveries, NEW ok, InFlight(d), Answer(d, ok),
             UNCHANGED <<stripe, acked, ordered, refund>>,
             \A c \in Deliveries : c # d => left'[c] = left[c]
      PROVE  RefundInv'
  <2>1. \A c \in Deliveries :
          delivery'[c] = Idle \/ (delivery'[c] = delivery[c] /\ left'[c] = left[c])
    BY <1>3, AnswerMoves DEF TypeInv
  <2> QED
    BY <1>3, <2>1, QuietKeepsRefunds
<1>4. ASSUME NEW d \in Deliveries, FindEvent(d)
      PROVE  RefundInv'
  <2>1. /\ InFlight(d) /\ delivery[d].event \in Events
        /\ UNCHANGED <<stripe, event, refund, left, ordered>>
    BY <1>4, AtHandler DEF FindEvent, rows
  <2>2. CASE Answer(d, TRUE) /\ event[delivery[d].event] = "PROCESSED"
    <3>1. UNCHANGED acked
      BY <2>1, <2>2 DEF AckInv, Answer
    <3> QED
      BY <1>3, <2>1, <2>2, <3>1
  <2>3. CASE Goto(d, "record") /\ UNCHANGED acked
    BY <1>1, <2>1, <2>3
  <2> QED
    BY <1>4, <2>2, <2>3 DEF FindEvent
<1>5. ASSUME NEW d \in Deliveries, RecordEvent(d)
      PROVE  RefundInv'
  <2> DEFINE pc == Handler[type[delivery[d].event]]
  <2>1. InFlight(d) /\ delivery[d].event \in Events
    BY <1>5, AtHandler DEF RecordEvent
  <2>2. type[delivery[d].event] \in EventTypes
    BY <2>1, TypeOfEvent DEF TypeInv
  <2>3. pc \in Steps /\ pc \notin {"processed", "list"}
    BY <2>2 DEF Handler, EventTypes, PaymentTypes, AccountTypes
  <2>4. Goto(d, pc) /\ UNCHANGED <<stripe, acked, ordered, refund>>
    BY <1>5 DEF RecordEvent, rows
  <2> HIDE DEF pc
  <2> QED
    BY <1>1, <2>1, <2>3, <2>4
<1>6. ASSUME NEW d \in Deliveries, MarkFailed(d)
      PROVE  RefundInv'
  <2>1. /\ InFlight(d) /\ Answer(d, FALSE)
        /\ UNCHANGED <<stripe, acked, ordered, refund, left>>
    BY <1>6, AtHandler DEF MarkFailed, Answer, rows
  <2> QED
    BY <1>3, <2>1
<1>7. ASSUME NEW d \in Deliveries, AwaitFails(d)
      PROVE  RefundInv'
  <2>1. /\ InFlight(d) /\ UNCHANGED <<stripe, refund, ordered>>
        /\ \A c \in Deliveries : c # d => left'[c] = left[c]
    BY <1>7 DEF AwaitFails, rows, TypeInv, TypeOK
  <2>2. CASE Answer(d, FALSE)
    BY <1>3, <2>1, <2>2 DEF Answer
  <2>3. CASE At(d, "account") /\ Goto(d, "processed") /\ UNCHANGED acked
    <3>1. type[delivery[d].event] # "refunded"
      BY <2>3, AtHandler DEF AccountTypes
    <3> QED
      BY <1>1, <2>1, <2>3, <3>1
  <2>4. CASE Goto(d, "catch") /\ UNCHANGED acked
    BY <1>1, <2>1, <2>4
  <2> QED
    BY <1>7, <2>2, <2>3, <2>4 DEF AwaitFails, At
<1>8. CASE Crash
  <2>1. /\ \A c \in Deliveries : delivery'[c] = Idle
        /\ UNCHANGED <<stripe, acked, ordered, refund>>
    BY <1>8 DEF Crash, rows
  <2> QED
    BY <2>1, QuietKeepsRefunds
<1>9. CASE UNCHANGED vars \/ PartyDeleted
  <2>1. UNCHANGED <<stripe, acked, ordered, refund, delivery, left>>
    BY <1>9 DEF vars, rows, PartyDeleted
  <2> QED
    BY <2>1, QuietKeepsRefunds
<1>10. ASSUME NEW d \in Deliveries,
              \/ HandlePaymentIntentSucceeded(d) \/ HandlePaymentIntentFailed(d)
              \/ HandleChargeDisputeCreated(d) \/ HandleAccountUpdated(d)
       PROVE  RefundInv'
  <2>1. InFlight(d) /\ type[delivery[d].event] # "refunded"
    BY <1>10, AtHandler
       DEF HandlePaymentIntentSucceeded, HandlePaymentIntentFailed,
           HandleChargeDisputeCreated, HandleAccountUpdated, AccountTypes
  <2>2. /\ UNCHANGED <<stripe, acked, ordered, refund>>
        /\ Goto(d, "processed") \/ Goto(d, "catch")
    BY <1>10 DEF HandlePaymentIntentSucceeded, HandlePaymentIntentFailed,
                 HandleChargeDisputeCreated, HandleAccountUpdated, UpdatePayment, Continue
  <2> QED
    BY <1>1, <2>1, <2>2
<1>11. ASSUME NEW d \in Deliveries, FindRefunded(d)
       PROVE  RefundInv'
  <2>1. /\ InFlight(d) /\ ~At(d, "find") /\ type[delivery[d].event] = "refunded"
    BY <1>11, AtHandler DEF FindRefunded, At
  <2>2. ordered /\ metadata => payment # "none"
    BY <2>1, PaymentExists
  <2>3. /\ UNCHANGED <<stripe, acked, ordered, refund>>
        /\ \/ payment = "none" /\ Goto(d, "processed")
           \/ Goto(d, "refund")
    BY <1>11 DEF FindRefunded, Continue
  <2> QED
    BY <1>1, <2>1, <2>2, <2>3
<1>12. ASSUME NEW d \in Deliveries, RefundPayment(d)
       PROVE  RefundInv'
  <2> DEFINE listed == DOMAIN refunds[delivery[d].event]
  <2>1. InFlight(d)
    BY <1>12, AtHandler DEF RefundPayment
  <2>2. /\ UNCHANGED <<stripe, acked, ordered, refund>>
        /\ \/ Goto(d, "catch")
           \/ listed = {} /\ Goto(d, "processed")
           \/ Goto(d, "list") /\ left' = [left EXCEPT ![d] = listed]
    BY <1>12 DEF RefundPayment, UpdatePayment, Continue
  <2>3. CASE Goto(d, "list") /\ left' = [left EXCEPT ![d] = listed]
    <3> SUFFICES ASSUME ordered, metadata
                 PROVE  RefundInv'
      BY <2>2 DEF RefundInv, stripe
    <3>1. left'[d] = listed
      BY <2>3 DEF TypeInv, TypeOK
    <3>2. \A r \in Refunds : RefundIsLatest(r)' /\ RefundIsListed(r)'
      BY <2>2, RefundStays DEF RefundInv
    <3> QED
      BY <2>1, <2>2, <2>3, <3>1, <3>2, GotoKeepsRefunds
  <2> QED
    BY <1>1, <2>1, <2>2, <2>3
<1>13. ASSUME NEW d \in Deliveries, Work(d)
       PROVE  RefundInv'
  BY <1>4, <1>5, <1>6, <1>10, <1>11, <1>12, <1>13, UpsertKeepsRefunds, MarkKeepsRefunds
     DEF Work
<1> QED
  BY <1>2, <1>7, <1>8, <1>9, <1>13, EmitKeepsRefunds DEF Next

\* As long as deliveries have come one at a time and in the order of the
\* events, the payment and its refunds say what the last events said of them
\* whenever Stripe has nothing left to deliver, whatever lists of refunds the
\* charges are sent with: a handler that dies after its write, or half-way
\* through the list, is run again before the next one, and a duplicate of an
\* event that is done finds it PROCESSED.
THEOREM PaymentIsInStep == Spec => []PaymentFollowsStripe
<1>1. Init => AckInv /\ OrderInv /\ PayInv /\ RefundInv
  <2> SUFFICES ASSUME Init PROVE AckInv /\ OrderInv /\ PayInv /\ RefundInv
    OBVIOUS
  <2>1. /\ \A d \in Deliveries : delivery[d] = Idle /\ ~InFlight(d)
        /\ acked = {} /\ DOMAIN emitted = {}
        /\ \A e \in Events : event[e] = "none"
    BY DEF Init, InFlight
  <2>2. AckInv
    BY <2>1, IdleIsNowhere DEF AckInv, AckedWasHandled, At, Steps
  <2>3. OrderInv
    BY <2>1 DEF OrderInv, OneAtATime, AckedIsPrefix
  <2>4. PayInv
    BY <2>1, IdleIsNowhere
       DEF PayInv, PaymentIsLatest, SuccessHasRow, HandlerHasWritten, At, Steps
  <2>5. RefundInv
    <3>1. \A r \in Refunds : RefundIsLatest(r) /\ RefundIsListed(r)
      BY <2>1 DEF Init, RefundIsLatest, RefundIsListed
    <3>2. \A d \in Deliveries : LoopHasWritten(d)
      BY <2>1, IdleIsNowhere DEF LoopHasWritten, At, Steps
    <3> QED
      BY <3>1, <3>2 DEF RefundInv
  <2> QED
    BY <2>2, <2>3, <2>4, <2>5
<1>2. TypeInv /\ PayInv /\ RefundInv => PaymentFollowsStripe
  <2> SUFFICES ASSUME TypeInv, PayInv, RefundInv, ordered, metadata, Emitted = acked
               PROVE  /\ \A i \in DOMAIN emitted : IsLatest(i) => payment = Image(emitted[i])
                      /\ \A i \in DOMAIN emitted, r \in Refunds :
                           IsLatestOf(i, r) => refund[r] = RefundImage(emitted[i], r)
                      /\ \A r \in Refunds : RefundIsListed(r)
    BY DEF PaymentFollowsStripe, RefundIsListed
  <2>1. \A i \in DOMAIN emitted : emitted[i] \in acked
    BY DEF Emitted, ToSet
  <2>2. ~Begun /\ \A r \in Refunds : ~RefundBegun(r)
    BY <2>1 DEF Begun, RefundBegun, IsNext
  <2>3. \A i \in DOMAIN emitted : IsLatest(i) => IsLatestAcked(i)
    BY <2>1 DEF IsLatest, IsLatestAcked
  <2>4. \A i \in DOMAIN emitted, r \in Refunds : IsLatestOf(i, r) => IsLatestAckedOf(i, r)
    BY <2>1 DEF IsLatestOf, IsLatestAckedOf
  <2> QED
    BY <2>2, <2>3, <2>4 DEF PayInv, PaymentIsLatest, RefundInv, RefundIsLatest
<1> QED
  BY <1>1, <1>2, WebhookAssumption, InitType, NextType, NextKeepsAck, NextKeepsOrder,
     NextKeepsPay, NextKeepsRefunds, PTL DEF Spec

===============================================================================
