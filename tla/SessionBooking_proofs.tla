------------------------- MODULE SessionBooking_proofs -------------------------
(***************************************************************************)
(* Proofs about SessionBooking, for any fields, slots, times, requests and *)
(* failures.                                                               *)
(***************************************************************************)
EXTENDS MCSessionBooking, FiniteSetTheorems, TLAPS

-----------------------------------------------------------------------------
(* Type correctness.                                                       *)

\* A create that has passed the check of its slot has a slot that is there.
SlotInHand ==
  \A r \in Requests :
    request[r].pc \in {"conflict", "reserve"}
      \/ (request[r].pc = "insert" /\ request[r].field \in Private)
    => request[r].slot \in Slots

TypeInv == TypeOK /\ SlotInHand

\* What TypeInv says of one request, with the slots that are there.
WellFormed(q, slots) ==
  \/ q = Idle
  \/ /\ q \in Request
     /\ q.pc \notin {"find", "offer"} => ((q.slot = NoRow) <=> (q.field \notin Private))
     /\ q.pc \in {"conflict", "reserve"} \/ (q.pc = "insert" /\ q.field \in Private)
          => q.slot \in slots

\* An idle request is at no step.
LEMMA IdleIsNowhere ==
  ASSUME NEW r \in Requests, NEW pc \in Steps, At(r, pc)
  PROVE  InFlight(r)
BY DEF At, InFlight, Idle, Steps

\* The request of TypeInv.
LEMMA RequestIsWellFormed ==
  ASSUME TypeInv, NEW r \in Requests
  PROVE  WellFormed(request[r], Slots)
BY DEF TypeInv, TypeOK, SlotInHand, WellFormed, InFlight

\* A create that passes a check, or an offer, stays well formed.
LEMMA StepKeepsForm ==
  ASSUME NEW slots, NEW q, WellFormed(q, slots), q # Idle, NEW pc \in Steps,
         pc \in {"find", "offer"} <=> q.pc \in {"find", "offer"},
         pc \in {"conflict", "reserve"} \/ (pc = "insert" /\ q.field \in Private)
           => q.slot \in slots
  PROVE  WellFormed([q EXCEPT !.pc = pc], slots)
BY DEF WellFormed, Request

\* One request changes to a well-formed one, slots are only added, and the
\* tables keep their types.
LEMMA ChangeKeepsType ==
  ASSUME TypeInv,
         NEW r \in Requests, NEW q, WellFormed(q, Slots'), request' = [request EXCEPT ![r] = q],
         slot' \in [SlotUids -> SlotRow \cup {NoRow}], Slots \subseteq Slots',
         reserved' \subseteq Slots',
         session' \in [SessionUids -> SessionRow \cup {NoRow}],
         failures' \in 0..MaxFailures, Observe
  PROVE  TypeInv'
<1>1. \A p \in Requests : WellFormed(request'[p], Slots')
  BY RequestIsWellFormed DEF WellFormed, TypeInv, TypeOK
<1>2. request' \in [Requests -> Request \cup {Idle}]
  BY DEF WellFormed, TypeInv, TypeOK
<1>3. \A p \in Requests : Objections(p)' \subseteq
        ({"overlap", "reserved", "twin"} \X (SlotUids \cup SessionUids))
  BY DEF Objections, Overlapping, Twins, Slots, Sessions
<1>4. \A p \in Requests : standing'[p] \subseteq
        ({"overlap", "reserved", "twin"} \X (SlotUids \cup SessionUids))
  BY <1>3 DEF Observe, TypeInv, TypeOK
<1>5. \A p \in Requests : InFlight(p)' /\ request'[p].pc \notin {"find", "offer"} =>
        ((request'[p].slot = NoRow) <=> (request'[p].field \notin Private))
  BY <1>1 DEF WellFormed, InFlight
<1>6. SlotInHand'
  BY <1>1 DEF SlotInHand, WellFormed, Idle
<1> QED
  BY <1>2, <1>4, <1>5, <1>6 DEF TypeInv, TypeOK

\* A step that changes its request only.
LEMMA BecomeKeepsType ==
  ASSUME TypeInv, NEW r \in Requests, NEW q, WellFormed(q, Slots), Become(r, q)
  PROVE  TypeInv'
BY ChangeKeepsType DEF Become, TypeInv, TypeOK, Slots

\* A request that is answered, with no table changed.
LEMMA AnswerKeepsType ==
  ASSUME TypeInv, NEW r \in Requests, Become(r, Idle)
  PROVE  TypeInv'
BY BecomeKeepsType DEF WellFormed

\* Requests arrive.
LEMMA ArrivalKeepsType ==
  ASSUME TypeInv, NEW r \in Requests, NEW start \in Times, NEW end \in Times
  PROVE  /\ \A f \in Fields, s \in SlotUids \cup {NoRow} :
              CreateArrives(r, f, s, start, end) => TypeInv'
         /\ \A f \in Offered : OfferArrives(r, f, start, end) => TypeInv'
<1>1. ASSUME NEW f \in Fields, NEW s \in SlotUids \cup {NoRow},
             CreateArrives(r, f, s, start, end)
      PROVE  TypeInv'
  <2> DEFINE q == [pc |-> IF f \in Private THEN "slot" ELSE "insert", field |-> f,
                   start |-> start, end |-> end, slot |-> IF f \in Private THEN s ELSE NoRow]
  <2>1. WellFormed(q, Slots)
    BY <1>1 DEF CreateArrives, WellFormed, Request, Steps
  <2> QED
    BY <1>1, <2>1, BecomeKeepsType DEF CreateArrives
<1>2. ASSUME NEW f \in Offered, OfferArrives(r, f, start, end)
      PROVE  TypeInv'
  <2>1. WellFormed([pc |-> "find", field |-> f, start |-> start, end |-> end, slot |-> NoRow],
                   Slots)
    BY BookingAssumption DEF WellFormed, Request, Steps
  <2> QED
    BY <1>2, <2>1, BecomeKeepsType DEF OfferArrives
<1> QED
  BY <1>1, <1>2

\* A check that is passed, or answered with an error.
LEMMA CheckKeepsType ==
  ASSUME TypeInv, NEW r \in Requests, NEW from \in Steps, NEW ok, NEW pc \in Steps,
         pc \in {"find", "offer"} <=> from \in {"find", "offer"},
         from = "conflict" \/ pc = "offer" \/ (ok => request[r].slot \in Slots),
         Check(r, from, ok, pc)
  PROVE  TypeInv'
<1>1. InFlight(r) /\ WellFormed(request[r], Slots) /\ request[r].pc = from
  BY IdleIsNowhere, RequestIsWellFormed DEF Check, At
<1>2. CASE ok
  <2>1. WellFormed([request[r] EXCEPT !.pc = pc], Slots)
    BY <1>1, <1>2, StepKeepsForm DEF InFlight, WellFormed
  <2> QED
    BY <1>2, <2>1, BecomeKeepsType DEF Check
<1>3. CASE ~ok
  BY <1>3, AnswerKeepsType DEF Check
<1> QED
  BY <1>2, <1>3

\* Every database call keeps the types.
LEMMA WorkKeepsType ==
  ASSUME TypeInv, NEW r \in Requests, Work(r)
  PROVE  TypeInv'
<1> DEFINE q == request[r]
<1>1. CASE CheckSlot(r)
  BY <1>1, CheckKeepsType DEF CheckSlot, Steps
<1>2. CASE CheckConflict(r)
  BY <1>2, CheckKeepsType DEF CheckConflict, Steps
<1>3. CASE InsertSession(r)
  <2>1. q \in Request /\ WellFormed(q, Slots) /\ q # Idle /\ q.pc = "insert"
    BY <1>3, IdleIsNowhere, RequestIsWellFormed
       DEF InsertSession, At, InFlight, Steps, TypeInv, TypeOK
  <2>2. CASE Become(r, Idle)
    BY <2>2, AnswerKeepsType
  <2>3. CASE ~Become(r, Idle)
    <3>1. PICK x \in SessionUids : session' = [session EXCEPT ![x] = NewSession(q)]
      BY <1>3, <2>3 DEF InsertSession
    <3>2. session' \in [SessionUids -> SessionRow \cup {NoRow}]
      BY <2>1, <3>1 DEF TypeInv, TypeOK, NewSession, SessionRow, Request
    <3>3. WellFormed(IF q.field \in Private THEN [q EXCEPT !.pc = "reserve"] ELSE Idle, Slots)
      <4>1. CASE q.field \in Private
        <5>1. q.slot \in Slots
          BY <2>1, <4>1 DEF WellFormed
        <5>2. WellFormed([q EXCEPT !.pc = "reserve"], Slots)
          BY <2>1, <5>1, StepKeepsForm DEF Steps
        <5> QED
          BY <4>1, <5>2
      <4>2. CASE q.field \notin Private
        BY <4>2 DEF WellFormed
      <4> QED
        BY <4>1, <4>2
    <3> QED
      BY <1>3, <2>3, <3>2, <3>3, ChangeKeepsType DEF InsertSession, TypeInv, TypeOK, Slots
  <2> QED
    BY <2>2, <2>3
<1>4. CASE ReserveSlot(r)
  <2>1. q.slot \in Slots
    BY <1>4, BookingAssumption, RequestIsWellFormed, IdleIsNowhere
       DEF ReserveSlot, At, WellFormed, InFlight, Steps
  <2>2. WellFormed(Idle, Slots)
    BY DEF WellFormed
  <2> QED
    BY <1>4, <2>1, <2>2, ChangeKeepsType DEF ReserveSlot, TypeInv, TypeOK, Slots
<1>5. CASE FindSlot(r)
  BY <1>5, CheckKeepsType DEF FindSlot, Steps
<1>6. CASE InsertSlot(r)
  <2>1. q \in Request
    BY <1>6, IdleIsNowhere DEF InsertSlot, InFlight, Steps, TypeInv, TypeOK
  <2>2. PICK s \in SlotUids \ Slots :
          slot' = [slot EXCEPT ![s] = [field |-> q.field, start |-> q.start, end |-> q.end]]
    BY <1>6 DEF InsertSlot
  <2>3. slot' \in [SlotUids -> SlotRow \cup {NoRow}] /\ Slots \subseteq Slots'
    BY <2>1, <2>2 DEF TypeInv, TypeOK, Slots, SlotRow, Request
  <2>4. WellFormed(Idle, Slots')
    BY DEF WellFormed
  <2> QED
    BY <1>6, <2>3, <2>4, ChangeKeepsType DEF InsertSlot, TypeInv, TypeOK
<1> QED
  BY <1>1, <1>2, <1>3, <1>4, <1>5, <1>6 DEF Work

\* Tables, requests and histories keep their types in every behaviour, and a
\* create past the check of its slot has a slot that is there.
THEOREM TypeCorrect == Spec => []TypeInv
<1>1. Init => TypeInv
  BY BookingAssumption DEF Init, TypeInv, TypeOK, SlotInHand, InFlight, Idle, Slots
<1>2. TypeInv /\ [Next]_vars => TypeInv'
  <2> SUFFICES ASSUME TypeInv, [Next]_vars
               PROVE  TypeInv'
    OBVIOUS
  <2>1. ASSUME NEW r \in Requests, NEW start \in Times, NEW end \in Times,
               \/ \E f \in Fields, s \in SlotUids \cup {NoRow} :
                    CreateArrives(r, f, s, start, end)
               \/ \E f \in Offered : OfferArrives(r, f, start, end)
        PROVE  TypeInv'
    BY <2>1, ArrivalKeepsType
  <2>2. ASSUME NEW r \in Requests, Work(r)
        PROVE  TypeInv'
    BY <2>2, WorkKeepsType
  <2>3. ASSUME NEW r \in Requests, AwaitFails(r)
        PROVE  TypeInv'
    <3>1. failures' \in 0..MaxFailures
      BY <2>3, BookingAssumption DEF AwaitFails, TypeInv, TypeOK
    <3>2. WellFormed(Idle, Slots')
      BY DEF WellFormed
    <3> QED
      BY <2>3, <3>1, <3>2, ChangeKeepsType DEF AwaitFails, TypeInv, TypeOK, Slots
  <2>4. ASSUME NEW x \in Moves, NEW start \in Times, NEW end \in Times, Reschedule(x, start, end)
        PROVE  TypeInv'
    <3>1. x \in SessionUids /\ session[x] \in SessionRow
      BY <2>4, BookingAssumption DEF Reschedule, Sessions, TypeInv, TypeOK
    <3>2. session' \in [SessionUids -> SessionRow \cup {NoRow}]
      BY <2>4, <3>1 DEF Reschedule, SessionRow, TypeInv, TypeOK
    <3>3. \A r \in Requests : Objections(r)' \subseteq
            ({"overlap", "reserved", "twin"} \X (SlotUids \cup SessionUids))
      BY <2>4 DEF Reschedule, TypeInv, TypeOK, Objections, Overlapping, Twins, Slots, Sessions
    <3>4. \A r \in Requests : standing'[r] \subseteq
            ({"overlap", "reserved", "twin"} \X (SlotUids \cup SessionUids))
      BY <2>4, <3>3 DEF Reschedule, Observe, TypeInv, TypeOK
    <3> QED
      BY <2>4, <3>2, <3>4 DEF Reschedule, TypeInv, TypeOK, SlotInHand, InFlight, Slots
  <2>5. CASE UNCHANGED vars
    BY <2>5 DEF vars, TypeInv, TypeOK, SlotInHand, InFlight, Slots
  <2> QED
    BY <2>1, <2>2, <2>3, <2>4, <2>5 DEF Next
<1> QED
  BY <1>1, <1>2, PTL DEF Spec

-----------------------------------------------------------------------------
(* What the checks have seen.                                              *)

\* Between its two checks a create on a private field has seen its slot free.
SlotWasFree ==
  \A r \in Requests : At(r, "conflict") =>
    \A s \in SlotUids : <<"reserved", s>> \notin standing[r]

ChecksInv == NothingStood /\ SlotWasFree

\* A request that no step has brought to its next check or insert keeps what
\* it has seen.
LEMMA SeenLasts ==
  ASSUME TypeInv, ChecksInv, Observe, NEW r \in Requests, UNCHANGED request[r]
  PROVE  /\ At(r, "insert")' \/ At(r, "offer")' => standing'[r] = {}
         /\ At(r, "conflict")' => \A s \in SlotUids : <<"reserved", s>> \notin standing'[r]
<1>1. InFlight(r) => standing'[r] \subseteq standing[r]
  BY DEF Observe
<1>2. ~InFlight(r) => request'[r].pc = "idle"
  BY DEF InFlight, Idle
<1> QED
  BY <1>1, <1>2 DEF ChecksInv, NothingStood, SlotWasFree, At

\* A step changes one request, which is then about to do nothing the checks
\* are about.
LEMMA OneMovesOn ==
  ASSUME TypeInv, ChecksInv, Observe, NEW r \in Requests, NEW q,
         request' = [request EXCEPT ![r] = q],
         q.pc \in {"insert", "offer"} => standing'[r] = {},
         q.pc = "conflict" => \A s \in SlotUids : <<"reserved", s>> \notin standing'[r]
  PROVE  ChecksInv'
<1> SUFFICES ASSUME NEW p \in Requests
             PROVE  /\ At(p, "insert")' \/ At(p, "offer")' => standing'[p] = {}
                    /\ At(p, "conflict")' =>
                         \A s \in SlotUids : <<"reserved", s>> \notin standing'[p]
  BY DEF ChecksInv, NothingStood, SlotWasFree
<1>1. CASE p = r
  BY <1>1 DEF At, TypeInv, TypeOK
<1>2. CASE p # r
  BY <1>2, SeenLasts DEF TypeInv, TypeOK
<1> QED
  BY <1>1, <1>2

\* A request that is answered.
LEMMA AnswerKeepsChecks ==
  ASSUME TypeInv, ChecksInv, Observe, NEW r \in Requests,
         request' = [request EXCEPT ![r] = Idle]
  PROVE  ChecksInv'
BY OneMovesOn DEF Idle

\* Every database call keeps what the checks have seen.
LEMMA WorkKeepsChecks ==
  ASSUME TypeInv, ChecksInv, NEW r \in Requests, Work(r)
  PROVE  ChecksInv'
<1> DEFINE q == request[r]
<1>1. CASE Observe /\ request' = [request EXCEPT ![r] = Idle]
  BY <1>1, AnswerKeepsChecks
<1>2. CASE CheckSlot(r) /\ ~Become(r, Idle)
  <2>1. /\ q.slot \in Slots \ reserved
        /\ Become(r, [q EXCEPT !.pc = "conflict"])
        /\ At(r, "slot")
    BY <1>2 DEF CheckSlot, Check
  <2>2. InFlight(r) /\ q \in Request
    BY <2>1, IdleIsNowhere DEF Steps, InFlight, TypeInv, TypeOK
  <2> DEFINE q1 == [q EXCEPT !.pc = "conflict"]
  <2>3. /\ q1.pc = "conflict"
        /\ q1.slot = q.slot
        /\ request'[r] = q1
    BY <2>1, <2>2 DEF Become, Request, TypeInv, TypeOK
  <2>4. \A s \in SlotUids : <<"reserved", s>> \notin Objections(r)'
    BY <2>1, <2>3 DEF Objections, Become
  <2> QED
    BY <2>1, <2>2, <2>3, <2>4, OneMovesOn DEF Become, Observe
<1>3. CASE CheckConflict(r) /\ ~Become(r, Idle)
  <2>1. /\ Overlapping(q) = {}
        /\ Become(r, [q EXCEPT !.pc = "insert"])
        /\ At(r, "conflict")
    BY <1>3 DEF CheckConflict, Check
  <2>2. InFlight(r) /\ q \in Request
    BY <2>1, IdleIsNowhere DEF Steps, InFlight, TypeInv, TypeOK
  <2> DEFINE q1 == [q EXCEPT !.pc = "insert"]
  <2>3. /\ q1.pc = "insert"
        /\ q1.field = q.field /\ q1.start = q.start /\ q1.end = q.end /\ q1.slot = q.slot
        /\ request'[r] = q1
    BY <2>1, <2>2 DEF Become, Request, TypeInv, TypeOK
  <2>4. Overlapping(q1)' = {}
    BY <2>1, <2>3 DEF Overlapping, Sessions, Become
  <2>5. \A o \in Objections(r)' : \E s \in SlotUids : o = <<"reserved", s>>
    BY <2>1, <2>2, <2>3, <2>4 DEF Objections, Become, TypeInv, TypeOK, Slots
  <2>6. standing'[r] = standing[r] \cap Objections(r)'
    BY <2>1, <2>2 DEF Become, Observe
  <2>7. standing'[r] = {}
    BY <2>1, <2>5, <2>6 DEF ChecksInv, SlotWasFree
  <2> QED
    BY <2>1, <2>3, <2>7, OneMovesOn DEF Become
<1>4. CASE FindSlot(r) /\ ~Become(r, Idle)
  <2>1. /\ Twins(q) = {}
        /\ Become(r, [q EXCEPT !.pc = "offer"])
        /\ At(r, "find")
    BY <1>4 DEF FindSlot, Check
  <2>2. InFlight(r) /\ q \in Request
    BY <2>1, IdleIsNowhere DEF Steps, InFlight, TypeInv, TypeOK
  <2> DEFINE q1 == [q EXCEPT !.pc = "offer"]
  <2>3. /\ q1.pc = "offer"
        /\ q1.field = q.field /\ q1.start = q.start /\ q1.end = q.end
        /\ request'[r] = q1
    BY <2>1, <2>2 DEF Become, Request, TypeInv, TypeOK
  <2>4. Twins(q1)' = {}
    BY <2>1, <2>3 DEF Twins, Slots, Become
  <2>5. standing'[r] = {}
    <3>1. Objections(r)' = {<<"twin", s>> : s \in Twins(q1)'}
      BY <2>3 DEF Objections
    <3> QED
      BY <2>1, <2>4, <3>1 DEF Become, Observe, TypeInv, TypeOK
  <2> QED
    BY <2>1, <2>3, <2>5, OneMovesOn DEF Become
<1>5. CASE InsertSession(r) /\ request' = [request EXCEPT ![r] = [q EXCEPT !.pc = "reserve"]]
  <2>1. q \in Request
    BY <1>5, IdleIsNowhere DEF InsertSession, Steps, InFlight, TypeInv, TypeOK
  <2>2. [q EXCEPT !.pc = "reserve"].pc = "reserve"
    BY <2>1 DEF Request
  <2> QED
    BY <1>5, <2>2, OneMovesOn DEF InsertSession, Become
<1> QED
  BY <1>1, <1>2, <1>3, <1>4, <1>5
     DEF Work, CheckSlot, CheckConflict, FindSlot, Check, Become, InsertSession, ReserveSlot,
         InsertSlot

\* An arrival on a public field has nothing against it, and every other one is
\* before its checks.
LEMMA ArrivalKeepsChecks ==
  ASSUME TypeInv, ChecksInv, NEW r \in Requests, NEW start \in Times, NEW end \in Times
  PROVE  /\ \A f \in Fields, s \in SlotUids \cup {NoRow} :
              CreateArrives(r, f, s, start, end) => ChecksInv'
         /\ \A f \in Offered : OfferArrives(r, f, start, end) => ChecksInv'
<1>1. ASSUME NEW f \in Fields, NEW s \in SlotUids \cup {NoRow},
             CreateArrives(r, f, s, start, end)
      PROVE  ChecksInv'
  <2> DEFINE q == [pc |-> IF f \in Private THEN "slot" ELSE "insert", field |-> f,
                   start |-> start, end |-> end, slot |-> IF f \in Private THEN s ELSE NoRow]
  <2>1. Become(r, q) /\ ~InFlight(r)
    BY <1>1 DEF CreateArrives
  <2>2. request'[r] = q /\ standing'[r] = Objections(r)'
    BY <2>1 DEF Become, Observe, TypeInv, TypeOK
  <2>3. f \notin Private => standing'[r] = {}
    BY <2>2 DEF Objections
  <2> QED
    BY <2>1, <2>3, OneMovesOn DEF Become
<1>2. ASSUME NEW f \in Offered, OfferArrives(r, f, start, end)
      PROVE  ChecksInv'
  BY <1>2, OneMovesOn DEF OfferArrives, Become
<1> QED
  BY <1>1, <1>2

\* ChecksInv is inductive.
LEMMA NextKeepsChecks ==
  ASSUME TypeInv, ChecksInv, [Next]_vars
  PROVE  ChecksInv'
<1>1. ASSUME NEW r \in Requests, NEW start \in Times, NEW end \in Times,
             \/ \E f \in Fields, s \in SlotUids \cup {NoRow} :
                  CreateArrives(r, f, s, start, end)
             \/ \E f \in Offered : OfferArrives(r, f, start, end)
      PROVE  ChecksInv'
  BY <1>1, ArrivalKeepsChecks
<1>2. ASSUME NEW r \in Requests, Work(r)
      PROVE  ChecksInv'
  BY <1>2, WorkKeepsChecks
<1>3. ASSUME NEW r \in Requests, AwaitFails(r)
      PROVE  ChecksInv'
  BY <1>3, AnswerKeepsChecks DEF AwaitFails
<1>4. ASSUME NEW x \in Moves, NEW start \in Times, NEW end \in Times, Reschedule(x, start, end)
      PROVE  ChecksInv'
  BY <1>4, SeenLasts DEF Reschedule, ChecksInv, NothingStood, SlotWasFree
<1>5. CASE UNCHANGED vars
  BY <1>5 DEF vars, ChecksInv, NothingStood, SlotWasFree, At
<1> QED
  BY <1>1, <1>2, <1>3, <1>4, <1>5 DEF Next

-----------------------------------------------------------------------------
(* The slots and the sessions that have booked them.                       *)

\* A slot has one session at most: the unique key of slot_uid.
SoldOnce ==
  \A x, y \in Sessions : session[x].slot = session[y].slot /\ session[x].slot # NoRow => x = y

\* A request that is about to mark a slot has made its session.
SoldBeforeMarked ==
  \A r \in Requests : At(r, "reserve") => \E x \in Sessions : session[x].slot = request[r].slot

\* A slot that is marked is sold.
MarkedIsSold ==
  \A s \in reserved : \E x \in Sessions : session[x].slot = s

LedgerInv == SoldOnce /\ SoldBeforeMarked /\ MarkedIsSold /\ BookedIsMarked

\* A request at the reservation has a slot, and one in flight is a Request.
LEMMA ReserveHasSlot ==
  ASSUME TypeInv, NEW r \in Requests, At(r, "reserve")
  PROVE  request[r].slot \in Slots
BY DEF TypeInv, SlotInHand, At

\* A step that leaves the sessions and their slots alone.
LEMMA RequestsMoveOn ==
  ASSUME TypeInv, TypeInv', LedgerInv, UNCHANGED <<reserved, session>>, failures' >= failures,
         \A r \in Requests : request'[r] # request[r] =>
           /\ ~At(r, "reserve")'
           /\ At(r, "reserve") => failures' > failures
  PROVE  LedgerInv'
<1>1. Sessions' = Sessions /\ failures \in Nat /\ failures' \in Nat
  BY DEF Sessions, TypeInv, TypeOK
<1>2. SoldOnce' /\ MarkedIsSold'
  BY <1>1 DEF LedgerInv, SoldOnce, MarkedIsSold
<1>3. SoldBeforeMarked'
  BY <1>1 DEF LedgerInv, SoldBeforeMarked, At
<1>4. BookedIsMarked'
  BY <1>1 DEF LedgerInv, BookedIsMarked, At
<1> QED
  BY <1>2, <1>3, <1>4 DEF LedgerInv

\* A new session takes a slot nobody has, if it takes one.
LEMMA InsertSells ==
  ASSUME TypeInv, NEW r \in Requests, InsertSession(r), ~Become(r, Idle)
  PROVE  LET q == request[r] IN
         /\ At(r, "insert") /\ q \in Request
         /\ (q.slot = NoRow) <=> (q.field \notin Private)
         /\ q.slot # NoRow => \A x \in Sessions : session[x].slot # q.slot
         /\ \E x \in SessionUids \ Sessions :
              /\ Sessions' = Sessions \cup {x}
              /\ session'[x].slot = q.slot
              /\ \A y \in Sessions : session'[y] = session[y]
         /\ request' = [request EXCEPT ![r] =
              IF q.field \in Private THEN [q EXCEPT !.pc = "reserve"] ELSE Idle]
         /\ UNCHANGED <<slot, reserved, failures>>
<1> DEFINE q == request[r]
<1>1. At(r, "insert") /\ q \in Request /\ ((q.slot = NoRow) <=> (q.field \notin Private))
  BY IdleIsNowhere DEF InsertSession, At, InFlight, Steps, TypeInv, TypeOK
<1>2. /\ q.slot # NoRow => \A x \in Sessions : session[x].slot # q.slot
      /\ \E x \in SessionUids \ Sessions : session' = [session EXCEPT ![x] = NewSession(q)]
      /\ request' = [request EXCEPT ![r] =
           IF q.field \in Private THEN [q EXCEPT !.pc = "reserve"] ELSE Idle]
      /\ UNCHANGED <<slot, reserved, failures>>
  BY DEF InsertSession
<1>3. PICK x \in SessionUids \ Sessions : session' = [session EXCEPT ![x] = NewSession(q)]
  BY <1>2
<1>4. NewSession(q) \in SessionRow /\ NewSession(q).slot = q.slot
  BY <1>1 DEF NewSession, SessionRow, Request
<1>5. /\ Sessions' = Sessions \cup {x}
      /\ session'[x].slot = q.slot
      /\ \A y \in Sessions : session'[y] = session[y]
  BY <1>3, <1>4, RowAssumption DEF Sessions, TypeInv, TypeOK
<1> QED
  BY <1>1, <1>2, <1>5

\* The new session and the slot it has booked.
LEMMA InsertKeepsLedger ==
  ASSUME TypeInv, TypeInv', LedgerInv, NEW r \in Requests, InsertSession(r), ~Become(r, Idle)
  PROVE  LedgerInv'
<1> DEFINE q == request[r]
<1>1. PICK x \in SessionUids \ Sessions :
        /\ Sessions' = Sessions \cup {x}
        /\ session'[x].slot = q.slot
        /\ \A y \in Sessions : session'[y] = session[y]
  BY InsertSells
<1>2. /\ At(r, "insert") /\ q \in Request
      /\ (q.slot = NoRow) <=> (q.field \notin Private)
      /\ q.slot # NoRow => \A y \in Sessions : session[y].slot # q.slot
      /\ request' = [request EXCEPT ![r] =
           IF q.field \in Private THEN [q EXCEPT !.pc = "reserve"] ELSE Idle]
      /\ UNCHANGED <<slot, reserved, failures>>
  BY InsertSells
<1>3. SoldOnce'
  BY <1>1, <1>2 DEF LedgerInv, SoldOnce
<1>4. MarkedIsSold'
  BY <1>1, <1>2 DEF LedgerInv, MarkedIsSold
<1>5. At(r, "reserve")' => request'[r].slot = q.slot
  BY <1>2 DEF At, Idle, Request, TypeInv, TypeOK
<1>6. SoldBeforeMarked'
  BY <1>1, <1>2, <1>5 DEF LedgerInv, SoldBeforeMarked, At, TypeInv, TypeOK
<1>7. q.slot # NoRow => At(r, "reserve")' /\ request'[r].slot = q.slot
  BY <1>2 DEF At, Request, TypeInv, TypeOK
<1>8. \A p \in Requests : At(p, "reserve") =>
        At(p, "reserve")' /\ request'[p].slot = request[p].slot
  BY <1>2 DEF At, TypeInv, TypeOK
<1>9. BookedIsMarked'
  BY <1>1, <1>2, <1>7, <1>8 DEF LedgerInv, BookedIsMarked
<1> QED
  BY <1>3, <1>4, <1>6, <1>9 DEF LedgerInv

\* A database call keeps LedgerInv.
LEMMA WorkKeepsLedger ==
  ASSUME TypeInv, TypeInv', LedgerInv, NEW r \in Requests, Work(r)
  PROVE  LedgerInv'
<1> DEFINE q == request[r]
<1>1. CASE CheckSlot(r) \/ CheckConflict(r) \/ FindSlot(r)
  <2>1. \E q1 : q1.pc # "reserve" /\ ~At(r, "reserve") /\ Become(r, q1)
    <3>1. CASE Become(r, Idle) /\ \E from \in Steps \ {"reserve"} : At(r, from)
      BY <3>1 DEF Idle, At
    <3>2. CASE \E pc \in Steps \ {"reserve"} :
                 /\ Become(r, [q EXCEPT !.pc = pc])
                 /\ \E from \in Steps \ {"reserve"} : At(r, from)
      <4>1. InFlight(r) /\ q \in Request
        BY <3>2, IdleIsNowhere DEF InFlight, TypeInv, TypeOK
      <4> QED
        BY <3>2, <4>1 DEF Request, At
    <3> QED
      BY <1>1, <3>1, <3>2 DEF CheckSlot, CheckConflict, FindSlot, Check, Steps, At
  <2> QED
    BY <2>1, RequestsMoveOn DEF Become, At, TypeInv, TypeOK
<1>2. CASE InsertSession(r)
  <2>1. CASE Become(r, Idle)
    <3>1. At(r, "insert")
      BY <1>2 DEF InsertSession
    <3> QED
      BY <2>1, <3>1, RequestsMoveOn DEF Become, At, Idle, TypeInv, TypeOK
  <2>2. CASE ~Become(r, Idle)
    BY <1>2, <2>2, InsertKeepsLedger
  <2> QED
    BY <2>1, <2>2
<1>3. CASE ReserveSlot(r)
  <2>1. /\ At(r, "reserve")
        /\ reserved' = reserved \cup {q.slot}
        /\ request' = [request EXCEPT ![r] = Idle]
        /\ Sessions' = Sessions
        /\ UNCHANGED <<session, failures>>
    BY <1>3 DEF ReserveSlot, Sessions
  <2>2. SoldOnce' /\ MarkedIsSold'
    BY <2>1 DEF LedgerInv, SoldOnce, MarkedIsSold, SoldBeforeMarked
  <2>3. \A p \in Requests : At(p, "reserve")' => At(p, "reserve") /\ request'[p] = request[p]
    BY <2>1 DEF At, Idle, TypeInv, TypeOK
  <2>4. SoldBeforeMarked'
    BY <2>1, <2>3 DEF LedgerInv, SoldBeforeMarked
  <2>5. \A p \in Requests : At(p, "reserve") => p = r \/ request'[p] = request[p]
    BY <2>1 DEF TypeInv, TypeOK
  <2>6. BookedIsMarked'
    BY <2>1, <2>5 DEF LedgerInv, BookedIsMarked, At
  <2> QED
    BY <2>2, <2>4, <2>6 DEF LedgerInv
<1>4. CASE InsertSlot(r)
  <2>1. /\ At(r, "offer") /\ request' = [request EXCEPT ![r] = Idle]
        /\ UNCHANGED <<reserved, session, failures>>
    BY <1>4 DEF InsertSlot
  <2> QED
    BY <2>1, RequestsMoveOn DEF At, Idle, TypeInv, TypeOK
<1> QED
  BY <1>1, <1>2, <1>3, <1>4 DEF Work

\* LedgerInv is inductive.
LEMMA NextKeepsLedger ==
  ASSUME TypeInv, TypeInv', LedgerInv, [Next]_vars
  PROVE  LedgerInv'
<1>1. ASSUME NEW r \in Requests, NEW start \in Times, NEW end \in Times,
             \/ \E f \in Fields, s \in SlotUids \cup {NoRow} :
                  CreateArrives(r, f, s, start, end)
             \/ \E f \in Offered : OfferArrives(r, f, start, end)
      PROVE  LedgerInv'
  <2>1. \E q : q.pc # "reserve" /\ ~InFlight(r) /\ Become(r, q)
    BY <1>1 DEF CreateArrives, OfferArrives
  <2>2. ~At(r, "reserve")
    BY <2>1, IdleIsNowhere DEF Steps
  <2> QED
    BY <2>1, <2>2, RequestsMoveOn DEF Become, At, TypeInv, TypeOK
<1>2. ASSUME NEW r \in Requests, Work(r)
      PROVE  LedgerInv'
  BY <1>2, WorkKeepsLedger
<1>3. ASSUME NEW r \in Requests, AwaitFails(r)
      PROVE  LedgerInv'
  BY <1>3, RequestsMoveOn DEF AwaitFails, At, Idle, TypeInv, TypeOK
<1>4. ASSUME NEW x \in Moves, NEW start \in Times, NEW end \in Times, Reschedule(x, start, end)
      PROVE  LedgerInv'
  <2>1. x \in SessionUids /\ session[x] \in SessionRow
    BY <1>4, BookingAssumption DEF Reschedule, Sessions, TypeInv, TypeOK
  <2>2. Sessions' = Sessions /\ \A y \in Sessions : session'[y].slot = session[y].slot
    BY <1>4, <2>1, RowAssumption DEF Reschedule, Sessions, SessionRow, TypeInv, TypeOK
  <2>3. UNCHANGED <<reserved, request, failures>>
    BY <1>4 DEF Reschedule
  <2> QED
    BY <2>2, <2>3
       DEF LedgerInv, SoldOnce, SoldBeforeMarked, MarkedIsSold, BookedIsMarked, At
<1>5. CASE UNCHANGED vars
  BY <1>5
     DEF vars, LedgerInv, SoldOnce, SoldBeforeMarked, MarkedIsSold, BookedIsMarked, At, Sessions
<1> QED
  BY <1>1, <1>2, <1>3, <1>4, <1>5 DEF Next

\* All of it holds in every behaviour.
LEMMA Invariants == Spec => [](TypeInv /\ ChecksInv /\ LedgerInv)
<1>1. Init => ChecksInv
  BY DEF Init, ChecksInv, NothingStood, SlotWasFree, At, Idle
<1>2. Init => LedgerInv
  BY DEF Init, LedgerInv, SoldOnce, SoldBeforeMarked, MarkedIsSold, BookedIsMarked, At, Idle,
         Sessions
<1>3. TypeInv /\ ChecksInv /\ [Next]_vars => ChecksInv'
  BY NextKeepsChecks
<1>4. TypeInv /\ TypeInv' /\ LedgerInv /\ [Next]_vars => LedgerInv'
  BY NextKeepsLedger
<1> QED
  BY <1>1, <1>2, <1>3, <1>4, TypeCorrect, PTL DEF Spec

\* No create inserts its session while an objection has stood ever since it
\* began, and none leaves its slot unmarked unless an await has failed
\* (SessionsService.create, FieldSlotsService.create).
THEOREM BookingsSound == Spec => []BookingsAreSound
<1>1. ChecksInv /\ LedgerInv => BookingsAreSound
  BY DEF ChecksInv, LedgerInv, BookingsAreSound
<1> QED
  BY <1>1, Invariants, PTL

-----------------------------------------------------------------------------
(* The refinement.                                                         *)

\* The session that has booked a slot, by the sessions alone.
LEMMA OwnerIsBooking ==
  ASSUME SoldOnce, NEW s \in SlotUids
  PROVE  /\ \A x \in Sessions : session[x].slot = s => Owner(s) = x
         /\ (\A x \in Sessions : session[x].slot # s) => Owner(s) = NoRow
<1>1. \A x, y \in Booking(s) : x = y
  BY BookingAssumption DEF SoldOnce, Booking
<1>2. Booking(s) # {} => Owner(s) \in Booking(s)
  BY DEF Owner
<1> QED
  BY <1>1, <1>2 DEF Booking, Owner

\* The owner of a slot in the next state is the session that has it.
LEMMA OwnerIsBookingNext ==
  ASSUME SoldOnce', NEW s \in SlotUids
  PROVE  /\ \A x \in Sessions' : session'[x].slot = s => Owner(s)' = x
         /\ (\A x \in Sessions' : session'[x].slot # s) => Owner(s)' = NoRow
<1>1. \A x, y \in Booking(s)' : x = y
  BY BookingAssumption DEF SoldOnce, Booking
<1>2. Booking(s)' # {} => Owner(s)' \in Booking(s)'
  BY DEF Owner
<1> QED
  BY <1>1, <1>2 DEF Booking, Owner

\* A step that gives no slot to a session and takes none away changes no owner.
LEMMA OwnersStay ==
  ASSUME SoldOnce, SoldOnce', Sessions \subseteq Sessions',
         \A x \in Sessions : session'[x].slot = session[x].slot,
         \A x \in Sessions' \ Sessions : session'[x].slot = NoRow
  PROVE  \A s \in SlotUids : Owner(s)' = Owner(s)
<1> SUFFICES ASSUME NEW s \in SlotUids
             PROVE  Owner(s)' = Owner(s)
  OBVIOUS
<1>1. CASE \E x \in Sessions : session[x].slot = s
  BY <1>1, OwnerIsBooking, OwnerIsBookingNext
<1>2. CASE \A x \in Sessions : session[x].slot # s
  <2>1. \A x \in Sessions' : session'[x].slot # s
    BY <1>2, BookingAssumption
  <2> QED
    BY <1>2, <2>1, OwnerIsBooking, OwnerIsBookingNext
<1> QED
  BY <1>1, <1>2

\* The insert of a session on a private field books its slot; every other
\* step but the reservation leaves the ledger as it is.
LEMMA InsertBooks ==
  ASSUME TypeInv, LedgerInv, LedgerInv', NEW r \in Requests,
         InsertSession(r), ~Become(r, Idle)
  PROVE  Ledger!Next \/ UNCHANGED Ledger!vars
<1> DEFINE q == request[r]
<1>1. PICK x \in SessionUids \ Sessions :
        /\ Sessions' = Sessions \cup {x}
        /\ session'[x].slot = q.slot
        /\ \A y \in Sessions : session'[y] = session[y]
  BY InsertSells
<1>2. /\ q \in Request
      /\ q.slot # NoRow => \A y \in Sessions : session[y].slot # q.slot
      /\ UNCHANGED reserved
  BY InsertSells
<1>3. SoldOnce /\ SoldOnce'
  BY DEF LedgerInv
<1>4. CASE q.slot = NoRow
  <2>1. \A s \in SlotUids : Owner(s)' = Owner(s)
    BY <1>1, <1>3, <1>4, OwnersStay
  <2> QED
    BY <1>2, <2>1 DEF Ledger!vars
<1>5. CASE q.slot # NoRow
  <2>1. PICK s \in SlotUids : s = q.slot
    BY <1>2, <1>5 DEF Request
  <2>2. Owner(s) = NoRow /\ Owner(s)' = x
    <3>1. Owner(s) = NoRow
      BY <1>2, <1>3, <1>5, <2>1, OwnerIsBooking
    <3>2. x \in Sessions' /\ session'[x].slot = s
      BY <1>1, <2>1
    <3>3. Owner(s)' = x
      BY <1>3, <2>1, <3>2, OwnerIsBookingNext
    <3> QED
      BY <3>1, <3>3
  <2>3. \A t \in SlotUids \ {s} : Owner(t)' = Owner(t)
    <3> SUFFICES ASSUME NEW t \in SlotUids \ {s}
                 PROVE  Owner(t)' = Owner(t)
      OBVIOUS
    <3>1. CASE \E y \in Sessions : session[y].slot = t
      BY <1>1, <1>3, <3>1, OwnerIsBooking, OwnerIsBookingNext
    <3>2. CASE \A y \in Sessions : session[y].slot # t
      <4>1. \A y \in Sessions' : session'[y].slot # t
        BY <1>1, <2>1, <3>2
      <4> QED
        BY <1>3, <3>2, <4>1, OwnerIsBooking, OwnerIsBookingNext
    <3> QED
      BY <3>1, <3>2
  <2>4. \A t \in SlotUids : Owner(t) # x
    <3> SUFFICES ASSUME NEW t \in SlotUids
                 PROVE  Owner(t) # x
      OBVIOUS
    <3>1. CASE \E y \in Sessions : session[y].slot = t
      BY <1>1, <1>3, <3>1, OwnerIsBooking
    <3>2. CASE \A y \in Sessions : session[y].slot # t
      BY <1>1, <1>3, <3>2, OwnerIsBooking, BookingAssumption
    <3> QED
      BY <3>1, <3>2
  <2>5. Ledger!Book(s, x)
    <3>1. [t \in SlotUids |-> Owner(t)]' = [[t \in SlotUids |-> Owner(t)] EXCEPT ![s] = x]
      BY <2>1, <2>2, <2>3
    <3> QED
      BY <1>2, <2>1, <2>2, <2>4, <3>1 DEF Ledger!Book
  <2> QED
    BY <2>1, <2>5 DEF Ledger!Next
<1> QED
  BY <1>4, <1>5

\* Every step is a step of the ledger or none.
LEMMA StepImplements ==
  ASSUME TypeInv, LedgerInv, LedgerInv', [Next]_vars
  PROVE  [Ledger!Next]_Ledger!vars
<1>1. SoldOnce /\ SoldOnce'
  BY DEF LedgerInv
<1>2. CASE UNCHANGED <<session, reserved>>
  <2>1. \A s \in SlotUids : Owner(s)' = Owner(s)
    BY <1>1, <1>2, OwnersStay DEF Sessions
  <2> QED
    BY <1>2, <2>1 DEF Ledger!vars
<1>3. ASSUME NEW r \in Requests, InsertSession(r), ~Become(r, Idle)
      PROVE  [Ledger!Next]_Ledger!vars
  BY <1>3, InsertBooks
<1>4. ASSUME NEW r \in Requests, ReserveSlot(r)
      PROVE  [Ledger!Next]_Ledger!vars
  <2> DEFINE s == request[r].slot
  <2>1. At(r, "reserve") /\ reserved' = reserved \cup {s} /\ UNCHANGED session
    BY <1>4 DEF ReserveSlot
  <2>2. s \in SlotUids
    BY <2>1, ReserveHasSlot DEF Slots
  <2>3. PICK x \in Sessions : session[x].slot = s
    BY <2>1 DEF LedgerInv, SoldBeforeMarked
  <2>4. Owner(s) # NoRow
    BY <1>1, <2>2, <2>3, OwnerIsBooking, BookingAssumption DEF Sessions
  <2>5. \A t \in SlotUids : Owner(t)' = Owner(t)
    BY <1>1, <2>1, OwnersStay DEF Sessions
  <2>6. Ledger!Reserve(s)
    BY <2>1, <2>2, <2>4, <2>5 DEF Ledger!Reserve
  <2> QED
    BY <2>2, <2>6 DEF Ledger!Next
<1>5. ASSUME NEW x \in Moves, NEW start \in Times, NEW end \in Times, Reschedule(x, start, end)
      PROVE  [Ledger!Next]_Ledger!vars
  <2>1. x \in SessionUids /\ session[x] \in SessionRow
    BY <1>5, BookingAssumption DEF Reschedule, Sessions, TypeInv, TypeOK
  <2>2. Sessions' = Sessions /\ \A y \in Sessions : session'[y].slot = session[y].slot
    BY <1>5, <2>1, RowAssumption DEF Reschedule, Sessions, SessionRow, TypeInv, TypeOK
  <2>3. \A s \in SlotUids : Owner(s)' = Owner(s)
    BY <1>1, <2>2, OwnersStay
  <2> QED
    BY <1>5, <2>3 DEF Reschedule, Ledger!vars
<1>6. ASSUME NEW r \in Requests, Work(r) \/ AwaitFails(r)
      PROVE  [Ledger!Next]_Ledger!vars
  BY <1>2, <1>3, <1>4, <1>6
     DEF Work, CheckSlot, CheckConflict, FindSlot, Check, Become, InsertSlot, AwaitFails
<1>7. ASSUME NEW r \in Requests, NEW start \in Times, NEW end \in Times,
             \/ \E f \in Fields, s \in SlotUids \cup {NoRow} :
                  CreateArrives(r, f, s, start, end)
             \/ \E f \in Offered : OfferArrives(r, f, start, end)
      PROVE  [Ledger!Next]_Ledger!vars
  BY <1>2, <1>7 DEF CreateArrives, OfferArrives, Become
<1> QED
  BY <1>2, <1>5, <1>6, <1>7 DEF Next, vars

\* However the creates interleave, and wherever they fail, a slot is sold to
\* one session, for good, and only a slot that is sold is marked as reserved
\* (SessionsService.create implements the ledger of the slots).
THEOREM BookingImplementsLedger == Spec => ImplementsSlotLedger
<1>1. Init => Ledger!Init
  <2> SUFFICES ASSUME Init
               PROVE  Ledger!Init
    OBVIOUS
  <2>1. \A s \in SlotUids : Owner(s) = NoRow
    BY DEF Init, Owner, Booking, Sessions
  <2> QED
    BY <2>1 DEF Init, Ledger!Init
<1>2. TypeInv /\ LedgerInv /\ LedgerInv' /\ [Next]_vars => [Ledger!Next]_Ledger!vars
  BY StepImplements
<1> QED
  BY <1>1, <1>2, Invariants, PTL DEF Spec, ImplementsSlotLedger, Ledger!Spec

-----------------------------------------------------------------------------
(* The Connect account of a partner.                                       *)

\* The account a request has at hand.
Hand(r) == partnerRequest[r].account

\* An account that anybody names has been opened.
NamedIsOpened ==
  \A a \in Accounts :
    a = billing.account \/ (\E r \in Requests : a = Hand(r)) => stripe[a] # "none"

\* The types, and what an account needs to be named.
PartnerTypes == Partner!TypeOK /\ NamedIsOpened

\* There is no account at first.
LEMMA PartnerTypesInit ==
  ASSUME Partner!ConnectAssumption, Partner!Init
  PROVE  PartnerTypes
<1> USE DEF Partner!ConnectAssumption, Partner!Init
<1>1. Partner!TypeOK
  <2>1. events \in Seq(Partner!Event) /\ Len(events) <= MaxEvents
    OBVIOUS
  <2>2. delivered \in 0 .. Partner!OutOfTurn
    BY DEF Partner!OutOfTurn
  <2>3. partnerRequest \in [Requests -> Partner!Request \cup {Partner!Idle}]
    OBVIOUS
  <2>4. \A r \in Requests : ~Partner!At(r, "save") /\ ~Partner!At(r, "close") /\ ~Partner!At(r, "clear")
    BY DEF Partner!At, Partner!Idle
  <2>5. /\ billing \in [row : BOOLEAN, account : Accounts \cup {NoRow},
                        status : Partner!StripeAccountStatus]
        /\ stripe \in [Accounts -> Partner!Standings \cup {"none", "deleted"}]
        /\ partnerFailures \in 0 .. PartnerFailures
    BY DEF Partner!StripeAccountStatus
  <2> QED
    BY <2>1, <2>2, <2>3, <2>4, <2>5 DEF Partner!TypeOK
<1>2. NamedIsOpened
  BY DEF NamedIsOpened, Hand, Partner!Idle
<1> QED
  BY <1>1, <1>2 DEF PartnerTypes

\* Every step keeps the types of the account, the events and the requests.
LEMMA PartnerTypesStep ==
  ASSUME Partner!ConnectAssumption, PartnerTypes, [Partner!Next]_Partner!vars
  PROVE  PartnerTypes'
<1> USE DEF PartnerTypes, NamedIsOpened, Hand, Partner!TypeOK, Partner!At, Partner!Idle,
  Partner!Request, Partner!Steps,
      Partner!InFlight, Partner!hist, Partner!ConnectAssumption
<1>1. ASSUME NEW r \in Requests, Partner!ConnectArrives(r) PROVE PartnerTypes'
  <2>1. /\ partnerRequest' \in [Requests -> Partner!Request \cup {Partner!Idle}]
        /\ \A p \in Requests : \/ Hand(p)' = NoRow /\ partnerRequest'[p].pc = "find"
                               \/ /\ Hand(p)' = Hand(p)
                                  /\ partnerRequest'[p].pc = partnerRequest[p].pc
    <3> SUFFICES ASSUME NEW p \in Requests
                 PROVE  /\ partnerRequest'[p] \in Partner!Request \cup {Partner!Idle}
                        /\ \/ Hand(p)' = NoRow /\ partnerRequest'[p].pc = "find"
                           \/ /\ Hand(p)' = Hand(p)
                              /\ partnerRequest'[p].pc = partnerRequest[p].pc
      BY <1>1 DEF Partner!ConnectArrives
    <3>1. CASE p = r
      BY <1>1, <3>1 DEF Partner!ConnectArrives
    <3>2. CASE p # r /\ Partner!Opening(p)
      <4>1. partnerRequest'[p] = [partnerRequest[p] EXCEPT !.alone = FALSE]
        BY <1>1, <3>2 DEF Partner!ConnectArrives
      <4>2. partnerRequest[p] \in Partner!Request
        BY <3>2 DEF Partner!Opening
      <4> QED
        BY <4>1, <4>2
    <3>3. CASE p # r /\ ~Partner!Opening(p)
      BY <1>1, <3>3 DEF Partner!ConnectArrives
    <3> QED
      BY <3>1, <3>2, <3>3
  <2> QED
    BY <1>1, <2>1 DEF Partner!ConnectArrives
<1>2. ASSUME NEW r \in Requests, Partner!DisconnectArrives(r) PROVE PartnerTypes'
  BY <1>2 DEF Partner!DisconnectArrives
<1>3. ASSUME NEW r \in Requests, Partner!FindNoAccount(r) PROVE PartnerTypes'
  <2>1. CASE billing.account = NoRow
    BY <1>3, <2>1 DEF Partner!FindNoAccount, Partner!Goto
  <2>2. CASE billing.account # NoRow
    BY <1>3, <2>2 DEF Partner!FindNoAccount, Partner!Answer
  <2> QED
    BY <2>1, <2>2
<1>4. ASSUME NEW r \in Requests, Partner!OpenAccount(r) PROVE PartnerTypes'
  BY <1>4 DEF Partner!OpenAccount, Partner!Standings
<1>5. ASSUME NEW r \in Requests, Partner!SaveAccount(r) PROVE PartnerTypes'
  BY <1>5 DEF Partner!SaveAccount, Partner!Answer, Partner!StripeAccountStatus
<1>6. ASSUME NEW r \in Requests, Partner!FindAccount(r) PROVE PartnerTypes'
  BY <1>6 DEF Partner!FindAccount, Partner!Answer
<1>7. ASSUME NEW r \in Requests, Partner!CloseAccount(r) PROVE PartnerTypes'
  <2>1. CASE stripe[Hand(r)] = "deleted"
    BY <1>7, <2>1 DEF Partner!CloseAccount, Partner!Answer
  <2>2. CASE stripe[Hand(r)] # "deleted"
    BY <1>7, <2>2 DEF Partner!CloseAccount, Partner!Goto
  <2> QED
    BY <2>1, <2>2
<1>8. ASSUME NEW r \in Requests, Partner!ClearAccount(r) PROVE PartnerTypes'
  BY <1>8 DEF Partner!ClearAccount, Partner!Answer
<1>9. ASSUME NEW r \in Requests, Partner!AwaitFails(r) PROVE PartnerTypes'
  BY <1>9 DEF Partner!AwaitFails, Partner!Answer, Partner!Standings
<1>10. ASSUME NEW a \in Accounts, NEW now \in Partner!Standings, Partner!StripeChanges(a, now)
       PROVE PartnerTypes'
  <2>1. events' \in Seq(Partner!Event) /\ Len(events') <= MaxEvents
    BY <1>10 DEF Partner!StripeChanges, Partner!Event
  <2> QED
    BY <2>1, <1>10 DEF Partner!StripeChanges, Partner!Standings, Partner!Live
<1>11. ASSUME NEW i \in 1 .. Len(events), Partner!HandleAccountUpdated(i) PROVE PartnerTypes'
  <2>1. billing' = billing \/ \E t \in Partner!StripeAccountStatus : billing' = [billing EXCEPT !.status = t]
    BY <1>11 DEF Partner!HandleAccountUpdated
  <2>2. delivered' \in 0 .. Partner!OutOfTurn
    BY <1>11 DEF Partner!Hear, Partner!HandleAccountUpdated, Partner!OutOfTurn
  <2>3. dropped' \in BOOLEAN
    BY <1>11 DEF Partner!Hear, Partner!HandleAccountUpdated
  <2>4. ~billing'.row => billing'.account = NoRow /\ billing'.status = "PENDING"
    <3>1. events[i] \in Partner!Event
      BY <1>11
    <3> QED
      BY <1>11, <3>1 DEF Partner!HandleAccountUpdated, Partner!Event
  <2> QED
    BY <1>11, <2>1, <2>2, <2>3, <2>4 DEF Partner!HandleAccountUpdated, Partner!Hear
<1>12. CASE UNCHANGED Partner!vars
  BY <1>12 DEF Partner!vars
<1> QED
  BY <1>1, <1>2, <1>3, <1>4, <1>5, <1>6, <1>7, <1>8, <1>9, <1>10, <1>11, <1>12
  DEF Partner!Next, Partner!Work

-----------------------------------------------------------------------------
(* Openings and closings.                                                  *)

\* Of two requests that are opening an account neither is alone.
NoneIsAlone ==
  \A r, p \in Requests :
    r # p /\ Partner!Opening(r) /\ Partner!Opening(p) => ~partnerRequest[r].alone

\* What a request past the check that there is no account may overwrite.
FoundNone ==
  \A r \in Requests :
    Partner!At(r, "open") \/ Partner!At(r, "save") => billing.account \in {NoRow} \cup rivals

\* The account a request is about to save is known to nobody else.
SavesItsOwn ==
  \A r \in Requests : Partner!At(r, "save") =>
    /\ stripe[Hand(r)] # "deleted"
    /\ Hand(r) # billing.account
    /\ \A p \in Requests \ {r} : Hand(p) # Hand(r)

\* What requests that open an account may rely on.
OpenInv == NoneIsAlone /\ FoundNone /\ SavesItsOwn

\* An account is closed by one request, which then clears the row.
ClosesOnce ==
  \A r \in Requests : Partner!At(r, "clear") =>
    /\ stripe[Hand(r)] = "deleted"
    /\ \A p \in Requests \ {r} : Partner!At(p, "clear") => Hand(p) # Hand(r)

\* Unless accounts were opened side by side, the row still names the account that
\* is about to be closed, or another request has closed it.
ClearsItsOwn ==
  rivals = {} =>
    /\ forgotten = {}
    /\ \A r \in Requests :
         /\ Partner!At(r, "clear") => billing.account = Hand(r)
         /\ Partner!At(r, "close") => billing.account = Hand(r) \/ stripe[Hand(r)] = "deleted"

\* The property, account by account.
NoneIsLost ==
  \A a \in Accounts :
    \/ stripe[a] \in {"none", "deleted"}
    \/ a \in {billing.account} \cup broken \cup rivals \cup forgotten
    \/ \E r \in Requests : Partner!At(r, "save") /\ Hand(r) = a

\* A row that names a closed account is about to be cleared, or an await failed.
ClosedGoes ==
  \A a \in Accounts :
    stripe[a] = "deleted" /\ billing.account = a =>
      a \in broken \/ \E r \in Requests : Partner!At(r, "clear") /\ Hand(r) = a

\* What the accounts, the row and the requests have to do with each other.
PartnerInv ==
  PartnerTypes /\ OpenInv /\ ClosesOnce /\ ClearsItsOwn /\ NoneIsLost /\ ClosedGoes

\* What the proofs below use of the types.
LEMMA PartnerFacts ==
  ASSUME Partner!ConnectAssumption, PartnerTypes
  PROVE  /\ NoRow \notin Accounts
         /\ billing.account \in Accounts \cup {NoRow}
         /\ billing.account # NoRow => stripe[billing.account] # "none"
         /\ \A a \in Accounts : stripe[a] \in Partner!Standings \cup {"none", "deleted"}
         /\ \A p \in Requests :
              /\ Hand(p) \in Accounts \cup {NoRow}
              /\ Hand(p) # NoRow => stripe[Hand(p)] # "none"
              /\ Partner!At(p, "save") \/ Partner!At(p, "close") \/ Partner!At(p, "clear") => Hand(p) \in Accounts
<1>1. \A p \in Requests : Hand(p) \in Accounts \cup {NoRow}
  BY DEF PartnerTypes, Partner!TypeOK, Hand, Partner!Request, Partner!Idle
<1>2. \A p \in Requests :
        Partner!At(p, "save") \/ Partner!At(p, "close") \/ Partner!At(p, "clear") => Hand(p) \in Accounts
  BY DEF PartnerTypes, Partner!TypeOK, Hand
<1>3. /\ billing.account \in Accounts \cup {NoRow}
      /\ \A a \in Accounts : stripe[a] \in Partner!Standings \cup {"none", "deleted"}
  BY DEF PartnerTypes, Partner!TypeOK
<1>4. \A p \in Requests : Hand(p) # NoRow => stripe[Hand(p)] # "none"
  BY <1>1 DEF PartnerTypes, NamedIsOpened
<1>5. billing.account # NoRow => stripe[billing.account] # "none"
  BY <1>3 DEF PartnerTypes, NamedIsOpened
<1> QED
  BY <1>1, <1>2, <1>3, <1>4, <1>5 DEF Partner!ConnectAssumption

\* A request to open an account comes.
LEMMA PartnerConnects ==
  ASSUME Partner!ConnectAssumption, PartnerInv, NEW r \in Requests, Partner!ConnectArrives(r)
  PROVE  OpenInv' /\ ClosesOnce' /\ ClearsItsOwn' /\ NoneIsLost' /\ ClosedGoes'
<1> USE DEF Partner!Opening, Partner!At
<1>1. NoneIsAlone /\ FoundNone /\ SavesItsOwn /\ ClosesOnce /\ ClearsItsOwn
        /\ NoneIsLost /\ ClosedGoes
  BY DEF PartnerInv, OpenInv
<1>2. PartnerTypes
  BY DEF PartnerInv
<1>3. /\ UNCHANGED <<billing, stripe, broken, rivals, forgotten>>
      /\ partnerRequest[r].pc = "idle" /\ partnerRequest'[r].pc = "find" /\ Hand(r)' = NoRow
      /\ partnerRequest'[r].alone => \A p \in Requests \ {r} : ~Partner!Opening(p)
      /\ \A p \in Requests \ {r} :
           /\ Hand(p)' = Hand(p) /\ partnerRequest'[p].pc = partnerRequest[p].pc
           /\ Partner!Opening(p) => ~partnerRequest'[p].alone
  <2>1. ASSUME NEW p \in Requests \ {r}
        PROVE  /\ Hand(p)' = Hand(p) /\ partnerRequest'[p].pc = partnerRequest[p].pc
               /\ Partner!Opening(p) => ~partnerRequest'[p].alone
    <3>1. CASE Partner!Opening(p)
      <4>1. partnerRequest'[p] = [partnerRequest[p] EXCEPT !.alone = FALSE]
        BY <3>1 DEF Partner!ConnectArrives
      <4>2. partnerRequest[p] \in Partner!Request
        BY <1>2, <3>1 DEF PartnerTypes, Partner!TypeOK, Partner!Idle
      <4> QED
        BY <4>1, <4>2 DEF Partner!Request, Hand
    <3>2. CASE ~Partner!Opening(p)
      BY <3>2 DEF Partner!ConnectArrives, Hand
    <3> QED
      BY <3>1, <3>2
  <2>2. /\ partnerRequest[r].pc = "idle" /\ partnerRequest'[r].pc = "find" /\ Hand(r)' = NoRow
        /\ partnerRequest'[r].alone => \A p \in Requests \ {r} : ~Partner!Opening(p)
    BY <1>2 DEF Partner!ConnectArrives, Partner!InFlight, PartnerTypes, Partner!TypeOK, Hand
  <2>3. UNCHANGED <<billing, stripe, broken, rivals, forgotten>>
    BY DEF Partner!ConnectArrives, Partner!hist
  <2> QED
    BY <2>1, <2>2, <2>3
<1>4. NoneIsAlone'
  BY <1>1, <1>2, <1>3, PartnerFacts DEF NoneIsAlone
<1>5. FoundNone'
  BY <1>1, <1>2, <1>3, PartnerFacts DEF FoundNone, NoneIsAlone
<1>6. SavesItsOwn'
  BY <1>1, <1>2, <1>3, PartnerFacts DEF SavesItsOwn
<1>7. ClosesOnce'
  BY <1>1, <1>2, <1>3, PartnerFacts DEF ClosesOnce
<1>8. ClearsItsOwn'
  BY <1>1, <1>2, <1>3, PartnerFacts DEF ClearsItsOwn, FoundNone, NoneIsAlone, ClosesOnce
<1>9. NoneIsLost'
  BY <1>1, <1>2, <1>3, PartnerFacts DEF NoneIsLost, FoundNone, NoneIsAlone, ClosesOnce
<1>10. ClosedGoes'
  BY <1>1, <1>2, <1>3, PartnerFacts DEF ClosedGoes, SavesItsOwn
<1> QED
  BY <1>4, <1>5, <1>6, <1>7, <1>8, <1>9, <1>10 DEF OpenInv

\* A request to close the account comes.
LEMMA PartnerDisconnects ==
  ASSUME Partner!ConnectAssumption, PartnerInv, NEW r \in Requests, Partner!DisconnectArrives(r)
  PROVE  OpenInv' /\ ClosesOnce' /\ ClearsItsOwn' /\ NoneIsLost' /\ ClosedGoes'
<1> USE DEF Partner!Opening, Partner!At
<1>1. NoneIsAlone /\ FoundNone /\ SavesItsOwn /\ ClosesOnce /\ ClearsItsOwn
        /\ NoneIsLost /\ ClosedGoes
  BY DEF PartnerInv, OpenInv
<1>2. PartnerTypes
  BY DEF PartnerInv
<1>3. /\ UNCHANGED <<billing, stripe, broken, rivals, forgotten>>
      /\ \A p \in Requests \ {r} :
           /\ partnerRequest'[p].pc = partnerRequest[p].pc /\ Hand(p)' = Hand(p)
           /\ partnerRequest'[p].alone = partnerRequest[p].alone
      /\ partnerRequest[r].pc = "idle" /\ partnerRequest'[r].pc = "found"
      /\ Hand(r)' = NoRow
  BY <1>2 DEF Partner!DisconnectArrives, Partner!Goto, Partner!Answer, Partner!Idle, Partner!Request, Partner!hist,
    Partner!InFlight, PartnerTypes, Partner!TypeOK, Hand
<1>4. NoneIsAlone'
  BY <1>1, <1>2, <1>3, PartnerFacts DEF NoneIsAlone
<1>5. FoundNone'
  BY <1>1, <1>2, <1>3, PartnerFacts DEF FoundNone, NoneIsAlone
<1>6. SavesItsOwn'
  BY <1>1, <1>2, <1>3, PartnerFacts DEF SavesItsOwn
<1>7. ClosesOnce'
  BY <1>1, <1>2, <1>3, PartnerFacts DEF ClosesOnce
<1>8. ClearsItsOwn'
  BY <1>1, <1>2, <1>3, PartnerFacts DEF ClearsItsOwn, FoundNone, NoneIsAlone, ClosesOnce
<1>9. NoneIsLost'
  BY <1>1, <1>2, <1>3, PartnerFacts DEF NoneIsLost, FoundNone, NoneIsAlone, ClosesOnce
<1>10. ClosedGoes'
  BY <1>1, <1>2, <1>3, PartnerFacts DEF ClosedGoes, SavesItsOwn
<1> QED
  BY <1>4, <1>5, <1>6, <1>7, <1>8, <1>9, <1>10 DEF OpenInv

\* The check that there is no account.
LEMMA PartnerFindsNone ==
  ASSUME Partner!ConnectAssumption, PartnerInv, NEW r \in Requests, Partner!FindNoAccount(r)
  PROVE  OpenInv' /\ ClosesOnce' /\ ClearsItsOwn' /\ NoneIsLost' /\ ClosedGoes'
<1> USE DEF Partner!Opening, Partner!At
<1>1. NoneIsAlone /\ FoundNone /\ SavesItsOwn /\ ClosesOnce /\ ClearsItsOwn
        /\ NoneIsLost /\ ClosedGoes
  BY DEF PartnerInv, OpenInv
<1>2. PartnerTypes
  BY DEF PartnerInv
<1>3. /\ UNCHANGED <<billing, stripe, broken, rivals, forgotten>>
      /\ \A p \in Requests \ {r} :
           /\ partnerRequest'[p].pc = partnerRequest[p].pc /\ Hand(p)' = Hand(p)
           /\ partnerRequest'[p].alone = partnerRequest[p].alone
      /\ partnerRequest[r].pc = "find"
      /\ \/ partnerRequest'[r].pc = "idle" /\ Hand(r)' = NoRow
         \/ /\ partnerRequest'[r].pc = "open" /\ partnerRequest'[r].alone = partnerRequest[r].alone
            /\ billing.account = NoRow /\ Hand(r)' = Hand(r)
  <2>1. CASE billing.account = NoRow
    BY <1>2, <2>1 DEF Partner!FindNoAccount, Partner!Goto, Partner!hist, Partner!Request, Partner!Idle,
      PartnerTypes, Partner!TypeOK, Hand
  <2>2. CASE billing.account # NoRow
    BY <1>2, <2>2 DEF Partner!FindNoAccount, Partner!Answer, Partner!hist, Partner!Request, Partner!Idle,
      PartnerTypes, Partner!TypeOK, Hand
  <2> QED
    BY <2>1, <2>2
<1>4. NoneIsAlone'
  BY <1>1, <1>2, <1>3, PartnerFacts DEF NoneIsAlone
<1>5. FoundNone'
  BY <1>1, <1>2, <1>3, PartnerFacts DEF FoundNone, NoneIsAlone
<1>6. SavesItsOwn'
  BY <1>1, <1>2, <1>3, PartnerFacts DEF SavesItsOwn
<1>7. ClosesOnce'
  BY <1>1, <1>2, <1>3, PartnerFacts DEF ClosesOnce
<1>8. ClearsItsOwn'
  BY <1>1, <1>2, <1>3, PartnerFacts DEF ClearsItsOwn, FoundNone, NoneIsAlone, ClosesOnce
<1>9. NoneIsLost'
  BY <1>1, <1>2, <1>3, PartnerFacts DEF NoneIsLost, FoundNone, NoneIsAlone, ClosesOnce
<1>10. ClosedGoes'
  BY <1>1, <1>2, <1>3, PartnerFacts DEF ClosedGoes, SavesItsOwn
<1> QED
  BY <1>4, <1>5, <1>6, <1>7, <1>8, <1>9, <1>10 DEF OpenInv

\* Stripe opens the account.
LEMMA PartnerOpens ==
  ASSUME Partner!ConnectAssumption, PartnerInv, NEW r \in Requests, Partner!OpenAccount(r)
  PROVE  OpenInv' /\ ClosesOnce' /\ ClearsItsOwn' /\ NoneIsLost' /\ ClosedGoes'
<1> USE DEF Partner!Opening, Partner!At
<1>1. NoneIsAlone /\ FoundNone /\ SavesItsOwn /\ ClosesOnce /\ ClearsItsOwn
        /\ NoneIsLost /\ ClosedGoes
  BY DEF PartnerInv, OpenInv
<1>2. PartnerTypes
  BY DEF PartnerInv
<1>3. /\ UNCHANGED <<billing, broken, rivals, forgotten>>
      /\ \A p \in Requests \ {r} :
           /\ partnerRequest'[p].pc = partnerRequest[p].pc /\ Hand(p)' = Hand(p)
           /\ partnerRequest'[p].alone = partnerRequest[p].alone
      /\ partnerRequest[r].pc = "open" /\ partnerRequest'[r].pc = "save"
      /\ partnerRequest'[r].alone = partnerRequest[r].alone
      /\ Hand(r)' \in Accounts /\ stripe[Hand(r)'] = "none"
      /\ stripe' = [stripe EXCEPT ![Hand(r)'] = "incomplete"]
      /\ stripe'[Hand(r)'] = "incomplete" /\ \A a \in Accounts : a = Hand(r)' \/ stripe'[a] = stripe[a]
  BY <1>2 DEF Partner!OpenAccount, Partner!Goto, Partner!Answer, Partner!Idle, Partner!Request, Partner!hist,
    Partner!InFlight, PartnerTypes, Partner!TypeOK, Hand
<1>4. NoneIsAlone'
  BY <1>1, <1>2, <1>3, PartnerFacts DEF NoneIsAlone
<1>5. FoundNone'
  BY <1>1, <1>2, <1>3, PartnerFacts DEF FoundNone, NoneIsAlone
<1>6. SavesItsOwn'
  BY <1>1, <1>2, <1>3, PartnerFacts DEF SavesItsOwn
<1>7. ClosesOnce'
  BY <1>1, <1>2, <1>3, PartnerFacts DEF ClosesOnce
<1>8. ClearsItsOwn'
  BY <1>1, <1>2, <1>3, PartnerFacts DEF ClearsItsOwn, FoundNone, NoneIsAlone, ClosesOnce
<1>9. NoneIsLost'
  BY <1>1, <1>2, <1>3, PartnerFacts DEF NoneIsLost, FoundNone, NoneIsAlone, ClosesOnce
<1>10. ClosedGoes'
  BY <1>1, <1>2, <1>3, PartnerFacts DEF ClosedGoes, SavesItsOwn
<1> QED
  BY <1>4, <1>5, <1>6, <1>7, <1>8, <1>9, <1>10 DEF OpenInv

\* The account goes to the row.
LEMMA PartnerSaves ==
  ASSUME Partner!ConnectAssumption, PartnerInv, NEW r \in Requests, Partner!SaveAccount(r)
  PROVE  OpenInv' /\ ClosesOnce' /\ ClearsItsOwn' /\ NoneIsLost' /\ ClosedGoes'
<1> USE DEF Partner!Opening, Partner!At
<1>1. NoneIsAlone /\ FoundNone /\ SavesItsOwn /\ ClosesOnce /\ ClearsItsOwn
        /\ NoneIsLost /\ ClosedGoes
  BY DEF PartnerInv, OpenInv
<1>2. PartnerTypes
  BY DEF PartnerInv
<1>3. /\ UNCHANGED <<stripe, broken, forgotten>>
      /\ \A p \in Requests \ {r} :
           /\ partnerRequest'[p].pc = partnerRequest[p].pc /\ Hand(p)' = Hand(p)
           /\ partnerRequest'[p].alone = partnerRequest[p].alone
      /\ partnerRequest[r].pc = "save" /\ partnerRequest'[r].pc = "idle" /\ Hand(r)' = NoRow
      /\ billing'.account = Hand(r)
      /\ rivals' = IF partnerRequest[r].alone THEN rivals ELSE rivals \cup {Hand(r)}
  BY <1>2 DEF Partner!SaveAccount, Partner!Goto, Partner!Answer, Partner!Idle, Partner!Request, Partner!hist,
    Partner!InFlight, PartnerTypes, Partner!TypeOK, Hand
<1>4. NoneIsAlone'
  BY <1>1, <1>2, <1>3, PartnerFacts DEF NoneIsAlone
<1>5. FoundNone'
  BY <1>1, <1>2, <1>3, PartnerFacts DEF FoundNone, NoneIsAlone
<1>6. SavesItsOwn'
  BY <1>1, <1>2, <1>3, PartnerFacts DEF SavesItsOwn
<1>7. ClosesOnce'
  BY <1>1, <1>2, <1>3, PartnerFacts DEF ClosesOnce
<1>8. ClearsItsOwn'
  BY <1>1, <1>2, <1>3, PartnerFacts DEF ClearsItsOwn, FoundNone, NoneIsAlone, ClosesOnce
<1>9. NoneIsLost'
  BY <1>1, <1>2, <1>3, PartnerFacts DEF NoneIsLost, FoundNone, NoneIsAlone, ClosesOnce
<1>10. ClosedGoes'
  <2>1. stripe[billing'.account] # "deleted"
    BY <1>1, <1>3 DEF SavesItsOwn
  <2> QED
    BY <1>3, <2>1 DEF ClosedGoes
<1> QED
  BY <1>4, <1>5, <1>6, <1>7, <1>8, <1>9, <1>10 DEF OpenInv

\* The account to close is read.
LEMMA PartnerFinds ==
  ASSUME Partner!ConnectAssumption, PartnerInv, NEW r \in Requests, Partner!FindAccount(r)
  PROVE  OpenInv' /\ ClosesOnce' /\ ClearsItsOwn' /\ NoneIsLost' /\ ClosedGoes'
<1> USE DEF Partner!Opening, Partner!At
<1>1. NoneIsAlone /\ FoundNone /\ SavesItsOwn /\ ClosesOnce /\ ClearsItsOwn
        /\ NoneIsLost /\ ClosedGoes
  BY DEF PartnerInv, OpenInv
<1>2. PartnerTypes
  BY DEF PartnerInv
<1>3. /\ UNCHANGED <<billing, stripe, broken, rivals, forgotten>>
      /\ \A p \in Requests \ {r} :
           /\ partnerRequest'[p].pc = partnerRequest[p].pc /\ Hand(p)' = Hand(p)
           /\ partnerRequest'[p].alone = partnerRequest[p].alone
      /\ partnerRequest[r].pc = "found"
      /\ \/ partnerRequest'[r].pc = "idle" /\ Hand(r)' = NoRow
         \/ partnerRequest'[r].pc = "close" /\ Hand(r)' = billing.account /\ billing.account # NoRow
  BY <1>2 DEF Partner!FindAccount, Partner!Goto, Partner!Answer, Partner!Idle, Partner!Request, Partner!hist,
    Partner!InFlight, PartnerTypes, Partner!TypeOK, Hand
<1>4. NoneIsAlone'
  BY <1>1, <1>2, <1>3, PartnerFacts DEF NoneIsAlone
<1>5. FoundNone'
  BY <1>1, <1>2, <1>3, PartnerFacts DEF FoundNone, NoneIsAlone
<1>6. SavesItsOwn'
  BY <1>1, <1>2, <1>3, PartnerFacts DEF SavesItsOwn
<1>7. ClosesOnce'
  BY <1>1, <1>2, <1>3, PartnerFacts DEF ClosesOnce
<1>8. ClearsItsOwn'
  BY <1>1, <1>2, <1>3, PartnerFacts DEF ClearsItsOwn, FoundNone, NoneIsAlone, ClosesOnce
<1>9. NoneIsLost'
  BY <1>1, <1>2, <1>3, PartnerFacts DEF NoneIsLost, FoundNone, NoneIsAlone, ClosesOnce
<1>10. ClosedGoes'
  BY <1>1, <1>2, <1>3, PartnerFacts DEF ClosedGoes, SavesItsOwn
<1> QED
  BY <1>4, <1>5, <1>6, <1>7, <1>8, <1>9, <1>10 DEF OpenInv

\* Stripe closes the account, or there is none by now.
LEMMA PartnerCloses ==
  ASSUME Partner!ConnectAssumption, PartnerInv, NEW r \in Requests, Partner!CloseAccount(r)
  PROVE  OpenInv' /\ ClosesOnce' /\ ClearsItsOwn' /\ NoneIsLost' /\ ClosedGoes'
<1> USE DEF Partner!Opening, Partner!At
<1>1. NoneIsAlone /\ FoundNone /\ SavesItsOwn /\ ClosesOnce /\ ClearsItsOwn
        /\ NoneIsLost /\ ClosedGoes
  BY DEF PartnerInv, OpenInv
<1>2. PartnerTypes
  BY DEF PartnerInv
<1>3. /\ UNCHANGED <<billing, broken, rivals, forgotten>>
      /\ \A p \in Requests \ {r} :
           /\ partnerRequest'[p].pc = partnerRequest[p].pc /\ Hand(p)' = Hand(p)
           /\ partnerRequest'[p].alone = partnerRequest[p].alone
      /\ partnerRequest[r].pc = "close"
      /\ \/ stripe' = stripe /\ partnerRequest'[r].pc = "idle" /\ Hand(r)' = NoRow
         \/ /\ stripe[Hand(r)] # "deleted" /\ stripe'[Hand(r)] = "deleted"
            /\ \A a \in Accounts : a = Hand(r) \/ stripe'[a] = stripe[a]
            /\ partnerRequest'[r].pc = "clear" /\ Hand(r)' = Hand(r)
  BY <1>2 DEF Partner!CloseAccount, Partner!Goto, Partner!Answer, Partner!Idle, Partner!Request, Partner!hist,
    Partner!InFlight, PartnerTypes, Partner!TypeOK, Hand
<1>4. NoneIsAlone'
  BY <1>1, <1>2, <1>3, PartnerFacts DEF NoneIsAlone
<1>5. FoundNone'
  BY <1>1, <1>2, <1>3, PartnerFacts DEF FoundNone, NoneIsAlone
<1>6. SavesItsOwn'
  BY <1>1, <1>2, <1>3, PartnerFacts DEF SavesItsOwn
<1>7. ClosesOnce'
  BY <1>1, <1>2, <1>3, PartnerFacts DEF ClosesOnce
<1>8. ClearsItsOwn'
  BY <1>1, <1>2, <1>3, PartnerFacts DEF ClearsItsOwn, FoundNone, NoneIsAlone, ClosesOnce
<1>9. NoneIsLost'
  BY <1>1, <1>2, <1>3, PartnerFacts DEF NoneIsLost, FoundNone, NoneIsAlone, ClosesOnce
<1>10. ClosedGoes'
  BY <1>1, <1>2, <1>3, PartnerFacts DEF ClosedGoes, SavesItsOwn
<1> QED
  BY <1>4, <1>5, <1>6, <1>7, <1>8, <1>9, <1>10 DEF OpenInv

\* The row is cleared.
LEMMA PartnerClears ==
  ASSUME Partner!ConnectAssumption, PartnerInv, NEW r \in Requests, Partner!ClearAccount(r)
  PROVE  OpenInv' /\ ClosesOnce' /\ ClearsItsOwn' /\ NoneIsLost' /\ ClosedGoes'
<1> USE DEF Partner!Opening, Partner!At
<1>1. NoneIsAlone /\ FoundNone /\ SavesItsOwn /\ ClosesOnce /\ ClearsItsOwn
        /\ NoneIsLost /\ ClosedGoes
  BY DEF PartnerInv, OpenInv
<1>2. PartnerTypes
  BY DEF PartnerInv
<1>3. /\ UNCHANGED <<stripe, broken, rivals>>
      /\ \A p \in Requests \ {r} :
           /\ partnerRequest'[p].pc = partnerRequest[p].pc /\ Hand(p)' = Hand(p)
           /\ partnerRequest'[p].alone = partnerRequest[p].alone
      /\ partnerRequest[r].pc = "clear" /\ partnerRequest'[r].pc = "idle" /\ Hand(r)' = NoRow
      /\ billing'.account = NoRow
      /\ forgotten' = forgotten \cup ({billing.account} \ {NoRow, Hand(r)})
  BY <1>2 DEF Partner!ClearAccount, Partner!Goto, Partner!Answer, Partner!Idle, Partner!Request, Partner!hist,
    Partner!InFlight, PartnerTypes, Partner!TypeOK, Hand
<1>4. NoneIsAlone'
  BY <1>1, <1>2, <1>3, PartnerFacts DEF NoneIsAlone
<1>5. FoundNone'
  BY <1>1, <1>2, <1>3, PartnerFacts DEF FoundNone, NoneIsAlone
<1>6. SavesItsOwn'
  BY <1>1, <1>2, <1>3, PartnerFacts DEF SavesItsOwn
<1>7. ClosesOnce'
  BY <1>1, <1>2, <1>3, PartnerFacts DEF ClosesOnce
<1>8. ClearsItsOwn'
  BY <1>1, <1>2, <1>3, PartnerFacts DEF ClearsItsOwn, FoundNone, NoneIsAlone, ClosesOnce
<1>9. NoneIsLost'
  BY <1>1, <1>2, <1>3, PartnerFacts DEF NoneIsLost, FoundNone, NoneIsAlone, ClosesOnce
<1>10. ClosedGoes'
  BY <1>1, <1>2, <1>3, PartnerFacts DEF ClosedGoes, SavesItsOwn
<1> QED
  BY <1>4, <1>5, <1>6, <1>7, <1>8, <1>9, <1>10 DEF OpenInv

\* An await fails, and Stripe may have done what it was asked.
LEMMA PartnerFails ==
  ASSUME Partner!ConnectAssumption, PartnerInv, NEW r \in Requests, Partner!AwaitFails(r)
  PROVE  OpenInv' /\ ClosesOnce' /\ ClearsItsOwn' /\ NoneIsLost' /\ ClosedGoes'
<1> USE DEF Partner!Opening, Partner!At
<1>1. NoneIsAlone /\ FoundNone /\ SavesItsOwn /\ ClosesOnce /\ ClearsItsOwn
        /\ NoneIsLost /\ ClosedGoes
  BY DEF PartnerInv, OpenInv
<1>2. PartnerTypes
  BY DEF PartnerInv
<1>3. /\ UNCHANGED <<billing, rivals, forgotten>>
      /\ \A p \in Requests \ {r} :
           /\ partnerRequest'[p].pc = partnerRequest[p].pc /\ Hand(p)' = Hand(p)
           /\ partnerRequest'[p].alone = partnerRequest[p].alone
      /\ partnerRequest'[r].pc = "idle" /\ Hand(r)' = NoRow
      /\ broken \subseteq broken' /\ (partnerRequest[r].pc \in {"save", "close", "clear"} => Hand(r) \in broken')
      /\ \A a \in Accounts :
                           \/ stripe'[a] = stripe[a]
                           \/ stripe'[a] = "deleted" /\ a = Hand(r) /\ partnerRequest[r].pc = "close"
                           \/ stripe[a] = "none" /\ a \in broken' /\ stripe'[a] = "incomplete"
  <2> USE PartnerFacts DEF Partner!AwaitFails, Hand
  <2>1. UNCHANGED <<billing, rivals, forgotten>>
    OBVIOUS
  <2>2. /\ \A p \in Requests \ {r} :
           /\ partnerRequest'[p].pc = partnerRequest[p].pc /\ Hand(p)' = Hand(p)
           /\ partnerRequest'[p].alone = partnerRequest[p].alone
        /\ partnerRequest'[r].pc = "idle" /\ Hand(r)' = NoRow
    BY <1>2 DEF Partner!Answer, Partner!Idle, PartnerTypes, Partner!TypeOK
  <2>3. broken \subseteq broken' /\ (partnerRequest[r].pc \in {"save", "close", "clear"} => Hand(r) \in broken')
    BY <1>2
  <2>4. \A a \in Accounts :
                           \/ stripe'[a] = stripe[a]
                           \/ stripe'[a] = "deleted" /\ a = Hand(r) /\ partnerRequest[r].pc = "close"
                           \/ stripe[a] = "none" /\ a \in broken' /\ stripe'[a] = "incomplete"
    <3>1. stripe \in [Accounts -> Partner!Standings \cup {"none", "deleted"}]
      BY <1>2 DEF PartnerTypes, Partner!TypeOK
    <3>2. CASE stripe' = stripe
      BY <3>2
    <3>3. CASE /\ Partner!At(r, "close")
               /\ stripe' = [stripe EXCEPT ![partnerRequest[r].account] = "deleted"]
      BY <3>1, <3>3
    <3>4. CASE \E b \in Accounts :
                 /\ stripe[b] = "none" /\ stripe' = [stripe EXCEPT ![b] = "incomplete"]
                 /\ broken' = broken \cup {b}
      BY <3>1, <3>4
    <3> QED
      BY <3>2, <3>3, <3>4
  <2> QED
    BY <2>1, <2>2, <2>3, <2>4
<1>4. NoneIsAlone'
  BY <1>1, <1>2, <1>3, PartnerFacts DEF NoneIsAlone
<1>5. FoundNone'
  BY <1>1, <1>2, <1>3, PartnerFacts DEF FoundNone, NoneIsAlone
<1>6. SavesItsOwn'
  BY <1>1, <1>2, <1>3, PartnerFacts DEF SavesItsOwn
<1>7. ClosesOnce'
  BY <1>1, <1>2, <1>3, PartnerFacts DEF ClosesOnce
<1>8. ClearsItsOwn'
  BY <1>1, <1>2, <1>3, PartnerFacts DEF ClearsItsOwn, FoundNone, NoneIsAlone, ClosesOnce
<1>9. NoneIsLost'
  BY <1>1, <1>2, <1>3, PartnerFacts DEF NoneIsLost, FoundNone, NoneIsAlone, ClosesOnce
<1>10. ClosedGoes'
  BY <1>1, <1>2, <1>3, PartnerFacts DEF ClosedGoes, SavesItsOwn
<1> QED
  BY <1>4, <1>5, <1>6, <1>7, <1>8, <1>9, <1>10 DEF OpenInv

\* Stripe changes its mind about an account, or tells of it.
LEMMA StripeSpeaks ==
  ASSUME Partner!ConnectAssumption, PartnerInv,
             \/ \E a \in Accounts, now \in Partner!Standings : Partner!StripeChanges(a, now)
             \/ \E i \in 1 .. Len(events) : Partner!HandleAccountUpdated(i)
             \/ UNCHANGED Partner!vars
  PROVE  OpenInv' /\ ClosesOnce' /\ ClearsItsOwn' /\ NoneIsLost' /\ ClosedGoes'
<1> USE DEF Partner!Opening, Partner!At
<1>1. NoneIsAlone /\ FoundNone /\ SavesItsOwn /\ ClosesOnce /\ ClearsItsOwn
        /\ NoneIsLost /\ ClosedGoes
  BY DEF PartnerInv, OpenInv
<1>2. PartnerTypes
  BY DEF PartnerInv
<1>3. /\ UNCHANGED <<partnerRequest, broken, rivals, forgotten>>
      /\ \A p \in Requests : Hand(p)' = Hand(p)
      /\ billing'.account = billing.account
      /\ \A b \in Accounts :
           stripe'[b] = stripe[b] \/
             (/\ stripe[b] # "none" /\ stripe[b] # "deleted"
              /\ stripe'[b] # "none" /\ stripe'[b] # "deleted")
  <2>1. ASSUME NEW a \in Accounts, NEW now \in Partner!Standings,
               Partner!StripeChanges(a, now)
        PROVE  /\ UNCHANGED <<partnerRequest, broken, rivals, forgotten>>
               /\ billing'.account = billing.account
               /\ \A b \in Accounts :
                    stripe'[b] = stripe[b] \/
                      (/\ stripe[b] # "none" /\ stripe[b] # "deleted"
                       /\ stripe'[b] # "none" /\ stripe'[b] # "deleted")
    BY <1>2, <2>1 DEF Partner!StripeChanges, Partner!Live, Partner!Standings, Partner!hist,
      PartnerTypes, Partner!TypeOK
  <2>2. ASSUME NEW i \in 1 .. Len(events), Partner!HandleAccountUpdated(i)
        PROVE  /\ UNCHANGED <<partnerRequest, broken, rivals, forgotten>>
               /\ billing'.account = billing.account
               /\ \A b \in Accounts :
                    stripe'[b] = stripe[b] \/
                      (/\ stripe[b] # "none" /\ stripe[b] # "deleted"
                       /\ stripe'[b] # "none" /\ stripe'[b] # "deleted")
    BY <1>2, <2>2 DEF Partner!HandleAccountUpdated, Partner!Hear, PartnerTypes, Partner!TypeOK
  <2>3. CASE UNCHANGED Partner!vars
    BY <2>3 DEF Partner!vars, Hand
  <2> QED
    BY <2>1, <2>2, <2>3 DEF Hand
<1>4. NoneIsAlone'
  BY <1>1, <1>2, <1>3, PartnerFacts DEF NoneIsAlone
<1>5. FoundNone'
  BY <1>1, <1>2, <1>3, PartnerFacts DEF FoundNone, NoneIsAlone
<1>6. SavesItsOwn'
  BY <1>1, <1>2, <1>3, PartnerFacts DEF SavesItsOwn
<1>7. ClosesOnce'
  BY <1>1, <1>2, <1>3, PartnerFacts DEF ClosesOnce
<1>8. ClearsItsOwn'
  BY <1>1, <1>2, <1>3, PartnerFacts DEF ClearsItsOwn, FoundNone, NoneIsAlone, ClosesOnce
<1>9. NoneIsLost'
  BY <1>1, <1>2, <1>3, PartnerFacts DEF NoneIsLost, FoundNone, NoneIsAlone, ClosesOnce
<1>10. ClosedGoes'
  BY <1>1, <1>2, <1>3, PartnerFacts DEF ClosedGoes, SavesItsOwn
<1> QED
  BY <1>4, <1>5, <1>6, <1>7, <1>8, <1>9, <1>10 DEF OpenInv

\* Every step of the partner and of Stripe keeps it.
LEMMA PartnerInvStep ==
  ASSUME Partner!ConnectAssumption, PartnerInv, [Partner!Next]_Partner!vars
  PROVE  PartnerInv'
<1>1. PartnerTypes'
  BY PartnerTypesStep DEF PartnerInv
<1>2. ASSUME NEW r \in Requests,
             \/ Partner!ConnectArrives(r) \/ Partner!DisconnectArrives(r)
             \/ Partner!Work(r) \/ Partner!AwaitFails(r)
      PROVE  PartnerInv'
  BY <1>1, <1>2, PartnerConnects, PartnerDisconnects, PartnerFindsNone, PartnerOpens, PartnerSaves,
    PartnerFinds, PartnerCloses, PartnerClears, PartnerFails DEF PartnerInv, Partner!Work
<1>3. CASE \/ \E a \in Accounts, now \in Partner!Standings : Partner!StripeChanges(a, now)
           \/ \E i \in 1 .. Len(events) : Partner!HandleAccountUpdated(i)
           \/ UNCHANGED Partner!vars
  BY <1>1, <1>3, StripeSpeaks DEF PartnerInv
<1> QED
  BY <1>2, <1>3 DEF Partner!Next

\* It holds of no account.
LEMMA PartnerInvInit ==
  ASSUME Partner!ConnectAssumption, Partner!Init
  PROVE  PartnerInv
<1>1. PartnerTypes
  BY PartnerTypesInit
<1>2. /\ \A r \in Requests : partnerRequest[r].pc = "idle"
      /\ billing.account = NoRow /\ NoRow \notin Accounts
      /\ \A a \in Accounts : stripe[a] = "none"
      /\ rivals = {} /\ forgotten = {}
  BY DEF Partner!Init, Partner!Idle, Partner!ConnectAssumption
<1> QED
  BY <1>1, <1>2 DEF PartnerInv, OpenInv, NoneIsAlone, FoundNone, SavesItsOwn, ClosesOnce, ClearsItsOwn,
    NoneIsLost, ClosedGoes, Partner!Opening, Partner!At

\* The row names the account that Stripe has, but for accidents.
LEMMA RowNames ==
  ASSUME PartnerInv
  PROVE  Partner!RowNamesTheAccount
<1>1. Partner!ClosedIsCleared
  BY DEF PartnerInv, ClosedGoes, Partner!ClosedIsCleared, Hand
<1>2. Partner!NoLostAccount
  <2>1. forgotten # {} => rivals # {}
    BY DEF PartnerInv, ClearsItsOwn
  <2>2. ASSUME NEW a \in Partner!Live
        PROVE  a \in {billing.account}
                      \cup {partnerRequest[r].account : r \in {p \in Requests : Partner!At(p, "save")}}
                      \cup broken \cup rivals \cup forgotten
    BY <2>2 DEF PartnerInv, NoneIsLost, Partner!Live, Hand
  <2> QED
    BY <2>1, <2>2 DEF Partner!NoLostAccount
<1> QED
  BY <1>1, <1>2 DEF Partner!RowNamesTheAccount

\* An account that Stripe has open is the one the row names, or a request is
\* about to save it, or it is one of the named accidents: an await failed with
\* it at hand, it was opened beside another, or a late clear took the row from
\* it (createStripeConnectAccount, deleteStripeConnectAccount).
THEOREM AccountIsNamed == Partner!Spec => []RowNamesTheAccount
<1> Partner!ConnectAssumption
  BY PartsAssumption
<1>1. Partner!Init => PartnerInv
  BY PartnerInvInit
<1>2. PartnerInv /\ [Partner!Next]_Partner!vars => PartnerInv'
  BY PartnerInvStep
<1>3. PartnerInv => RowNamesTheAccount
  BY RowNames DEF RowNamesTheAccount
<1> QED
  BY <1>1, <1>2, <1>3, PTL DEF Partner!Spec

-----------------------------------------------------------------------------
(* The status.                                                             *)

\* The enum of the column has no REJECTED, so such an event writes nothing.
Rejection(i) == events[i].standing = "rejected"

\* While events come in turn, the status is that of the last delivered one
\* that was no rejection, and a partner without a row has had none.
StatusInv ==
  \/ dropped
  \/ delivered = Partner!OutOfTurn
  \/ /\ delivered <= Len(events)
     /\ ~billing.row => delivered = 0
     /\ \/ billing.status = "PENDING" /\ \A i \in 1 .. delivered : Rejection(i)
        \/ \E i \in 1 .. delivered :
             /\ ~Rejection(i)
             /\ \A j \in i + 1 .. delivered : Rejection(j)
             /\ billing.status = Partner!StatusOf[events[i].standing]

\* An event in its turn writes the status, and nothing else does.
LEMMA StatusStep ==
  ASSUME Partner!ConnectAssumption, PartnerTypes, StatusInv, [Partner!Next]_Partner!vars
  PROVE  StatusInv'
<1> USE DEF StatusInv, Rejection
<1>1. /\ delivered \in 0 .. Partner!OutOfTurn /\ dropped \in BOOLEAN
      /\ events \in Seq(Partner!Event) /\ Len(events) <= MaxEvents
      /\ billing.account \in Accounts \cup {NoRow}
      /\ ~billing.row => billing.account = NoRow /\ billing.status = "PENDING"
      /\ billing.row \in BOOLEAN
      /\ billing \in [row : BOOLEAN, account : Accounts \cup {NoRow}, status : Partner!StripeAccountStatus]
  BY DEF PartnerTypes, Partner!TypeOK
<1>2. CASE UNCHANGED <<billing, events, delivered, dropped>>
  BY <1>2 DEF Partner!OutOfTurn
<1>3. ASSUME NEW r \in Requests,
             \/ Partner!ConnectArrives(r) \/ Partner!DisconnectArrives(r) \/ Partner!FindNoAccount(r)
             \/ Partner!OpenAccount(r) \/ Partner!FindAccount(r) \/ Partner!CloseAccount(r) \/ Partner!AwaitFails(r)
      PROVE  StatusInv'
  BY <1>2, <1>3 DEF Partner!ConnectArrives, Partner!DisconnectArrives, Partner!FindNoAccount,
    Partner!OpenAccount, Partner!FindAccount, Partner!CloseAccount, Partner!AwaitFails, Partner!hist
<1>4. ASSUME NEW r \in Requests, Partner!SaveAccount(r)
      PROVE  StatusInv'
  <2>1. CASE billing.row
    BY <1>1, <1>4, <2>1 DEF Partner!SaveAccount
  <2>2. CASE ~billing.row
    BY <1>1, <1>4, <2>2 DEF Partner!SaveAccount
  <2> QED
    BY <2>1, <2>2
<1>5. ASSUME NEW r \in Requests, Partner!ClearAccount(r)
      PROVE  StatusInv'
  BY <1>1, <1>5 DEF Partner!ClearAccount
<1>6. ASSUME NEW a \in Accounts, NEW now \in Partner!Standings, Partner!StripeChanges(a, now)
      PROVE  StatusInv'
  <2>1. /\ Len(events') = Len(events) + 1
        /\ \A i \in 1 .. Len(events) : events'[i] = events[i]
    BY <1>1, <1>6 DEF Partner!StripeChanges
  <2>2. billing' = billing /\ delivered' = delivered /\ dropped' = dropped
    BY <1>6 DEF Partner!StripeChanges, Partner!hist
  <2>3. CASE dropped \/ delivered = Partner!OutOfTurn
    BY <2>2, <2>3 DEF Partner!OutOfTurn
  <2>4. CASE ~dropped /\ delivered # Partner!OutOfTurn
    <3>1. delivered \in Nat /\ delivered <= Len(events) /\ (~billing.row => delivered = 0)
      BY <1>1, <2>4 DEF Partner!OutOfTurn, Partner!ConnectAssumption
    <3>2. \A i \in 1 .. delivered : events'[i] = events[i]
      BY <1>1, <2>1, <3>1
    <3> QED
      BY <1>1, <2>1, <2>2, <2>4, <3>1, <3>2
  <2> QED
    BY <2>3, <2>4
<1>7. ASSUME NEW i \in 1 .. Len(events), Partner!HandleAccountUpdated(i)
      PROVE  StatusInv'
  <2> SUFFICES ASSUME ~dropped', delivered' # Partner!OutOfTurn
               PROVE  StatusInv'
    BY DEF Partner!OutOfTurn
  <2>1. /\ ~dropped /\ events[i].account = billing.account /\ events' = events
        /\ i \in {delivered, delivered + 1} /\ delivered' = i
    BY <1>1, <1>7 DEF Partner!HandleAccountUpdated, Partner!Hear
  <2>2. delivered # Partner!OutOfTurn /\ i \in Nat /\ i <= Len(events)
    BY <1>1, <2>1, <1>7 DEF Partner!OutOfTurn, Partner!ConnectAssumption
  <2>3. events[i] \in Partner!Event
    BY <1>1, <1>7
  <2>4. billing.row /\ events[i].standing \in Partner!Standings
    BY <1>1, <2>1, <2>3 DEF Partner!Event, Partner!ConnectAssumption
  <2>5. CASE Rejection(i)
    <3>1. billing' = billing
      BY <1>7, <2>5 DEF Partner!HandleAccountUpdated, Partner!StatusOf, Partner!StripeAccountStatus
    <3> QED
      BY <1>1, <2>1, <2>2, <2>4, <2>5, <3>1
  <2>6. CASE ~Rejection(i)
    <3>1. Partner!StatusOf[events[i].standing] \in Partner!StripeAccountStatus
      BY <2>4, <2>6 DEF Partner!Standings, Partner!StatusOf, Partner!StripeAccountStatus
    <3>2. billing'.status = Partner!StatusOf[events[i].standing] /\ billing'.row
      BY <1>1, <1>7, <2>1, <2>4, <3>1 DEF Partner!HandleAccountUpdated
    <3> QED
      BY <1>1, <2>1, <2>2, <2>6, <3>2
  <2> QED
    BY <2>5, <2>6
<1>8. CASE UNCHANGED Partner!vars
  BY <1>2, <1>8 DEF Partner!vars
<1> QED
  BY <1>3, <1>4, <1>5, <1>6, <1>7, <1>8 DEF Partner!Next, Partner!Work

\* The invariant speaks of the last event that was accepted.
LEMMA StatusIsLast ==
  ASSUME PartnerTypes, StatusInv
  PROVE  Partner!StatusFollowsStripe
<1> SUFFICES ASSUME ~dropped, delivered # Partner!OutOfTurn
             PROVE  billing.status =
                      IF Partner!Accepted = {} THEN "PENDING"
                      ELSE Partner!StatusOf[events[CHOOSE i \in Partner!Accepted :
                                                     \A j \in Partner!Accepted : j <= i].standing]
  BY DEF Partner!StatusFollowsStripe
<1>1. delivered \in Nat /\ Len(events) \in Nat
  BY DEF PartnerTypes, Partner!TypeOK, Partner!OutOfTurn
<1>2. Partner!Accepted = {i \in 1 .. delivered : ~Rejection(i)}
  BY <1>1 DEF StatusInv, Partner!Accepted, Rejection
<1>3. CASE billing.status = "PENDING" /\ \A i \in 1 .. delivered : Rejection(i)
  BY <1>2, <1>3
<1>4. ASSUME NEW i \in 1 .. delivered, ~Rejection(i), \A j \in i + 1 .. delivered : Rejection(j),
             billing.status = Partner!StatusOf[events[i].standing]
      PROVE  billing.status = Partner!StatusOf[events[CHOOSE k \in Partner!Accepted :
                                                     \A j \in Partner!Accepted : j <= k].standing]
  <2>1. i \in Partner!Accepted /\ \A j \in Partner!Accepted : j <= i
    BY <1>1, <1>2, <1>4
  <2>2. \A k \in Partner!Accepted : (\A j \in Partner!Accepted : j <= k) => k = i
    BY <1>1, <1>2, <2>1
  <2>3. (CHOOSE k \in Partner!Accepted : \A j \in Partner!Accepted : j <= k) = i
    BY <2>1, <2>2
  <2> QED
    BY <1>4, <2>3
<1>5. ASSUME NEW i \in 1 .. delivered, ~Rejection(i)
      PROVE  Partner!Accepted # {}
  BY <1>2, <1>5
<1> QED
  BY <1>3, <1>4, <1>5 DEF StatusInv

\* While no event has come out of turn or found no row, the status is that of
\* the last event the enum of the column could take (handleAccountUpdated).
THEOREM StatusIsInStep == Partner!Spec => []StatusFollowsStripe
<1> Partner!ConnectAssumption
  BY PartsAssumption
<1>1. ASSUME Partner!Init PROVE PartnerTypes /\ StatusInv
  <2>1. delivered = 0 /\ events = <<>> /\ billing.status = "PENDING"
    BY <1>1 DEF Partner!Init
  <2> QED
    BY <1>1, <2>1, PartnerTypesInit DEF StatusInv
<1>2. PartnerTypes /\ StatusInv /\ [Partner!Next]_Partner!vars => (PartnerTypes /\ StatusInv)'
  BY PartnerTypesStep, StatusStep
<1>3. PartnerTypes /\ StatusInv => StatusFollowsStripe
  BY StatusIsLast DEF StatusFollowsStripe
<1> QED
  BY <1>1, <1>2, <1>3, PTL DEF Partner!Spec

-----------------------------------------------------------------------------
(* Fields and their images.                                                *)

\* What a request holds that is in flight, S being the fields that are there.
Fits(q, S) ==
  /\ q \in Place!Request
  /\ q.new => q.pc # "find" /\ q.address \in Addresses /\ q.sports \in SportSets
  /\ q.pc # "find" => q.at \in Spots
  /\ q.pc = "verify" => q.address \in Addresses
  /\ q.pc = "upload" => q.uid \in SlotUids
  /\ q.pc # "upload" => q.urls = {} /\ q.gone = {} /\ q.sent = {}
  /\ q.pc = "upload" => q.sent \subseteq q.urls /\ (q.urls = {} <=> q.files = 0)
  /\ q.pc # "upload" /\ q.new => q.uid = NoRow
  /\ ~q.new => q.uid \in S

\* Every request in flight fits the fields that are there.
RequestsFit ==
  \A r \in Requests : Place!InFlight(r) => Fits(fieldRequest[r], Place!Present)

\* What is taken for granted of the constants.
PlaceAssumption == Place!FieldsAssumption /\ Place!RowsAssumption
PlaceTypes == Place!TypeOK /\ RequestsFit

\* A request in flight has a step.
LEMMA FlightIsNotIdle ==
  ASSUME NEW q \in Place!Request
  PROVE  q # Place!Idle
BY DEF Place!Request, Place!Idle, Place!Steps

\* The keys an upload names that are in use were given to more than one file.
LEMMA Named ==
  ASSUME NEW r \in Requests, NEW q, Place!NameKeys(r, q),
         instant \subseteq Objects, twice \subseteq Objects
  PROVE  /\ twice \subseteq twice' /\ instant' \subseteq Objects /\ twice' \subseteq Objects
         /\ \E keys \in SUBSET Objects :
              /\ keys \cap Place!InUse \subseteq twice'
              /\ keys = {} <=> q.files = 0
              /\ fieldRequest' = [fieldRequest EXCEPT ![r] = [q EXCEPT !.pc = "upload", !.urls = keys]]
<1>1. PICK keys \in SUBSET Objects, same \in SUBSET instant :
        /\ keys \cap Place!InUse \subseteq same
        /\ keys = {} <=> q.files = 0
        /\ fieldRequest' = [fieldRequest EXCEPT ![r] = [q EXCEPT !.pc = "upload", !.urls = keys]]
        /\ instant' \subseteq instant \cup keys
        /\ twice \subseteq twice' /\ keys \cap same \subseteq twice'
        /\ twice' \subseteq twice \cup keys
  BY DEF Place!NameKeys, Place!Become
<1>2. keys \cap Place!InUse \subseteq twice'
  BY <1>1
<1>3. twice \subseteq twice' /\ instant' \subseteq Objects /\ twice' \subseteq Objects
  BY <1>1
<1> QED
  BY <1>1, <1>2, <1>3

\* A step that writes no field and turns one request into another that fits.
LEMMA PlaceTypesMove ==
  ASSUME PlaceTypes, NEW r \in Requests, NEW q,
         Fits(q, Place!Present) \/ q = Place!Idle,
         fieldRequest' = [fieldRequest EXCEPT ![r] = q],
         UNCHANGED <<field, image, astray, excused, moved, batch>>,
         stored' \subseteq Objects, instant' \subseteq Objects, twice' \subseteq Objects,
         fieldFailures' \in 0 .. FieldFailures,
         meanwhile' \in [Requests -> SUBSET SlotUids]
  PROVE  PlaceTypes'
<1>1. Place!Present' = Place!Present
  BY DEF Place!Present
<1>2. fieldRequest' \in [Requests -> Place!Request \cup {Place!Idle}]
  BY DEF PlaceTypes, Place!TypeOK, Fits
<1>3. Place!TypeOK'
  BY <1>1, <1>2 DEF PlaceTypes, Place!TypeOK
<1>4. RequestsFit'
  BY <1>1 DEF PlaceTypes, RequestsFit, Place!InFlight, Place!TypeOK
<1> QED
  BY <1>3, <1>4 DEF PlaceTypes

\* Every step keeps the types of the fields, the images and the requests.
LEMMA PlaceTypesStep ==
  ASSUME PlaceAssumption, PlaceTypes, [Place!Next]_Place!vars
  PROVE  PlaceTypes'
<1> USE DEF PlaceAssumption, Place!Become, Place!Goto, Place!hist, Place!names, Place!data
<1>1. /\ fieldRequest \in [Requests -> Place!Request \cup {Place!Idle}]
      /\ field \in [SlotUids -> Place!FieldRow \cup {NoRow}]
      /\ stored \subseteq Objects /\ instant \subseteq Objects /\ twice \subseteq Objects
      /\ meanwhile \in [Requests -> SUBSET SlotUids]
      /\ fieldFailures \in 0 .. FieldFailures
      /\ \A r \in Requests : Place!InFlight(r) => Fits(fieldRequest[r], Place!Present)
  BY DEF PlaceTypes, Place!TypeOK, RequestsFit
<1>2. ASSUME NEW r \in Requests, NEW kind \in {"PUBLIC", "PRIVATE"}, NEW address \in Addresses,
             NEW given \in Given \cup {NoRow}, NEW sports \in SportSets, NEW files \in 0 .. MaxImages,
             Place!CreateArrives(r, kind, address, given, sports, files)
      PROVE  PlaceTypes'
  <2> DEFINE q == [pc |-> IF kind = "PUBLIC" THEN "verify" ELSE "begin", new |-> TRUE, uid |-> NoRow,
                   type |-> kind, address |-> address,
                   at |-> IF given = NoRow THEN Details[address] ELSE given, mapped |-> given = NoRow,
                   sports |-> sports, files |-> files, gone |-> {}, urls |-> {}, sent |-> {}]
  <2>1. Fits(q, Place!Present)
    BY DEF Fits, Place!Request, Place!Steps, Place!FieldsAssumption
  <2>2. /\ fieldRequest' = [fieldRequest EXCEPT ![r] = q]
        /\ UNCHANGED <<field, image, astray, excused, moved, batch, stored, instant, twice, fieldFailures>>
        /\ meanwhile' \in [Requests -> SUBSET SlotUids]
    BY <1>1, <1>2 DEF Place!CreateArrives
  <2> HIDE DEF q
  <2> QED
    BY <1>1, <2>1, <2>2, PlaceTypesMove
<1>3. ASSUME NEW r \in Requests, NEW f \in SlotUids, NEW address \in Addresses \cup {NoRow},
             NEW given \in Given \cup {NoRow}, NEW files \in 0 .. MaxImages,
             Place!UpdateArrives(r, f, address, given, files)
      PROVE  PlaceTypes'
  <2> DEFINE q == [pc |-> "find", new |-> FALSE, uid |-> f, type |-> field[f].type,
                   address |-> address, at |-> given, mapped |-> given = NoRow,
                   sports |-> {}, files |-> files, gone |-> {}, urls |-> {}, sent |-> {}]
  <2>1. f \in Place!Present /\ field[f] \in Place!FieldRow
    BY <1>1, <1>3 DEF Place!UpdateArrives, Place!Present
  <2>2. Fits(q, Place!Present)
    BY <2>1 DEF Fits, Place!Request, Place!Steps, Place!FieldsAssumption, Place!FieldRow
  <2>3. /\ fieldRequest' = [fieldRequest EXCEPT ![r] = q]
        /\ UNCHANGED <<field, image, astray, excused, moved, batch, stored, instant, twice, fieldFailures>>
        /\ meanwhile' \in [Requests -> SUBSET SlotUids]
    BY <1>1, <1>3 DEF Place!UpdateArrives
  <2> HIDE DEF q
  <2> QED
    BY <1>1, <2>2, <2>3, PlaceTypesMove
<1>4. ASSUME NEW r \in Requests, Place!FindField(r) PROVE PlaceTypes'
  <2> DEFINE q == fieldRequest[r]
  <2> DEFINE n == IF q.address = NoRow
                  THEN [q EXCEPT !.pc = "begin", !.at = Place!NewSpot(q)]
                  ELSE [q EXCEPT !.pc = "verify", !.at = Place!NewSpot(q), !.sports = field[q.uid].sports]
  <2>1. Fits(q, Place!Present) /\ q.pc = "find" /\ ~q.new /\ q.uid \in Place!Present
    BY <1>1, <1>4 DEF Place!FindField, Place!At, Place!InFlight, Place!Idle, Fits
  <2>2. field[q.uid] \in Place!FieldRow
    BY <1>1, <2>1 DEF Place!Present
  <2>3. Place!NewSpot(q) \in Spots
    BY <2>1, <2>2 DEF Place!NewSpot, Fits, Place!Request, Place!FieldRow, Place!FieldsAssumption
  <2>4. Fits(n, Place!Present)
    <3>1. field[q.uid].sports \in SUBSET UNION SportSets
      BY <2>2 DEF Place!FieldRow
    <3> HIDE DEF q
    <3>2. CASE q.address = NoRow
      BY <2>1, <2>3, <3>2 DEF Fits, Place!Request, Place!Steps
    <3>3. CASE q.address # NoRow
      BY <2>1, <2>3, <3>1, <3>3 DEF Fits, Place!Request, Place!Steps
    <3> QED
      BY <3>2, <3>3
  <2>5. /\ fieldRequest' = [fieldRequest EXCEPT ![r] = n]
        /\ UNCHANGED <<field, image, astray, excused, moved, batch, stored, instant, twice, fieldFailures,
                      meanwhile>>
    BY <1>4 DEF Place!FindField
  <2> HIDE DEF n
  <2> QED
    BY <1>1, <2>4, <2>5, PlaceTypesMove
<1>5. ASSUME NEW r \in Requests, Place!VerifyFieldLocation(r) PROVE PlaceTypes'
  <2> DEFINE q == fieldRequest[r]
  <2>1. Fits(q, Place!Present) /\ q.pc = "verify"
    BY <1>1, <1>5 DEF Place!VerifyFieldLocation, Place!At, Place!InFlight, Place!Idle
  <2>2. Fits(Place!Verified(q), Place!Present)
    <3> HIDE DEF q
    <3> QED
      BY <2>1 DEF Fits, Place!Request, Place!Steps, Place!Verified
  <2>3. /\ \E n \in {Place!Idle, Place!Verified(q)} : fieldRequest' = [fieldRequest EXCEPT ![r] = n]
        /\ UNCHANGED <<field, image, astray, excused, moved, batch, stored, instant, twice, fieldFailures,
                      meanwhile>>
    BY <1>5 DEF Place!VerifyFieldLocation
  <2> HIDE DEF q
  <2> QED
    BY <1>1, <2>2, <2>3, PlaceTypesMove
<1>6. ASSUME NEW r \in Requests, Place!BeginCreate(r) PROVE PlaceTypes'
  <2> DEFINE q == fieldRequest[r]
  <2>1. Fits(q, Place!Present) /\ q.pc = "begin" /\ q.new
    BY <1>1, <1>6 DEF Place!BeginCreate, Place!At, Place!InFlight, Place!Idle
  <2>2. PICK f \in SlotUids : Place!NameKeys(r, [q EXCEPT !.uid = f])
    BY <1>6 DEF Place!BeginCreate
  <2> DEFINE b == [q EXCEPT !.uid = f]
  <2>3. b.files = q.files
    <3> HIDE DEF q
    <3> QED
      BY <2>1 DEF Fits, Place!Request
  <2>4. PICK keys \in SUBSET Objects :
          /\ keys = {} <=> q.files = 0
          /\ fieldRequest' = [fieldRequest EXCEPT ![r] = [b EXCEPT !.pc = "upload", !.urls = keys]]
    BY <1>1, <2>2, <2>3, Named
  <2> DEFINE n == [b EXCEPT !.pc = "upload", !.urls = keys]
  <2>5. Fits(n, Place!Present)
    <3> HIDE DEF q
    <3> QED
      BY <2>1, <2>4 DEF Fits, Place!Request, Place!Steps
  <2>6. /\ instant' \subseteq Objects /\ twice' \subseteq Objects
        /\ UNCHANGED <<field, image, astray, excused, moved, batch, stored, fieldFailures, meanwhile>>
    BY <1>1, <1>6, <2>2, Named DEF Place!BeginCreate
  <2> HIDE DEF n
  <2> QED
    BY <1>1, <2>4, <2>5, <2>6, PlaceTypesMove DEF n
<1>7. ASSUME NEW r \in Requests, Place!BeginUpdate(r) PROVE PlaceTypes'
  <2> DEFINE q == fieldRequest[r]
  <2> DEFINE b == Place!Replacing(q)
  <2>1. Fits(q, Place!Present) /\ q.pc = "begin" /\ ~q.new /\ q.uid \in SlotUids
    BY <1>1, <1>7 DEF Place!BeginUpdate, Place!At, Place!InFlight, Place!Idle, Fits, Place!Present
  <2>2. image[q.uid] \subseteq Objects
    BY <2>1 DEF PlaceTypes, Place!TypeOK
  <2>3. b.files = q.files
    <3> HIDE DEF q
    <3> QED
      BY <2>1 DEF Fits, Place!Request, Place!Replacing
  <2>4. Place!NameKeys(r, b)
    BY <1>7 DEF Place!BeginUpdate
  <2> HIDE DEF b
  <2>5. PICK keys \in SUBSET Objects :
          /\ keys = {} <=> q.files = 0
          /\ fieldRequest' = [fieldRequest EXCEPT ![r] = [b EXCEPT !.pc = "upload", !.urls = keys]]
    BY <1>1, <2>3, <2>4, Named
  <2> DEFINE n == [b EXCEPT !.pc = "upload", !.urls = keys]
  <2>6. Fits(n, Place!Present)
    <3> USE DEF b
    <3> HIDE DEF q
    <3> QED
      BY <2>1, <2>2, <2>5 DEF Fits, Place!Request, Place!Steps, Place!Replacing
  <2>7. /\ instant' \subseteq Objects /\ twice' \subseteq Objects
        /\ UNCHANGED <<field, image, astray, excused, moved, batch, stored, fieldFailures, meanwhile>>
    BY <1>1, <1>7, <2>4, Named DEF Place!BeginUpdate
  <2> HIDE DEF n
  <2> QED
    BY <1>1, <2>5, <2>6, <2>7, PlaceTypesMove DEF n
<1>8. ASSUME NEW r \in Requests, Place!Upload(r) PROVE PlaceTypes'
  <2> DEFINE q == fieldRequest[r]
  <2>1. Fits(q, Place!Present) /\ q.pc = "upload"
    BY <1>1, <1>8 DEF Place!Upload, Place!At, Place!InFlight, Place!Idle
  <2>2. PICK o \in q.urls \ q.sent :
          /\ fieldRequest' = [fieldRequest EXCEPT ![r].sent = @ \cup {o}] /\ stored' = stored \cup {o}
    BY <1>8 DEF Place!Upload
  <2> DEFINE n == [q EXCEPT !.sent = @ \cup {o}]
  <2>3. Fits(n, Place!Present) /\ o \in Objects
    <3> HIDE DEF q
    <3> QED
      BY <2>1, <2>2 DEF Fits, Place!Request, Place!Steps
  <2>4. /\ fieldRequest' = [fieldRequest EXCEPT ![r] = n]
        /\ UNCHANGED <<field, image, astray, excused, moved, batch, instant, twice, fieldFailures, meanwhile>>
        /\ stored' \subseteq Objects
    BY <1>1, <1>8, <2>2, <2>3 DEF Place!Upload
  <2> HIDE DEF n
  <2> QED
    BY <1>1, <2>3, <2>4, PlaceTypesMove
<1>9. ASSUME NEW r \in Requests, Place!AwaitFails(r) PROVE PlaceTypes'
  <2>1. fieldRequest[r].urls \subseteq Objects
    BY <1>1, <1>9 DEF Place!AwaitFails, Fits, Place!Request
  <2>2. /\ fieldRequest' = [fieldRequest EXCEPT ![r] = Place!Idle]
        /\ UNCHANGED <<field, image, astray, excused, moved, batch, instant, twice, meanwhile>>
        /\ fieldFailures' \in 0 .. FieldFailures
        /\ stored' \subseteq Objects
    BY <1>1, <1>9, <2>1 DEF Place!AwaitFails, Place!FieldsAssumption
  <2> QED
    BY <1>1, <2>2, PlaceTypesMove
<1>10. ASSUME NEW r \in Requests, Place!Commit(r) PROVE PlaceTypes'
  <2> DEFINE q == fieldRequest[r]
  <2>1. Fits(q, Place!Present) /\ q.pc = "upload" /\ q.uid \in SlotUids
    BY <1>1, <1>10 DEF Place!Commit, Place!At, Place!InFlight, Place!Idle, Fits
  <2> DEFINE row == IF q.new THEN [type |-> q.type, address |-> q.address, at |-> q.at, sports |-> q.sports]
                    ELSE [field[q.uid] EXCEPT
                            !.address = IF q.address = NoRow THEN @ ELSE q.address, !.at = q.at]
  <2>2. row \in Place!FieldRow
    <3>1. CASE q.new
      <4> HIDE DEF q
      <4> QED
        BY <2>1, <3>1 DEF Fits, Place!Request, Place!FieldRow
    <3>2. CASE ~q.new
      <4>1. field[q.uid] \in Place!FieldRow
        BY <1>1, <2>1, <3>2 DEF Fits, Place!Present
      <4> HIDE DEF q
      <4> QED
        BY <2>1, <3>2, <4>1 DEF Fits, Place!Request, Place!FieldRow
    <3> QED
      BY <3>1, <3>2
  <2>3. field' = [field EXCEPT ![q.uid] = row]
    BY <1>10 DEF Place!Commit
  <2>4. row # NoRow
    BY <2>2 DEF Place!RowsAssumption
  <2> HIDE DEF row
  <2>5. /\ field' \in [SlotUids -> Place!FieldRow \cup {NoRow}]
        /\ Place!Present' = Place!Present \cup {q.uid}
    BY <1>1, <2>1, <2>2, <2>3, <2>4 DEF Place!Present
  <2>6. /\ image' \in [SlotUids -> SUBSET Objects]
        /\ \A f \in SlotUids \ Place!Present' : image'[f] = {}
    <3>1. q.urls \subseteq Objects
      BY <2>1 DEF Fits, Place!Request
    <3>2. /\ image \in [SlotUids -> SUBSET Objects]
          /\ \A f \in SlotUids \ Place!Present : image[f] = {}
      BY DEF PlaceTypes, Place!TypeOK
    <3>3. image' = [image EXCEPT ![q.uid] = (@ \ q.gone) \cup q.urls]
      BY <1>10 DEF Place!Commit
    <3> QED
      BY <2>1, <2>5, <3>1, <3>2, <3>3
  <2>7. /\ fieldRequest' = [fieldRequest EXCEPT ![r] = Place!Idle]
        /\ fieldRequest' \in [Requests -> Place!Request \cup {Place!Idle}]
        /\ UNCHANGED <<stored, instant, twice, fieldFailures>>
    BY <1>1, <1>10 DEF Place!Commit
  <2>8. meanwhile' \in [Requests -> SUBSET SlotUids]
    BY <1>1, <1>10, <2>1 DEF Place!Commit
  <2>9. /\ astray' \subseteq Place!Present' /\ moved' \subseteq Place!Present'
        /\ batch' \in [SlotUids -> SUBSET Objects]
    <3>1. astray' \subseteq Place!Present' /\ moved' \subseteq Place!Present'
      BY <1>10, <2>5 DEF Place!Commit, PlaceTypes, Place!TypeOK
    <3>2. q.urls \subseteq Objects
      BY <2>1 DEF Fits, Place!Request
    <3>3. batch \in [SlotUids -> SUBSET Objects]
      BY DEF PlaceTypes, Place!TypeOK
    <3> QED
      BY <1>10, <2>1, <3>1, <3>2, <3>3 DEF Place!Commit
  <2>10. excused' \subseteq {{f, g} : f, g \in SlotUids}
    <3>1. Place!Unseen(r) \subseteq SlotUids
      BY <1>1 DEF Place!Unseen, Place!Present
    <3>2. excused' = excused \cup {{q.uid, g} : g \in Place!Unseen(r) \ {q.uid}}
      BY <1>10 DEF Place!Commit
    <3>3. {{q.uid, g} : g \in Place!Unseen(r) \ {q.uid}} \subseteq {{f, g} : f, g \in SlotUids}
      BY <2>1, <3>1
    <3> QED
      BY <3>2, <3>3 DEF PlaceTypes, Place!TypeOK
  <2>11. Place!TypeOK'
    <3>1. /\ stored' \subseteq Objects /\ instant' \subseteq Objects /\ twice' \subseteq Objects
          /\ fieldFailures' \in 0 .. FieldFailures
      BY <1>1, <2>7
    <3>2. /\ field' \in [SlotUids -> Place!FieldRow \cup {NoRow}]
          /\ image' \in [SlotUids -> SUBSET Objects]
          /\ fieldRequest' \in [Requests -> Place!Request \cup {Place!Idle}]
          /\ meanwhile' \in [Requests -> SUBSET SlotUids]
      BY <2>5, <2>6, <2>7, <2>8
    <3> HIDE DEF q
    <3> QED
      BY <2>6, <2>9, <2>10, <3>1, <3>2 DEF Place!TypeOK
  <2>12. RequestsFit'
    BY <1>1, <2>5, <2>7 DEF RequestsFit, Place!InFlight, Fits
  <2> QED
    BY <2>11, <2>12 DEF PlaceTypes
<1>11. CASE UNCHANGED Place!vars
  BY <1>11 DEF Place!vars, PlaceTypes, Place!TypeOK, RequestsFit, Place!InFlight, Place!Present
<1> QED
  BY <1>2, <1>3, <1>4, <1>5, <1>6, <1>7, <1>8, <1>9, <1>10, <1>11 DEF Place!Next, Place!Work

\* No field is there at first.
LEMMA PlaceTypesInit ==
  ASSUME PlaceAssumption, Place!Init
  PROVE  PlaceTypes
<1> USE DEF PlaceAssumption, Place!FieldsAssumption, Place!Init
<1>1. Place!Present = {}
  BY DEF Place!Present
<1>2. Place!TypeOK
  BY <1>1 DEF Place!TypeOK
<1>3. RequestsFit
  BY DEF RequestsFit, Place!InFlight
<1> QED
  BY <1>2, <1>3 DEF PlaceTypes

-----------------------------------------------------------------------------
(* Images.                                                                 *)

\* Images are stored, those of one request, and shared under shared keys only.
ImagesApart ==
  \A f \in SlotUids :
    /\ image[f] \subseteq stored
    /\ image[f] = batch[f]
    /\ \A g \in SlotUids \ {f} : image[f] \cap image[g] \subseteq twice

\* What a transaction uploads belongs to nobody else but under such a key.
UploadsApart ==
  \A r \in Requests : Place!At(r, "upload") =>
    /\ fieldRequest[r].sent \subseteq stored
    /\ \A f \in SlotUids : fieldRequest[r].urls \cap image[f] \subseteq twice
    /\ \A p \in Requests \ {r} :
         Place!At(p, "upload") => fieldRequest[r].urls \cap fieldRequest[p].urls \subseteq twice

\* A transaction has its field alone, and deletes all images the field has.
FieldsAreLocked ==
  \A r \in Requests : Place!At(r, "upload") =>
    /\ fieldRequest[r].new => fieldRequest[r].uid \notin Place!Present
    /\ ~fieldRequest[r].new =>
         fieldRequest[r].gone = IF fieldRequest[r].files > 0 THEN image[fieldRequest[r].uid] ELSE {}
    /\ \A p \in Requests \ {r} :
         Place!At(p, "upload") => fieldRequest[r].uid # fieldRequest[p].uid

ImageInv == ImagesApart /\ UploadsApart /\ FieldsAreLocked

\* A step that takes nothing from the storage and ends in no transaction.
LEMMA ImagesStay ==
  ASSUME ImageInv, NEW r \in Requests,
         \A p \in Requests \ {r} : fieldRequest'[p] = fieldRequest[p],
         fieldRequest'[r] = fieldRequest[r] \/ fieldRequest'[r].pc # "upload",
         stored \subseteq stored', UNCHANGED <<field, image, batch, twice>>
  PROVE  ImageInv'
<1>1. Place!Present' = Place!Present
  BY DEF Place!Present
<1>2. ImagesApart'
  BY DEF ImageInv, ImagesApart
<1>3. UploadsApart'
  BY DEF ImageInv, UploadsApart, Place!At
<1>4. FieldsAreLocked'
  BY <1>1 DEF ImageInv, FieldsAreLocked, Place!At
<1> QED
  BY <1>2, <1>3, <1>4 DEF ImageInv

\* A transaction that begins: its field is no other's, and its keys are new or
\* known to be shared.
LEMMA ImagesBegin ==
  ASSUME ImageInv, fieldRequest \in [Requests -> Place!Request \cup {Place!Idle}],
         instant \subseteq Objects, twice \subseteq Objects,
         NEW r \in Requests, NEW b \in Place!Request, Place!NameKeys(r, b), b.sent = {},
         b.new => b.uid \notin Place!Present,
         ~b.new => b.gone = IF b.files > 0 THEN image[b.uid] ELSE {},
         \A p \in Requests : Place!At(p, "upload") => fieldRequest[p].uid # b.uid,
         UNCHANGED <<field, image, stored, batch>>
  PROVE  ImageInv'
<1>1. PICK keys \in SUBSET Objects :
        /\ keys \cap Place!InUse \subseteq twice'
        /\ fieldRequest' = [fieldRequest EXCEPT ![r] = [b EXCEPT !.pc = "upload", !.urls = keys]]
  BY Named
<1>2. twice \subseteq twice'
  BY Named
<1>3. /\ fieldRequest'[r].uid = b.uid /\ fieldRequest'[r].new = b.new
      /\ fieldRequest'[r].files = b.files /\ fieldRequest'[r].gone = b.gone
      /\ fieldRequest'[r].urls = keys /\ fieldRequest'[r].sent = {}
      /\ \A p \in Requests \ {r} : fieldRequest'[p] = fieldRequest[p]
  BY <1>1 DEF Place!Request
<1>4. Place!Present' = Place!Present
  BY DEF Place!Present
<1>5. ASSUME NEW p \in Requests, p # r, Place!At(p, "upload")'
      PROVE  /\ Place!At(p, "upload") /\ fieldRequest'[p] = fieldRequest[p]
             /\ fieldRequest[p].urls \subseteq Place!InUse
  BY <1>3, <1>5 DEF Place!At, Place!InUse, Place!InFlight, Place!Idle
<1>6. \A f \in SlotUids : image[f] \subseteq Place!InUse
  BY DEF ImageInv, ImagesApart, Place!InUse
<1>7. ImagesApart'
  BY <1>2 DEF ImageInv, ImagesApart
<1>8. UploadsApart'
  <2> SUFFICES ASSUME NEW q \in Requests, Place!At(q, "upload")'
               PROVE  /\ fieldRequest'[q].sent \subseteq stored'
                      /\ \A f \in SlotUids : fieldRequest'[q].urls \cap image'[f] \subseteq twice'
                      /\ \A p \in Requests \ {q} : Place!At(p, "upload")' =>
                           fieldRequest'[q].urls \cap fieldRequest'[p].urls \subseteq twice'
    BY DEF UploadsApart
  <2>1. CASE q = r
    BY <1>1, <1>3, <1>5, <1>6, <2>1
  <2>2. CASE q # r
    <3>1. /\ fieldRequest[q].sent \subseteq stored
          /\ \A f \in SlotUids : fieldRequest[q].urls \cap image[f] \subseteq twice
      BY <1>5, <2>2 DEF ImageInv, UploadsApart
    <3>2. ASSUME NEW p \in Requests \ {q}, Place!At(p, "upload")'
          PROVE  fieldRequest'[q].urls \cap fieldRequest'[p].urls \subseteq twice'
      <4>1. CASE p = r
        BY <1>1, <1>3, <1>5, <2>2, <4>1
      <4>2. CASE p # r
        BY <1>2, <1>5, <2>2, <3>2, <4>2 DEF ImageInv, UploadsApart
      <4> QED
        BY <4>1, <4>2
    <3> QED
      BY <1>2, <1>5, <2>2, <3>1, <3>2
  <2> QED
    BY <2>1, <2>2
<1>9. FieldsAreLocked'
  BY <1>3, <1>4, <1>5 DEF ImageInv, FieldsAreLocked
<1> QED
  BY <1>7, <1>8, <1>9 DEF ImageInv

\* The verification changes nothing but the step, and the sports of an update.
LEMMA VerifiedBegins ==
  ASSUME NEW q \in Place!Request
  PROVE  LET v == Place!Verified(q) IN
         /\ v.pc = "begin" /\ v.new = q.new /\ v.uid = q.uid /\ v.type = q.type
         /\ v.address = q.address /\ v.at = q.at /\ v.mapped = q.mapped
         /\ q.new => v.sports = q.sports
BY DEF Place!Verified, Place!Request

\* Every step keeps images and uploads apart.
LEMMA ImageStep ==
  ASSUME PlaceAssumption, PlaceTypes, PlaceTypes', ImageInv, [Place!Next]_Place!vars
  PROVE  ImageInv'
<1> USE DEF Place!Become, Place!Goto, Place!hist, Place!names, Place!data
<1>1. /\ fieldRequest \in [Requests -> Place!Request \cup {Place!Idle}]
      /\ field \in [SlotUids -> Place!FieldRow \cup {NoRow}]
      /\ image \in [SlotUids -> SUBSET Objects]
      /\ \A f \in SlotUids \ Place!Present : image[f] = {}
      /\ \A r \in Requests : Place!InFlight(r) => Fits(fieldRequest[r], Place!Present)
      /\ instant \subseteq Objects /\ twice \subseteq Objects
  BY DEF PlaceTypes, Place!TypeOK, RequestsFit
<1>2. ASSUME NEW r \in Requests, NEW kind \in {"PUBLIC", "PRIVATE"}, NEW address \in Addresses,
             NEW given \in Given \cup {NoRow}, NEW sports \in SportSets, NEW files \in 0 .. MaxImages,
             Place!CreateArrives(r, kind, address, given, sports, files)
      PROVE  ImageInv'
  <2>1. /\ \A p \in Requests \ {r} : fieldRequest'[p] = fieldRequest[p]
        /\ fieldRequest'[r].pc # "upload"
    BY <1>1, <1>2 DEF Place!CreateArrives
  <2> QED
    BY <1>2, <2>1, ImagesStay DEF Place!CreateArrives
<1>3. ASSUME NEW r \in Requests, NEW f \in SlotUids, NEW address \in Addresses \cup {NoRow},
             NEW given \in Given \cup {NoRow}, NEW files \in 0 .. MaxImages,
             Place!UpdateArrives(r, f, address, given, files)
      PROVE  ImageInv'
  <2>1. /\ \A p \in Requests \ {r} : fieldRequest'[p] = fieldRequest[p]
        /\ fieldRequest'[r].pc # "upload"
    BY <1>1, <1>3 DEF Place!UpdateArrives
  <2> QED
    BY <1>3, <2>1, ImagesStay DEF Place!UpdateArrives
<1>4. ASSUME NEW r \in Requests, Place!FindField(r) PROVE ImageInv'
  <2>1. fieldRequest[r] \in Place!Request
    BY <1>1, <1>4 DEF Place!FindField, Place!At, Place!Idle
  <2>2. /\ \A p \in Requests \ {r} : fieldRequest'[p] = fieldRequest[p]
        /\ fieldRequest'[r].pc # "upload"
    <3> DEFINE q == fieldRequest[r]
    <3> DEFINE n == IF q.address = NoRow
                    THEN [q EXCEPT !.pc = "begin", !.at = Place!NewSpot(q)]
                    ELSE [q EXCEPT !.pc = "verify", !.at = Place!NewSpot(q),
                                   !.sports = field[q.uid].sports]
    <3>1. fieldRequest' = [fieldRequest EXCEPT ![r] = n]
      BY <1>4 DEF Place!FindField
    <3>2. n.pc # "upload"
      BY <2>1 DEF Place!Request
    <3> HIDE DEF n
    <3> QED
      BY <1>1, <3>1, <3>2
  <2> QED
    BY <1>4, <2>2, ImagesStay DEF Place!FindField
<1>5. ASSUME NEW r \in Requests, Place!VerifyFieldLocation(r) PROVE ImageInv'
  <2>1. fieldRequest[r] \in Place!Request
    BY <1>1, <1>5 DEF Place!VerifyFieldLocation, Place!At, Place!Idle
  <2>2. /\ \A p \in Requests \ {r} : fieldRequest'[p] = fieldRequest[p]
        /\ fieldRequest'[r].pc # "upload"
    <3>1. PICK n \in {Place!Idle, Place!Verified(fieldRequest[r])} :
            fieldRequest' = [fieldRequest EXCEPT ![r] = n]
      BY <1>5 DEF Place!VerifyFieldLocation
    <3>2. n.pc # "upload"
      BY <2>1, VerifiedBegins DEF Place!Idle
    <3> QED
      BY <1>1, <3>1, <3>2
  <2> QED
    BY <1>5, <2>2, ImagesStay DEF Place!VerifyFieldLocation
<1>6. ASSUME NEW r \in Requests, Place!AwaitFails(r) PROVE ImageInv'
  <2>1. /\ \A p \in Requests \ {r} : fieldRequest'[p] = fieldRequest[p]
        /\ fieldRequest'[r].pc # "upload"
    BY <1>1, <1>6 DEF Place!AwaitFails, Place!Idle
  <2> QED
    BY <1>6, <2>1, ImagesStay DEF Place!AwaitFails
<1>7. ASSUME NEW r \in Requests, Place!BeginCreate(r) PROVE ImageInv'
  <2> DEFINE q == fieldRequest[r]
  <2>1. Fits(q, Place!Present) /\ q \in Place!Request /\ q.pc = "begin" /\ q.new
    BY <1>1, <1>7 DEF Place!BeginCreate, Place!At, Place!InFlight, Place!Idle, Fits
  <2>2. PICK f \in SlotUids \ Place!Taken : Place!NameKeys(r, [q EXCEPT !.uid = f])
    BY <1>7 DEF Place!BeginCreate
  <2> DEFINE b == [q EXCEPT !.uid = f]
  <2>3. b \in [DOMAIN q -> {b[x] : x \in DOMAIN q}] /\ b.uid = f /\ b.new /\ b.sent = {}
    <3> HIDE DEF q
    <3> QED
      BY <2>1 DEF Fits, Place!Request
  <2>4. /\ f \notin Place!Present
        /\ \A p \in Requests : Place!At(p, "upload") => fieldRequest[p].uid # f
    BY <1>1, <2>2 DEF Place!Taken, Place!InFlight, Place!At, Place!Idle
  <2>5. UNCHANGED <<field, image, stored, batch>>
    BY <1>7 DEF Place!BeginCreate
  <2>6. b \in Place!Request
    <3> HIDE DEF q
    <3> QED
      BY <2>1 DEF Place!Request
  <2>7. Place!NameKeys(r, b)
    BY <2>2
  <2> HIDE DEF b, q
  <2> QED
    BY <1>1, <2>3, <2>4, <2>5, <2>6, <2>7, ImagesBegin
<1>8. ASSUME NEW r \in Requests, Place!BeginUpdate(r) PROVE ImageInv'
  <2> DEFINE q == fieldRequest[r]
  <2> DEFINE b == Place!Replacing(q)
  <2>1. Fits(q, Place!Present) /\ q \in Place!Request /\ q.pc = "begin" /\ ~q.new
    BY <1>1, <1>8 DEF Place!BeginUpdate, Place!At, Place!InFlight, Place!Idle, Fits
  <2>2. image[q.uid] \subseteq Objects /\ q.uid \in SlotUids
    BY <1>1, <2>1 DEF Fits, Place!Present
  <2>3. /\ b \in Place!Request /\ b.uid = q.uid /\ ~b.new /\ b.sent = {}
        /\ b.gone = IF b.files > 0 THEN image[b.uid] ELSE {}
    <3> HIDE DEF q
    <3> QED
      BY <2>1, <2>2 DEF Fits, Place!Request, Place!Replacing
  <2>4. \A p \in Requests : Place!At(p, "upload") => fieldRequest[p].uid # q.uid
    <3> SUFFICES ASSUME NEW p \in Requests, Place!At(p, "upload")
                 PROVE  fieldRequest[p].uid # q.uid
      OBVIOUS
    <3>1. CASE fieldRequest[p].new
      BY <2>1, <3>1 DEF ImageInv, FieldsAreLocked, Fits
    <3>2. CASE ~fieldRequest[p].new
      BY <1>8, <3>2 DEF Place!BeginUpdate, Place!Updating
    <3> QED
      BY <3>1, <3>2
  <2>5. UNCHANGED <<field, image, stored, batch>> /\ Place!NameKeys(r, b)
    BY <1>8 DEF Place!BeginUpdate
  <2> HIDE DEF b, q
  <2> QED
    BY <1>1, <2>3, <2>4, <2>5, ImagesBegin
<1>9. ASSUME NEW r \in Requests, Place!Upload(r) PROVE ImageInv'
  <2>1. Fits(fieldRequest[r], Place!Present) /\ Place!At(r, "upload")
    BY <1>1, <1>9 DEF Place!Upload, Place!At, Place!InFlight, Place!Idle
  <2>2. PICK o \in fieldRequest[r].urls :
          /\ fieldRequest' = [fieldRequest EXCEPT ![r].sent = @ \cup {o}]
          /\ stored' = stored \cup {o}
    BY <1>9 DEF Place!Upload
  <2>3. /\ fieldRequest'[r].uid = fieldRequest[r].uid /\ fieldRequest'[r].new = fieldRequest[r].new
        /\ fieldRequest'[r].urls = fieldRequest[r].urls
        /\ fieldRequest'[r].sent = fieldRequest[r].sent \cup {o}
        /\ fieldRequest'[r].pc = "upload" /\ fieldRequest'[r].files = fieldRequest[r].files
        /\ fieldRequest'[r].gone = fieldRequest[r].gone
        /\ \A p \in Requests \ {r} : fieldRequest'[p] = fieldRequest[p]
    BY <1>1, <2>1, <2>2 DEF Fits, Place!Request, Place!At
  <2>4. UNCHANGED <<field, image, batch, twice>> /\ Place!Present' = Place!Present
    BY <1>9 DEF Place!Upload, Place!Present
  <2>5. ImagesApart'
    BY <2>2, <2>4 DEF ImageInv, ImagesApart
  <2>6. \A p \in Requests : /\ Place!At(p, "upload")' <=> Place!At(p, "upload")
                           /\ fieldRequest'[p].urls = fieldRequest[p].urls
    BY <2>1, <2>3 DEF Place!At
  <2>7. UploadsApart'
    BY <2>2, <2>3, <2>4, <2>6 DEF ImageInv, UploadsApart
  <2>8. FieldsAreLocked'
    BY <2>1, <2>3, <2>4 DEF ImageInv, FieldsAreLocked, Place!At
  <2> QED
    BY <2>5, <2>7, <2>8 DEF ImageInv
<1>10. ASSUME NEW r \in Requests, Place!Commit(r) PROVE ImageInv'
  <2> DEFINE q == fieldRequest[r]
  <2>1. Fits(q, Place!Present) /\ Place!At(r, "upload") /\ q.uid \in SlotUids /\ q.files \in Nat
    BY <1>1, <1>10 DEF Place!Commit, Place!At, Place!InFlight, Place!Idle, Fits, Place!Request
  <2>2. /\ q.urls \subseteq stored
        /\ q.urls = {} <=> q.files = 0
        /\ \A f \in SlotUids : q.urls \cap image[f] \subseteq twice
    BY <1>10, <2>1 DEF ImageInv, UploadsApart, Place!Commit, Place!At, Fits
  <2>3. /\ image' = [image EXCEPT ![q.uid] = (@ \ q.gone) \cup q.urls]
        /\ batch' = IF q.new \/ q.files > 0 THEN [batch EXCEPT ![q.uid] = q.urls] ELSE batch
        /\ UNCHANGED <<stored, twice>>
        /\ fieldRequest'[r] = Place!Idle
        /\ \A p \in Requests \ {r} : fieldRequest'[p] = fieldRequest[p]
        /\ batch \in [SlotUids -> SUBSET Objects]
    BY <1>1, <1>10 DEF Place!Commit, PlaceTypes, Place!TypeOK
  <2>4. \/ image'[q.uid] = q.urls /\ batch'[q.uid] = q.urls
        \/ image'[q.uid] = image[q.uid] /\ batch'[q.uid] = batch[q.uid]
    <3>1. CASE q.new
      <4>1. image[q.uid] = {}
        BY <1>1, <2>1, <3>1 DEF ImageInv, FieldsAreLocked
      <4> HIDE DEF q
      <4> QED
        BY <1>1, <2>1, <2>3, <3>1, <4>1
    <3>2. CASE ~q.new /\ q.files = 0
      <4>1. q.gone = {} /\ q.urls = {}
        BY <2>1, <2>2, <3>2 DEF ImageInv, FieldsAreLocked
      <4> HIDE DEF q
      <4> QED
        BY <1>1, <2>1, <2>3, <3>2, <4>1
    <3>3. CASE ~q.new /\ q.files > 0
      <4>1. q.gone = image[q.uid]
        BY <2>1, <3>3 DEF ImageInv, FieldsAreLocked
      <4> HIDE DEF q
      <4> QED
        BY <1>1, <2>1, <2>3, <3>3, <4>1
    <3> QED
      BY <2>1, <3>1, <3>2, <3>3
  <2>5. \A f \in SlotUids \ {q.uid} : image'[f] = image[f] /\ batch'[f] = batch[f]
    <3> HIDE DEF q
    <3> QED
      BY <1>1, <2>1, <2>3
  <2>6. ImagesApart'
    <3> HIDE DEF q
    <3>1. \A f \in SlotUids : \/ f = q.uid /\ image'[f] = q.urls /\ batch'[f] = q.urls
                              \/ image'[f] = image[f] /\ batch'[f] = batch[f]
      BY <2>4, <2>5
    <3> QED
      BY <2>2, <2>3, <3>1 DEF ImageInv, ImagesApart
  <2>7. Place!Present' \subseteq Place!Present \cup {q.uid}
    BY <1>1, <1>10, <2>1 DEF Place!Commit, Place!Present
  <2>8. \A p \in Requests \ {r} : Place!At(p, "upload") =>
          fieldRequest[p].uid # q.uid /\ q.urls \cap fieldRequest[p].urls \subseteq twice
    BY <2>1 DEF ImageInv, FieldsAreLocked, UploadsApart
  <2>9. \A p \in Requests \ {r} : Place!At(p, "upload") => fieldRequest[p].uid \in SlotUids
    BY <1>1 DEF Fits, Place!InFlight, Place!At, Place!Idle
  <2>10. ~Place!At(r, "upload")'
    BY <2>3 DEF Place!At, Place!Idle
  <2>11. UploadsApart'
    <3> HIDE DEF q
    <3>1. ASSUME NEW p \in Requests, Place!At(p, "upload")'
          PROVE  p # r /\ Place!At(p, "upload") /\ fieldRequest'[p] = fieldRequest[p]
      BY <2>3, <2>10, <3>1 DEF Place!At
    <3> QED
      BY <2>1, <2>3, <2>4, <2>5, <2>8, <3>1 DEF ImageInv, UploadsApart
  <2>12. FieldsAreLocked'
    <3> HIDE DEF q
    <3>1. ASSUME NEW p \in Requests, Place!At(p, "upload")'
          PROVE  p # r /\ Place!At(p, "upload") /\ fieldRequest'[p] = fieldRequest[p]
      BY <2>3, <2>10, <3>1 DEF Place!At
    <3> QED
      BY <2>5, <2>7, <2>8, <2>9, <3>1 DEF ImageInv, FieldsAreLocked
  <2> QED
    BY <2>6, <2>11, <2>12 DEF ImageInv
<1>11. CASE UNCHANGED Place!vars
  BY <1>11 DEF Place!vars, ImageInv, ImagesApart, UploadsApart, FieldsAreLocked, Place!At, Place!Present
<1> QED
  BY <1>2, <1>3, <1>4, <1>5, <1>6, <1>7, <1>8, <1>9, <1>10, <1>11 DEF Place!Next, Place!Work

\* There is no image at first.
LEMMA ImagesInit ==
  ASSUME PlaceAssumption, Place!Init
  PROVE  ImageInv
<1>1. \A r \in Requests : ~Place!At(r, "upload")
  BY DEF Place!Init, Place!At, Place!Idle
<1>2. \A f \in SlotUids : image[f] = {} /\ batch[f] = {}
  BY DEF Place!Init
<1>3. ImagesApart
  BY <1>2 DEF ImagesApart
<1> QED
  BY <1>1, <1>3 DEF ImageInv, UploadsApart, FieldsAreLocked

\* Every image of a field is in the storage, and the images of a field are those
\* of one request, the last that brought files: the row of the field, which an
\* update writes first, makes a second update wait before it reads which images
\* it will delete; two fields share an image only if its key was given to two
\* files (createPrivateField, updatePublicField, upload).
THEOREM ImagesAreKept == Place!Spec => []ImagesAreStored
<1> PlaceAssumption
  BY PartsAssumption DEF PlaceAssumption
<1>1. Place!Init => PlaceTypes /\ ImageInv
  BY ImagesInit, PlaceTypesInit
<1>2. PlaceTypes /\ ImageInv /\ [Place!Next]_Place!vars => (PlaceTypes /\ ImageInv)'
  BY PlaceTypesStep, ImageStep
<1>3. ASSUME ImageInv PROVE ImagesAreStored
  BY <1>3 DEF ImageInv, ImagesApart, ImagesAreStored, Place!ImagesAreStored, Place!Present
<1> QED
  BY <1>1, <1>2, <1>3, PTL DEF Place!Spec

-----------------------------------------------------------------------------
(* Places.                                                                 *)

\* A public field at this place for one of these sports.
Near(row, address, at, sports) ==
  /\ row.type = "PUBLIC" /\ row.address = address /\ row.at = at
  /\ row.sports \cap sports # {}

\* What a request knows, m being the fields that were written since it came:
\* what it has read of its field, that it writes the spot of its address, and
\* that the place it has verified was free but for those.
Knows(q, m) ==
  /\ q.pc = "find" /\ q.mapped => q.at = NoRow
  /\ q.pc = "verify" /\ ~q.new => q.sports = field[q.uid].sports
  /\ q.pc # "find" /\ q.mapped =>
       IF q.address = NoRow THEN q.uid \notin m => q.at = field[q.uid].at
       ELSE q.at = IF q.new THEN Details[q.address] ELSE Geo[q.address]
  /\ /\ q.pc \in {"begin", "upload"}
     /\ IF q.new THEN q.type = "PUBLIC" ELSE q.mapped /\ q.address # NoRow
     => \A g \in Place!Present \ (m \cup {q.uid}) :
          ~Near(field[g], q.address, q.at, IF q.new THEN q.sports ELSE field[q.uid].sports)

\* Every request in flight knows that.
AllKnow == \A r \in Requests : Place!InFlight(r) => Knows(fieldRequest[r], meanwhile[r])

\* Two public fields at one place for one sport have an excuse.
NearIsExcused ==
  \A f, g \in Place!Present :
    f # g /\ field[f].type = "PUBLIC" /\ Near(field[g], field[f].address, field[f].at, field[f].sports)
      => {f, g} \in excused

PlaceInv == AllKnow /\ NearIsExcused /\ Place!SpotIsOfAddress

\* A step that writes no field and turns a request into one that knows.
LEMMA PlacesStay ==
  ASSUME PlaceTypes, PlaceInv, NEW r \in Requests, NEW q,
         fieldRequest' = [fieldRequest EXCEPT ![r] = q],
         q = Place!Idle \/ Knows(q, meanwhile'[r]),
         \A p \in Requests \ {r} : meanwhile'[p] = meanwhile[p],
         UNCHANGED <<field, astray, excused, moved>>
  PROVE  PlaceInv'
<1>1. Place!Present' = Place!Present
  BY DEF Place!Present
<1>3. \A n, m : Knows(n, m)' <=> Knows(n, m)
  BY <1>1 DEF Knows, Near
<1>4. AllKnow'
  <2> SUFFICES ASSUME NEW p \in Requests, Place!InFlight(p)'
               PROVE  Knows(fieldRequest'[p], meanwhile'[p])
    BY <1>3 DEF AllKnow
  <2>1. CASE p = r
    BY <2>1 DEF Place!InFlight, PlaceTypes, Place!TypeOK
  <2>2. CASE p # r
    BY <2>2 DEF Place!InFlight, PlaceTypes, Place!TypeOK, PlaceInv, AllKnow
  <2> QED
    BY <2>1, <2>2
<1>5. NearIsExcused' /\ Place!SpotIsOfAddress'
  BY <1>1 DEF PlaceInv, NearIsExcused, Near, Place!SpotIsOfAddress
<1> QED
  BY <1>4, <1>5 DEF PlaceInv

\* Every step keeps what requests know and what excuses there are.
LEMMA PlaceStep ==
  ASSUME PlaceAssumption, PlaceTypes, PlaceInv, ImageInv, [Place!Next]_Place!vars
  PROVE  PlaceInv'
<1> USE DEF Place!Become, Place!Goto, Place!hist, Place!names, Place!data
<1>1. /\ fieldRequest \in [Requests -> Place!Request \cup {Place!Idle}]
      /\ field \in [SlotUids -> Place!FieldRow \cup {NoRow}]
      /\ meanwhile \in [Requests -> SUBSET SlotUids]
      /\ \A r \in Requests : Place!InFlight(r) =>
           Fits(fieldRequest[r], Place!Present) /\ Knows(fieldRequest[r], meanwhile[r])
      /\ NoRow \notin SlotUids /\ NoRow \notin Addresses /\ NoRow \notin Spots
      /\ moved \subseteq Place!Present /\ instant \subseteq Objects /\ twice \subseteq Objects
  BY DEF PlaceTypes, Place!TypeOK, RequestsFit, PlaceAssumption, Place!FieldsAssumption, PlaceInv, AllKnow
<1>2. ASSUME NEW r \in Requests, NEW kind \in {"PUBLIC", "PRIVATE"}, NEW address \in Addresses,
             NEW given \in Given \cup {NoRow}, NEW sports \in SportSets, NEW files \in 0 .. MaxImages,
             Place!CreateArrives(r, kind, address, given, sports, files)
      PROVE  PlaceInv'
  <2> DEFINE q == [pc |-> IF kind = "PUBLIC" THEN "verify" ELSE "begin", new |-> TRUE, uid |-> NoRow,
                   type |-> kind, address |-> address,
                   at |-> IF given = NoRow THEN Details[address] ELSE given, mapped |-> given = NoRow,
                   sports |-> sports, files |-> files, gone |-> {}, urls |-> {}, sent |-> {}]
  <2>1. Knows(q, meanwhile'[r])
    BY <1>1 DEF Knows
  <2>2. /\ fieldRequest' = [fieldRequest EXCEPT ![r] = q]
        /\ \A p \in Requests \ {r} : meanwhile'[p] = meanwhile[p]
        /\ UNCHANGED <<field, astray, excused, moved>>
    BY <1>1, <1>2 DEF Place!CreateArrives
  <2> HIDE DEF q
  <2> QED
    BY <2>1, <2>2, PlacesStay
<1>3. ASSUME NEW r \in Requests, NEW f \in SlotUids, NEW address \in Addresses \cup {NoRow},
             NEW given \in Given \cup {NoRow}, NEW files \in 0 .. MaxImages,
             Place!UpdateArrives(r, f, address, given, files)
      PROVE  PlaceInv'
  <2> DEFINE q == [pc |-> "find", new |-> FALSE, uid |-> f, type |-> field[f].type,
                   address |-> address, at |-> given, mapped |-> given = NoRow,
                   sports |-> {}, files |-> files, gone |-> {}, urls |-> {}, sent |-> {}]
  <2>1. Knows(q, meanwhile'[r])
    BY DEF Knows
  <2>2. /\ fieldRequest' = [fieldRequest EXCEPT ![r] = q]
        /\ \A p \in Requests \ {r} : meanwhile'[p] = meanwhile[p]
        /\ UNCHANGED <<field, astray, excused, moved>>
    BY <1>1, <1>3 DEF Place!UpdateArrives
  <2> HIDE DEF q
  <2> QED
    BY <2>1, <2>2, PlacesStay
<1>4. ASSUME NEW r \in Requests, Place!FindField(r) PROVE PlaceInv'
  <2> DEFINE q == fieldRequest[r]
  <2> DEFINE n == IF q.address = NoRow
                  THEN [q EXCEPT !.pc = "begin", !.at = Place!NewSpot(q)]
                  ELSE [q EXCEPT !.pc = "verify", !.at = Place!NewSpot(q), !.sports = field[q.uid].sports]
  <2>1. /\ Fits(q, Place!Present) /\ Knows(q, meanwhile[r]) /\ q.pc = "find" /\ ~q.new
        /\ q \in Place!Request
    BY <1>1, <1>4 DEF Place!FindField, Place!At, Place!InFlight, Place!Idle, Fits
  <2>2. Knows(n, meanwhile[r])
    <3>1. q.mapped => Place!NewSpot(q) = IF q.address # NoRow THEN Geo[q.address] ELSE field[q.uid].at
      BY <2>1 DEF Knows, Place!NewSpot
    <3> HIDE DEF q
    <3>2. CASE q.address = NoRow
      <4>1. /\ n.pc = "begin" /\ n.new = q.new /\ n.address = NoRow /\ n.uid = q.uid
            /\ n.mapped = q.mapped /\ n.at = Place!NewSpot(q)
        BY <2>1, <3>2 DEF Place!Request
      <4> QED
        BY <2>1, <3>1, <3>2, <4>1 DEF Knows
    <3>3. CASE q.address # NoRow
      <4>1. /\ n.pc = "verify" /\ n.new = q.new /\ n.address = q.address /\ n.uid = q.uid
            /\ n.mapped = q.mapped /\ n.at = Place!NewSpot(q) /\ n.sports = field[q.uid].sports
        BY <2>1, <3>3 DEF Place!Request
      <4> QED
        BY <2>1, <3>1, <3>3, <4>1 DEF Knows
    <3> QED
      BY <3>2, <3>3
  <2>3. /\ fieldRequest' = [fieldRequest EXCEPT ![r] = n]
        /\ UNCHANGED <<field, astray, excused, moved, meanwhile>>
    BY <1>4 DEF Place!FindField
  <2> HIDE DEF n
  <2> QED
    BY <2>2, <2>3, PlacesStay
<1>5. ASSUME NEW r \in Requests, Place!VerifyFieldLocation(r) PROVE PlaceInv'
  <2> DEFINE q == fieldRequest[r]
  <2>1. /\ Fits(q, Place!Present) /\ Knows(q, meanwhile[r]) /\ q.pc = "verify"
        /\ q \in Place!Request
    BY <1>1, <1>5 DEF Place!VerifyFieldLocation, Place!At, Place!InFlight, Place!Idle, Fits
  <2>2. ASSUME Place!Twins(q.address, Place!SpotToVerify(q), q.sports) = {}
        PROVE  Knows(Place!Verified(q), meanwhile[r])
    <3> DEFINE v == Place!Verified(q)
    <3>1. \A g \in Place!Present : ~Near(field[g], q.address, Place!SpotToVerify(q), q.sports)
      BY <2>2 DEF Place!Twins, Place!Public, Near
    <3>2. /\ v.pc = "begin" /\ v.new = q.new /\ v.uid = q.uid /\ v.type = q.type
          /\ v.address = q.address /\ v.at = q.at /\ v.mapped = q.mapped
          /\ q.new => v.sports = q.sports
      BY <2>1, VerifiedBegins
    <3>3. q.new \/ q.mapped => Place!SpotToVerify(q) = q.at
      BY <1>1, <2>1 DEF Place!SpotToVerify, Knows, Fits
    <3>4. ~q.new => q.sports = field[q.uid].sports
      BY <2>1 DEF Knows
    <3>5. q.mapped => IF q.address = NoRow THEN q.uid \notin meanwhile[r] => q.at = field[q.uid].at
                      ELSE q.at = IF q.new THEN Details[q.address] ELSE Geo[q.address]
      BY <2>1 DEF Knows
    <3> HIDE DEF q, v
    <3> QED
      BY <3>1, <3>2, <3>3, <3>4, <3>5 DEF Knows, v
  <2>3. /\ \/ fieldRequest' = [fieldRequest EXCEPT ![r] = Place!Idle]
           \/ /\ fieldRequest' = [fieldRequest EXCEPT ![r] = Place!Verified(q)]
              /\ Place!Twins(q.address, Place!SpotToVerify(q), q.sports) = {}
        /\ UNCHANGED <<field, astray, excused, moved, meanwhile>>
    BY <1>5 DEF Place!VerifyFieldLocation
  <2> HIDE DEF q
  <2> QED
    BY <2>2, <2>3, PlacesStay
<1>6. ASSUME NEW r \in Requests, Place!BeginCreate(r) PROVE PlaceInv'
  <2> DEFINE q == fieldRequest[r]
  <2>1. /\ Fits(q, Place!Present) /\ Knows(q, meanwhile[r]) /\ q.pc = "begin" /\ q.new
        /\ q \in Place!Request /\ q.uid = NoRow
    BY <1>1, <1>6 DEF Place!BeginCreate, Place!At, Place!InFlight, Place!Idle, Fits
  <2>2. PICK f \in SlotUids : Place!NameKeys(r, [q EXCEPT !.uid = f])
    BY <1>6 DEF Place!BeginCreate
  <2>5. PICK keys : fieldRequest' =
          [fieldRequest EXCEPT ![r] = [[q EXCEPT !.uid = f] EXCEPT !.pc = "upload", !.urls = keys]]
    BY <1>1, <2>2, Named
  <2> DEFINE n == [[q EXCEPT !.uid = f] EXCEPT !.pc = "upload", !.urls = keys]
  <2>3. Knows(n, meanwhile[r])
    <3> HIDE DEF q
    <3>1. /\ n.pc = "upload" /\ n.new = q.new /\ n.address = q.address /\ n.at = q.at
          /\ n.mapped = q.mapped /\ n.sports = q.sports /\ n.type = q.type
      BY <2>1 DEF Place!Request
    <3>2. NoRow \notin Place!Present
      BY <1>1 DEF Place!Present
    <3>3. q.address # NoRow
      BY <1>1, <2>1 DEF Fits
    <3> HIDE DEF n
    <3> QED
      BY <2>1, <3>1, <3>2, <3>3 DEF Knows
  <2>4. /\ fieldRequest' = [fieldRequest EXCEPT ![r] = n]
        /\ UNCHANGED <<field, astray, excused, moved, meanwhile>>
    BY <1>6, <2>5 DEF Place!BeginCreate
  <2> HIDE DEF n
  <2> QED
    BY <2>3, <2>4, PlacesStay
<1>7. ASSUME NEW r \in Requests, Place!BeginUpdate(r) \/ Place!Upload(r) PROVE PlaceInv'
  <2> DEFINE q == fieldRequest[r]
  <2>1. /\ Fits(q, Place!Present) /\ Knows(q, meanwhile[r]) /\ q.pc \in {"begin", "upload"}
        /\ q \in Place!Request
    BY <1>1, <1>7 DEF Place!BeginUpdate, Place!Upload, Place!At, Place!InFlight, Place!Idle, Fits
  <2>2. PICK n : /\ fieldRequest' = [fieldRequest EXCEPT ![r] = n]
                 /\ n.pc = "upload" /\ n.new = q.new /\ n.address = q.address /\ n.at = q.at
                 /\ n.mapped = q.mapped /\ n.sports = q.sports /\ n.type = q.type /\ n.uid = q.uid
    <3>1. CASE Place!BeginUpdate(r)
      <4>1. PICK keys : fieldRequest' = [fieldRequest EXCEPT ![r] =
              [Place!Replacing(q) EXCEPT !.pc = "upload", !.urls = keys]]
        BY <1>1, <3>1, Named DEF Place!BeginUpdate
      <4> DEFINE n == [Place!Replacing(q) EXCEPT !.pc = "upload", !.urls = keys]
      <4>2. /\ n.pc = "upload" /\ n.new = q.new /\ n.address = q.address /\ n.at = q.at
            /\ n.mapped = q.mapped /\ n.sports = q.sports /\ n.type = q.type /\ n.uid = q.uid
        <5> HIDE DEF q
        <5> QED
          BY <2>1 DEF Place!Request, Place!Replacing
      <4> HIDE DEF n
      <4> QED
        BY <4>1, <4>2 DEF n
    <3>2. CASE Place!Upload(r)
      <4>1. PICK o : fieldRequest' = [fieldRequest EXCEPT ![r] = [q EXCEPT !.sent = @ \cup {o}]]
        BY <3>2 DEF Place!Upload
      <4> DEFINE n == [q EXCEPT !.sent = @ \cup {o}]
      <4>2. /\ n.pc = "upload" /\ n.new = q.new /\ n.address = q.address /\ n.at = q.at
            /\ n.mapped = q.mapped /\ n.sports = q.sports /\ n.type = q.type /\ n.uid = q.uid
        BY <2>1, <3>2 DEF Place!Request, Place!Upload, Place!At
      <4> HIDE DEF n
      <4> QED
        BY <4>1, <4>2 DEF n
    <3> QED
      BY <1>7, <3>1, <3>2
  <2>3. Knows(n, meanwhile[r])
    <3> HIDE DEF q
    <3> QED
      BY <2>1, <2>2 DEF Knows
  <2>4. UNCHANGED <<field, astray, excused, moved, meanwhile>>
    BY <1>7 DEF Place!BeginUpdate, Place!Upload
  <2> QED
    BY <2>2, <2>3, <2>4, PlacesStay
<1>8. ASSUME NEW r \in Requests, Place!AwaitFails(r) PROVE PlaceInv'
  BY <1>8, PlacesStay DEF Place!AwaitFails
<1>9. ASSUME NEW r \in Requests, Place!Commit(r) PROVE PlaceInv'
  <2> DEFINE q == fieldRequest[r]
  <2>1. /\ Fits(q, Place!Present) /\ Knows(q, meanwhile[r]) /\ q.pc = "upload" /\ q.uid \in SlotUids
        /\ q \in Place!Request /\ Place!At(r, "upload")
    BY <1>1, <1>9 DEF Place!Commit, Place!At, Place!InFlight, Place!Idle, Fits
  <2> DEFINE u == q.uid
  <2>2. q.new => u \notin Place!Present
    BY <2>1 DEF ImageInv, FieldsAreLocked
  <2>3. ~q.new => u \in Place!Present /\ field[u] \in Place!FieldRow
    BY <1>1, <2>1 DEF Fits, Place!Present
  <2>4. /\ field'[u].address = IF q.address = NoRow THEN field[u].address ELSE q.address
        /\ field'[u].at = q.at
        /\ field'[u].sports = IF q.new THEN q.sports ELSE field[u].sports
        /\ field'[u].type = IF q.new THEN q.type ELSE field[u].type
        /\ q.new => q.address # NoRow
        /\ \A f \in SlotUids \ {u} : field'[f] = field[f]
    <3>1. CASE q.new
      <4>1. q.address # NoRow
        BY <1>1, <2>1, <3>1 DEF Fits
      <4>2. field' = [field EXCEPT ![u] =
              [type |-> q.type, address |-> q.address, at |-> q.at, sports |-> q.sports]]
        BY <1>9, <3>1 DEF Place!Commit
      <4> HIDE DEF q
      <4> QED
        BY <1>1, <2>1, <3>1, <4>1, <4>2
    <3>2. CASE ~q.new
      <4>1. field' = [field EXCEPT ![u] = [field[u] EXCEPT
              !.address = IF q.address = NoRow THEN @ ELSE q.address, !.at = q.at]]
        BY <1>9, <3>2 DEF Place!Commit
      <4> HIDE DEF q
      <4> QED
        BY <1>1, <2>1, <2>3, <3>2, <4>1 DEF Place!FieldRow
    <3> QED
      BY <3>1, <3>2
  <2>5. Place!Present' \subseteq Place!Present \cup {u}
    BY <2>1, <2>4 DEF Place!Present
  <2>6. /\ fieldRequest'[r] = Place!Idle
        /\ \A p \in Requests \ {r} : fieldRequest'[p] = fieldRequest[p]
        /\ \A p \in Requests \ {r} : Place!InFlight(p) => meanwhile'[p] = meanwhile[p] \cup {u}
        /\ astray' = IF Place!Astray(r) THEN astray \cup {u} ELSE astray \ {u}
        /\ excused' = excused \cup {{u, g} : g \in Place!Unseen(r) \ {u}}
        /\ moved' = IF ~q.new /\ q.address # NoRow THEN moved \cup {u} ELSE moved
    BY <1>1, <1>9 DEF Place!Commit
  <2>7. \A f \in Place!Present : field'[f].sports = field[f].sports /\ field'[f].type = field[f].type
    BY <2>2, <2>4 DEF Place!Present
  <2>8. AllKnow'
    <3> SUFFICES ASSUME NEW p \in Requests, Place!InFlight(p)'
                 PROVE  Knows(fieldRequest[p], meanwhile[p])'
      BY DEF AllKnow
    <3> DEFINE n == fieldRequest[p]
    <3>1. /\ p # r /\ Place!InFlight(p) /\ fieldRequest'[p] = n
          /\ meanwhile'[p] = meanwhile[p] \cup {u}
      BY <2>6 DEF Place!InFlight
    <3>2. Fits(n, Place!Present) /\ Knows(n, meanwhile[p])
      BY <1>1, <3>1
    <3>3. ~n.new => /\ field'[n.uid].sports = field[n.uid].sports
                    /\ n.uid \in SlotUids
      BY <2>7, <3>2 DEF Fits, Place!Present
    <3>4. \A g \in Place!Present' \ (meanwhile[p] \cup {u} \cup {n.uid}) :
            /\ g \in Place!Present \ (meanwhile[p] \cup {n.uid})
            /\ field'[g] = field[g]
      BY <2>4, <2>5 DEF Place!Present
    <3>5. n.uid \in SlotUids /\ n.uid \notin meanwhile[p] \cup {u} => field'[n.uid] = field[n.uid]
      BY <2>4
    <3>6. n.pc # "find" /\ n.new => n.address # NoRow
      BY <1>1, <3>2 DEF Fits
    <3> DEFINE m == meanwhile[p] \cup {u}
    <3>7. /\ n.pc = "find" /\ n.mapped => n.at = NoRow
          /\ n.pc = "verify" /\ ~n.new => n.sports = field'[n.uid].sports
          /\ n.pc # "find" /\ n.mapped =>
               IF n.address = NoRow THEN n.uid \notin m => n.at = field'[n.uid].at
               ELSE n.at = IF n.new THEN Details[n.address] ELSE Geo[n.address]
      <4> HIDE DEF n, u
      <4> QED
        BY <3>2, <3>3, <3>5, <3>6 DEF Knows
    <3>8. /\ n.pc \in {"begin", "upload"}
          /\ IF n.new THEN n.type = "PUBLIC" ELSE n.mapped /\ n.address # NoRow
          => \A g \in Place!Present' \ (m \cup {n.uid}) :
               ~Near(field'[g], n.address, n.at, IF n.new THEN n.sports ELSE field'[n.uid].sports)
      <4> HIDE DEF n, u
      <4> QED
        BY <3>2, <3>3, <3>4 DEF Knows, Near
    <3> HIDE DEF n, u, m
    <3> QED
      BY <3>1, <3>7, <3>8 DEF Knows, m
  <2>9. ASSUME NEW g \in Place!Present, g # u, field'[u].type = "PUBLIC",
               Near(field'[g], field'[u].address, field'[u].at, field'[u].sports)
        PROVE  {u, g} \in excused'
    <3> SUFFICES g \in Place!Unseen(r)
      BY <2>6, <2>9
    <3>0. field'[g] = field[g]
      BY <2>4, <2>9 DEF Place!Present
    <3>1. CASE ~q.new /\ ~(q.mapped /\ q.address # NoRow)
      BY <3>1 DEF Place!Unseen
    <3>2. CASE q.new \/ (q.mapped /\ q.address # NoRow)
      <4>1. Place!Unseen(r) = meanwhile[r]
        BY <3>2 DEF Place!Unseen
      <4>2. g \notin meanwhile[r] =>
              ~Near(field[g], q.address, q.at, IF q.new THEN q.sports ELSE field[u].sports)
        BY <2>1, <2>4, <2>9, <3>2 DEF Knows
      <4> HIDE DEF q, u
      <4> QED
        BY <2>4, <2>9, <3>0, <3>2, <4>1, <4>2
    <3> QED
      BY <3>1, <3>2
  <2>10. NearIsExcused'
    <3> SUFFICES ASSUME NEW f \in Place!Present', NEW g \in Place!Present', f # g,
                        field'[f].type = "PUBLIC",
                        Near(field'[g], field'[f].address, field'[f].at, field'[f].sports)
                 PROVE  {f, g} \in excused'
      BY DEF NearIsExcused
    <3>1. CASE f # u /\ g # u
      BY <2>4, <2>5, <2>6, <3>1 DEF PlaceInv, NearIsExcused, Near, Place!Present
    <3>2. CASE f = u
      BY <2>4, <2>5, <2>9, <3>2 DEF Near, Place!Present
    <3>3. CASE g = u
      <4>1. field'[f] = field[f] /\ f \in Place!Present /\ f # u
        BY <2>4, <2>5, <3>3 DEF Place!Present
      <4>2. Near(field'[f], field'[u].address, field'[u].at, field'[u].sports) /\ field'[u].type = "PUBLIC"
        BY <3>3, <4>1 DEF Near
      <4>3. {u, f} \in excused'
        BY <2>9, <4>1, <4>2
      <4>4. {u, f} = {f, g}
        BY <3>3
      <4> QED
        BY <4>3, <4>4
    <3> QED
      BY <3>1, <3>2, <3>3
  <2>11. Place!SpotIsOfAddress'
    <3> SUFFICES ASSUME NEW f \in Place!Present', f \notin astray'
                 PROVE  field'[f].at = IF f \in moved' THEN Geo[field'[f].address]
                                       ELSE Details[field'[f].address]
      BY DEF Place!SpotIsOfAddress
    <3>1. CASE f # u
      BY <2>4, <2>5, <2>6, <3>1 DEF PlaceInv, Place!SpotIsOfAddress, Place!Present
    <3>2. CASE f = u
      <4>1. q.mapped /\ (q.address # NoRow \/ u \notin meanwhile[r] \cup astray)
        BY <2>6, <3>2 DEF Place!Astray
      <4>2. CASE q.address # NoRow
        <5>1. q.at = IF q.new THEN Details[q.address] ELSE Geo[q.address]
          BY <2>1, <4>1, <4>2 DEF Knows
        <5>2. u \in moved' <=> ~q.new
          BY <1>1, <2>2, <2>6, <4>2
        <5> QED
          BY <2>4, <3>2, <4>2, <5>1, <5>2
      <4>3. CASE q.address = NoRow
        <5>1. q.at = field[u].at /\ u \in Place!Present
          BY <2>1, <2>3, <2>4, <4>1, <4>3 DEF Knows
        <5> QED
          BY <2>4, <2>6, <3>2, <4>1, <4>3, <5>1 DEF PlaceInv, Place!SpotIsOfAddress
      <4> QED
        BY <4>2, <4>3
    <3> QED
      BY <3>1, <3>2
  <2> QED
    BY <2>8, <2>10, <2>11 DEF PlaceInv
<1>10. CASE UNCHANGED Place!vars
  BY <1>10 DEF Place!vars, PlaceInv, AllKnow, Knows, NearIsExcused, Near, Place!SpotIsOfAddress, Place!Present,
    Place!InFlight
<1> QED
  BY <1>2, <1>3, <1>4, <1>5, <1>6, <1>7, <1>8, <1>9, <1>10 DEF Place!Next, Place!Work

\* Two public fields are at one place for one sport only if one was written
\* while the other was in the making or was moved unchecked; a field is where a
\* create or an update asks the geolocalisation for its address, unless a client
\* said otherwise or an update wrote back what it had read; and so two fields of
\* one address that are no such pair are there because one was created and one
\* moved there (verifyFieldLocation, updatePublicField).
THEOREM PlacesAreChecked == Place!Spec => []PlacesAreVerified
<1> PlaceAssumption
  BY PartsAssumption DEF PlaceAssumption
<1>1. ASSUME Place!Init PROVE PlaceInv
  <2>1. Place!Present = {} /\ \A r \in Requests : ~Place!InFlight(r)
    BY <1>1 DEF Place!Init, Place!Present, Place!InFlight
  <2> QED
    BY <2>1 DEF PlaceInv, AllKnow, NearIsExcused, Place!SpotIsOfAddress
<1>2. Place!Init => PlaceTypes /\ ImageInv
  BY ImagesInit, PlaceTypesInit
<1>3. PlaceTypes /\ ImageInv /\ PlaceInv /\ [Place!Next]_Place!vars => (PlaceTypes /\ ImageInv /\ PlaceInv)'
  BY PlaceTypesStep, ImageStep, PlaceStep
<1>4. ASSUME PlaceInv PROVE PlacesAreVerified
  <2>1. Place!TwinsAreExcused /\ Place!SpotIsOfAddress
    BY <1>4 DEF PlaceInv, NearIsExcused, Near, Place!TwinsAreExcused, Place!Twins, Place!Public
  <2>2. ASSUME NEW f \in Place!Public \ astray, NEW g \in Place!Public \ (astray \cup {f}),
               field[f].address = field[g].address, field[f].sports \cap field[g].sports # {},
               (f \in moved) <=> (g \in moved)
        PROVE  {f, g} \in excused
    <3>1. field[g].at = field[f].at
      BY <2>1, <2>2 DEF Place!SpotIsOfAddress, Place!Public
    <3>2. field[g].sports \cap field[f].sports # {}
      BY <2>2
    <3>3. g \in Place!Twins(field[f].address, field[f].at, field[f].sports) \ {f}
      BY <2>2, <3>1, <3>2 DEF Place!Twins
    <3> QED
      BY <2>1, <2>2, <3>3 DEF Place!TwinsAreExcused
  <2> QED
    BY <2>1, <2>2 DEF PlacesAreVerified, Place!PlacesAreVerified, Place!AddressesAreExcused
<1> QED
  BY <1>1, <1>2, <1>3, <1>4, PTL DEF Place!Spec
=============================================================================
