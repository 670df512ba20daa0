---------------------------- MODULE SessionBooking ----------------------------
(***************************************************************************)
(* Booking a field: SessionsService.create, which makes a session on the   *)
(* slot of a private field, and FieldSlotsService.create, with which a     *)
(* partner offers a slot.                                                  *)
(*                                                                         *)
(* Both check first and insert later.  The session, its teams, its first   *)
(* player and its conversation are one transaction; the slot is marked as  *)
(* reserved after it, by an update of its own.                             *)
(***************************************************************************)
EXTENDS Naturals, FiniteSets

CONSTANTS
  Fields,       \* the fields
  Private,      \* those of type PRIVATE
  Offered,      \* the fields whose partner may offer slots
  SlotUids,     \* the uids Field_slots may come to hold
  SessionUids,  \* the uids Sessions may come to hold
  NoRow,        \* "there is no such row"
  Times,        \* the instants at which slots and sessions start and end
  Moves,        \* the sessions whose dates may be changed
  Requests,     \* the requests the server may be working on at one time
  MaxFailures   \* how many awaits may fail

ASSUME BookingAssumption ==
  /\ Private \subseteq Fields
  /\ Offered \subseteq Fields
  /\ NoRow \notin SlotUids /\ NoRow \notin SessionUids
  /\ Times \subseteq Nat
  /\ Moves \subseteq SessionUids
  /\ MaxFailures \in Nat

VARIABLES
  slot,      \* Field_slots: field, start and end by uid
  reserved,  \* the slots with isReserved
  session,   \* Sessions: field, start, end and slotUid by uid
  request,   \* what each request in flight is doing
  standing,  \* history: the objections that held since a request began
  failures   \* how many awaits have failed

vars == <<slot, reserved, session, request, standing, failures>>

-----------------------------------------------------------------------------
SlotRow == [field : Fields, start : Times, end : Times]
SessionRow == [field : Fields, start : Times, end : Times, slot : SlotUids \cup {NoRow}]

ASSUME RowAssumption == NoRow \notin SlotRow /\ NoRow \notin SessionRow

Steps == {"slot", "conflict", "insert", "reserve", "find", "offer"}

Idle == [pc |-> "idle"]

\* A create is at slot, conflict, insert or reserve, an offer at find or offer.
Request ==
  [pc : Steps, field : Fields, start : Times, end : Times, slot : SlotUids \cup {NoRow}]

InFlight(r) == request[r] # Idle
At(r, pc) == request[r].pc = pc
Slots == {s \in SlotUids : slot[s] # NoRow}
Sessions == {x \in SessionUids : session[x] # NoRow}

\* The sessions on the field of q that share an instant with it.
Overlapping(q) ==
  {x \in Sessions : /\ session[x].field = q.field
                    /\ session[x].end > q.start
                    /\ session[x].start < q.end}

\* The slots of the field of q with the very times of q.
Twins(q) ==
  {s \in Slots : slot[s] = [field |-> q.field, start |-> q.start, end |-> q.end]}

\* Whatever forbids the request r right now.
Objections(r) ==
  LET q == request[r] IN
  IF q.pc \in {"find", "offer"} THEN {<<"twin", s>> : s \in Twins(q)}
  ELSE IF q.pc \in {"slot", "conflict", "insert"} /\ q.field \in Private
  THEN {<<"overlap", x>> : x \in Overlapping(q)}
       \cup {<<"reserved", s>> : s \in {q.slot} \cap reserved}
  ELSE {}

\* The history of each request: begun with it, then weakened by every step.
Observe ==
  standing' = [r \in Requests |->
    IF InFlight(r) THEN standing[r] \cap Objections(r)' ELSE Objections(r)']

Init ==
  /\ slot = [s \in SlotUids |-> NoRow]
  /\ reserved = {}
  /\ session = [x \in SessionUids |-> NoRow]
  /\ request = [r \in Requests |-> Idle]
  /\ standing = [r \in Requests |-> {}]
  /\ failures = 0

-----------------------------------------------------------------------------
Become(r, q) ==
  /\ request' = [request EXCEPT ![r] = q]
  /\ UNCHANGED <<slot, reserved, session, failures>>
  /\ Observe

\* One check of a handler: go on to pc, or answer with an error.
Check(r, from, ok, pc) ==
  /\ At(r, from)
  /\ Become(r, IF ok THEN [request[r] EXCEPT !.pc = pc] ELSE Idle)

-----------------------------------------------------------------------------
(* SessionsService.create.                                                 *)

\* A private field needs a slot; a public one ignores the slot of the client.
CreateArrives(r, f, s, start, end) ==
  /\ ~InFlight(r)
  /\ start < end
  /\ f \in Private => s # NoRow
  /\ Become(r, [pc |-> IF f \in Private THEN "slot" ELSE "insert", field |-> f,
                start |-> start, end |-> end, slot |-> IF f \in Private THEN s ELSE NoRow])

\* The slot exists, is not reserved, and has the times of the session.  The
\* field of the slot is not looked at.
CheckSlot(r) ==
  LET q == request[r] IN
  Check(r, "slot",
        /\ q.slot \in Slots \ reserved
        /\ slot[q.slot].start = q.start
        /\ slot[q.slot].end = q.end,
        "conflict")

\* Mutant: a session that starts earlier than the new one is no conflict.
CheckConflictAfter(r) ==
  Check(r, "conflict",
        {x \in Overlapping(request[r]) : session[x].start >= request[r].start} = {}, "insert")

CheckConflict(r) ==
  Check(r, "conflict", Overlapping(request[r]) = {}, "insert")

NewSession(q) == [field |-> q.field, start |-> q.start, end |-> q.end, slot |-> q.slot]

\* Mutant: slot_uid is an ordinary column.
InsertSessionNotUnique(r) ==
  LET q == request[r] IN
  /\ At(r, "insert")
  /\ \E x \in SessionUids \ Sessions : session' = [session EXCEPT ![x] = NewSession(q)]
  /\ request' = [request EXCEPT ![r] = IF q.field \in Private THEN [q EXCEPT !.pc = "reserve"]
                                                              ELSE Idle]
  /\ UNCHANGED <<slot, reserved, failures>>
  /\ Observe

\* The transaction; the unique key of slot_uid rolls back a second booking.
InsertSession(r) ==
  LET q == request[r] IN
  /\ At(r, "insert")
  /\ IF q.slot # NoRow /\ \E x \in Sessions : session[x].slot = q.slot
     THEN Become(r, Idle)
     ELSE /\ \E x \in SessionUids \ Sessions :
               session' = [session EXCEPT ![x] = NewSession(q)]
          /\ request' = [request EXCEPT ![r] =
               IF q.field \in Private THEN [q EXCEPT !.pc = "reserve"] ELSE Idle]
          /\ UNCHANGED <<slot, reserved, failures>>
          /\ Observe

\* Mutant: markAsReserved is called and its update never sent.
ReserveSlotForgotten(r) == At(r, "reserve") /\ Become(r, Idle)

ReserveSlot(r) ==
  /\ At(r, "reserve")
  /\ reserved' = reserved \cup {request[r].slot}
  /\ request' = [request EXCEPT ![r] = Idle]
  /\ UNCHANGED <<slot, session, failures>>
  /\ Observe

-----------------------------------------------------------------------------
(* FieldSlotsService.create.                                               *)

OfferArrives(r, f, start, end) ==
  /\ ~InFlight(r)
  /\ start < end
  /\ Become(r, [pc |-> "find", field |-> f, start |-> start, end |-> end, slot |-> NoRow])

FindSlot(r) == Check(r, "find", Twins(request[r]) = {}, "offer")

InsertSlot(r) ==
  LET q == request[r] IN
  /\ At(r, "offer")
  /\ \E s \in SlotUids \ Slots :
       slot' = [slot EXCEPT ![s] = [field |-> q.field, start |-> q.start, end |-> q.end]]
  /\ request' = [request EXCEPT ![r] = Idle]
  /\ UNCHANGED <<reserved, session, failures>>
  /\ Observe

-----------------------------------------------------------------------------
(* What the rest of the system does meanwhile.                             *)

\* An await of the request rejects, or the upload of an image within the
\* transaction does: the exception filter answers 500.
AwaitFails(r) ==
  /\ InFlight(r)
  /\ failures < MaxFailures
  /\ failures' = failures + 1
  /\ request' = [request EXCEPT ![r] = Idle]
  /\ UNCHANGED <<slot, reserved, session>>
  /\ Observe

\* SessionsService.update: any dates, with no check against slot or sessions.
Reschedule(x, start, end) ==
  /\ x \in Sessions
  /\ session' = [session EXCEPT ![x].start = start, ![x].end = end]
  /\ UNCHANGED <<slot, reserved, request, failures>>
  /\ Observe

\* The next database call of the request r.
Work(r) ==
  \/ CheckSlot(r) \/ CheckConflict(r) \/ InsertSession(r) \/ ReserveSlot(r)
  \/ FindSlot(r) \/ InsertSlot(r)

Next ==
  \/ \E r \in Requests, start, end \in Times :
       \/ \E f \in Fields, s \in SlotUids \cup {NoRow} : CreateArrives(r, f, s, start, end)
       \/ \E f \in Offered : OfferArrives(r, f, start, end)
  \/ \E r \in Requests : Work(r) \/ AwaitFails(r)
  \/ \E x \in Moves, start, end \in Times : Reschedule(x, start, end)

Spec == Init /\ [][Next]_vars

-----------------------------------------------------------------------------
(* Properties.                                                             *)

\* Every table and request keeps its type, and a create past its checks on a
\* private field has a slot at hand.
TypeOK ==
  /\ slot \in [SlotUids -> SlotRow \cup {NoRow}]
  /\ reserved \subseteq Slots
  /\ session \in [SessionUids -> SessionRow \cup {NoRow}]
  /\ request \in [Requests -> Request \cup {Idle}]
  /\ \A r \in Requests :
       InFlight(r) /\ request[r].pc \notin {"find", "offer"} =>
         ((request[r].slot = NoRow) <=> (request[r].field \notin Private))
  /\ \A r \in Requests : standing[r] \subseteq
       ({"overlap", "reserved", "twin"} \X (SlotUids \cup SessionUids))
  /\ failures \in 0..MaxFailures

\* A create about to insert its session has seen each objection lifted since
\* it began: no session overlapped it all along and its slot was not reserved
\* all along.  A slot about to be offered had no twin all along.
NothingStood ==
  \A r \in Requests : At(r, "insert") \/ At(r, "offer") => standing[r] = {}

\* The slot of a session is marked as reserved, or the request that made the
\* session is about to, as long as no await has failed: an error in between
\* leaves a slot that is sold and shown as free.
BookedIsMarked ==
  \A x \in Sessions :
    session[x].slot # NoRow =>
      \/ failures > 0
      \/ session[x].slot \in reserved
      \/ \E r \in Requests : At(r, "reserve") /\ request[r].slot = session[x].slot

\* No booking is made against what stood all along, and none goes unmarked
\* (SessionsService.create, FieldSlotsService.create).
BookingsAreSound == NothingStood /\ BookedIsMarked

\* The session that has booked a slot.
Booking(s) == {x \in Sessions : session[x].slot = s}
Owner(s) == IF Booking(s) = {} THEN NoRow ELSE CHOOSE x \in Booking(s) : TRUE

Ledger == INSTANCE SlotLedger WITH owner <- [s \in SlotUids |-> Owner(s)], NoSession <- NoRow

\* However the creates interleave, and wherever they fail, a slot is sold to
\* one session, for good, and only a slot that is sold is marked as reserved.
ImplementsSlotLedger == Ledger!Spec
=============================================================================
