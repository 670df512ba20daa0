----------------------- MODULE SessionInvitations_proofs -----------------------
(***************************************************************************)
(* Theorems about SessionInvitations, for any users, lists of receivers,   *)
(* teams and number of requests in flight, and at the end about            *)
(* Conversations, for any users, conversations and blocks.                 *)
(***************************************************************************)
EXTENDS MCSessionInvitations, TLAPS

\* A request is idle, or at a step of its own handler with the row it needs:
\* an invite holds rows it would send, a cancel one it sent, an accept one it
\* received.
WellFormed(q) ==
  \/ q = Idle
  \/ /\ q.op = "invite" /\ q.pc \in InviteSteps
     /\ q.user \notin q.todo \cup q.valid
     /\ q.pc = "upsert" => q.pair = NoPair
     /\ q.pc # "upsert" => q.pair \in Pairs /\ Sender(q.pair) = q.user
  \/ /\ q.op = "update" /\ q.pc \in UpdateSteps
     /\ q.pc = "find" => q.pair = NoPair
     /\ q.pc # "find" => q.pair \in Pairs
     /\ q.pc = "cancel" => q.user = Sender(q.pair)
     /\ q.pc \in {"players", "blocks", "accept"} => q.user = Receiver(q.pair)

Reasons == {"blocked", "seated", "invited"}

\* What the request q has done away with among the objections S that have
\* stood since it began: all of them for the receivers that passed, and those
\* it has looked for so far for the one it is checking.
Sound(q, S) ==
  /\ q.op = "invite" => \A v \in q.valid, why \in Reasons : <<v, why>> \notin S
  /\ q.pc \in {"player", "invited"} => <<Receiver(q.pair), "blocked">> \notin S
  /\ q.pc = "invited" => <<Receiver(q.pair), "seated">> \notin S
  /\ q.pc = "blocks" => S \subseteq {<<v, "foe">> : v \in q.seen}
  /\ q.pc = "accept" => S = {}

AllWellFormed == \A r \in Requests : WellFormed(request[r])
AllSound == \A r \in Requests : Sound(request[r], standing[r])

\* TypeOK and the two properties rest on this.
InvitationInv == TypeOK /\ AllWellFormed /\ AllSound

-----------------------------------------------------------------------------
\* A request that is not idle has an operation and a user.
LEMMA InFlightIsRequest ==
  ASSUME TypeOK, AllWellFormed, NEW r \in Requests
  PROVE  /\ InFlight(r) => request[r] \in Request
         /\ ~InFlight(r) => request[r] = Idle
         /\ \A pc \in InviteSteps : At(r, pc) => request[r].op = "invite" /\ InFlight(r)
         /\ \A pc \in UpdateSteps : At(r, pc) => request[r].op = "update" /\ InFlight(r)
  BY DEF TypeOK, AllWellFormed, WellFormed, InFlight, At, Request, Idle, InviteSteps,
         UpdateSteps

\* The objections are about users, whichever step brings them up.
LEMMA ObjectionsType ==
  ASSUME players' \subseteq Users, NEW r \in Requests
  PROVE  Objections(r)' \subseteq (Users \X {"blocked", "seated", "invited", "foe"})
<1>1. ASSUME NEW S \in SUBSET Users, NEW why \in {"blocked", "seated", "invited", "foe"}
      PROVE  {<<v, why>> : v \in S} \subseteq
               (Users \X {"blocked", "seated", "invited", "foe"})
  OBVIOUS
<1> DEFINE u == request'[r].user
           B == {w \in Users : <<u, w>> \in blocks' \/ <<w, u>> \in blocks'}
           I == {w \in Users \ {u} : invitation'[<<u, w>>] \in {"PENDING", "ACCEPTED"}}
           F == {w \in players' : <<u, w>> \in blocks' \/ <<w, u>> \in blocks'}
<1>2. \/ Objections(r)' = {<<v, "blocked">> : v \in B} \cup {<<v, "seated">> : v \in players'}
                            \cup {<<v, "invited">> : v \in I}
      \/ Objections(r)' = {<<v, "foe">> : v \in F}
      \/ Objections(r)' = {}
  BY DEF Objections, BlockedBetween
<1>3. B \subseteq Users /\ I \subseteq Users /\ F \subseteq Users
  OBVIOUS
<1> HIDE DEF B, I, F
<1> QED
  BY <1>1, <1>2, <1>3

\* The history only shrinks while a request is in flight, and never holds
\* what is no objection right now.
LEMMA ObserveShrinks ==
  ASSUME Observe, NEW r \in Requests
  PROVE  /\ standing'[r] \subseteq Objections(r)'
         /\ InFlight(r) => standing'[r] \subseteq standing[r]
  BY DEF Observe

\* Less on record, nothing lost.
LEMMA SoundShrinks ==
  ASSUME NEW q, NEW S, NEW T \in SUBSET S, Sound(q, S)
  PROVE  Sound(q, T)
  BY DEF Sound

\* A step that writes tables within their types and leaves the request r as q.
LEMMA StepKeeps ==
  ASSUME InvitationAssumption, InvitationInv, NEW r \in Requests,
         NEW q \in Request \cup {Idle}, WellFormed(q),
         request' = [request EXCEPT ![r] = q], Observe,
         invitation' \in [Pairs -> InvitationStatus \cup {"none"}],
         players' \subseteq Users, blocks' \subseteq BlockPairs,
         Sound(q, standing'[r])
  PROVE  InvitationInv'
<1>1. /\ request' \in [Requests -> Request \cup {Idle}]
      /\ request'[r] = q
      /\ \A p \in Requests : p # r => request'[p] = request[p]
  BY DEF InvitationInv, TypeOK
<1>2. AllWellFormed'
  BY <1>1 DEF InvitationInv, AllWellFormed
<1>3. \A p \in Requests : request'[p].pair # NoPair =>
        request'[p].user \in {Sender(request'[p].pair), Receiver(request'[p].pair)}
  <2> SUFFICES ASSUME NEW p \in Requests, request'[p].pair # NoPair
               PROVE  request'[p].user \in {Sender(request'[p].pair),
                                            Receiver(request'[p].pair)}
    OBVIOUS
  <2>1. WellFormed(request'[p])
    BY <1>2 DEF AllWellFormed
  <2> QED
    BY <2>1 DEF WellFormed, Idle, UpdateSteps
<1>4. \A p \in Requests : standing'[p] \subseteq
        (Users \X {"blocked", "seated", "invited", "foe"})
  BY ObserveShrinks, ObjectionsType
<1>5. ASSUME NEW p \in Requests, p # r
      PROVE  Sound(request'[p], standing'[p])
  <2>1. request'[p] = request[p] /\ Sound(request[p], standing[p])
    BY <1>1, <1>5 DEF InvitationInv, AllSound
  <2>2. CASE InFlight(p)
    BY <2>1, <2>2, ObserveShrinks, SoundShrinks
  <2>3. CASE ~InFlight(p)
    BY <2>1, <2>3, InFlightIsRequest DEF InvitationInv, Sound, Idle
  <2> QED
    BY <2>2, <2>3
<1>6. AllSound'
  BY <1>1, <1>5 DEF AllSound
<1> QED
  BY <1>1, <1>2, <1>3, <1>4, <1>6 DEF InvitationInv, TypeOK

\* The same for a step that only moves the request on.
LEMMA BecomeKeeps ==
  ASSUME InvitationAssumption, InvitationInv, NEW r \in Requests,
         NEW q \in Request \cup {Idle}, WellFormed(q), Become(r, q),
         Sound(q, standing'[r])
  PROVE  InvitationInv'
  BY StepKeeps DEF Become, InvitationInv, TypeOK

\* An answered request has nothing to show.
LEMMA IdleIsSound ==
  /\ WellFormed(Idle)
  /\ \A S : Sound(Idle, S)
  /\ Idle.op = "idle"
  BY DEF WellFormed, Sound, Idle

\* The fields of a free slot.
LEMMA IdleFields ==
  Idle \in [op : {"idle"}, pc : {"idle"}, user : {"none"}, todo : {{}}, valid : {{}},
            status : {"none"}, pair : {NoPair}, seen : {{}}]
  BY DEF Idle

\* Nor has one that is turned away.
LEMMA RefuseKeeps ==
  ASSUME InvitationAssumption, InvitationInv, NEW r \in Requests, Refuse(r)
  PROVE  InvitationInv'
  BY IdleIsSound, BecomeKeeps DEF Refuse

\* An invite between two turns of its loop.
Draft ==
  [op : {"invite"}, pc : InviteSteps \cup {"idle"}, user : Users, todo : SUBSET Users,
   valid : SUBSET Users, status : InvitationStatus \cup {"none"},
   pair : Pairs \cup {NoPair}, seen : SUBSET Users]

\* The next turn of the loop has a row of the sender, or none, and the same
\* valid receivers.
LEMMA NextReceiverKeeps ==
  ASSUME InvitationAssumption, InvitationInv, NEW r \in Requests, NEW q \in Draft,
         q.user \notin q.todo \cup q.valid, NextReceiver(r, q),
         \A v \in q.valid, why \in Reasons : <<v, why>> \notin standing'[r]
  PROVE  InvitationInv'
<1>1. ASSUME NEW v \in q.todo,
             Become(r, [q EXCEPT !.pc = "block", !.pair = <<q.user, v>>, !.todo = q.todo \ {v}])
      PROVE  InvitationInv'
  <2> DEFINE n == [q EXCEPT !.pc = "block", !.pair = <<q.user, v>>, !.todo = q.todo \ {v}]
  <2>1. <<q.user, v>> \in Pairs
    BY DEF Draft, Pairs
  <2>2. /\ n.op = "invite" /\ n.pc = "block" /\ n.user = q.user /\ n.todo = q.todo \ {v}
        /\ n.valid = q.valid /\ n.pair = <<q.user, v>>
    BY DEF Draft
  <2>3. n \in Request
    BY <2>1 DEF Draft, Request, InviteSteps
  <2> HIDE DEF n
  <2>4. WellFormed(n)
    BY <2>1, <2>2 DEF WellFormed, InviteSteps, Sender
  <2>5. Sound(n, standing'[r])
    BY <2>2 DEF Sound
  <2> QED
    BY <1>1, <2>3, <2>4, <2>5, BecomeKeeps DEF n
<1>2. CASE Become(r, [q EXCEPT !.pc = "upsert", !.pair = NoPair])
  <2> DEFINE n == [q EXCEPT !.pc = "upsert", !.pair = NoPair]
  <2>1. /\ n.op = "invite" /\ n.pc = "upsert" /\ n.user = q.user /\ n.todo = q.todo
        /\ n.valid = q.valid /\ n.pair = NoPair
    BY DEF Draft
  <2>2. n \in Request
    BY DEF Draft, Request, InviteSteps
  <2> HIDE DEF n
  <2>3. WellFormed(n)
    BY <2>1 DEF WellFormed, InviteSteps
  <2>4. Sound(n, standing'[r])
    BY <2>1 DEF Sound
  <2> QED
    BY <1>2, <2>2, <2>3, <2>4, BecomeKeeps DEF n
<1> QED
  BY <1>1, <1>2, RefuseKeeps DEF NextReceiver

\* A request that goes on to pc, with what it has found.
LEMMA MovesOn ==
  ASSUME NEW q \in Request, NEW pc \in InviteSteps \cup UpdateSteps
  PROVE  LET n == [q EXCEPT !.pc = pc] IN
         /\ n \in Request
         /\ n.pc = pc /\ n.op = q.op /\ n.user = q.user /\ n.todo = q.todo
         /\ n.valid = q.valid /\ n.pair = q.pair /\ n.seen = q.seen
  BY DEF Request

\* An invite in flight is a draft, and what has stood against its user since
\* it began shrinks with each step.
LEMMA InviteIsDraft ==
  ASSUME InvitationInv, NEW r \in Requests, request[r].op = "invite"
  PROVE  /\ request[r] \in Draft /\ request[r] \in Request
         /\ InFlight(r)
         /\ request[r].user \notin request[r].todo \cup request[r].valid
         /\ WellFormed(request[r]) /\ Sound(request[r], standing[r])
<1>1. WellFormed(request[r]) /\ Sound(request[r], standing[r]) /\ request[r] # Idle
  BY DEF InvitationInv, AllWellFormed, AllSound, Idle
<1>2. request[r] \in Request
  BY <1>1 DEF InvitationInv, TypeOK
<1>3. request[r].pc \in InviteSteps
  BY <1>1 DEF WellFormed
<1>4. request[r] \in Draft
  BY <1>2, <1>3 DEF Request, Draft
<1> QED
  BY <1>1, <1>2, <1>4 DEF WellFormed, InFlight

\* Passed or not, a check of the loop has lifted one objection or gives the
\* receiver up.
LEMMA CheckReceiverKeeps ==
  ASSUME InvitationAssumption, InvitationInv, NEW r \in Requests,
         NEW from \in {"block", "player"}, NEW ok, NEW pc \in {"player", "invited"},
         CheckReceiver(r, from, ok, pc),
         ok /\ Observe /\ request'[r].op = "invite" /\ request'[r].user = request[r].user
            /\ UNCHANGED <<players, blocks>> =>
           /\ <<Receiver(request[r].pair), "blocked">> \notin standing'[r]
           /\ pc = "invited" => <<Receiver(request[r].pair), "seated">> \notin standing'[r]
  PROVE  InvitationInv'
<1>1. request[r].op = "invite" /\ request[r].pc = from
  BY InFlightIsRequest DEF InvitationInv, CheckReceiver, InviteSteps, At
<1>2. /\ request[r] \in Draft /\ request[r] \in Request /\ InFlight(r)
      /\ request[r].user \notin request[r].todo \cup request[r].valid
      /\ WellFormed(request[r]) /\ Sound(request[r], standing[r])
  BY <1>1, InviteIsDraft
<1>3. ASSUME Observe
      PROVE  \A v \in request[r].valid, why \in Reasons : <<v, why>> \notin standing'[r]
  BY <1>1, <1>2, <1>3, ObserveShrinks DEF Sound
<1>4. CASE Become(r, [request[r] EXCEPT !.pc = pc]) /\ ok
  <2> DEFINE n == [request[r] EXCEPT !.pc = pc]
  <2>1. /\ n \in Request
        /\ n.pc = pc /\ n.op = request[r].op /\ n.user = request[r].user
        /\ n.todo = request[r].todo /\ n.valid = request[r].valid /\ n.pair = request[r].pair
    BY <1>2, MovesOn DEF InviteSteps
  <2> HIDE DEF n
  <2>2. Become(r, n) /\ Observe
    BY <1>4 DEF n, Become
  <2>3. request'[r] = n
    BY <2>2 DEF Become, InvitationInv, TypeOK
  <2>4. WellFormed(n)
    BY <1>1, <1>2, <2>1 DEF WellFormed, InviteSteps, Idle
  <2>5. Sound(n, standing'[r])
    BY <1>1, <1>3, <1>4, <2>1, <2>2, <2>3 DEF Sound, Become
  <2> QED
    BY <2>1, <2>2, <2>4, <2>5, BecomeKeeps
<1>5. CASE NextReceiver(r, request[r])
  <2>1. Observe
    BY <1>5 DEF NextReceiver, Become, Refuse
  <2> QED
    BY <1>2, <1>3, <1>5, <2>1, NextReceiverKeeps
<1> QED
  BY <1>4, <1>5 DEF CheckReceiver

-----------------------------------------------------------------------------
\* Before the first request nothing has to be shown.
LEMMA InitInv == ASSUME InvitationAssumption, Init PROVE InvitationInv
<1>1. \A r \in Requests : request[r] = Idle /\ standing[r] = {}
  BY DEF Init
<1>2. AllWellFormed /\ AllSound
  BY <1>1, IdleIsSound DEF AllWellFormed, AllSound
<1>3. Idle.pair = NoPair
  BY DEF Idle
<1>4. players \subseteq Users
  BY DEF Init, InvitationAssumption
<1> QED
  BY <1>1, <1>2, <1>3, <1>4 DEF Init, InvitationInv, TypeOK

\* The steps of createMany.
LEMMA InviteKeeps ==
  ASSUME InvitationAssumption, InvitationInv, NEW r \in Requests,
         \/ \E u \in Users, receivers \in Lists : InviteArrives(r, u, receivers)
         \/ CheckReceiverBlock(r) \/ CheckReceiverPlayer(r) \/ CheckNotInvited(r)
         \/ UpsertInvitations(r)
  PROVE  InvitationInv'
<1>1. ASSUME NEW u \in Users, NEW receivers \in Lists, InviteArrives(r, u, receivers)
      PROVE  InvitationInv'
  <2> DEFINE q == [Idle EXCEPT !.op = "invite", !.user = u, !.todo = receivers \ {u}]
  <2>1. receivers \subseteq Users
    BY DEF InvitationAssumption
  <2>2. /\ q \in Draft
        /\ q.user = u /\ q.todo = receivers \ {u} /\ q.valid = {}
    BY <2>1, IdleFields DEF Draft
  <2>3. q.user \notin q.todo \cup q.valid /\ q.valid = {}
    BY <2>2
  <2>4. NextReceiver(r, q)
    BY <1>1 DEF InviteArrives
  <2> HIDE DEF q
  <2> QED
    BY <2>2, <2>3, <2>4, NextReceiverKeeps
<1>2. CASE CheckReceiverBlock(r)
  <2>1. request[r].op = "invite"
    BY <1>2, InFlightIsRequest DEF InvitationInv, CheckReceiverBlock, CheckReceiver, InviteSteps
  <2>2. At(r, "block") /\ WellFormed(request[r])
    BY <1>2, <2>1, InviteIsDraft DEF CheckReceiverBlock, CheckReceiver
  <2>3. Sender(request[r].pair) = request[r].user
    BY <2>1, <2>2 DEF WellFormed, At, Idle
  <2>4. ASSUME ~BlockedBetween(Sender(request[r].pair), Receiver(request[r].pair)),
               Observe, request'[r].op = "invite", request'[r].user = request[r].user,
               UNCHANGED <<players, blocks>>
        PROVE  <<Receiver(request[r].pair), "blocked">> \notin standing'[r]
    <3>1. <<Receiver(request[r].pair), "blocked">> \notin Objections(r)'
      BY <2>3, <2>4 DEF Objections, BlockedBetween
    <3> QED
      BY <2>4, <3>1, ObserveShrinks
  <2> QED
    BY <1>2, <2>4, CheckReceiverKeeps DEF CheckReceiverBlock
<1>3. CASE CheckReceiverPlayer(r)
  <2>1. request[r].op = "invite" /\ At(r, "player")
    BY <1>3, InFlightIsRequest DEF InvitationInv, CheckReceiverPlayer, CheckReceiver, InviteSteps
  <2>2. Sound(request[r], standing[r]) /\ InFlight(r)
    BY <2>1, InviteIsDraft
  <2>3. ASSUME Receiver(request[r].pair) \notin players,
               Observe, request'[r].op = "invite", request'[r].user = request[r].user,
               UNCHANGED <<players, blocks>>
        PROVE  /\ <<Receiver(request[r].pair), "blocked">> \notin standing'[r]
               /\ <<Receiver(request[r].pair), "seated">> \notin standing'[r]
    <3>1. <<Receiver(request[r].pair), "seated">> \notin Objections(r)'
      BY <2>3 DEF Objections
    <3>2. <<Receiver(request[r].pair), "blocked">> \notin standing[r]
      BY <2>1, <2>2 DEF Sound, At
    <3> QED
      BY <2>2, <2>3, <3>1, <3>2, ObserveShrinks
  <2> QED
    BY <1>3, <2>3, CheckReceiverKeeps DEF CheckReceiverPlayer
<1>4. CASE CheckNotInvited(r)
  <2> DEFINE q == request[r]
             v == Receiver(q.pair)
             n == [q EXCEPT !.valid = q.valid \cup {v}]
  <2>1. q.op = "invite" /\ At(r, "invited")
    BY <1>4, InFlightIsRequest DEF InvitationInv, CheckNotInvited, InviteSteps
  <2>2. /\ q \in Draft /\ InFlight(r) /\ q.user \notin q.todo \cup q.valid
        /\ WellFormed(q) /\ Sound(q, standing[r])
    BY <2>1, InviteIsDraft
  <2>3. q.pair \in Pairs /\ Sender(q.pair) = q.user
    BY <2>1, <2>2 DEF WellFormed, At, Idle
  <2>4. v \in Users /\ v # q.user /\ q.pair = <<q.user, v>>
    BY <2>3 DEF Pairs, Sender, Receiver
  <2>5. ASSUME Observe
        PROVE  \A w \in q.valid, why \in Reasons : <<w, why>> \notin standing'[r]
    BY <2>1, <2>2, <2>5, ObserveShrinks DEF Sound
  <2>6. CASE NextReceiver(r, q)
    <3>1. Observe
      BY <2>6 DEF NextReceiver, Become, Refuse
    <3> QED
      BY <2>2, <2>5, <2>6, <3>1, NextReceiverKeeps
  <2>7. CASE NextReceiver(r, n) /\ invitation[q.pair] \notin {"ACCEPTED", "PENDING"}
    <3>1. /\ n \in Draft
          /\ n.user = q.user /\ n.todo = q.todo /\ n.valid = q.valid \cup {v}
      BY <2>2, <2>4 DEF Draft
    <3>2. Observe /\ UNCHANGED invitation
      BY <2>7 DEF NextReceiver, Become, Refuse
    <3>3. /\ request'[r].op = "invite" => request'[r].user = q.user
          /\ request'[r].op \in {"invite", "idle"}
      <4> HIDE DEF n
      <4>1. ASSUME NEW w \in n.todo,
              Become(r, [n EXCEPT !.pc = "block", !.pair = <<n.user, w>>, !.todo = n.todo \ {w}])
            PROVE  request'[r].user = n.user /\ request'[r].op = "invite"
        BY <3>1, <4>1 DEF Become, InvitationInv, TypeOK, Draft
      <4>2. CASE Become(r, [n EXCEPT !.pc = "upsert", !.pair = NoPair])
        BY <3>1, <4>2 DEF Become, InvitationInv, TypeOK, Draft
      <4>3. CASE Refuse(r)
        BY <4>3 DEF Refuse, Become, InvitationInv, TypeOK, Idle
      <4> QED
        BY <2>7, <3>1, <4>1, <4>2, <4>3 DEF NextReceiver
    <3>4. <<v, "invited">> \notin Objections(r)'
      BY <2>4, <2>7, <3>2, <3>3 DEF Objections
    <3>5. <<v, "blocked">> \notin standing[r] /\ <<v, "seated">> \notin standing[r]
      BY <2>1, <2>2 DEF Sound, At
    <3>6. \A why \in Reasons : <<v, why>> \notin standing'[r]
      BY <2>2, <3>2, <3>4, <3>5, ObserveShrinks DEF Reasons
    <3>7. \A w \in n.valid, why \in Reasons : <<w, why>> \notin standing'[r]
      BY <2>5, <3>1, <3>2, <3>6
    <3>8. n.user \notin n.todo \cup n.valid
      BY <2>2, <2>4, <3>1
    <3> HIDE DEF n
    <3> QED
      BY <2>7, <3>1, <3>7, <3>8, NextReceiverKeeps
  <2> QED
    BY <1>4, <2>6, <2>7 DEF CheckNotInvited
<1>5. CASE UpsertInvitations(r)
  <2>1. invitation' \in [Pairs -> InvitationStatus \cup {"none"}]
    BY <1>5 DEF UpsertInvitations, InvitationInv, TypeOK, InvitationStatus
  <2> QED
    BY <1>5, <2>1, IdleIsSound, StepKeeps DEF UpsertInvitations, InvitationInv, TypeOK
<1> QED
  BY <1>1, <1>2, <1>3, <1>4, <1>5

\* The steps of update.
LEMMA UpdateKeeps ==
  ASSUME InvitationAssumption, InvitationInv, NEW r \in Requests,
         \/ \E u \in Users, status \in Answers : UpdateArrives(r, u, status)
         \/ FindInvitation(r) \/ CancelInvitation(r)
         \/ ReadSessionPlayers(r) \/ CheckPlayerBlocks(r) \/ AcceptInvitation(r)
  PROVE  InvitationInv'
<1>1. ASSUME NEW u \in Users, NEW status \in Answers, UpdateArrives(r, u, status)
      PROVE  InvitationInv'
  <2> DEFINE n == [Idle EXCEPT !.op = "update", !.pc = "find", !.user = u, !.status = status]
  <2>1. status \in InvitationStatus
    BY DEF InvitationStatus, InvitationAssumption
  <2>2. n \in Request /\ n.op = "update" /\ n.pc = "find" /\ n.pair = NoPair
    BY <2>1, IdleFields DEF Request, UpdateSteps
  <2>3. Become(r, n)
    BY <1>1 DEF UpdateArrives
  <2> HIDE DEF n
  <2>4. WellFormed(n) /\ Sound(n, standing'[r])
    BY <2>2 DEF WellFormed, Sound, UpdateSteps
  <2> QED
    BY <2>2, <2>3, <2>4, BecomeKeeps
<1>2. CASE FindInvitation(r)
  <2> DEFINE q == request[r]
  <2>1. q.op = "update" /\ InFlight(r) /\ q \in Request
    BY <1>2, InFlightIsRequest DEF InvitationInv, FindInvitation, UpdateSteps
  <2>2. ASSUME NEW p \in Pairs, NEW pc \in {"cancel", "players"},
               pc = "cancel" => q.user = Sender(p), pc = "players" => q.user = Receiver(p),
               Become(r, [[q EXCEPT !.pair = p] EXCEPT !.pc = pc])
        PROVE  InvitationInv'
    <3> DEFINE n == [[q EXCEPT !.pair = p] EXCEPT !.pc = pc]
    <3>1. n \in Request /\ n.op = "update" /\ n.pc = pc /\ n.pair = p /\ n.user = q.user
      BY <2>1 DEF Request, UpdateSteps
    <3> HIDE DEF n
    <3>2. WellFormed(n) /\ Sound(n, standing'[r])
      BY <2>2, <3>1 DEF WellFormed, Sound, UpdateSteps
    <3> QED
      BY <2>2, <3>1, <3>2, BecomeKeeps DEF n
  <2>3. ASSUME NEW p \in Pairs, Dispatch(r, q, p)
        PROVE  InvitationInv'
    BY <2>2, <2>3, RefuseKeeps DEF Dispatch
  <2> QED
    BY <1>2, <2>3, RefuseKeeps DEF FindInvitation
<1>3. CASE CancelInvitation(r)
  <2>1. invitation' \in [Pairs -> InvitationStatus \cup {"none"}]
    BY <1>3 DEF CancelInvitation, InvitationInv, TypeOK, InvitationStatus
  <2> QED
    BY <1>3, <2>1, IdleIsSound, StepKeeps DEF CancelInvitation, InvitationInv, TypeOK
<1>4. CASE ReadSessionPlayers(r)
  <2> DEFINE q == request[r]
             pc == IF players = {} THEN "accept" ELSE "blocks"
             n == [q EXCEPT !.pc = pc, !.seen = players]
  <2>1. q.op = "update" /\ InFlight(r) /\ q \in Request /\ WellFormed(q) /\ q.pc = "players"
    BY <1>4, InFlightIsRequest
       DEF InvitationInv, ReadSessionPlayers, UpdateSteps, AllWellFormed, At
  <2>2. players \subseteq Users
    BY DEF InvitationInv, TypeOK
  <2>3. /\ n \in Request
        /\ n.op = "update" /\ n.pc = pc /\ n.pair = q.pair /\ n.user = q.user /\ n.seen = players
    BY <2>1, <2>2 DEF Request, UpdateSteps
  <2>4. Become(r, n)
    BY <1>4 DEF ReadSessionPlayers
  <2> HIDE DEF n
  <2>5. WellFormed(n)
    BY <2>1, <2>3 DEF WellFormed, UpdateSteps, Idle
  <2>6. request'[r] = n /\ UNCHANGED <<players, blocks>> /\ Observe
    BY <2>4 DEF Become, InvitationInv, TypeOK
  <2>7. Objections(r)' \subseteq {<<v, "foe">> : v \in players}
    BY <2>3, <2>6 DEF Objections
  <2>8. standing'[r] \subseteq {<<v, "foe">> : v \in players}
    BY <2>6, <2>7, ObserveShrinks
  <2>9. Sound(n, standing'[r])
    BY <2>3, <2>8 DEF Sound
  <2> QED
    BY <2>3, <2>4, <2>5, <2>9, BecomeKeeps
<1>5. CASE CheckPlayerBlocks(r)
  <2> DEFINE q == request[r]
             n == [q EXCEPT !.pc = "accept"]
  <2>1. /\ q.op = "update" /\ InFlight(r) /\ q \in Request /\ WellFormed(q) /\ q.pc = "blocks"
        /\ Sound(q, standing[r])
    BY <1>5, InFlightIsRequest
       DEF InvitationInv, CheckPlayerBlocks, UpdateSteps, AllWellFormed, AllSound, At
  <2>2. CASE Become(r, n) /\ \A v \in q.seen : ~BlockedBetween(q.user, v)
    <3>1. /\ n \in Request
          /\ n.op = "update" /\ n.pc = "accept" /\ n.pair = q.pair /\ n.user = q.user
      BY <2>1, MovesOn DEF UpdateSteps
    <3> HIDE DEF n
    <3>2. WellFormed(n)
      BY <2>1, <3>1 DEF WellFormed, UpdateSteps, Idle
    <3>3. request'[r] = n /\ UNCHANGED <<players, blocks>> /\ Observe
      BY <2>2 DEF Become, InvitationInv, TypeOK
    <3>4. standing[r] \subseteq {<<v, "foe">> : v \in q.seen}
      BY <2>1 DEF Sound
    <3>5. \A v \in q.seen : <<v, "foe">> \notin Objections(r)'
      BY <2>2, <3>1, <3>3 DEF Objections, BlockedBetween
    <3>6. standing'[r] = {}
      BY <2>1, <3>3, <3>4, <3>5, ObserveShrinks
    <3>7. Sound(n, standing'[r])
      BY <3>1, <3>6 DEF Sound
    <3> QED
      BY <2>2, <3>1, <3>2, <3>7, BecomeKeeps
  <2> QED
    BY <1>5, <2>2, RefuseKeeps DEF CheckPlayerBlocks
<1>6. CASE AcceptInvitation(r)
  <2>1. UNCHANGED <<players, invitation, blocks>>
    BY <1>6 DEF AcceptInvitation, InvitationAssumption
  <2> QED
    BY <1>6, <2>1, IdleIsSound, StepKeeps DEF AcceptInvitation, InvitationInv, TypeOK
<1> QED
  BY <1>1, <1>2, <1>3, <1>4, <1>5, <1>6

\* Joins, leaves and blocks of the rest of the system change no request, and
\* only end objections that no longer hold.
LEMMA OthersKeep ==
  ASSUME InvitationAssumption, InvitationInv,
         \/ \E u \in Movers : PlayersChange(u)
         \/ \E p \in BlockPairs : BlocksChange(p)
  PROVE  InvitationInv'
<1>1. UNCHANGED <<invitation, request>> /\ Observe
  BY DEF PlayersChange, BlocksChange
<1>2. players' \subseteq Users /\ blocks' \subseteq BlockPairs
  BY DEF PlayersChange, BlocksChange, Sit, Rise, InvitationInv, TypeOK, InvitationAssumption
<1>3. \A p \in Requests : standing'[p] \subseteq
        (Users \X {"blocked", "seated", "invited", "foe"})
  BY <1>1, <1>2, ObserveShrinks, ObjectionsType
<1>4. ASSUME NEW p \in Requests
      PROVE  Sound(request[p], standing'[p])
  <2>1. Sound(request[p], standing[p])
    BY DEF InvitationInv, AllSound
  <2>2. CASE InFlight(p)
    BY <1>1, <2>1, <2>2, ObserveShrinks, SoundShrinks
  <2>3. CASE ~InFlight(p)
    BY <2>3, IdleIsSound, InFlightIsRequest DEF InvitationInv
  <2> QED
    BY <2>2, <2>3
<1> QED
  BY <1>1, <1>2, <1>3, <1>4 DEF InvitationInv, TypeOK, AllWellFormed, AllSound

\* InvitationInv is inductive.
LEMMA NextInv ==
  ASSUME InvitationAssumption, InvitationInv, [Next]_vars
  PROVE  InvitationInv'
<1>1. CASE UNCHANGED vars
  BY <1>1 DEF vars, InvitationInv, TypeOK, AllWellFormed, AllSound
<1> QED
  BY <1>1, InviteKeeps, UpdateKeeps, OthersKeep DEF Next

\* InvitationInv holds in every reachable state.
LEMMA Invariants == Spec => []InvitationInv
  BY InvitationAssumption, InitInv, NextInv, PTL DEF Spec

\* Every row, request and history of the invitations keeps its type, and
\* whoever holds a row is its sender or its receiver.
THEOREM TypeCorrect == Spec => []TypeOK
<1>1. InvitationInv => TypeOK
  BY DEF InvitationInv
<1> QED
  BY <1>1, Invariants, PTL

\* No invite is about to write a receiver, and no accept a player, against an
\* objection that has held since the request began: the reads of createMany and
\* of update are separate, and any number of requests run beside them.
THEOREM ChecksAreSound == Spec => []InvitationsAreSound
<1>1. ASSUME InvitationInv PROVE InvitationsAreSound
  <2>1. InvitesAreSound
    BY <1>1, InFlightIsRequest
       DEF InvitationInv, InvitesAreSound, AllSound, Sound, Reasons, InviteSteps
  <2>2. AcceptsAreSound
    BY <1>1 DEF InvitationInv, AcceptsAreSound, AllSound, Sound, At
  <2> QED
    BY <2>1, <2>2 DEF InvitationsAreSound
<1> QED
  BY <1>1, Invariants, PTL

-----------------------------------------------------------------------------
\* The sender of a row invites and cancels and the receiver answers, and no
\* one else writes the row: findFirst may return any row the user sent or
\* received, and the test of the role comes before the write.
THEOREM RolesAreKept == Spec => OnlyOwnRoleWrites
<1> DEFINE Kept == \A p \in Pairs : invitation'[p] # invitation[p] =>
                     \E r \in Requests :
                       /\ InFlight(r) /\ request'[r] = Idle
                       /\ IF invitation'[p] \in {"PENDING", "CANCELED"}
                          THEN request[r].user = Sender(p)
                          ELSE request[r].user = Receiver(p)
<1>1. ASSUME InvitationInv, [Next]_vars PROVE [Kept]_vars
  <2>1. CASE UNCHANGED <<invitation>>
    BY <2>1
  <2>2. ASSUME NEW r \in Requests, UpsertInvitations(r)
        PROVE  Kept
    <3>1. InFlight(r) /\ request'[r] = Idle
      BY <1>1, <2>2, InFlightIsRequest
         DEF InvitationInv, UpsertInvitations, InviteSteps, TypeOK
    <3>2. \A p \in Pairs : invitation'[p] # invitation[p] =>
            invitation'[p] = "PENDING" /\ request[r].user = Sender(p)
      BY <2>2 DEF UpsertInvitations
    <3> QED
      BY <3>1, <3>2
  <2>3. ASSUME NEW r \in Requests, CancelInvitation(r)
        PROVE  Kept
    <3>1. InFlight(r) /\ request'[r] = Idle /\ request[r].op = "update"
      BY <1>1, <2>3, InFlightIsRequest
         DEF InvitationInv, CancelInvitation, UpdateSteps, TypeOK
    <3>2. request[r].user = Sender(request[r].pair)
      BY <1>1, <2>3, <3>1
         DEF InvitationInv, AllWellFormed, WellFormed, CancelInvitation, At, Idle
    <3>3. \A p \in Pairs : invitation'[p] # invitation[p] =>
            invitation'[p] = "CANCELED" /\ p = request[r].pair
      BY <1>1, <2>3 DEF CancelInvitation, InvitationInv, TypeOK
    <3> QED
      BY <3>1, <3>2, <3>3
  <2>4. ASSUME NEW r \in Requests, AcceptInvitation(r)
        PROVE  UNCHANGED invitation
    BY <2>4, InvitationAssumption DEF AcceptInvitation, InvitationAssumption
  <2> QED
    BY <1>1, <2>1, <2>2, <2>3, <2>4
       DEF Next, vars, InviteArrives, NextReceiver, Become, Refuse, CheckReceiverBlock,
           CheckReceiverPlayer, CheckReceiver, CheckNotInvited, UpdateArrives, FindInvitation,
           Dispatch, ReadSessionPlayers, CheckPlayerBlocks, PlayersChange, BlocksChange
<1>2. Spec => [][Kept]_vars
  BY <1>1, Invariants, PTL DEF Spec
<1> QED
  BY <1>2 DEF OnlyOwnRoleWrites

-----------------------------------------------------------------------------
(* Conversations.  The invariant says of each request which conversation   *)
(* it has found (Addressed), whom it may write to (Allowed) and which      *)
(* conversation it makes (Making); a step of one request keeps it for the  *)
(* others because conversations only become more (Later).                  *)

\* The tables: T and M are types and members of the conversations, P whom the
\* private ones were made for.
Rows(T, M, P) ==
  /\ T \in [ConversationUids -> {"PRIVATE", "SESSION", NoRow}]
  /\ M \in [ConversationUids -> SUBSET Writers]
  /\ P \in [ConversationUids -> SUBSET Writers]
  /\ \A c \in ConversationUids : T[c] = NoRow => M[c] = {}
  /\ \A c \in ConversationUids : T[c] = "PRIVATE" =>
       M[c] \in {{}, P[c]} /\ \E u, v \in Writers : P[c] = {u, v}

\* Conversations stay what they are, and private ones keep their members.
Later(T, M, P, T2, M2, P2) ==
  \A c \in ConversationUids : T[c] # NoRow =>
    /\ T2[c] = T[c] /\ P2[c] = P[c]
    /\ T[c] = "PRIVATE" /\ M[c] # {} => M2[c] = M[c]

\* Which conversation a request has found.
Addressed(q, T, M, P) ==
  /\ q.conversation \in ConversationUids \cup {NoRow}
  /\ q.session /\ q.pc # "session" => q.conversation # NoRow /\ T[q.conversation] = "SESSION"
  /\ ~q.session /\ q.to = NoRow /\ q.conversation # NoRow =>
       T[q.conversation] = "SESSION" \/
         (T[q.conversation] = "PRIVATE" /\ M[q.conversation] = P[q.conversation])
  /\ ~q.session /\ q.to # NoRow /\ q.pc \in {"type", "touch", "insert"} =>
       /\ q.conversation # NoRow /\ T[q.conversation] = "PRIVATE"
       /\ {q.from, q.to} \subseteq M[q.conversation]
  /\ q.pc \in {"other", "block2"} =>
       /\ q.to = NoRow /\ ~q.session
       /\ q.conversation # NoRow /\ T[q.conversation] = "PRIVATE"
  /\ q.pc = "block2" => q.other \in M[q.conversation] \ {q.from}
  /\ q.pc = "insert" =>
       /\ q.conversation # NoRow /\ T[q.conversation] # NoRow
       /\ T[q.conversation] = "PRIVATE" => q.from \in M[q.conversation]

\* Whom a request may write to.
Allowed(q, T, M, B) ==
  /\ q.stood \subseteq {v \in Writers \ {q.from} : {q.from, v} \in B}
  /\ q.to \in Writers /\ q.pc \notin {"session", "block"} => q.to \notin q.stood
  /\ q.pc \in {"touch", "insert"} /\ q.to = NoRow /\ q.conversation # NoRow =>
       (T[q.conversation] = "PRIVATE" /\ q.from \in M[q.conversation]
          => M[q.conversation] \cap q.stood = {})

\* The conversation a request makes.
Making(q, T, M, P) ==
  /\ q.pc = "session" => q.session
  /\ q.pc \in {"block", "find", "create", "join"} => q.to \in Writers
  /\ q.pc = "join" =>
       q.uid \in ConversationUids /\ T[q.uid] = "PRIVATE" /\ P[q.uid] = {q.from, q.to}
  /\ q.known => /\ q.pc \notin {"create", "join"} /\ q.to \in Writers
                /\ \E c \in ConversationUids : T[c] = "PRIVATE" /\ {q.from, q.to} \subseteq M[c]

Fit(q, T, M, P, B) ==
  \/ q = Conv!Idle
  \/ q \in Conv!Request /\ Addressed(q, T, M, P) /\ Allowed(q, T, M, B) /\ Making(q, T, M, P)

ConversationInv ==
  /\ Conv!ConversationsAssumption
  /\ Rows(type, member, pair)
  /\ asking = [r \in Requests |-> asking[r]]
  /\ \A r \in Requests : Fit(asking[r], type, member, pair, block)
  /\ failures \in 0 .. MaxFailures
  /\ Conv!PrivateIsAPair

\* What a request relies on stays true.
LEMMA FitLater ==
  ASSUME NEW q, NEW T, NEW M, NEW P, NEW B, NEW T2, NEW M2, NEW P2, NEW B2,
         Rows(T, M, P), Rows(T2, M2, P2), Later(T, M, P, T2, M2, P2), B \subseteq B2,
         Conv!ConversationsAssumption, Fit(q, T, M, P, B)
  PROVE  Fit(q, T2, M2, P2, B2)
<1>1. CASE q = Conv!Idle
  BY <1>1 DEF Fit
<1>2. CASE q # Conv!Idle
  <2>1. q \in Conv!Request /\ Addressed(q, T, M, P) /\ Allowed(q, T, M, B) /\ Making(q, T, M, P)
    BY <1>2 DEF Fit
  <2>2. q.from \in Writers /\ q.to \in Writers \cup {NoRow} /\ q.stood \subseteq Writers
    BY <2>1 DEF Conv!Request
  <2>3. Addressed(q, T2, M2, P2)
    <3>1. CASE q.conversation = NoRow
      BY <2>1, <3>1 DEF Addressed
    <3>2. CASE q.conversation # NoRow
      <4>1. q.conversation \in ConversationUids
        BY <2>1, <3>2 DEF Addressed
      <4> DEFINE c == q.conversation
      <4>2. T[c] # NoRow =>
              T2[c] = T[c] /\ P2[c] = P[c] /\ (T[c] = "PRIVATE" /\ M[c] # {} => M2[c] = M[c])
        BY <4>1 DEF Later
      <4>3. T[c] = "PRIVATE" /\ M[c] = P[c] => M[c] # {}
        BY <4>1 DEF Rows
      <4>4. "PRIVATE" # NoRow /\ "SESSION" # NoRow
        BY DEF Conv!ConversationsAssumption
      <4>5. q.session /\ q.pc # "session" => c # NoRow /\ T2[c] = "SESSION"
        BY <2>1, <4>2, <4>4 DEF Addressed
      <4>6. ~q.session /\ q.to = NoRow /\ c # NoRow =>
              T2[c] = "SESSION" \/ (T2[c] = "PRIVATE" /\ M2[c] = P2[c])
        BY <2>1, <4>2, <4>3, <4>4 DEF Addressed
      <4>7. ~q.session /\ q.to # NoRow /\ q.pc \in {"type", "touch", "insert"} =>
              T2[c] = "PRIVATE" /\ {q.from, q.to} \subseteq M2[c]
        BY <2>1, <4>2, <4>4 DEF Addressed
      <4>8. q.pc \in {"other", "block2"} =>
              q.to = NoRow /\ ~q.session /\ T2[c] = "PRIVATE" /\ M2[c] = M[c]
        BY <2>1, <3>2, <4>2, <4>3, <4>4 DEF Addressed
      <4>9. q.pc = "insert" => T2[c] # NoRow /\ (T2[c] = "PRIVATE" => q.from \in M2[c])
        BY <2>1, <4>2, <4>4 DEF Addressed
      <4> QED
        BY <2>1, <3>2, <4>1, <4>5, <4>6, <4>7, <4>8, <4>9 DEF Addressed
    <3> QED
      BY <3>1, <3>2
  <2>4. Allowed(q, T2, M2, B2)
    BY <2>1, <2>2 DEF Allowed, Later, Rows, Addressed, Conv!ConversationsAssumption
  <2>5. Making(q, T2, M2, P2)
    BY <2>1, <2>2 DEF Making, Later, Rows, Conv!ConversationsAssumption
  <2> QED
    BY <2>1, <2>3, <2>4, <2>5 DEF Fit
<1> QED
  BY <1>1, <1>2

\* What a step of the request r does to the tables and to itself.
Moves(r) ==
  /\ Rows(type', member', pair')
  /\ Later(type, member, pair, type', member', pair')
  /\ block \subseteq block'
  /\ \E q : asking' = [asking EXCEPT ![r] = q] /\ Fit(q, type', member', pair', block')

\* A request that is under way is a request, with what it relies on.
LEMMA UnderWay ==
  ASSUME ConversationInv, NEW r \in Requests, ~Conv!At(r, "idle")
  PROVE  /\ asking[r] \in Conv!Request
         /\ Addressed(asking[r], type, member, pair) /\ Allowed(asking[r], type, member, block)
         /\ Making(asking[r], type, member, pair)
BY DEF ConversationInv, Fit, Conv!At, Conv!Idle

\* A step that leaves the tables alone.
LEMMA TableStays ==
  ASSUME ConversationInv, UNCHANGED <<type, member, block, pair>>
  PROVE  /\ Rows(type', member', pair')
         /\ Later(type, member, pair, type', member', pair') /\ block \subseteq block'
BY DEF ConversationInv, Later

LEMMA MoveOnly ==
  ASSUME ConversationInv, UNCHANGED <<type, member, block, pair>>, NEW r \in Requests, NEW q,
         asking' = [asking EXCEPT ![r] = q], Fit(q, type, member, pair, block)
  PROVE  Moves(r)
<1>1. Fit(q, type', member', pair', block')
  OBVIOUS
<1> QED
  BY <1>1, TableStays DEF Moves

LEMMA GotoIs ==
  ASSUME ConversationInv, NEW r \in Requests, NEW pc, Conv!Goto(r, pc)
  PROVE  asking' = [asking EXCEPT ![r] = [asking[r] EXCEPT !.pc = pc]]
BY DEF Conv!Goto

LEMMA RefuseMoves ==
  ASSUME ConversationInv, NEW r \in Requests, Conv!Refuse(r)
  PROVE  Moves(r)
<1>1. Fit(Conv!Idle, type, member, pair, block)
  BY DEF Fit
<1> QED
  BY <1>1, MoveOnly DEF Conv!Refuse, Conv!Become, Conv!table

LEMMA ArriveMoves ==
  ASSUME ConversationInv, NEW r \in Requests, NEW from \in Writers, NEW session \in BOOLEAN,
         NEW to \in Writers \cup {NoRow}, NEW uid \in ConversationUids \cup {NoRow},
         Conv!MessageArrives(r, from, session, to, uid)
  PROVE  Moves(r)
<1> DEFINE q == [pc |-> IF session THEN "session" ELSE Conv!AfterSession(to),
                from |-> from, session |-> session, to |-> to, uid |-> NoRow,
                conversation |-> IF to = NoRow /\ ~session THEN uid ELSE NoRow, other |-> NoRow,
                stood |-> Conv!Blocked(from) \ {from},
                known |-> to # NoRow /\ Conv!PrivateOf(from, to) # {}]
<1>1. /\ asking' = [asking EXCEPT ![r] = q] /\ UNCHANGED <<type, member, block, pair>>
      /\ uid \in {NoRow} \cup {c \in Conv!Conversations : type[c] = "SESSION" \/ member[c] # {}}
  BY DEF Conv!MessageArrives, Conv!Become, Conv!table
<1>2. q \in Conv!Request
  BY DEF Conv!Request, Conv!AfterSession, Conv!Steps, Conv!Blocked
<1>3. uid # NoRow => type[uid] = "SESSION" \/ (type[uid] = "PRIVATE" /\ member[uid] = pair[uid])
  BY <1>1 DEF Conv!Conversations, ConversationInv, Rows
<1>4. Addressed(q, type, member, pair)
  BY <1>3 DEF Addressed, Conv!AfterSession
<1>5. Allowed(q, type, member, block)
  BY DEF Allowed, Conv!AfterSession, Conv!Blocked, ConversationInv, Conv!ConversationsAssumption
<1>6. Making(q, type, member, pair)
  BY DEF Making, Conv!AfterSession, Conv!PrivateOf, Conv!Conversations, ConversationInv,
         Conv!ConversationsAssumption
<1>7. Fit(q, type, member, pair, block)
  BY <1>2, <1>4, <1>5, <1>6 DEF Fit
<1> QED
  BY <1>1, <1>7, MoveOnly

LEMMA SessionMoves ==
  ASSUME ConversationInv, NEW r \in Requests, Conv!FindSessionConversation(r)
  PROVE  Moves(r)
<1> DEFINE o == asking[r]
<1>1. Conv!At(r, "session")
  BY DEF Conv!FindSessionConversation
<1>2. o \in Conv!Request /\ Addressed(o, type, member, pair) /\ Allowed(o, type, member, block)
      /\ Making(o, type, member, pair) /\ o.pc = "session"
  BY <1>1, UnderWay DEF Conv!At
<1>3. CASE \E c \in Conv!Conversations : type[c] = "SESSION"
  <2>1. PICK c \in Conv!Conversations : /\ type[c] = "SESSION"
             /\ asking' = [asking EXCEPT
                  ![r] = [o EXCEPT !.pc = Conv!AfterSession(o.to), !.conversation = c]]
    BY <1>3 DEF Conv!FindSessionConversation, Conv!Become
  <2> DEFINE q == [o EXCEPT !.pc = Conv!AfterSession(o.to), !.conversation = c]
  <2>2. UNCHANGED <<type, member, block, pair>>
    BY <1>3 DEF Conv!FindSessionConversation, Conv!table
  <2>3. /\ q \in Conv!Request /\ q.pc = Conv!AfterSession(o.to) /\ q.conversation = c
        /\ q.from = o.from
        /\ q.session = o.session /\ q.to = o.to /\ q.uid = o.uid /\ q.other = o.other
        /\ q.stood = o.stood /\ q.known = o.known
    BY <1>2, <2>1 DEF Conv!Request, Conv!AfterSession, Conv!Steps, Conv!Conversations
  <2> HIDE DEF q
  <2>4. c \in ConversationUids /\ c # NoRow
    BY DEF Conv!Conversations, ConversationInv, Conv!ConversationsAssumption
  <2>5. o.session
    BY <1>2 DEF Making
  <2>6. Addressed(q, type, member, pair)
    BY <1>2, <2>1, <2>3, <2>4, <2>5 DEF Addressed, Conv!AfterSession
  <2>7. Allowed(q, type, member, block)
    BY <1>2, <2>3 DEF Allowed, Conv!AfterSession, ConversationInv, Conv!ConversationsAssumption
  <2>8. Making(q, type, member, pair)
    BY <1>2, <2>3
       DEF Making, Conv!AfterSession, Conv!Request, ConversationInv, Conv!ConversationsAssumption
  <2>9. Fit(q, type, member, pair, block)
    BY <2>3, <2>6, <2>7, <2>8 DEF Fit
  <2> QED
    BY <2>1, <2>2, <2>9, MoveOnly DEF q
<1>4. CASE ~\E c \in Conv!Conversations : type[c] = "SESSION"
  BY <1>4, RefuseMoves DEF Conv!FindSessionConversation
<1> QED
  BY <1>3, <1>4

\* A request that goes on with nothing but its step.
LEMMA OnlyStep ==
  ASSUME NEW o \in Conv!Request, NEW pc \in Conv!Steps
  PROVE  LET q == [o EXCEPT !.pc = pc] IN
         /\ q \in Conv!Request /\ q.pc = pc /\ q.conversation = o.conversation /\ q.from = o.from
         /\ q.session = o.session /\ q.to = o.to /\ q.uid = o.uid /\ q.other = o.other
         /\ q.stood = o.stood /\ q.known = o.known
BY DEF Conv!Request

LEMMA BlockMoves ==
  ASSUME ConversationInv, NEW r \in Requests, Conv!CheckBlock(r)
  PROVE  Moves(r)
<1> DEFINE o == asking[r]  q == [o EXCEPT !.pc = "find"]
<1>1. Conv!At(r, "block")
  BY DEF Conv!CheckBlock
<1>2. o \in Conv!Request /\ Addressed(o, type, member, pair) /\ Allowed(o, type, member, block)
      /\ Making(o, type, member, pair) /\ o.pc = "block"
  BY <1>1, UnderWay DEF Conv!At
<1>3. CASE o.to \in Conv!Blocked(o.from)
  BY <1>3, RefuseMoves DEF Conv!CheckBlock
<1>4. CASE o.to \notin Conv!Blocked(o.from)
  <2>1. asking' = [asking EXCEPT ![r] = q] /\ UNCHANGED <<type, member, block, pair>>
    BY <1>4, GotoIs DEF Conv!CheckBlock, Conv!table
  <2>2. /\ q \in Conv!Request /\ q.pc = "find" /\ q.conversation = o.conversation /\ q.from = o.from
        /\ q.session = o.session /\ q.to = o.to /\ q.uid = o.uid /\ q.other = o.other
        /\ q.stood = o.stood /\ q.known = o.known
    BY <1>2, OnlyStep DEF Conv!Steps
  <2> HIDE DEF q
  <2>3. Addressed(q, type, member, pair)
    BY <1>2, <2>2 DEF Addressed
  <2>4. Allowed(q, type, member, block)
    BY <1>2, <1>4, <2>2 DEF Allowed, Conv!Blocked
  <2>5. Making(q, type, member, pair)
    BY <1>2, <2>2 DEF Making
  <2> QED
    BY <2>1, <2>2, <2>3, <2>4, <2>5, MoveOnly DEF Fit
<1> QED
  BY <1>3, <1>4

\* What is found is the conversation of the session, or the one of the two.
LEMMA FoundFits ==
  ASSUME ConversationInv, NEW o \in Conv!Request, NEW c \in ConversationUids,
         NEW T, NEW M, NEW P, NEW B, Rows(T, M, P),
         Addressed(o, T, M, P), Allowed(o, T, M, B), Making(o, T, M, P),
         o.pc \in {"find", "join"}, T[c] = "PRIVATE", {o.from, o.to} \subseteq M[c]
  PROVE  Fit([o EXCEPT !.pc = "type", !.conversation = Conv!Found(o, c)], T, M, P, B)
<1> DEFINE q == [o EXCEPT !.pc = "type", !.conversation = Conv!Found(o, c)]
<1>0. o.to \in Writers /\ c # NoRow
  BY DEF Making, ConversationInv, Conv!ConversationsAssumption
<1>1. /\ q \in Conv!Request /\ q.pc = "type" /\ q.conversation = Conv!Found(o, c) /\ q.from = o.from
      /\ q.session = o.session /\ q.to = o.to /\ q.uid = o.uid /\ q.other = o.other
      /\ q.stood = o.stood /\ q.known = o.known
  <2>1. Conv!Found(o, c) \in ConversationUids \cup {NoRow}
    BY DEF Conv!Found, Conv!Request
  <2> QED
    BY <2>1 DEF Conv!Request, Conv!Steps
<1> HIDE DEF q
<1>2. Addressed(q, T, M, P)
  BY <1>0, <1>1 DEF Addressed, Conv!Found, ConversationInv, Conv!ConversationsAssumption
<1>3. Allowed(q, T, M, B)
  BY <1>0, <1>1 DEF Allowed, ConversationInv, Conv!ConversationsAssumption
<1>4. Making(q, T, M, P)
  BY <1>1 DEF Making
<1>5. Fit(q, T, M, P, B)
  BY <1>1, <1>2, <1>3, <1>4 DEF Fit
<1> QED
  BY <1>5 DEF q

LEMMA FindMoves ==
  ASSUME ConversationInv, NEW r \in Requests, Conv!FindPrivate(r)
  PROVE  Moves(r)
<1> DEFINE o == asking[r]
<1>1. Conv!At(r, "find") /\ UNCHANGED <<type, member, block, pair>>
  BY DEF Conv!FindPrivate, Conv!table
<1>2. o \in Conv!Request /\ Addressed(o, type, member, pair) /\ Allowed(o, type, member, block)
      /\ Making(o, type, member, pair) /\ o.pc = "find"
  BY <1>1, UnderWay DEF Conv!At
<1>3. CASE Conv!PrivateOf(o.from, o.to) = {}
  <2> DEFINE q == [o EXCEPT !.pc = "create"]
  <2>1. asking' = [asking EXCEPT ![r] = q]
    BY <1>3, GotoIs DEF Conv!FindPrivate
  <2>2. /\ q \in Conv!Request /\ q.pc = "create" /\ q.conversation = o.conversation /\ q.from = o.from
        /\ q.session = o.session /\ q.to = o.to /\ q.uid = o.uid /\ q.other = o.other
        /\ q.stood = o.stood /\ q.known = o.known
    BY <1>2, OnlyStep DEF Conv!Steps
  <2> HIDE DEF q
  <2>3. Addressed(q, type, member, pair)
    BY <1>2, <2>2 DEF Addressed
  <2>4. Allowed(q, type, member, block)
    BY <1>2, <2>2 DEF Allowed
  <2>5. ~o.known
    BY <1>2, <1>3
       DEF Making, Conv!PrivateOf, Conv!Conversations, ConversationInv, Conv!ConversationsAssumption
  <2>6. Making(q, type, member, pair)
    BY <1>2, <2>2, <2>5 DEF Making
  <2> QED
    BY <1>1, <2>1, <2>2, <2>3, <2>4, <2>6, MoveOnly DEF Fit
<1>4. CASE Conv!PrivateOf(o.from, o.to) # {}
  <2>1. PICK c \in Conv!PrivateOf(o.from, o.to) :
          asking' = [asking EXCEPT ![r] = [o EXCEPT !.pc = "type", !.conversation = Conv!Found(o, c)]]
    BY <1>4 DEF Conv!FindPrivate, Conv!Become
  <2>2. c \in ConversationUids /\ type[c] = "PRIVATE" /\ {o.from, o.to} \subseteq member[c]
    BY DEF Conv!PrivateOf, Conv!Conversations
  <2>3. Fit([o EXCEPT !.pc = "type", !.conversation = Conv!Found(o, c)], type, member, pair, block)
    BY <1>2, <2>2, FoundFits DEF ConversationInv
  <2> QED
    BY <1>1, <2>1, <2>3, MoveOnly
<1> QED
  BY <1>3, <1>4

LEMMA CreateMoves ==
  ASSUME ConversationInv, NEW r \in Requests, Conv!CreatePrivate(r)
  PROVE  Moves(r)
<1> DEFINE o == asking[r]
<1>1. Conv!At(r, "create") /\ member' = member /\ block' = block
  BY DEF Conv!CreatePrivate
<1>2. o \in Conv!Request /\ Addressed(o, type, member, pair) /\ Allowed(o, type, member, block)
      /\ Making(o, type, member, pair) /\ o.pc = "create"
  BY <1>1, UnderWay DEF Conv!At
<1>3. PICK c \in ConversationUids \ Conv!Conversations :
        /\ type' = [type EXCEPT ![c] = "PRIVATE"]
        /\ pair' = [pair EXCEPT ![c] = {o.from, o.to}]
        /\ asking' = [asking EXCEPT ![r] = [o EXCEPT !.pc = "join", !.uid = c]]
  BY DEF Conv!CreatePrivate, Conv!Become
<1> DEFINE q == [o EXCEPT !.pc = "join", !.uid = c]
<1>4. c \in ConversationUids /\ type[c] = NoRow /\ o.from \in Writers /\ o.to \in Writers
  BY <1>2 DEF Conv!Conversations, Making, Conv!Request
<1>5. Rows(type', member', pair')
  BY <1>1, <1>3, <1>4 DEF ConversationInv, Rows, Conv!ConversationsAssumption
<1>6. Later(type, member, pair, type', member', pair') /\ block \subseteq block'
  BY <1>1, <1>3, <1>4 DEF ConversationInv, Rows, Later
<1>7. Fit(o, type', member', pair', block')
  BY <1>5, <1>6, FitLater DEF ConversationInv
<1>8. Addressed(o, type', member', pair') /\ Allowed(o, type', member', block')
      /\ Making(o, type', member', pair')
  BY <1>2, <1>7 DEF Fit, Conv!Idle
<1>9. /\ q \in Conv!Request /\ q.pc = "join" /\ q.conversation = o.conversation /\ q.from = o.from
      /\ q.session = o.session /\ q.to = o.to /\ q.uid = c /\ q.stood = o.stood /\ q.known = o.known
  BY <1>2, <1>4 DEF Conv!Request, Conv!Steps
<1> HIDE DEF q
<1>10. Addressed(q, type', member', pair')
  BY <1>2, <1>8, <1>9 DEF Addressed
<1>11. Allowed(q, type', member', block')
  BY <1>2, <1>8, <1>9 DEF Allowed
<1>12. Making(q, type', member', pair')
  <2>1. type'[c] = "PRIVATE" /\ pair'[c] = {o.from, o.to}
    BY <1>3, <1>4 DEF ConversationInv, Rows
  <2> QED
    BY <1>2, <1>4, <1>8, <1>9, <2>1 DEF Making
<1>13. asking' = [asking EXCEPT ![r] = q]
  BY <1>3 DEF q
<1> QED
  BY <1>5, <1>6, <1>9, <1>10, <1>11, <1>12, <1>13 DEF Moves, Fit

LEMMA JoinMoves ==
  ASSUME ConversationInv, NEW r \in Requests, Conv!CreateMembers(r)
  PROVE  Moves(r)
<1> DEFINE o == asking[r]
<1>1. Conv!At(r, "join")
  BY DEF Conv!CreateMembers
<1>2. o \in Conv!Request /\ Addressed(o, type, member, pair) /\ Allowed(o, type, member, block)
      /\ Making(o, type, member, pair) /\ o.pc = "join"
  BY <1>1, UnderWay DEF Conv!At
<1>3. CASE o.to = o.from
  BY <1>3, RefuseMoves DEF Conv!CreateMembers
<1>4. CASE o.to # o.from
  <2>1. /\ member' = [member EXCEPT ![o.uid] = {o.from, o.to}]
        /\ asking' = [asking EXCEPT
             ![r] = [o EXCEPT !.pc = "type", !.conversation = Conv!Found(o, o.uid)]]
        /\ type' = type /\ pair' = pair /\ block' = block
    BY <1>4 DEF Conv!CreateMembers, Conv!Become
  <2>2. /\ o.uid \in ConversationUids /\ type[o.uid] = "PRIVATE" /\ pair[o.uid] = {o.from, o.to}
        /\ o.from \in Writers /\ o.to \in Writers
    BY <1>2 DEF Making, Conv!Request
  <2>3. Rows(type', member', pair')
    BY <2>1, <2>2 DEF ConversationInv, Rows, Conv!ConversationsAssumption
  <2>4. Later(type, member, pair, type', member', pair') /\ block \subseteq block'
    BY <2>1, <2>2 DEF ConversationInv, Rows, Later
  <2>5. Fit(o, type', member', pair', block')
    BY <2>3, <2>4, FitLater DEF ConversationInv
  <2>6. Addressed(o, type', member', pair') /\ Allowed(o, type', member', block')
        /\ Making(o, type', member', pair')
    BY <1>2, <2>5 DEF Fit, Conv!Idle
  <2>7. type'[o.uid] = "PRIVATE" /\ {o.from, o.to} \subseteq member'[o.uid]
    BY <2>1, <2>2 DEF ConversationInv, Rows
  <2>8. Fit([o EXCEPT !.pc = "type", !.conversation = Conv!Found(o, o.uid)],
            type', member', pair', block')
    BY <1>2, <2>2, <2>3, <2>6, <2>7, FoundFits
  <2> QED
    BY <2>1, <2>3, <2>4, <2>8 DEF Moves
<1> QED
  BY <1>3, <1>4

LEMMA TypeMoves ==
  ASSUME ConversationInv, NEW r \in Requests, Conv!FindConversation(r)
  PROVE  Moves(r)
<1> DEFINE o == asking[r]
           to == IF o.to = NoRow /\ o.conversation # NoRow /\ type[o.conversation] = "PRIVATE"
                 THEN "other" ELSE "touch"
           q == [o EXCEPT !.pc = to]
<1>1. Conv!At(r, "type") /\ UNCHANGED <<type, member, block, pair>>
  BY DEF Conv!FindConversation, Conv!table
<1>2. o \in Conv!Request /\ Addressed(o, type, member, pair) /\ Allowed(o, type, member, block)
      /\ Making(o, type, member, pair) /\ o.pc = "type"
  BY <1>1, UnderWay DEF Conv!At
<1>3. asking' = [asking EXCEPT ![r] = q]
  BY GotoIs DEF Conv!FindConversation
<1>4. /\ q \in Conv!Request /\ q.pc = to /\ q.conversation = o.conversation /\ q.from = o.from
      /\ q.session = o.session /\ q.to = o.to /\ q.uid = o.uid /\ q.other = o.other
      /\ q.stood = o.stood /\ q.known = o.known
  <2>1. to \in Conv!Steps
    BY DEF Conv!Steps
  <2> HIDE DEF to
  <2> QED
    BY <1>2, <2>1, OnlyStep
<1> HIDE DEF q
<1>5. Addressed(q, type, member, pair)
  BY <1>2, <1>4 DEF Addressed
<1>6. Allowed(q, type, member, block)
  BY <1>2, <1>4 DEF Allowed
<1>7. Making(q, type, member, pair)
  BY <1>2, <1>4 DEF Making
<1> QED
  BY <1>1, <1>3, <1>4, <1>5, <1>6, <1>7, MoveOnly DEF Fit

\* Whoever else is in a private conversation makes it the one of the two.
LEMMA TwoMembers ==
  ASSUME Rows(type, member, pair), NEW c \in ConversationUids, type[c] = "PRIVATE",
         NEW u, NEW v, {u, v} \subseteq member[c], u # v
  PROVE  member[c] = {u, v}
<1>1. member[c] = pair[c]
  BY DEF Rows
<1>2. PICK x \in Writers, y \in Writers : pair[c] = {x, y}
  BY DEF Rows
<1> QED
  BY <1>1, <1>2

LEMMA OtherMoves ==
  ASSUME ConversationInv, NEW r \in Requests, Conv!FindOtherMember(r)
  PROVE  Moves(r)
<1> DEFINE o == asking[r]  others == member[o.conversation] \ {o.from}
<1>1. Conv!At(r, "other") /\ UNCHANGED <<type, member, block, pair>>
  BY DEF Conv!FindOtherMember, Conv!table
<1>2. o \in Conv!Request /\ Addressed(o, type, member, pair) /\ Allowed(o, type, member, block)
      /\ Making(o, type, member, pair) /\ o.pc = "other"
  BY <1>1, UnderWay DEF Conv!At
<1>3. CASE others = {} /\ Conv!Goto(r, "touch")
  <2> DEFINE q == [o EXCEPT !.pc = "touch"]
  <2>1. asking' = [asking EXCEPT ![r] = q]
    BY <1>3, GotoIs
  <2>2. /\ q \in Conv!Request /\ q.pc = "touch" /\ q.conversation = o.conversation /\ q.from = o.from
        /\ q.session = o.session /\ q.to = o.to /\ q.uid = o.uid /\ q.other = o.other
        /\ q.stood = o.stood /\ q.known = o.known
    BY <1>2, OnlyStep DEF Conv!Steps
  <2>3. member[o.conversation] \subseteq {o.from}
    BY <1>3
  <2>4. o.from \notin o.stood
    BY <1>2 DEF Allowed
  <2> HIDE DEF q
  <2>5. Addressed(q, type, member, pair)
    BY <1>2, <2>2 DEF Addressed
  <2>6. Allowed(q, type, member, block)
    BY <1>2, <2>2, <2>3, <2>4 DEF Allowed
  <2>7. Making(q, type, member, pair)
    BY <1>2, <2>2 DEF Making
  <2> QED
    BY <1>1, <2>1, <2>2, <2>5, <2>6, <2>7, MoveOnly DEF Fit
<1>4. ASSUME NEW u \in others, Conv!Become(r, [o EXCEPT !.pc = "block2", !.other = u])
      PROVE  Moves(r)
  <2> DEFINE q == [o EXCEPT !.pc = "block2", !.other = u]
  <2>1. asking' = [asking EXCEPT ![r] = q]
    BY <1>4 DEF Conv!Become
  <2>0. o.conversation \in ConversationUids /\ u \in Writers
    BY <1>2 DEF Addressed, ConversationInv, Rows
  <2>2. /\ q \in Conv!Request /\ q.pc = "block2" /\ q.conversation = o.conversation /\ q.from = o.from
        /\ q.session = o.session /\ q.to = o.to /\ q.uid = o.uid /\ q.other = u
        /\ q.stood = o.stood /\ q.known = o.known
    BY <1>2, <2>0 DEF Conv!Request, Conv!Steps
  <2> HIDE DEF q
  <2>3. Addressed(q, type, member, pair)
    BY <1>2, <2>2 DEF Addressed
  <2>4. Allowed(q, type, member, block)
    BY <1>2, <2>2 DEF Allowed
  <2>5. Making(q, type, member, pair)
    BY <1>2, <2>2 DEF Making
  <2> QED
    BY <1>1, <2>1, <2>2, <2>3, <2>4, <2>5, MoveOnly DEF Fit
<1> QED
  BY <1>3, <1>4 DEF Conv!FindOtherMember

LEMMA OtherBlockMoves ==
  ASSUME ConversationInv, NEW r \in Requests, Conv!CheckBlockOfOther(r)
  PROVE  Moves(r)
<1> DEFINE o == asking[r]  q == [o EXCEPT !.pc = "touch"]
<1>1. Conv!At(r, "block2")
  BY DEF Conv!CheckBlockOfOther
<1>2. o \in Conv!Request /\ Addressed(o, type, member, pair) /\ Allowed(o, type, member, block)
      /\ Making(o, type, member, pair) /\ o.pc = "block2"
  BY <1>1, UnderWay DEF Conv!At
<1>3. CASE o.other \in Conv!Blocked(o.from)
  BY <1>3, RefuseMoves DEF Conv!CheckBlockOfOther
<1>4. CASE o.other \notin Conv!Blocked(o.from)
  <2>1. asking' = [asking EXCEPT ![r] = q] /\ UNCHANGED <<type, member, block, pair>>
    BY <1>4, GotoIs DEF Conv!CheckBlockOfOther, Conv!table
  <2>2. /\ q \in Conv!Request /\ q.pc = "touch" /\ q.conversation = o.conversation /\ q.from = o.from
        /\ q.session = o.session /\ q.to = o.to /\ q.uid = o.uid /\ q.other = o.other
        /\ q.stood = o.stood /\ q.known = o.known
    BY <1>2, OnlyStep DEF Conv!Steps
  <2>3. /\ o.conversation \in ConversationUids /\ type[o.conversation] = "PRIVATE"
        /\ o.other \in member[o.conversation] /\ o.other # o.from
    BY <1>2 DEF Addressed
  <2>4. o.from \in member[o.conversation] => member[o.conversation] = {o.from, o.other}
    BY <2>3, TwoMembers DEF ConversationInv
  <2>5. o.from \notin o.stood /\ o.other \notin o.stood
    BY <1>2, <1>4 DEF Allowed, Conv!Blocked
  <2> HIDE DEF q
  <2>6. Addressed(q, type, member, pair)
    BY <1>2, <2>2 DEF Addressed
  <2>7. Allowed(q, type, member, block)
    BY <1>2, <2>2, <2>4, <2>5 DEF Allowed
  <2>8. Making(q, type, member, pair)
    BY <1>2, <2>2 DEF Making
  <2> QED
    BY <2>1, <2>2, <2>6, <2>7, <2>8, MoveOnly DEF Fit
<1> QED
  BY <1>3, <1>4

LEMMA TouchMoves ==
  ASSUME ConversationInv, NEW r \in Requests, Conv!TouchMember(r)
  PROVE  Moves(r)
<1> DEFINE o == asking[r]  q == [o EXCEPT !.pc = "insert"]
<1>1. Conv!At(r, "touch")
  BY DEF Conv!TouchMember
<1>2. o \in Conv!Request /\ Addressed(o, type, member, pair) /\ Allowed(o, type, member, block)
      /\ Making(o, type, member, pair) /\ o.pc = "touch"
  BY <1>1, UnderWay DEF Conv!At
<1>3. CASE ~(o.conversation # NoRow /\ o.from \in member[o.conversation])
  BY <1>3, RefuseMoves DEF Conv!TouchMember
<1>4. CASE o.conversation # NoRow /\ o.from \in member[o.conversation]
  <2>1. asking' = [asking EXCEPT ![r] = q] /\ UNCHANGED <<type, member, block, pair>>
    BY <1>4, GotoIs DEF Conv!TouchMember, Conv!table
  <2>2. /\ q \in Conv!Request /\ q.pc = "insert" /\ q.conversation = o.conversation /\ q.from = o.from
        /\ q.session = o.session /\ q.to = o.to /\ q.uid = o.uid /\ q.other = o.other
        /\ q.stood = o.stood /\ q.known = o.known
    BY <1>2, OnlyStep DEF Conv!Steps
  <2>3. type[o.conversation] # NoRow
    BY <1>2, <1>4 DEF Addressed, ConversationInv, Rows
  <2> HIDE DEF q
  <2>4. Addressed(q, type, member, pair)
    BY <1>2, <1>4, <2>2, <2>3 DEF Addressed
  <2>5. Allowed(q, type, member, block)
    BY <1>2, <2>2 DEF Allowed
  <2>6. Making(q, type, member, pair)
    BY <1>2, <2>2 DEF Making
  <2> QED
    BY <2>1, <2>2, <2>4, <2>5, <2>6, MoveOnly DEF Fit
<1> QED
  BY <1>3, <1>4

LEMMA FailMoves ==
  ASSUME ConversationInv, NEW r \in Requests, Conv!AwaitFails(r)
  PROVE  Moves(r)
<1>1. Fit(Conv!Idle, type, member, pair, block)
  BY DEF Fit
<1> QED
  BY <1>1, MoveOnly DEF Conv!AwaitFails, Conv!Become, Conv!table

\* A private conversation is made for two, and has both or is on its way.
LEMMA PairStays ==
  ASSUME ConversationInv, UNCHANGED <<type, member, pair, failures>>,
         \A r \in Requests : Conv!At(r, "join") =>
           asking'[r].pc = "join" /\ asking'[r].uid = asking[r].uid
  PROVE  Conv!PrivateIsAPair'
BY DEF ConversationInv, Conv!PrivateIsAPair, Conv!At, Conv!Conversations

LEMMA OthersStay ==
  ASSUME ConversationInv, NEW r \in Requests, NEW q, asking' = [asking EXCEPT ![r] = q],
         NEW x \in Requests, x # r
  PROVE  asking'[x] = asking[x]
BY DEF ConversationInv

\* A request that is not between the two inserts and changes no table.
LEMMA PairOfOthers ==
  ASSUME ConversationInv, NEW r \in Requests, NEW q, asking' = [asking EXCEPT ![r] = q],
         UNCHANGED <<type, member, pair, failures>>, ~Conv!At(r, "join")
  PROVE  Conv!PrivateIsAPair'
<1>1. \A x \in Requests : Conv!At(x, "join") => asking'[x] = asking[x]
  BY OthersStay
<1> QED
  BY <1>1, PairStays DEF Conv!At

LEMMA CreatePair ==
  ASSUME ConversationInv, NEW r \in Requests, Conv!CreatePrivate(r)
  PROVE  Conv!PrivateIsAPair'
<1> DEFINE o == asking[r]
<1>1. PICK c \in ConversationUids \ Conv!Conversations :
        /\ type' = [type EXCEPT ![c] = "PRIVATE"]
        /\ pair' = [pair EXCEPT ![c] = {o.from, o.to}]
        /\ asking' = [asking EXCEPT ![r] = [o EXCEPT !.pc = "join", !.uid = c]]
  BY DEF Conv!CreatePrivate, Conv!Become
<1>2. Conv!At(r, "create") /\ member' = member /\ failures' = failures
  BY DEF Conv!CreatePrivate
<1>3. o \in Conv!Request
  BY <1>2, UnderWay DEF Conv!At
<1>4. asking'[r].pc = "join" /\ asking'[r].uid = c
  BY <1>1, <1>3 DEF ConversationInv, Conv!Request
<1>5. \A x \in Requests : Conv!At(x, "join") => asking'[x] = asking[x]
  BY <1>1, <1>2, OthersStay DEF Conv!At
<1> SUFFICES ASSUME NEW d \in Conv!Conversations', type'[d] = "PRIVATE"
             PROVE  \/ member'[d] = pair'[d]
                    \/ /\ member'[d] = {}
                       /\ \/ failures' > 0
                          \/ \E u \in Writers : pair'[d] = {u}
                          \/ \E x \in Requests : asking'[x].pc = "join" /\ asking'[x].uid = d
  BY DEF Conv!PrivateIsAPair, Conv!At
<1>6. CASE d = c
  <2>1. member'[d] = {}
    BY <1>1, <1>2, <1>6 DEF Conv!Conversations, ConversationInv, Rows
  <2> QED
    BY <1>4, <1>6, <2>1
<1>7. CASE d # c
  <2>1. d \in Conv!Conversations /\ type[d] = "PRIVATE" /\ pair'[d] = pair[d]
    BY <1>1, <1>7 DEF Conv!Conversations, ConversationInv, Rows
  <2> QED
    BY <1>2, <1>5, <2>1 DEF ConversationInv, Conv!PrivateIsAPair, Conv!At
<1> QED
  BY <1>6, <1>7

LEMMA JoinPair ==
  ASSUME ConversationInv, NEW r \in Requests, Conv!CreateMembers(r)
  PROVE  Conv!PrivateIsAPair'
<1> DEFINE o == asking[r]
<1>1. Conv!At(r, "join") /\ type' = type /\ pair' = pair /\ failures' = failures
  BY DEF Conv!CreateMembers, Conv!Refuse, Conv!table
<1>2. o \in Conv!Request /\ Making(o, type, member, pair) /\ o.pc = "join"
  BY <1>1, UnderWay DEF Conv!At
<1>3. /\ o.uid \in ConversationUids /\ pair[o.uid] = {o.from, o.to} /\ o.from \in Writers
      /\ o.to \in Writers
  BY <1>2 DEF Making, Conv!Request
<1>4. \A x \in Requests : x # r => asking'[x] = asking[x]
  BY OthersStay DEF Conv!CreateMembers, Conv!Refuse, Conv!Become
<1>5. /\ \A d \in ConversationUids : d # o.uid => member'[d] = member[d]
      /\ o.to # o.from => member'[o.uid] = pair[o.uid]
      /\ o.to = o.from => member'[o.uid] = member[o.uid]
  BY <1>3 DEF Conv!CreateMembers, Conv!Refuse, Conv!table, ConversationInv, Rows
<1>6. o.to = o.from => \E u \in Writers : pair[o.uid] = {u}
  BY <1>3
<1> SUFFICES ASSUME NEW d \in Conv!Conversations', type'[d] = "PRIVATE"
             PROVE  \/ member'[d] = pair'[d]
                    \/ /\ member'[d] = {}
                       /\ \/ failures' > 0
                          \/ \E u \in Writers : pair'[d] = {u}
                          \/ \E x \in Requests : asking'[x].pc = "join" /\ asking'[x].uid = d
  BY DEF Conv!PrivateIsAPair, Conv!At
<1>7. d \in Conv!Conversations /\ type[d] = "PRIVATE" /\ d \in ConversationUids
  BY <1>1 DEF Conv!Conversations
<1>8. \/ member[d] = pair[d]
      \/ /\ member[d] = {}
         /\ \/ failures > 0
            \/ \E u \in Writers : pair[d] = {u}
            \/ \E x \in Requests : asking[x].pc = "join" /\ asking[x].uid = d
  BY <1>7 DEF ConversationInv, Conv!PrivateIsAPair, Conv!At
<1>9. CASE d = o.uid
  <2>1. CASE o.to # o.from
    BY <1>1, <1>5, <1>9, <2>1
  <2>2. CASE o.to = o.from
    BY <1>1, <1>5, <1>6, <1>8, <1>9, <2>2
  <2> QED
    BY <2>1, <2>2
<1>10. CASE d # o.uid
  <2>1. member'[d] = member[d]
    BY <1>5, <1>7, <1>10
  <2>2. \A x \in Requests : asking[x].uid = d => asking'[x] = asking[x]
    BY <1>4, <1>10
  <2> QED
    BY <1>1, <1>8, <2>1, <2>2
<1> QED
  BY <1>9, <1>10

LEMMA FailPair ==
  ASSUME ConversationInv, NEW r \in Requests, Conv!AwaitFails(r)
  PROVE  Conv!PrivateIsAPair'
<1>1. UNCHANGED <<type, member, pair>> /\ failures' > 0
  BY DEF Conv!AwaitFails, Conv!table, ConversationInv, Conv!ConversationsAssumption
<1> QED
  BY <1>1 DEF Conv!PrivateIsAPair, ConversationInv, Conv!Conversations

\* What the rest of the system does to the tables.
LEMMA SessionCreated ==
  ASSUME ConversationInv, NEW u \in Players, Conv!CreateSessionConversation(u)
  PROVE  ConversationInv'
<1>1. PICK c \in ConversationUids \ Conv!Conversations :
        type' = [type EXCEPT ![c] = "SESSION"] /\ member' = [member EXCEPT ![c] = {u}]
  BY DEF Conv!CreateSessionConversation
<1>2. UNCHANGED <<block, asking, pair, failures>>
  BY DEF Conv!CreateSessionConversation
<1>3. c \in ConversationUids /\ type[c] = NoRow /\ u \in Writers
  BY DEF Conv!Conversations, ConversationInv, Conv!ConversationsAssumption
<1>4. Rows(type', member', pair')
  BY <1>1, <1>2, <1>3 DEF ConversationInv, Rows, Conv!ConversationsAssumption
<1>5. Later(type, member, pair, type', member', pair')
  BY <1>1, <1>2, <1>3 DEF ConversationInv, Rows, Later
<1>6. \A r \in Requests : Fit(asking'[r], type', member', pair', block')
  BY <1>2, <1>4, <1>5, FitLater DEF ConversationInv
<1>7. Conv!PrivateIsAPair'
  <2>1. \A d \in Conv!Conversations' : type'[d] = "PRIVATE" =>
          d \in Conv!Conversations /\ type[d] = "PRIVATE" /\ member'[d] = member[d]
    BY <1>1, <1>3 DEF Conv!Conversations, ConversationInv, Rows
  <2> QED
    BY <1>2, <2>1 DEF ConversationInv, Conv!PrivateIsAPair, Conv!At
<1>8. asking' = [r \in Requests |-> asking'[r]] /\ failures' \in 0 .. MaxFailures
  BY <1>2 DEF ConversationInv
<1> QED
  BY <1>4, <1>6, <1>7, <1>8 DEF ConversationInv

LEMMA SessionMoved ==
  ASSUME ConversationInv, NEW c \in ConversationUids, NEW u \in Players, Conv!SessionMemberMoves(c, u)
  PROVE  ConversationInv'
<1>1. /\ type[c] = "SESSION"
      /\ member' = [member EXCEPT
           ![c] = IF u \in member[c] THEN member[c] \ {u} ELSE member[c] \cup {u}]
      /\ UNCHANGED <<type, block, asking, pair, failures>>
  BY DEF Conv!SessionMemberMoves
<1>2. u \in Writers
  BY DEF ConversationInv, Conv!ConversationsAssumption
<1>3. Rows(type', member', pair')
  BY <1>1, <1>2 DEF ConversationInv, Rows, Conv!ConversationsAssumption
<1>4. Later(type, member, pair, type', member', pair')
  BY <1>1 DEF ConversationInv, Rows, Later
<1>5. \A r \in Requests : Fit(asking'[r], type', member', pair', block')
  BY <1>1, <1>3, <1>4, FitLater DEF ConversationInv
<1>6. Conv!PrivateIsAPair'
  <2>1. \A d \in Conv!Conversations : type[d] = "PRIVATE" => member'[d] = member[d]
    BY <1>1 DEF Conv!Conversations, ConversationInv, Rows
  <2>2. Conv!Conversations' = Conv!Conversations
    BY <1>1 DEF Conv!Conversations
  <2> QED
    BY <1>1, <2>1, <2>2 DEF ConversationInv, Conv!PrivateIsAPair, Conv!At
<1>7. asking' = [r \in Requests |-> asking'[r]] /\ failures' \in 0 .. MaxFailures
  BY <1>1 DEF ConversationInv
<1> QED
  BY <1>3, <1>5, <1>6, <1>7 DEF ConversationInv

LEMMA Blocks ==
  ASSUME ConversationInv, NEW p \in Quarrels, Conv!Block(p)
  PROVE  ConversationInv'
<1>1. block' = block \cup {p} /\ UNCHANGED <<type, member, asking, pair, failures>>
  BY DEF Conv!Block
<1>2. Rows(type', member', pair') /\ block \subseteq block'
  BY <1>1 DEF ConversationInv, Rows
<1>3. Later(type, member, pair, type', member', pair')
  BY <1>1 DEF Later
<1>4. \A r \in Requests : Fit(asking'[r], type', member', pair', block')
  BY <1>1, <1>2, <1>3, FitLater DEF ConversationInv
<1>5. Conv!PrivateIsAPair'
  BY <1>1 DEF ConversationInv, Conv!PrivateIsAPair, Conv!At, Conv!Conversations
<1>6. asking' = [r \in Requests |-> asking'[r]] /\ failures' \in 0 .. MaxFailures
  BY <1>1 DEF ConversationInv
<1> QED
  BY <1>2, <1>4, <1>5, <1>6 DEF ConversationInv

\* Who is unblocked no longer stands against the messages under way.
LEMMA Unblocks ==
  ASSUME ConversationInv, NEW p \in Quarrels, Conv!Unblock(p)
  PROVE  ConversationInv'
<1>1. block' = block \ {p} /\ UNCHANGED <<type, member, pair, failures>>
  BY DEF Conv!Unblock
<1>2. Rows(type', member', pair')
  BY <1>1 DEF ConversationInv, Rows
<1>3. \A r \in Requests : asking'[r] =
        IF asking[r] # Conv!Idle /\ asking[r].from \in p
        THEN [asking[r] EXCEPT !.stood = @ \ p] ELSE asking[r]
  BY DEF Conv!Unblock
<1>4. ASSUME NEW r \in Requests
      PROVE  /\ Fit(asking'[r], type', member', pair', block')
             /\ Conv!At(r, "join") => asking'[r].pc = "join" /\ asking'[r].uid = asking[r].uid
  <2> DEFINE o == asking[r]  q == asking'[r]
  <2>1. CASE o = Conv!Idle
    <3>1. q = Conv!Idle
      BY <1>3, <2>1
    <3>2. Fit(q, type', member', pair', block')
      BY <3>1 DEF Fit
    <3> QED
      BY <2>1, <3>1, <3>2 DEF Conv!At
  <2>2. CASE o # Conv!Idle
    <3>1. o \in Conv!Request /\ Addressed(o, type, member, pair) /\ Allowed(o, type, member, block)
          /\ Making(o, type, member, pair)
      BY <2>2 DEF ConversationInv, Fit
    <3>2. /\ q \in Conv!Request /\ q.pc = o.pc /\ q.conversation = o.conversation /\ q.from = o.from
          /\ q.session = o.session /\ q.to = o.to /\ q.uid = o.uid /\ q.other = o.other
          /\ q.known = o.known
          /\ q.stood = IF o.from \in p THEN o.stood \ p ELSE o.stood
      BY <1>3, <2>2, <3>1 DEF Conv!Request
    <3> HIDE DEF q
    <3>3. Addressed(q, type', member', pair')
      BY <1>1, <3>1, <3>2 DEF Addressed
    <3>4. q.stood \subseteq {w \in Writers \ {q.from} : {q.from, w} \in block'}
      <4> SUFFICES ASSUME NEW w \in q.stood
                   PROVE  w \in Writers \ {q.from} /\ {q.from, w} \in block'
        OBVIOUS
      <4>1. w \in o.stood /\ o.stood \subseteq {x \in Writers \ {o.from} : {o.from, x} \in block}
        BY <3>1, <3>2 DEF Allowed
      <4>2. {o.from, w} # p
        <5> SUFFICES ASSUME {o.from, w} = p PROVE FALSE
          OBVIOUS
        <5>1. o.from \in p /\ w \in p
          OBVIOUS
        <5> QED
          BY <3>2, <5>1
      <4> QED
        BY <1>1, <3>2, <4>1, <4>2
    <3>5. Allowed(q, type', member', block')
      <4>1. q.stood \subseteq o.stood
        BY <3>2
      <4> QED
        BY <1>1, <3>1, <3>2, <3>4, <4>1 DEF Allowed
    <3>6. Making(q, type', member', pair')
      BY <1>1, <3>1, <3>2 DEF Making
    <3>7. Fit(q, type', member', pair', block')
      BY <3>2, <3>3, <3>5, <3>6 DEF Fit
    <3> QED
      BY <3>2, <3>7 DEF Conv!At, q
  <2> QED
    BY <2>1, <2>2
<1>5. Conv!PrivateIsAPair'
  BY <1>1, <1>4, PairStays
<1>6. asking' = [r \in Requests |-> asking'[r]]
  BY DEF Conv!Unblock
<1> QED
  BY <1>1, <1>2, <1>4, <1>5, <1>6 DEF ConversationInv

\* One request moves, the others find what they rely on.
LEMMA MoveKeeps ==
  ASSUME ConversationInv, NEW r \in Requests, Moves(r), Conv!PrivateIsAPair',
         failures' \in 0 .. MaxFailures
  PROVE  ConversationInv'
<1>1. PICK q : asking' = [asking EXCEPT ![r] = q] /\ Fit(q, type', member', pair', block')
  BY DEF Moves
<1>2. \A x \in Requests : Fit(asking[x], type', member', pair', block')
  BY FitLater DEF Moves, ConversationInv
<1>3. \A x \in Requests : Fit(asking'[x], type', member', pair', block')
  BY <1>1, <1>2 DEF ConversationInv
<1>4. asking' = [x \in Requests |-> asking'[x]]
  BY <1>1 DEF ConversationInv
<1> QED
  BY <1>3, <1>4 DEF ConversationInv, Moves

\* The requests that are not between the two inserts.
LEMMA QuietPair ==
  ASSUME ConversationInv, NEW r \in Requests,
         \/ \E from \in Writers, session \in BOOLEAN, to \in Writers \cup {NoRow},
               uid \in ConversationUids \cup {NoRow} : Conv!MessageArrives(r, from, session, to, uid)
         \/ Conv!FindSessionConversation(r) \/ Conv!CheckBlock(r) \/ Conv!FindPrivate(r)
         \/ Conv!FindConversation(r) \/ Conv!FindOtherMember(r) \/ Conv!CheckBlockOfOther(r)
         \/ Conv!TouchMember(r) \/ Conv!InsertMessage(r)
  PROVE  Conv!PrivateIsAPair' /\ failures' = failures
<1>1. UNCHANGED <<type, member, pair, failures>> /\ ~Conv!At(r, "join")
  BY DEF Conv!MessageArrives, Conv!FindSessionConversation, Conv!CheckBlock, Conv!FindPrivate,
         Conv!FindConversation, Conv!FindOtherMember, Conv!CheckBlockOfOther, Conv!TouchMember,
         Conv!InsertMessage, Conv!At, Conv!table, Conv!Refuse
<1>2. Moves(r)
  <2>1. CASE \/ \E from \in Writers, session \in BOOLEAN, to \in Writers \cup {NoRow},
               uid \in ConversationUids \cup {NoRow} : Conv!MessageArrives(r, from, session, to, uid)
             \/ Conv!FindSessionConversation(r) \/ Conv!CheckBlock(r)
    BY <2>1, ArriveMoves, SessionMoves, BlockMoves
  <2>2. CASE Conv!FindPrivate(r) \/ Conv!FindConversation(r) \/ Conv!FindOtherMember(r)
    BY <2>2, FindMoves, TypeMoves, OtherMoves
  <2>3. CASE Conv!CheckBlockOfOther(r) \/ Conv!TouchMember(r)
    BY <2>3, OtherBlockMoves, TouchMoves
  <2>4. CASE Conv!InsertMessage(r)
    BY <2>4, RefuseMoves DEF Conv!InsertMessage
  <2> QED
    BY <2>1, <2>2, <2>3, <2>4
<1>3. PICK q : asking' = [asking EXCEPT ![r] = q]
  BY <1>2 DEF Moves
<1> QED
  BY <1>1, <1>3, PairOfOthers

LEMMA WorkKeeps ==
  ASSUME ConversationInv, NEW r \in Requests, Conv!Work(r)
  PROVE  ConversationInv'
<1>1. failures \in 0 .. MaxFailures
  BY DEF ConversationInv
<1>2. CASE \/ Conv!FindSessionConversation(r) \/ Conv!CheckBlock(r)
           \/ Conv!FindPrivate(r) \/ Conv!FindConversation(r)
  BY <1>1, <1>2, QuietPair, SessionMoves, BlockMoves, FindMoves, TypeMoves, MoveKeeps
<1>3. CASE Conv!FindOtherMember(r) \/ Conv!CheckBlockOfOther(r) \/ Conv!TouchMember(r)
  BY <1>1, <1>3, QuietPair, OtherMoves, OtherBlockMoves, TouchMoves, MoveKeeps
<1>4. CASE Conv!InsertMessage(r)
  BY <1>1, <1>4, QuietPair, RefuseMoves, MoveKeeps DEF Conv!InsertMessage
<1>5. CASE Conv!CreatePrivate(r)
  <2>1. failures' = failures
    BY <1>5 DEF Conv!CreatePrivate
  <2> QED
    BY <1>1, <1>5, <2>1, CreatePair, CreateMoves, MoveKeeps
<1>6. CASE Conv!CreateMembers(r)
  <2>1. failures' = failures
    BY <1>6 DEF Conv!CreateMembers, Conv!Refuse
  <2> QED
    BY <1>1, <1>6, <2>1, JoinPair, JoinMoves, MoveKeeps
<1> QED
  BY <1>2, <1>3, <1>4, <1>5, <1>6 DEF Conv!Work

LEMMA NextKeeps ==
  ASSUME ConversationInv, Conv!Next
  PROVE  ConversationInv'
<1>1. failures \in 0 .. MaxFailures
  BY DEF ConversationInv
<1>2. ASSUME NEW r \in Requests, NEW from \in Writers, NEW session \in BOOLEAN,
             NEW to \in Writers \cup {NoRow}, NEW uid \in ConversationUids \cup {NoRow},
             Conv!MessageArrives(r, from, session, to, uid)
      PROVE  ConversationInv'
  BY <1>1, <1>2, QuietPair, ArriveMoves, MoveKeeps
<1>3. ASSUME NEW r \in Requests, Conv!AwaitFails(r) PROVE ConversationInv'
  <2>1. failures' \in 0 .. MaxFailures
    BY <1>1, <1>3 DEF Conv!AwaitFails, ConversationInv, Conv!ConversationsAssumption
  <2> QED
    BY <1>3, <2>1, FailPair, FailMoves, MoveKeeps
<1> QED
  BY <1>2, <1>3, WorkKeeps, SessionCreated, SessionMoved, Blocks, Unblocks DEF Conv!Next

LEMMA InitFits == Conv!ConversationsAssumption /\ Conv!Init => ConversationInv
<1> SUFFICES ASSUME Conv!ConversationsAssumption, Conv!Init PROVE ConversationInv
  OBVIOUS
<1>1. Rows(type, member, pair)
  BY DEF Conv!Init, Rows, Conv!ConversationsAssumption
<1>2. \A r \in Requests : Fit(asking[r], type, member, pair, block)
  BY DEF Conv!Init, Fit
<1>3. asking = [r \in Requests |-> asking[r]] /\ failures \in 0 .. MaxFailures
  BY DEF Conv!Init, Conv!ConversationsAssumption
<1>4. Conv!PrivateIsAPair
  BY DEF Conv!Init, Conv!PrivateIsAPair, Conv!Conversations
<1> QED
  BY <1>1, <1>2, <1>3, <1>4 DEF ConversationInv

LEMMA StutterKeeps == ConversationInv /\ UNCHANGED Conv!vars => ConversationInv'
BY DEF ConversationInv, Conv!ConversationsAssumption, Conv!vars, Conv!PrivateIsAPair,
       Conv!Conversations, Conv!At

LEMMA SpecKeeps == Conv!ConversationsAssumption /\ Conv!Spec => []ConversationInv
<1>1. ConversationInv /\ [Conv!Next]_(Conv!vars) => ConversationInv'
  BY NextKeeps, StutterKeeps
<1> QED
  BY <1>1, InitFits, PTL DEF Conv!Spec

\* What the invariant says of a message about to be inserted.
LEMMA ReusedFromInv == ConversationInv => KnownPairIsReused
<1> SUFFICES ASSUME ConversationInv, NEW r \in Requests, asking[r].pc \in {"create", "join"}
             PROVE  ~asking[r].known
  BY DEF KnownPairIsReused, Conv!KnownPairIsReused
<1>1. ~Conv!At(r, "idle")
  BY DEF Conv!At
<1> QED
  BY <1>1, UnderWay DEF Making

LEMMA AddressedFromInv == ConversationInv => MessagesGoWhereTheyMay
<1> SUFFICES ASSUME ConversationInv, NEW r \in Requests, Conv!At(r, "insert"),
                    type[asking[r].conversation] = "PRIVATE"
             PROVE  /\ asking[r].from \in member[asking[r].conversation]
                    /\ asking[r].to \notin {NoRow, asking[r].from} =>
                         member[asking[r].conversation] = {asking[r].from, asking[r].to}
                    /\ asking[r].to # asking[r].from =>
                         member[asking[r].conversation] \cap asking[r].stood = {}
  BY DEF MessagesGoWhereTheyMay, Conv!MessagesGoWhereTheyMay, Conv!PostedWhereAddressed, Conv!BlockStopsMessages
<1> DEFINE q == asking[r]  c == q.conversation
<1>1. q \in Conv!Request /\ Addressed(q, type, member, pair) /\ Allowed(q, type, member, block)
      /\ q.pc = "insert"
  BY UnderWay DEF Conv!At
<1>2. Rows(type, member, pair)
  BY DEF ConversationInv
<1>3. c \in ConversationUids /\ q.from \in member[c] /\ ~q.session
  BY <1>1 DEF Addressed, Conv!Request
<1>4. ASSUME q.to \notin {NoRow, q.from}
      PROVE  member[c] = {q.from, q.to}
  <2>1. {q.from, q.to} \subseteq member[c]
    BY <1>1, <1>3, <1>4 DEF Addressed
  <2> QED
    BY <1>2, <1>3, <1>4, <2>1, TwoMembers
<1>5. ASSUME q.to # q.from
      PROVE  member[c] \cap q.stood = {}
  <2>1. CASE q.to = NoRow
    BY <1>1, <1>3, <2>1 DEF Allowed, Addressed
  <2>2. CASE q.to # NoRow
    <3>1. q.to \notin q.stood
      BY <1>1, <2>2 DEF Allowed, Conv!Request
    <3>2. q.from \notin q.stood
      BY <1>1 DEF Allowed
    <3> QED
      BY <1>4, <1>5, <2>2, <3>1, <3>2
  <2> QED
    BY <2>1, <2>2
<1> QED
  BY <1>3, <1>4, <1>5

\* However the requests of two users interleave and fail, a private conversation
\* has the two members it was made for, or none as long as its request is between
\* the two inserts, once an await has failed, or if somebody wrote to himself
\* (createPrivateConversation).
THEOREM PrivatesArePairs == Conv!Spec => []PrivateIsAPair
<1>1. ConversationInv => PrivateIsAPair
  BY DEF ConversationInv, PrivateIsAPair
<1> QED
  BY <1>1, SpecKeeps, WritersAssumption, PTL

\* Whoever has a private conversation with the recipient when a message comes
\* does not get another one by it: private conversations keep their members, so
\* the lookup finds one (createMessage).
THEOREM PairsAreReused == Conv!Spec => []KnownPairIsReused
BY ReusedFromInv, SpecKeeps, WritersAssumption, PTL

\* A message in a private conversation is by a member of it and in that of the
\* sender and the recipient if one is named, and no block of the two that has
\* stood since it came let it pass (createMessage, createTextMessage).
THEOREM MessagesAreAddressed == Conv!Spec => []MessagesGoWhereTheyMay
BY AddressedFromInv, SpecKeeps, WritersAssumption, PTL

================================================================================
