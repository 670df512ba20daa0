-------------------------- MODULE SessionInvitations --------------------------
(***************************************************************************)
(* The invitations to one session (SessionInvitationsService): inviting a  *)
(* list of users, and answering or cancelling an invitation.               *)
(*                                                                         *)
(* Requests interleave between awaits.  Only two steps write: the          *)
(* transaction of upserts that ends an invite, and the update of one row   *)
(* that ends a cancel.  The transaction that ends an accept writes both    *)
(* the row and a player, and is rolled back as a whole when either fails.  *)
(***************************************************************************)
EXTENDS Naturals, FiniteSets

CONSTANTS
  Users,       \* the users who invite and are invited
  Lists,       \* the lists of receivers a sender may invite at once
  Answers,     \* the statuses a client may ask for
  Movers,      \* the users who may join and leave the session meanwhile
  Teams,       \* the uids of the Session_teams rows of the session
  SessionUid,  \* the uid of the session
  Requests,    \* the requests the server may be working on at one time
  BlockPairs   \* the <<blocker, blocked>> rows User_blocks may hold

\* Every uid is a cuid of its own: no team has the uid of the session.
ASSUME InvitationAssumption ==
  /\ Movers \subseteq Users
  /\ Lists \subseteq SUBSET Users
  /\ Answers \subseteq {"PENDING", "ACCEPTED", "REJECTED", "CANCELED"}
  /\ SessionUid \notin Teams
  /\ BlockPairs \subseteq (Users \X Users)

VARIABLES
  invitation,  \* Session_invitations: the status by <<sender, receiver>>
  players,     \* the users with a row in Session_players
  blocks,      \* the rows of User_blocks
  request,     \* what each request in flight is doing
  standing     \* history: the objections that held since a request began

vars == <<invitation, players, blocks, request, standing>>

-----------------------------------------------------------------------------
InvitationStatus == {"PENDING", "ACCEPTED", "REJECTED", "CANCELED"}

\* No one invites oneself: the loop over the receivers skips the sender.
Pairs == {p \in Users \X Users : p[1] # p[2]}

InviteSteps == {"block", "player", "invited", "upsert"}
UpdateSteps == {"find", "cancel", "players", "blocks", "accept"}

NoPair == <<"none", "none">>

Idle == [op |-> "idle", pc |-> "idle", user |-> "none", todo |-> {}, valid |-> {},
         status |-> "none", pair |-> NoPair, seen |-> {}]

\* pair is the row an invite is checking and an update has found, todo the
\* receivers still to check, valid those that passed, seen the players read.
Request ==
  [op : {"invite", "update"}, pc : InviteSteps \cup UpdateSteps, user : Users,
   todo : SUBSET Users, valid : SUBSET Users, status : InvitationStatus \cup {"none"},
   pair : Pairs \cup {NoPair}, seen : SUBSET Users]

InFlight(r) == request[r].op # "idle"
At(r, pc) == request[r].pc = pc
Sender(p) == p[1]
Receiver(p) == p[2]
BlockedBetween(u, v) == <<u, v>> \in blocks \/ <<v, u>> \in blocks
Exists(p) == invitation[p] # "none"

\* Whatever forbids the request r right now, by the user it is about.
Objections(r) ==
  LET q == request[r] IN
  IF q.op = "invite"
  THEN {<<v, "blocked">> : v \in {w \in Users : BlockedBetween(q.user, w)}}
       \cup {<<v, "seated">> : v \in players}
       \cup {<<v, "invited">> : v \in {w \in Users \ {q.user} :
                                 invitation[<<q.user, w>>] \in {"PENDING", "ACCEPTED"}}}
  ELSE IF q.op = "update"
  THEN {<<v, "foe">> : v \in {w \in players : BlockedBetween(q.user, w)}}
  ELSE {}

\* The history of each request: begun with it, then weakened by every step.
Observe ==
  standing' = [r \in Requests |->
    IF InFlight(r) THEN standing[r] \cap Objections(r)' ELSE Objections(r)']

Init ==
  /\ invitation = [p \in Pairs |-> "none"]
  /\ players \in SUBSET Movers
  /\ blocks = {}
  /\ request = [r \in Requests |-> Idle]
  /\ standing = [r \in Requests |-> {}]

-----------------------------------------------------------------------------
Become(r, q) ==
  /\ request' = [request EXCEPT ![r] = q]
  /\ UNCHANGED <<invitation, players, blocks>>
  /\ Observe

Refuse(r) == Become(r, Idle)

\* The next turn of the loop over the receivers, in the order of the client's
\* list, or what comes after the loop.
NextReceiver(r, q) ==
  \/ \E v \in q.todo :
       Become(r, [q EXCEPT !.pc = "block", !.pair = <<q.user, v>>, !.todo = q.todo \ {v}])
  \/ q.todo = {} /\ q.valid # {} /\ Become(r, [q EXCEPT !.pc = "upsert", !.pair = NoPair])
  \/ q.todo = {} /\ q.valid = {} /\ Refuse(r)

\* createMany, after the sender and the session have been read.
InviteArrives(r, u, receivers) ==
  /\ ~InFlight(r)
  /\ NextReceiver(r, [Idle EXCEPT !.op = "invite", !.user = u, !.todo = receivers \ {u}])

\* One check of the current receiver: go on to pc, or `continue` the loop.
CheckReceiver(r, from, ok, pc) ==
  LET q == request[r] IN
  /\ At(r, from)
  /\ IF ok THEN Become(r, [q EXCEPT !.pc = pc]) ELSE NextReceiver(r, q)

CheckReceiverBlock(r) ==
  CheckReceiver(r, "block",
                ~BlockedBetween(Sender(request[r].pair), Receiver(request[r].pair)), "player")

CheckReceiverPlayer(r) ==
  CheckReceiver(r, "player", Receiver(request[r].pair) \notin players, "invited")

\* Mutant: an invitation that was accepted may be sent again, and so may one
\* that is waiting for its answer.
CheckNotInvitedAlways(r) ==
  LET q == request[r] IN
  /\ At(r, "invited")
  /\ NextReceiver(r, [q EXCEPT !.valid = q.valid \cup {Receiver(q.pair)}])

CheckNotInvited(r) ==
  LET q == request[r] IN
  /\ At(r, "invited")
  /\ IF invitation[q.pair] \in {"ACCEPTED", "PENDING"}
     THEN NextReceiver(r, q)
     ELSE NextReceiver(r, [q EXCEPT !.valid = q.valid \cup {Receiver(q.pair)}])

\* One transaction: every valid receiver has a PENDING invitation after it,
\* whatever has become of the rows since they were checked.
UpsertInvitations(r) ==
  LET q == request[r] IN
  /\ At(r, "upsert")
  /\ invitation' = [p \in Pairs |->
       IF Sender(p) = q.user /\ Receiver(p) \in q.valid THEN "PENDING" ELSE invitation[p]]
  /\ request' = [request EXCEPT ![r] = Idle]
  /\ UNCHANGED <<players, blocks>>
  /\ Observe

-----------------------------------------------------------------------------
(* update: PATCH with the new status.                                      *)

UpdateArrives(r, u, status) ==
  /\ ~InFlight(r)
  /\ Become(r, [Idle EXCEPT !.op = "update", !.pc = "find", !.user = u, !.status = status])

\* Mutant: isSender and isReceiver are the wrong way round.
DispatchSwapped(r, q, p) ==
  LET found == [q EXCEPT !.pair = p] IN
  IF q.status = "CANCELED" /\ q.user = Receiver(p) /\ invitation[p] # q.status
  THEN Become(r, [found EXCEPT !.pc = "cancel"])
  ELSE IF q.status = "ACCEPTED" /\ q.user = Sender(p) /\ invitation[p] # q.status
  THEN Become(r, [found EXCEPT !.pc = "players"])
  ELSE Refuse(r)

\* What the handler goes on with when it has found the row p.  A reject
\* passes every check, writes nothing and answers 204.
Dispatch(r, q, p) ==
  LET found == [q EXCEPT !.pair = p] IN
  IF q.status = "CANCELED" /\ q.user = Sender(p) /\ invitation[p] # q.status
  THEN Become(r, [found EXCEPT !.pc = "cancel"])
  ELSE IF q.status = "ACCEPTED" /\ q.user = Receiver(p) /\ invitation[p] # q.status
  THEN Become(r, [found EXCEPT !.pc = "players"])
  ELSE Refuse(r)

\* findFirst has no order: of several rows that the user sent or received,
\* any one may be the first.
FindInvitation(r) ==
  LET q == request[r]
      mine == {p \in Pairs : Exists(p) /\ q.user \in {Sender(p), Receiver(p)}} IN
  /\ At(r, "find")
  /\ \/ mine = {} /\ Refuse(r)
     \/ \E p \in mine : Dispatch(r, q, p)

CancelInvitation(r) ==
  LET q == request[r] IN
  /\ At(r, "cancel")
  /\ invitation' = [invitation EXCEPT ![q.pair] = "CANCELED"]
  /\ request' = [request EXCEPT ![r] = Idle]
  /\ UNCHANGED <<players, blocks>>
  /\ Observe

ReadSessionPlayers(r) ==
  LET q == request[r] IN
  /\ At(r, "players")
  /\ Become(r, [q EXCEPT !.pc = IF players = {} THEN "accept" ELSE "blocks", !.seen = players])

\* Mutant: only the blocks made by the receiver count.
CheckPlayerBlocksOneWay(r) ==
  LET q == request[r] IN
  /\ At(r, "blocks")
  /\ IF \E v \in q.seen : <<q.user, v>> \in blocks
     THEN Refuse(r)
     ELSE Become(r, [q EXCEPT !.pc = "accept"])

CheckPlayerBlocks(r) ==
  LET q == request[r] IN
  /\ At(r, "blocks")
  /\ IF \E v \in q.seen : BlockedBetween(q.user, v)
     THEN Refuse(r)
     ELSE Become(r, [q EXCEPT !.pc = "accept"])

\* The team of the new player is the uid of the session, and the foreign key
\* Session_players_team_uid_fkey needs a row of Session_teams.
AcceptInvitation(r) ==
  LET q == request[r]
      teamUid == SessionUid
      commits == teamUid \in Teams /\ q.user \notin players IN
  /\ At(r, "accept")
  /\ players' = IF commits THEN players \cup {q.user} ELSE players
  /\ invitation' = IF commits THEN [invitation EXCEPT ![q.pair] = "ACCEPTED"] ELSE invitation
  /\ request' = [request EXCEPT ![r] = Idle]
  /\ UNCHANGED blocks
  /\ Observe

-----------------------------------------------------------------------------
(* What the rest of the system does meanwhile.                             *)

\* SessionPlayersService.joinSession and leaveSession.
Sit(u) == u \notin players /\ players' = players \cup {u}
Rise(u) == u \in players /\ players' = players \ {u}

PlayersChange(u) ==
  /\ Sit(u) \/ Rise(u)
  /\ UNCHANGED <<invitation, blocks, request>>
  /\ Observe

\* ModerationService.blockUser and unblockUser.
BlocksChange(p) ==
  /\ \/ p \notin blocks /\ blocks' = blocks \cup {p}
     \/ p \in blocks /\ blocks' = blocks \ {p}
  /\ UNCHANGED <<invitation, players, request>>
  /\ Observe

Next ==
  \/ \E r \in Requests, u \in Users :
       \/ \E receivers \in Lists : InviteArrives(r, u, receivers)
       \/ \E status \in Answers : UpdateArrives(r, u, status)
  \/ \E r \in Requests :
       \/ CheckReceiverBlock(r) \/ CheckReceiverPlayer(r) \/ CheckNotInvited(r)
       \/ UpsertInvitations(r)
       \/ FindInvitation(r) \/ CancelInvitation(r)
       \/ ReadSessionPlayers(r) \/ CheckPlayerBlocks(r) \/ AcceptInvitation(r)
  \/ \E u \in Movers : PlayersChange(u)
  \/ \E p \in BlockPairs : BlocksChange(p)

Spec == Init /\ [][Next]_vars

-----------------------------------------------------------------------------
(* Properties.                                                             *)

\* Every table and request keeps its type; a request that has a row at hand
\* is its sender or its receiver.
TypeOK ==
  /\ invitation \in [Pairs -> InvitationStatus \cup {"none"}]
  /\ players \subseteq Users
  /\ blocks \subseteq BlockPairs
  /\ request \in [Requests -> Request \cup {Idle}]
  /\ \A r \in Requests :
       request[r].pair # NoPair => request[r].user \in {Sender(request[r].pair),
                                                        Receiver(request[r].pair)}
  /\ \A r \in Requests : standing[r] \subseteq
       (Users \X {"blocked", "seated", "invited", "foe"})

\* The loop reads three tables for each receiver and writes once at the end:
\* for every receiver it is about to invite, each objection was lifted at some
\* moment since the request began (createMany).  No one is invited who was
\* blocked, playing or already invited all along.
InvitesAreSound ==
  \A r \in Requests : At(r, "upsert") =>
    \A v \in request[r].valid, why \in {"blocked", "seated", "invited"} :
      <<v, why>> \notin standing[r]

\* An accept that is about to write has found no player who sat there, and
\* was at odds with the receiver, all along (update, the checks of ACCEPTED).
AcceptsAreSound ==
  \A r \in Requests : At(r, "accept") => standing[r] = {}

\* Whatever is written has been checked in vain for what stood all along.
InvitationsAreSound == InvitesAreSound /\ AcceptsAreSound

\* A row is written by its own sender or receiver alone: the sender invites
\* and cancels, the receiver answers.  A user who is the sender of one row and
\* the receiver of another never writes the one in the role of the other.
OnlyOwnRoleWrites ==
  [][\A p \in Pairs : invitation'[p] # invitation[p] =>
       \E r \in Requests :
         /\ InFlight(r) /\ request'[r] = Idle
         /\ IF invitation'[p] \in {"PENDING", "CANCELED"}
            THEN request[r].user = Sender(p)
            ELSE request[r].user = Receiver(p)]_vars

\* "should update status to ACCEPTED and add player": an accept that ends its
\* transaction, for a receiver who is not playing yet, adds the player.  The
\* code does not keep it, see the findings of the README.
AcceptAddsPlayer ==
  [][\A r \in Requests :
       (At(r, "accept") /\ request'[r] = Idle /\ request[r].user \notin players)
         => /\ request[r].user \in players'
            /\ invitation'[request[r].pair] = "ACCEPTED"]_vars
=============================================================================
