------------------------ MODULE MCSessionInvitations ------------------------
(***************************************************************************)
(* Small instances of SessionInvitations and Conversations for TLC: what   *)
(* users send each other, invitations and messages.  No handler of one     *)
(* reads a row of the other but for the blocks, which each model writes    *)
(* for itself, so each behaviour moves one of the two.                     *)
(***************************************************************************)
EXTENDS SessionInvitations, TLC

CONSTANTS
  ana, bob, lea, max,
  Writers, Players, Quarrels, ConversationUids, NoRow, MaxFailures

VARIABLES part, type, member, block, pair, asking, failures

writing == <<type, member, block, pair, asking, failures>>

Conv == INSTANCE Conversations WITH Users <- Writers, request <- asking

\* An await fails while nobody blocks anybody.
FewFailures == failures = 0 \/ block = {}

PartsInit == part \in {"invitations", "messages"} /\ Init /\ Conv!Init

PartsNext ==
  \/ part = "invitations" /\ Next /\ UNCHANGED <<part, writing>>
  \/ part = "messages" /\ Conv!Next /\ FewFailures' /\ UNCHANGED <<part, vars>>

PartsSpec == PartsInit /\ [][PartsNext]_<<part, vars, writing>>

\* A private conversation has the two members it was made for
\* (createPrivateConversation).
PrivateIsAPair == Conv!PrivateIsAPair

\* Two users who have a private conversation do not get another by a message
\* that comes later (createMessage).
KnownPairIsReused == Conv!KnownPairIsReused

\* Messages go to whom they name and past no standing block (createMessage,
\* createTextMessage).
MessagesGoWhereTheyMay == Conv!MessagesGoWhereTheyMay

\* What Conversations takes for granted of its instance.
ASSUME WritersAssumption == Conv!ConversationsAssumption

\* The sender ana and the receiver bob may fall out.
OneBlock == {<<bob, ana>>}

\* Two of the three writers may block each other.
OneQuarrel == {{lea, max}}

\* Requests and the two who may quarrel are interchangeable.
RequestSymmetry == 
  Permutations(Requests) \cup Permutations({lea, max}) \cup Permutations(ConversationUids)
==============================================================================
