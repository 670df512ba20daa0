------------------------------ MODULE SlotLedger ------------------------------
(***************************************************************************)
(* What booking promises about the slots of the fields: a slot is sold to  *)
(* one session, for good, and is shown as reserved only once it is sold.   *)
(* The requests and the checks behind it are in SessionBooking.            *)
(***************************************************************************)
CONSTANTS SlotUids, SessionUids, NoSession

VARIABLES
  owner,     \* owner[s]: the session that has booked the slot s, or NoSession
  reserved   \* the slots shown as reserved

vars == <<owner, reserved>>

Init ==
  /\ owner = [s \in SlotUids |-> NoSession]
  /\ reserved = {}

Book(s, x) ==
  /\ owner[s] = NoSession
  /\ \A t \in SlotUids : owner[t] # x
  /\ owner' = [owner EXCEPT ![s] = x]
  /\ UNCHANGED reserved

Reserve(s) ==
  /\ owner[s] # NoSession
  /\ reserved' = reserved \cup {s}
  /\ UNCHANGED owner

Next ==
  \E s \in SlotUids : Reserve(s) \/ \E x \in SessionUids : Book(s, x)

Spec == Init /\ [][Next]_vars
=============================================================================
