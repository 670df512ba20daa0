---------------------------- MODULE AtomicRoster ----------------------------
(***************************************************************************)
(* What the roster of one session promises its readers: every user has at  *)
(* most one seat, and taking or giving up a seat and entering or leaving   *)
(* the conversation of the session are one step.  The requests, database   *)
(* calls and checks behind it are in SessionRoster.                        *)
(*                                                                         *)
(* The creator is put into the conversation when the session is created    *)
(* and never again: a creator who comes back takes a seat only.            *)
(***************************************************************************)
CONSTANTS Users, Creator, Teams, NoTeam

VARIABLES
  seat,     \* seat[u]: the team u plays in, or NoTeam
  chat      \* the users in the conversation of the session

vars == <<seat, chat>>

Init ==
  /\ seat \in [Users -> Teams \cup {NoTeam}]
  /\ \A u \in Users : (seat[u] # NoTeam) <=> (u = Creator)
  /\ chat = {Creator}

Join(u, t) ==
  /\ seat[u] = NoTeam
  /\ seat' = [seat EXCEPT ![u] = t]
  /\ chat' = IF u = Creator THEN chat ELSE chat \cup {u}

Leave(u) ==
  /\ seat[u] # NoTeam
  /\ seat' = [seat EXCEPT ![u] = NoTeam]
  /\ chat' = chat \ {u}

Switch(u, t) ==
  /\ seat[u] # NoTeam
  /\ seat' = [seat EXCEPT ![u] = t]
  /\ UNCHANGED chat

Next ==
  \E u \in Users :
    \/ \E t \in Teams : Join(u, t)
    \/ \E t \in Teams : Switch(u, t)
    \/ Leave(u)

Spec == Init /\ [][Next]_vars
=============================================================================
