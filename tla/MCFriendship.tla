---------------------------- MODULE MCFriendship ----------------------------
(***************************************************************************)
(* Small instances of Friendship for TLC, beside those of MCPages.  No     *)
(* handler of the one reads a row the others write, so each behaviour      *)
(* moves one of the three.                                                 *)
(***************************************************************************)
EXTENDS Friendship, MCPages

FriendsInit == part \in {"friends", "pages", "rooms"} /\ Init /\ ReadsInit

FriendsNext ==
  \/ part = "friends" /\ Next /\ UNCHANGED <<part, pageVars, roomVars>>
  \/ ReadsNext /\ UNCHANGED vars

FriendsSpec == FriendsInit /\ [][FriendsNext]_<<vars, part, pageVars, roomVars>>

\* Users and requests are interchangeable.
FriendSymmetry == Permutations(Users) \cup Permutations(Requests)
==============================================================================
