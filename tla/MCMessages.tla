----------------------------- MODULE MCMessages -----------------------------
(***************************************************************************)
(* Small instances of Messages for TLC.                                    *)
(***************************************************************************)
EXTENDS Messages, TLC

\* Uids, requests and the users who stay are interchangeable.
MessageSymmetry ==
  Permutations(MessageUids) \cup Permutations(Requests) \cup Permutations(Users \ Movers)
=============================================================================
