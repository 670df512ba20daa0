--------------------------- MODULE MCSessionRoster ---------------------------
(***************************************************************************)
(* Small instances of SessionRoster for TLC.                               *)
(***************************************************************************)
EXTENDS SessionRoster, TLC

CONSTANTS c, u1, u2

\* One guest may block the other, and either may be the one who comes later.
GuestBlocks == {<<u1, u2>>}

\* No blocks at all, for the questions blocks have no part in.
NoBlocks == {}

RequestSymmetry == Permutations(Requests)
==============================================================================
