---------------------------- MODULE MCAuthTokens ----------------------------
(***************************************************************************)
(* Small instances of AuthTokens and VerificationCodes for TLC.  The two   *)
(* share no row but the token a code is redeemed for, which no other       *)
(* handler can tell from one of a sign-in, so each behaviour moves one of  *)
(* them and leaves the other as it begins; what refreshes and logs out     *)
(* never looks at the address, so a behaviour has that or the spellings.   *)
(***************************************************************************)
EXTENDS AuthTokens, TLC

CONSTANTS CodeUids, Resets

VARIABLES part, verified, code, made, codeRequest, before, answered, codeFailures

codeVars == <<verified, code, made, codeRequest, before, answered, codeFailures>>

Codes == INSTANCE VerificationCodes WITH request <- codeRequest, failures <- codeFailures

-----------------------------------------------------------------------------
(* The bounds of the parts.                                                *)

\* The address is written in small letters and no account changes it.
OneSpelling ==
  /\ \A u \in Accounts : ~account[u].changed
  /\ \A r \in Requests : request[r].op \in SignInOps => request[r].email = Small

\* Nobody refreshes or logs out, accounts stay connected, every await succeeds.
SignInsOnly ==
  /\ failures = 0
  /\ \A u \in Accounts : account[u].isConnected
  /\ \A r \in Requests : request[r].op \in SignInOps \cup {"idle"}

PartsInit == part \in {"tokens", "accounts", "codes"} /\ Init /\ Codes!Init /\ (part # "codes" => verified)

PartsNext ==
  \/ part = "tokens" /\ Next /\ OneSpelling' /\ UNCHANGED <<part, codeVars>>
  \/ part = "accounts" /\ Next /\ SignInsOnly' /\ UNCHANGED <<part, codeVars>>
  \/ part = "codes" /\ Codes!Next /\ UNCHANGED <<part, vars>>

PartsSpec == PartsInit /\ [][PartsNext]_<<part, vars, codeVars>>

\* As many tokens as one likes may be made of codes.
ASSUME CodesAssumption == Resets \in Nat

\* A code dies by its successor or by its use (sendVerificationEmail,
\* sendCodeForPasswordReset, generateAccessTokenFromCode).
CodesDie == Codes!CodesDie

\* Uids and requests are interchangeable.
UidSymmetry ==
  Permutations(Users) \cup Permutations(AccessUids) \cup Permutations(RefreshUids)
    \cup Permutations(Requests)
=============================================================================
