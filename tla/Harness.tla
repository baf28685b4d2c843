------------------------------- MODULE Harness -------------------------------
(***************************************************************************)
(* What the two conformance front ends share (harness.py).                 *)
(***************************************************************************)
EXTENDS Aids

\* The claims of a token nobody verified: a member that is missing reads
\* Absent, and a token that does not parse has none.
NoClaims == [jti |-> Absent, iss |-> Absent, sub |-> Absent, grants |-> {}]

unverified_claims(token) == IF token.compact THEN token ELSE NoClaims

\* An invocation is [token, posture, popRequiredGrants, selfAid].  Without a
\* self_aid and without an iss the two members are equal: PoP is required.
pop_required(invocation, claims) ==
  \/ invocation.posture = "enforce-for-all"
  \/ invocation.selfAid = claims.iss
  \/ invocation.popRequiredGrants \cap claims.grants # {}

=============================================================================
