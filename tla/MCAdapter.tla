----------------------------- MODULE MCAdapter -----------------------------
(***************************************************************************)
(* One runner, a TCT of B for A and one whose subject is not an AID; the   *)
(* holders of the keys of A and C sign nonces.                             *)
(***************************************************************************)
EXTENDS Adapter

CONSTANTS kA, kB, kC, n1, r1

MCAid == {"A", "B", "C"}
MCKey == {kA, kB, kC}
MCKeyOf == [a \in MCAid |-> CASE a = "A" -> kA [] a = "B" -> kB [] OTHER -> kC]
MCAlgOf == [k \in MCKey |-> "EdDSA"]

Grant ==
  [ compact |-> TRUE, jti |-> "j1", iss |-> "B", sub |-> "A", grants |-> {"read"} ]

MCTokens ==
  { Grant, [Grant EXCEPT !.jti = "j2", !.sub = "nobody"] }

\* An envelope for either TCT, and one whose signature is not its sender's.
Sealed ==
  [ sender |-> "A", signer |-> kA, message_type |-> "pop_response", defects |-> {},
    tct_jti |-> "j1" ]

MCEnvelopes ==
  { Sealed, [Sealed EXCEPT !.tct_jti = "j2"], [Sealed EXCEPT !.signer = kC] }

Invocation(token, posture, grants, selfAid) ==
  [token |-> token, posture |-> posture, popRequiredGrants |-> grants, selfAid |-> selfAid]

MCInvocations ==
  { Invocation(Grant, "any", {}, Absent),
    Invocation(Grant, "any", {"read"}, Absent),
    Invocation([Grant EXCEPT !.compact = FALSE], "any", {}, Absent) }

=============================================================================
