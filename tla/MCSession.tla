----------------------------- MODULE MCSession ------------------------------
(***************************************************************************)
(* C coordinates sessions of A and E; E composes bundles, and has TCTs of  *)
(* its own that last longer than its Manifest.                             *)
(***************************************************************************)
EXTENDS SessionWorld

CONSTANTS kA, kC, kE

MCAid == {"A", "C", "E"}
MCKey == {kA, kC, kE}
MCKeyOf == [a \in MCAid |-> CASE a = "A" -> kA [] a = "C" -> kC [] OTHER -> kE]
MCAlgOf == [k \in MCKey |-> IF k = kC THEN "ES256" ELSE "EdDSA"]
MCCovered == [c \in {"C"} |-> 2]

ManifestOf(a, expires) ==
  [ version |-> PROTOCOL_VERSION, aid |-> a, expires_at |-> expires, popSigner |-> KeyOf[a],
    signer |-> KeyOf[a], defects |-> {},
    hint |-> [type |-> "oidc", issuer |-> "idp", public_key |-> Absent] ]

\* C has renewed its Manifest: a verifier may hold none of C's, the new one, or
\* both with the old one in front.
MCHoldings ==
  { <<ManifestOf("E", 1)>>,
    <<ManifestOf("C", 2), ManifestOf("E", 1)>>,
    <<ManifestOf("C", 1), ManifestOf("C", 2)>> }

\* The shape before v0.2 had the signature beside the body.
MCWrapperForms ==
  { Wrapped, Object([session_bundle |-> "dict", signature |-> "str"]) }

MCBodyForms ==
  { WrittenBody,
    [WrittenBody EXCEPT !.types["issued_at"] = "integral_float"],
    Object([m \in RequiredBodyFields \ {"signature"} |-> WrittenBody.types[m]]) }

=============================================================================
