---------------------------- MODULE MCHandshake -----------------------------
(***************************************************************************)
(* A is identified by a provider and B by a pinned key; E, which deviates, *)
(* has an identity of the provider too.  The provider has two keys.        *)
(***************************************************************************)
EXTENDS HandshakeWorld, TLC

CONSTANTS kA, kB, kE, kI, kJ, n1, n2, n3

MCAid == {"A", "B", "E"}
MCKey == {kA, kB, kE}
MCKeyOf == [a \in Aid |-> CASE a = "A" -> kA [] a = "B" -> kB [] OTHER -> kE]
MCAlgOf == [k \in MCKey |-> IF k = kB THEN "ES256" ELSE "EdDSA"]
MCTypeOf == [a \in Aid |-> IF a = "B" THEN "pinned_key" ELSE "oidc"]
MCSubject == [a \in Aid |-> a]
MCIdpKeys == << [key |-> kJ, kid |-> "old", alg |-> "ES256"],
                [key |-> kI, kid |-> "new", alg |-> "RS256"] >>
MCIdpKey == MCIdpKeys[2]
Symmetry == Permutations({n1, n2, n3})

=============================================================================
