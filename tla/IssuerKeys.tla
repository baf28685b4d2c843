----------------------------- MODULE IssuerKeys ------------------------------
(***************************************************************************)
(* The candidate keys of an OIDC issuer (jwk.py), one call of              *)
(* _issuer_keys_from a step.  A value is                                   *)
(*   [kind: none]                                                          *)
(*   [kind: string, chars, key]   a configured key, key = Absent when it   *)
(*                                is no point or no base64url              *)
(*   [kind: dict, jwk]            a JWK                                    *)
(*   [kind: jwks, keys]           its keys JWKs, or Absent for no list     *)
(*   [kind: list, items]          nodes                                    *)
(*   [kind: other]                                                         *)
(* and a JWK is [kty, crv, kid, chars (of its longest member), sizes (what *)
(* its members decode to: bytes, or bits with RSA), minimal, key], or      *)
(* Absent where an entry is no object.                                     *)
(***************************************************************************)
EXTENDS Walk

CONSTANTS
  KeyDepth,        \* _MAX_DEPTH, 16
  KeyVisits,       \* _MAX_NODES_VISITED, 4096
  MaxCandidates,   \* _MAX_CANDIDATES, 64
  MaxMemberChars   \* _MAX_B64_MEMBER_CHARS, 8192

ASSUME KeysAssumption ==
  /\ {KeyDepth, KeyVisits, MaxCandidates, MaxMemberChars} \subseteq Nat
  /\ KeyDepth + 1 < StackLimit

-----------------------------------------------------------------------------
\* The structure of a key and never its own alg member tells its algorithm.
AlgOfJwk(jwk) ==
  CASE jwk.kty = "OKP" /\ jwk.crv = "Ed25519" -> "EdDSA"
    [] jwk.kty = "EC" /\ jwk.crv = "P-256"    -> "ES256"
    [] jwk.kty = "RSA"                        -> "RS256"
    [] OTHER                                  -> Absent

well_sized(jwk) ==
  CASE AlgOfJwk(jwk) = "EdDSA" -> jwk.sizes = <<32>>
    [] AlgOfJwk(jwk) = "ES256" -> jwk.sizes = <<32, 32>>
    [] AlgOfJwk(jwk) = "RS256" ->
         jwk.sizes[1] \in 2048 .. 8192 /\ jwk.sizes[2] <= 33 /\ jwk.minimal
    [] OTHER -> FALSE

jwk_ok(jwk) ==
  /\ jwk # Absent
  /\ jwk.kid # "no string" /\ jwk.chars <= MaxMemberChars
  /\ well_sized(jwk) /\ jwk.key # Absent

config_ok(v) == v.chars \in {43, 44} /\ v.key # Absent

Candidate(kid, alg, key) == [kid |-> kid, alg |-> alg, key |-> key]

\* What one call adds to the candidates; Absent where parsing one fails.
CandidatesOf(v) ==
  LET FromJwk(jwk) ==
        IF jwk_ok(jwk) THEN Candidate(jwk.kid, AlgOfJwk(jwk), jwk.key) ELSE Absent
  IN  CASE v.kind = "string" ->
             << IF config_ok(v)
                THEN Candidate(Absent, IF v.chars = 43 THEN "EdDSA" ELSE "ES256", v.key)
                ELSE Absent >>
        [] v.kind = "dict" -> <<FromJwk(v.jwk)>>
        [] v.kind = "jwks" /\ v.keys # Absent -> [i \in DOMAIN v.keys |-> FromJwk(v.keys[i])]
        [] OTHER -> <<>>

\* The values in a value.
Items(v) == IF v.kind = "list" THEN v.items ELSE <<>>

well_shaped(v) == v.kind # "other" /\ (v.kind = "jwks" => v.keys # Absent)

\* Mutant: the cap holds for what one value carries.
reserved_PerValue(found) == Len(found) <= MaxCandidates

\* _reserve before each of them: none is parsed beyond the cap.
reserved(found) == Len(out) + Len(found) <= MaxCandidates

Resolve ==
  /\ Walking /\ todo # <<>>
  /\ LET call  == Head(todo)
         v     == given.heap[call.node]
         found == CandidatesOf(v)
     IN  CASE call.depth >= StackLimit -> End("RecursionError")
           [] /\ call.depth < StackLimit
              /\ \/ visits + 1 > KeyVisits \/ call.depth > KeyDepth
                 \/ ~ well_shaped(v) \/ ~ reserved(found)
                 \/ \E i \in DOMAIN found : found[i] = Absent ->
                End("ValueError")
           [] OTHER ->
                /\ visits' = visits + 1
                /\ out' = out \o found
                /\ todo' = [i \in DOMAIN Items(v) |-> Node(Items(v)[i], call.depth + 1)]
                             \o Tail(todo)
                /\ UNCHANGED <<given, results>>

Return ==
  /\ Walking /\ todo = <<>>
  /\ End(OK)

KeysNext == given.walker = "keys" /\ (Resolve \/ Return)

-----------------------------------------------------------------------------
KeyCalls(heap, n) ==
  Unfold([m \in DOMAIN heap |-> Items(heap[m])], KeyDepth)[KeyDepth + 1][n]

\* Every candidate a value carries, in order.
Carried(heap, calls) == FlattenSeq([i \in DOMAIN calls |-> CandidatesOf(heap[calls[i].node])])

\* Every part has a shape that is known, every candidate is well-formed, and
\* there is not too much of anything.
Acceptable(heap, calls) ==
  LET carried == Carried(heap, calls)
  IN  /\ \A i \in DOMAIN calls : calls[i].depth <= KeyDepth /\ well_shaped(heap[calls[i].node])
      /\ Len(calls) <= KeyVisits /\ Len(carried) <= MaxCandidates
      /\ \A i \in DOMAIN carried : carried[i] # Absent

(***************************************************************************)
(* issuer_keys_from answers with every candidate the value carries, in     *)
(* order, or with none at all: one that is malformed, or one too many      *)
(* anywhere in the value, refuses it whole, and a value that fills the     *)
(* caps to the last key is taken.                                          *)
(***************************************************************************)
KeysAreExact ==
  given.walker = "keys" =>
    \A i \in DOMAIN results :
      LET calls == KeyCalls(given.heap, given.roots[i])
      IN  /\ results[i].verdict = OK <=> Acceptable(given.heap, calls)
          /\ results[i].verdict = OK => results[i].out = Carried(given.heap, calls)

=============================================================================
