------------------------------- MODULE Spiffe -------------------------------
(***************************************************************************)
(* The Draft spiffe identity binding (spiffe.py): a SPIFFE ID is proven by *)
(* an SVID that chains to the bundle of the ID's trust domain.  Every      *)
(* failure has one code, so the order of the checks is only visible where  *)
(* one of several things is chosen.  A descriptor is a record              *)
(*   svid_type, subject                                                    *)
(*   members   those of issuer, public_key and x5c that it carries         *)
(*   x5c       a sequence of certificates                                  *)
(*   proof     by type, a JWT [compact, header (its members), alg, typ,    *)
(*             kid, signer, sub, aud (a sequence; a string is one of one), *)
(*             exp, iat, nonce, jkt] or a signature [signer, covers]       *)
(* A certificate is [v3, subject, issuer, key, keyType, signer, from,      *)
(* until, critical, ca, pathLen, usage, uris, permitted, excluded,         *)
(* otherForms]; an extension it lacks is Absent.  The store is a sequence  *)
(* of [domain, keys], its keys a sequence of JWKs [use, kid, kty, alg,     *)
(* key, cert].                                                             *)
(***************************************************************************)
EXTENDS Verdicts, Aids, Integers, Sequences

CONSTANTS
  SpiffeId,       \* the strings that parse_spiffe_id accepts
  DomainOf,       \* the trust domain of each
  IatTolerance,   \* _IAT_TOLERANCE_SECS, 300
  MaxChain        \* _MAX_CHAIN, 8: certificates of an x5c

ASSUME SpiffeAssumption ==
  /\ Absent \notin SpiffeId \cup Nat
  /\ IatTolerance \in Nat /\ MaxChain \in Nat \ {0}

Processed == {"basic_constraints", "key_usage", "subject_alt_name",
              "extended_key_usage", "name_constraints"}

\* What the structure of a key admits; its alg member can only narrow that.
AlgsOf(kty) ==
  CASE kty = "RSA"   -> {"RS256", "RS384", "RS512", "PS256", "PS384", "PS512"}
    [] kty = "P-256" -> {"ES256"}
    [] kty = "P-384" -> {"ES384"}
    [] kty = "P-521" -> {"ES512"}
    [] OTHER         -> {}

JwtSvidAlgs == AlgsOf("RSA") \cup {"ES256", "ES384", "ES512"}

descriptor_ok(identity) ==
  /\ identity.members \cap {"issuer", "public_key"} = {}
  /\ identity.svid_type \in {"jwt-svid", "x509-svid"}
  /\ (identity.svid_type = "x509-svid") = ("x5c" \in identity.members)
  /\ identity.subject \in SpiffeId

-----------------------------------------------------------------------------
\* A store that names a trust domain twice is refused whole.
store_ok(store) ==
  /\ \A i \in DOMAIN store : store[i].domain # Absent
  /\ \A i, j \in DOMAIN store : store[i].domain = store[j].domain => i = j

\* The keys of one use in the domain's bundle, each at its place there; none
\* when there is no bundle.
keys_for(store, domain, use) ==
  LET at   == {i \in DOMAIN store : store[i].domain = domain /\ store[i].keys # Absent}
      keys == IF at = {} THEN <<>> ELSE store[CHOOSE i \in at : TRUE].keys
  IN  [i \in {j \in DOMAIN keys : keys[j].use = use} |-> keys[i]]

-----------------------------------------------------------------------------
\* The one key the header names.
named(keys, kid) == {i \in DOMAIN keys : keys[i].kid = kid}

jwt_signature_ok(jwk, jwt) ==
  /\ jwk.alg # Absent => jwk.alg = jwt.alg
  /\ jwt.alg \in AlgsOf(jwk.kty)
  /\ jwt.signer = jwk.key

\* Mutant: the token may be presented with any sender's message.
jwt_claims_ok_AnySender(identity, env, selfAid, now) ==
  LET jwt == identity.proof
  IN  /\ jwt.sub = identity.subject
      /\ selfAid # Absent /\ jwt.aud = <<selfAid>>
      /\ jwt.exp # Absent /\ now < jwt.exp
      /\ jwt.iat # Absent /\ now - jwt.iat <= IatTolerance /\ jwt.iat - now <= IatTolerance
      /\ jwt.nonce # Absent /\ jwt.nonce = env.pop_nonce

jwt_claims_ok(identity, env, selfAid, now) ==
  LET jwt == identity.proof
  IN  /\ jwt.sub = identity.subject
      /\ selfAid # Absent /\ jwt.aud = <<selfAid>>
      /\ jwt.exp # Absent /\ now < jwt.exp
      /\ jwt.iat # Absent /\ now - jwt.iat <= IatTolerance /\ jwt.iat - now <= IatTolerance
      /\ jwt.nonce # Absent /\ jwt.nonce = env.pop_nonce
      /\ env.sender \in Aid /\ jwt.jkt = Thumbprint(env.sender)

jwt_svid_ok(identity, env, selfAid, keys, now) ==
  LET jwt == identity.proof
  IN  /\ jwt.compact
      /\ jwt.header \subseteq {"alg", "kid", "typ"}
      /\ jwt.alg \in JwtSvidAlgs
      /\ "typ" \in jwt.header => jwt.typ \in {"JWT", "JOSE"}
      /\ "kid" \in jwt.header
      /\ \E i \in DOMAIN keys : named(keys, jwt.kid) = {i} /\ jwt_signature_ok(keys[i], jwt)
      /\ jwt_claims_ok(identity, env, selfAid, now)

-----------------------------------------------------------------------------
in_validity(cert, now) == cert.from <= now /\ now <= cert.until

\* By name and by signature.
issued_by(cert, issuer) == cert.issuer = issuer.subject /\ cert.signer = issuer.key

\* Mutant: the CAs below are not counted.
check_ca_Unbounded(cert, below) ==
  cert.ca = TRUE /\ cert.usage # Absent /\ "keyCertSign" \in cert.usage

\* `below` CA certificates are under this one.
check_ca(cert, below) ==
  /\ cert.ca = TRUE
  /\ cert.pathLen # Absent => below <= cert.pathLen
  /\ cert.usage # Absent /\ "keyCertSign" \in cert.usage

\* A constraint stands for the set of the trust domains its subtrees match.
check_name_constraints(cert, domain) ==
  /\ ~ cert.otherForms
  /\ cert.permitted # Absent => domain \in cert.permitted
  /\ domain \notin cert.excluded

\* Mutant: one URI, and not which.
leaf_ok_AnySubject(leaf, subject) ==
  /\ Len(leaf.uris) = 1
  /\ leaf.ca = FALSE
  /\ leaf.usage # Absent
  /\ leaf.usage \cap {"digitalSignature", "keyCertSign", "cRLSign"} = {"digitalSignature"}
  /\ leaf.keyType \in {"Ed25519", "P-256"}

leaf_ok(leaf, subject) ==
  /\ leaf.uris = <<subject>>
  /\ leaf.ca = FALSE
  /\ leaf.usage # Absent
  /\ leaf.usage \cap {"digitalSignature", "keyCertSign", "cRLSign"} = {"digitalSignature"}
  /\ leaf.keyType \in {"Ed25519", "P-256"}

\* Mutant: the certificate itself is counted.
path_ok_OffByOne(chain, domain, now) ==
  \A i \in DOMAIN chain :
    /\ chain[i].v3 /\ in_validity(chain[i], now) /\ chain[i].critical \subseteq Processed
    /\ i > 1 => check_ca(chain[i], i - 1) /\ check_name_constraints(chain[i], domain)
    /\ i + 1 \in DOMAIN chain => issued_by(chain[i], chain[i + 1])

\* Leaf first; the number of CA certificates below the i-th is i - 2.
path_ok(chain, domain, now) ==
  \A i \in DOMAIN chain :
    /\ chain[i].v3 /\ in_validity(chain[i], now) /\ chain[i].critical \subseteq Processed
    /\ i > 1 => check_ca(chain[i], i - 2) /\ check_name_constraints(chain[i], domain)
    /\ i + 1 \in DOMAIN chain => issued_by(chain[i], chain[i + 1])

issuing(anchors, chain) == {i \in DOMAIN anchors : issued_by(chain[Len(chain)], anchors[i].cert)}

\* The first CA of the bundle that issued the last certificate decides.
anchor_ok(chain, anchors, domain, now) ==
  \E i \in issuing(anchors, chain) :
    /\ \A j \in issuing(anchors, chain) : i <= j
    /\ in_validity(anchors[i].cert, now)
    /\ check_ca(anchors[i].cert, Len(chain) - 1)
    /\ check_name_constraints(anchors[i].cert, domain)

proof_input(env, selfAid) ==
  [ sender |-> env.sender, receiver |-> selfAid, message_id |-> env.message_id,
    timestamp |-> env.timestamp, nonce |-> env.pop_nonce ]

\* Mutant: a proof is taken for whatever message it comes with.
x509_proof_ok_AnyMessage(identity, env, selfAid) == identity.proof.signer = identity.x5c[1].key

x509_proof_ok(identity, env, selfAid) ==
  /\ identity.proof.signer = identity.x5c[1].key
  /\ identity.proof.covers = proof_input(env, selfAid)

x509_svid_ok(identity, env, selfAid, anchors, now) ==
  LET chain  == identity.x5c
      domain == DomainOf[identity.subject]
  IN  /\ Len(chain) \in 1 .. MaxChain
      /\ \A i \in DOMAIN anchors : anchors[i].cert # Absent
      /\ leaf_ok(chain[1], identity.subject)
      /\ path_ok(chain, domain, now)
      /\ anchor_ok(chain, anchors, domain, now)
      /\ x509_proof_ok(identity, env, selfAid)

-----------------------------------------------------------------------------
svid_ok(identity, env, selfAid, store, now) ==
  /\ descriptor_ok(identity)
  /\ store_ok(store)
  /\ LET keys == keys_for(store, DomainOf[identity.subject], identity.svid_type)
     IN  /\ DOMAIN keys # {}
         /\ IF identity.svid_type = "jwt-svid"
            THEN jwt_svid_ok(identity, env, selfAid, keys, now)
            ELSE x509_svid_ok(identity, env, selfAid, keys, now)

verify_spiffe(identity, env, selfAid, store, now) ==
  Check(svid_ok(identity, env, selfAid, store, now), "IDENTITY_FAILED")

=============================================================================
