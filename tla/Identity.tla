------------------------------ MODULE Identity ------------------------------
(***************************************************************************)
(* Identity bindings (identity.py): how the sender of a handshake message  *)
(* shows who it is.  A descriptor is a record                              *)
(*   object, type, issuer, subject, public_key, proof                      *)
(*   defects   "unknown_member", "spiffe_member"                           *)
(* whose proof is, by type,                                                *)
(*   oidc        a JWT of an identity provider: [compact, forbidden (does  *)
(*               its header carry jwk, jku, x5u, x5c or crit), alg, kid,   *)
(*               signer, iss, sub, exp, iat, aud, nonce, jkt]              *)
(*   pinned_key  the signature of the sender's key over five fields:       *)
(*               [signer, sender, receiver, message_id, timestamp, nonce]  *)
(* Members and claims that are not there are Absent.  The receiver is      *)
(*   selfAid, trustAnchors, trustStore (the keys of its store), and        *)
(*   issuerKeys[i], the sequence of [key, kid, alg] that i's keys resolve  *)
(*               to, empty when they resolve to none                       *)
(* The Draft type spiffe is off, as without the opt-in feature.            *)
(***************************************************************************)
EXTENDS Jws

CONSTANT IatTolerance   \* _IAT_TOLERANCE_SECS, 300

OidcAlgs == {"EdDSA", "ES256", "RS256"}

\* Mutant: the kid of the header is not looked at.
eligible_NoKid(candidates, kid) == DOMAIN candidates

\* The candidates a JWT may be verified with; there must be exactly one.
eligible(candidates, kid) ==
  {k \in DOMAIN candidates : kid # Absent => candidates[k].kid = kid}

select_issuer_key(candidates, kid) == CHOOSE k \in eligible(candidates, kid) : TRUE

candidates_of(receiver, issuer) ==
  IF issuer \in DOMAIN receiver.issuerKeys THEN receiver.issuerKeys[issuer] ELSE <<>>

\* Mutant: whose key the JWT names is not compared.
verify_claims_AnyKey(identity, env, receiver, now) ==
  LET jwt == identity.proof
  IN Check(/\ jwt.iss = identity.issuer
           /\ jwt.sub = identity.subject
           /\ jwt.exp # Absent /\ now < jwt.exp
           /\ jwt.iat # Absent /\ now - jwt.iat <= IatTolerance /\ jwt.iat - now <= IatTolerance
           /\ jwt.aud # Absent
           /\ receiver.selfAid # Absent => jwt.aud = receiver.selfAid
           /\ jwt.nonce # Absent /\ jwt.nonce = env.pop_nonce,
           "IDENTITY_FAILED")

verify_claims(identity, env, receiver, now) ==
  LET jwt == identity.proof
  IN Check(/\ jwt.iss = identity.issuer
           /\ jwt.sub = identity.subject
           /\ jwt.exp # Absent /\ now < jwt.exp
           /\ jwt.iat # Absent /\ now - jwt.iat <= IatTolerance /\ jwt.iat - now <= IatTolerance
           /\ jwt.aud # Absent
           /\ receiver.selfAid # Absent => jwt.aud = receiver.selfAid
           /\ jwt.nonce # Absent /\ jwt.nonce = env.pop_nonce
           /\ env.sender \in Aid /\ jwt.jkt = Thumbprint(env.sender),
           "IDENTITY_FAILED")

\* No claim is read before the signature is verified.
verify_oidc(identity, env, receiver, now) ==
  LET failed     == "IDENTITY_FAILED"
      jwt        == identity.proof
      candidates == candidates_of(receiver, identity.issuer)
      chosen     == candidates[select_issuer_key(candidates, jwt.kid)]
  IN FirstError(<<
       Check(identity.public_key = Absent /\ identity.issuer # Absent, failed),
       Check(identity.issuer \in receiver.trustAnchors, "INCOMPATIBLE_TRUST_ANCHORS"),
       parse_compact(jwt, failed),
       Check(~ jwt.forbidden /\ jwt.alg \in OidcAlgs, failed),
       Check(candidates # <<>>, "KEY_RESOLUTION_FAILED"),
       Check(\E k \in DOMAIN candidates : eligible(candidates, jwt.kid) = {k}, failed),
       Check(/\ eligible(candidates, jwt.kid) # {}
             /\ chosen.alg = jwt.alg
             /\ chosen.key = jwt.signer, failed),
       verify_claims(identity, env, receiver, now) >>)

pinned_key_proof_input(env, receiver) ==
  [ sender |-> env.sender, receiver |-> receiver.selfAid, message_id |-> env.message_id,
    timestamp |-> env.timestamp, nonce |-> env.pop_nonce ]

\* Mutant: the receiver is left out of what the proof covers.
verify_pinned_key_TwoFields(identity, env, receiver) ==
  LET proof == identity.proof
  IN Check(/\ identity.issuer = Absent
           /\ env.sender \in Aid /\ identity.public_key = KeyOf[env.sender]
           /\ KeyOf[env.sender] \in receiver.trustStore
           /\ proof.signer = KeyOf[env.sender]
           /\ proof.covers.nonce = env.pop_nonce,
           "IDENTITY_FAILED")

\* A key the receiver does not know in advance proves nothing.
verify_pinned_key(identity, env, receiver) ==
  LET proof == identity.proof
  IN Check(/\ identity.issuer = Absent
           /\ env.sender \in Aid /\ identity.public_key = KeyOf[env.sender]
           /\ KeyOf[env.sender] \in receiver.trustStore
           /\ proof.signer = KeyOf[env.sender]
           /\ proof.covers = pinned_key_proof_input(env, receiver),
           "IDENTITY_FAILED")

verify_identity(identity, env, receiver, now) ==
  FirstError(<<
    Check("unknown_member" \notin identity.defects, "UNKNOWN_FIELD"),
    Check(identity.type \in {"oidc", "pinned_key"} => "spiffe_member" \notin identity.defects,
          "IDENTITY_FAILED"),
    CASE identity.type = "oidc"       -> verify_oidc(identity, env, receiver, now)
      [] identity.type = "pinned_key" -> verify_pinned_key(identity, env, receiver)
      [] OTHER                        -> "IDENTITY_FAILED" >>)

=============================================================================
