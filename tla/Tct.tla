-------------------------------- MODULE Tct ---------------------------------
(***************************************************************************)
(* Trust Context Tokens (tct.py): the three ways a TCT is verified, the    *)
(* proof of possession of its presenter and the revocation decision they   *)
(* share.  A token is a compact JWS (module Jws) whose claims are          *)
(*   iss, sub, aud   AID strings, in Aid when parse_aid accepts them       *)
(*   jti, ver, exp, grants, ext                                            *)
(*   jkt             the key cnf.jkt names, Absent when it names none      *)
(* The library reads a clock only through the argument `now`.              *)
(***************************************************************************)
EXTENDS Jws, Revocation

CONSTANT Nonce   \* the challenge nonces that decode as base64url

ATTESTATION_MARKER == "aitp.attestation"

TctErrors == [ alg |-> "TOKEN_ALG_MISMATCH", typ |-> "TOKEN_TYP_MISMATCH",
               sig |-> "TCT_SIGNATURE_INVALID" ]

check_tct_claims_shape(token, shapeCode) ==
  FirstError(<< Check("schema" \notin token.defects, shapeCode),
                Check("unknown_member" \notin token.defects, "UNKNOWN_FIELD"),
                Check("jti_form" \notin token.defects, shapeCode) >>)

\* A TCT used as a grant is issued to somebody else and is no attestation.
check_grant_context(token) ==
  Check(/\ token.iss # token.sub
        /\ ATTESTATION_MARKER \notin token.grants, "TCT_SIGNATURE_INVALID")

check_cnf(token, code) ==
  Check(token.sub \in Aid /\ token.jkt = Thumbprint(token.sub), code)

\* Equal is within the bound; no Manifest, no bound.
outlives_manifest(token, manifestExpiresAt) == token.exp > manifestExpiresAt

check_manifest_cap(token, manifestExpiresAt) ==
  Check(\/ manifestExpiresAt = Absent
        \/ ~ outlives_manifest(token, manifestExpiresAt),
        "TCT_EXPIRES_AFTER_MANIFEST")

-----------------------------------------------------------------------------
(***************************************************************************)
(* Revocation.  A snapshot that was not obtained, is not trustworthy, is   *)
(* another issuer's or is stale is absent, and the fail mode decides.      *)
(***************************************************************************)
apply_absence(policy) ==
  Check(policy_fail_mode(policy) # "fail_closed", "TCT_REVOKED")

\* Mutants: any issuer's snapshot applies; an untrusted one does.
snapshot_applies_AnyIssuer(token, snapshot, policy, now) ==
  /\ snapshot # Absent
  /\ verify_snapshot_trust(snapshot) = OK
  /\ ~ snapshot_is_stale(snapshot, policy_of(policy), now)

snapshot_applies_Untrusted(token, snapshot, policy, now) ==
  /\ snapshot # Absent
  /\ snapshot.issuer = token.iss
  /\ ~ snapshot_is_stale(snapshot, policy_of(policy), now)

snapshot_applies(token, snapshot, policy, now) ==
  /\ snapshot # Absent
  /\ verify_snapshot_trust(snapshot) = OK
  /\ snapshot.issuer = token.iss
  /\ ~ snapshot_is_stale(snapshot, policy_of(policy), now)

check_revocation(token, snapshot, policy, now) ==
  IF snapshot_applies(token, snapshot, policy, now)
  THEN Check(token.jti \notin snapshot.entries, "TCT_REVOKED")
  ELSE apply_absence(policy)

-----------------------------------------------------------------------------
(***************************************************************************)
(* A peer's TCT.  `env` gathers the optional arguments of a call: the      *)
(* expected audience, the expiry of the issuer's Manifest, the snapshot    *)
(* and the revocation policy, each Absent when not given.                  *)
(***************************************************************************)
\* Mutant: revocation is decided before expiry.
verify_tct_RevocationFirst(token, env, now) ==
  FirstError(<<
    verify_jws(token, token.iss, "aitp-tct+jwt", TctErrors,
               check_tct_claims_shape(token, "TCT_SIGNATURE_INVALID")),
    check_revocation(token, env.snapshot, env.policy, now),
    Check(token.ver = PROTOCOL_VERSION, "UNKNOWN_VERSION"),
    Check(env.audience \in {Absent, token.aud}, "AUDIENCE_MISMATCH"),
    Check(now < token.exp, "TCT_EXPIRED"),
    check_grant_context(token),
    Check(token.sub \in Aid, "TCT_SIGNATURE_INVALID"),
    check_cnf(token, "TCT_CNF_MISMATCH"),
    check_manifest_cap(token, env.manifestExpiresAt) >>)

verify_tct(token, env, now) ==
  FirstError(<<
    verify_jws(token, token.iss, "aitp-tct+jwt", TctErrors,
               check_tct_claims_shape(token, "TCT_SIGNATURE_INVALID")),
    Check(token.ver = PROTOCOL_VERSION, "UNKNOWN_VERSION"),
    Check(env.audience \in {Absent, token.aud}, "AUDIENCE_MISMATCH"),
    Check(now < token.exp, "TCT_EXPIRED"),
    check_grant_context(token),
    Check(token.sub \in Aid, "TCT_SIGNATURE_INVALID"),
    check_cnf(token, "TCT_CNF_MISMATCH"),
    check_manifest_cap(token, env.manifestExpiresAt),
    check_revocation(token, env.snapshot, env.policy, now) >>)

(***************************************************************************)
(* A self-attestation: the issuer is the subject and the audience, its key *)
(* is one the relying party trusts, and the Manifest cap is either applied *)
(* or waived by name.                                                      *)
(***************************************************************************)
trusted_keys(trustStore) == {KeyOf[entry] : entry \in trustStore \cap Aid}

attestation_pre_signature(token, trustStore) ==
  FirstError(<< check_tct_claims_shape(token, "TCT_SIGNATURE_INVALID"),
                Check(/\ token.iss \in Aid
                      /\ KeyOf[token.iss] \in trusted_keys(trustStore),
                      "TCT_SIGNATURE_INVALID") >>)

verify_attestation(token, statementKey, trustStore, waiveCap, env, now) ==
  FirstError(<<
    Check(env.manifestExpiresAt # Absent \/ waiveCap, ValueError),
    verify_jws(token, token.iss, "aitp-tct+jwt", TctErrors,
               attestation_pre_signature(token, trustStore)),
    Check(token.ver = PROTOCOL_VERSION, "UNKNOWN_VERSION"),
    Check(now < token.exp, "TCT_EXPIRED"),
    Check(token.iss = token.sub /\ token.sub = token.aud, "TCT_SIGNATURE_INVALID"),
    Check(token.grants = {ATTESTATION_MARKER}, "TCT_SIGNATURE_INVALID"),
    check_cnf(token, "TCT_SIGNATURE_INVALID"),
    Check(statementKey \in token.ext, "TCT_SIGNATURE_INVALID"),
    check_manifest_cap(token, env.manifestExpiresAt),
    check_revocation(token, env.snapshot, env.policy, now) >>)

-----------------------------------------------------------------------------
(***************************************************************************)
(* Proof of possession.  A response is an envelope record:                 *)
(*   sender, signer, message_type      the envelope                        *)
(*   tct_jti, nonce_echo               its payload                         *)
(*   popSigner, popNonce               who signed pop_signature, over what *)
(*   defects                           a subset of ResponseDefects         *)
(* A challenge is [tct_jti, nonce, expires_at].  `claims` may come from a  *)
(* token nobody verified: jti and sub are then Absent when missing.        *)
(***************************************************************************)
ResponseDefects == {"shape", "members", "signature_form", "uncanonical"}

KeyError == "KeyError"

\* Mutant: only the latest challenge is remembered.
matching_Latest(challenges, jti, nonce) ==
  {i \in DOMAIN challenges : /\ i = Len(challenges)
                             /\ challenges[i].tct_jti = jti /\ challenges[i].nonce = nonce}

matching(challenges, jti, nonce) ==
  {i \in DOMAIN challenges : challenges[i].tct_jti = jti /\ challenges[i].nonce = nonce}

\* Only the first challenge with this jti and nonce is looked at.
answered(challenges, jti, nonce) ==
  LET found == matching(challenges, jti, nonce)
  IN  challenges[CHOOSE i \in found : \A j \in found : i <= j]

\* Mutant: an expired challenge still counts.
live_Expired(challenge, now) == challenge.expires_at # Absent

live(challenge, now) == challenge.expires_at # Absent /\ now < challenge.expires_at

presenter_from_pop(response, challenges, claims, now) ==
  LET found   == matching(challenges, claims.jti, response.nonce_echo)
      invalid == "POP_RESPONSE_INVALID"
  IN FirstError(<<
       Check("shape" \notin response.defects /\ response.sender \in Aid, invalid),
       Check(/\ response.message_type = "pop_response"
             /\ "members" \notin response.defects, invalid),
       Check("signature_form" \notin response.defects, invalid),
       Check("uncanonical" \notin response.defects, "INVALID_ENVELOPE"),
       Check(SignedBy(response, response.sender), invalid),
       Check(claims.jti # Absent, KeyError),
       Check(response.tct_jti = claims.jti, invalid),
       Check(found # {}, invalid),
       Check(/\ found # {}
             /\ live(answered(challenges, claims.jti, response.nonce_echo), now)
             /\ response.nonce_echo \in Nonce, "POP_CHALLENGE_INVALID"),
       Check(claims.sub # Absent, KeyError),
       Check(claims.sub \in Aid, ValueError),
       Check(/\ claims.sub \in Aid
             /\ response.popSigner = KeyOf[claims.sub]
             /\ response.popNonce = response.nonce_echo, invalid) >>)

(***************************************************************************)
(* A TCT presented back to its issuer.  `source` is the presenter's proof: *)
(* a pop_response, an AID the channel proves, or neither.                  *)
(***************************************************************************)
presenter_of(token, source) ==
  IF source.response # Absent THEN token.sub ELSE source.channelBoundAid

check_presenter(token, source, now) ==
  IF source.response # Absent
  THEN presenter_from_pop(source.response, source.challenges, token, now)
  ELSE Check(source.channelBoundAid # Absent, "POP_RESPONSE_INVALID")

verify_tct_as_issuer(token, selfAid, source, env, now) ==
  FirstError(<<
    parse_compact(token, "TCT_SIGNATURE_INVALID"),
    Check(token.iss = selfAid, "TCT_SIGNATURE_INVALID"),
    verify_jws(token, selfAid, "aitp-tct+jwt", TctErrors,
               check_tct_claims_shape(token, "TCT_SIGNATURE_INVALID")),
    Check(token.ver = PROTOCOL_VERSION, "UNKNOWN_VERSION"),
    Check(token.aud = token.sub, "TCT_SIGNATURE_INVALID"),
    Check(now < token.exp, "TCT_EXPIRED"),
    check_grant_context(token),
    Check(token.sub \in Aid, "TCT_SIGNATURE_INVALID"),
    check_cnf(token, "TCT_CNF_MISMATCH"),
    check_presenter(token, source, now),
    Check(presenter_of(token, source) = token.sub, "POP_RESPONSE_INVALID"),
    check_revocation(token, env.snapshot, env.policy, now) >>)

=============================================================================
