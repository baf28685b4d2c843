----------------------------- MODULE Handshake ------------------------------
(***************************************************************************)
(* The mutual handshake (handshake.py): hello, hello_ack, commit and       *)
(* commit_ack, each verified by its receiver on its own.  A message is an  *)
(* envelope (module Envelope) that carries the members of both payloads:   *)
(*   identity, manifest, pop_nonce, pop_nonce_echo        hello, hello_ack *)
(*   tct, pop [signer, nonce]                         commit, commit_ack   *)
(* and, for what its payload alone can have, the defects "payload_members" *)
(* and "payload_unknown".  The receiver is what module Identity needs and  *)
(*   acceptedTypes    the identity types it accepts, {"oidc"} by default   *)
(*   peerAid          the peer it addressed                                *)
(*   sentNonce        the nonce of its own hello, for an ack               *)
(*   selfNonce        the nonce the peer's round-2 proof must cover        *)
(*   offered          the capabilities the peer's Manifest offers          *)
(* the last four Absent when the caller does not pass them.                *)
(***************************************************************************)
EXTENDS Tct, Manifest, Envelope, Identity

DEFAULT_ACCEPTED_IDENTITY_TYPES == {"oidc"}

Bootstrap == {"mutual_hello", "mutual_hello_ack"}
Commit == {"mutual_commit", "mutual_commit_ack"}

check_peer(m, receiver) ==
  Check(m.message_type = "mutual_hello_ack" /\ receiver.peerAid # Absent
          => m.sender = receiver.peerAid, "PEER_MISMATCH")

\* Mutant: an ack may echo any nonce.
check_echo_Any(m, receiver) == OK

check_echo(m, receiver) ==
  Check(m.message_type = "mutual_hello_ack" /\ receiver.sentNonce # Absent
          => m.pop_nonce_echo = receiver.sentNonce, "NONCE_MISMATCH")

\* The Manifest first, then the identity, then the envelope's signature.
verify_bootstrap(m, receiver, now) ==
  FirstError(<<
    Check("payload_unknown" \notin m.defects, "UNKNOWN_FIELD"),
    Check("payload_members" \notin m.defects, "INVALID_ENVELOPE"),
    check_peer(m, receiver),
    verify_manifest(m.manifest, {PROTOCOL_VERSION}, now),
    Check(m.manifest.aid = m.sender, "INVALID_ENVELOPE"),
    Check(m.identity.object /\ m.manifest.hint.type = m.identity.type, "IDENTITY_FAILED"),
    verify_identity(m.identity, m, receiver, now),
    verify_signature(m),
    Check(m.identity.type \in receiver.acceptedTypes, "INCOMPATIBLE_IDENTITY_TYPE"),
    check_echo(m, receiver) >>)

-----------------------------------------------------------------------------
\* Mutant: the proof may be by anybody.
check_round2_pop_AnySigner(pop, sender, receiver) ==
  IF pop = Absent \/ receiver.selfNonce = Absent THEN OK
  ELSE FirstError(<< Check(sender \in Aid, ValueError),
                     Check(pop.nonce = receiver.selfNonce, "POP_VERIFICATION_FAILED") >>)

\* Both the proof and the nonce are optional; without either nothing is checked.
check_round2_pop(pop, sender, receiver) ==
  IF pop = Absent \/ receiver.selfNonce = Absent THEN OK
  ELSE FirstError(<< Check(sender \in Aid, ValueError),
                     Check(/\ sender \in Aid /\ pop.signer = KeyOf[sender]
                           /\ pop.nonce = receiver.selfNonce, "POP_VERIFICATION_FAILED") >>)

\* Mutant: the key the token is bound to is not compared.
verify_embedded_tct_Unbound(token, receiver, now) ==
  FirstError(<<
    verify_jws(token, token.iss, "aitp-tct+jwt", TctErrors,
               check_tct_claims_shape(token, "TCT_SIGNATURE_INVALID")),
    Check(token.ver = PROTOCOL_VERSION, "UNKNOWN_VERSION"),
    Check(receiver.selfAid \in {Absent, token.aud}, "AUDIENCE_MISMATCH"),
    Check(now < token.exp, "TCT_EXPIRED"),
    check_grant_context(token),
    Check(token.sub \in Aid, "TCT_SIGNATURE_INVALID") >>)

verify_embedded_tct(token, receiver, now) ==
  FirstError(<<
    verify_jws(token, token.iss, "aitp-tct+jwt", TctErrors,
               check_tct_claims_shape(token, "TCT_SIGNATURE_INVALID")),
    Check(token.ver = PROTOCOL_VERSION, "UNKNOWN_VERSION"),
    Check(receiver.selfAid \in {Absent, token.aud}, "AUDIENCE_MISMATCH"),
    Check(now < token.exp, "TCT_EXPIRED"),
    check_grant_context(token),
    Check(token.sub \in Aid, "TCT_SIGNATURE_INVALID"),
    check_cnf(token, "TCT_CNF_MISMATCH") >>)

\* The envelope of a commit, when there is one, only names the sender.
verify_commit(m, sender, receiver, now) ==
  FirstError(<<
    Check("payload_unknown" \notin m.defects, "UNKNOWN_FIELD"),
    Check("payload_members" \notin m.defects, "INVALID_ENVELOPE"),
    check_round2_pop(m.pop, sender, receiver),
    parse_compact(m.tct, "TCT_SIGNATURE_INVALID"),
    verify_embedded_tct(m.tct, receiver, now),
    Check(receiver.offered # Absent => m.tct.grants \subseteq receiver.offered,
          "GRANT_OVERFLOW") >>)

verify_handshake_payload(m, receiver, now) ==
  FirstError(<<
    validate_envelope_shape(m),
    CASE m.message_type \in Bootstrap -> verify_bootstrap(m, receiver, now)
      [] m.message_type \in Commit    -> verify_commit(m, m.sender, receiver, now)
      [] OTHER                        -> "INVALID_ENVELOPE" >>)

\* The two commits of a handshake at once, without envelopes: who signed the
\* token is then taken for the sender, and a token that does not parse ends
\* the call before the proof of possession is looked at.
verify_both_commits(sides, now) ==
  FirstError([k \in DOMAIN sides |->
    LET m == sides[k].payload
    IN  IF {"payload_unknown", "payload_members"} \cap m.defects = {} /\ ~ m.tct.compact
        THEN "TCT_SIGNATURE_INVALID"
        ELSE verify_commit(m, m.tct.iss, sides[k].receiver, now)])

=============================================================================
