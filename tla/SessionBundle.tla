---------------------------- MODULE SessionBundle ----------------------------
(***************************************************************************)
(* Session Trust Bundles (sessionbundle.py): a coordinator binds the       *)
(* participants of a session to the TCTs it issued to them.  A bundle is   *)
(*   wrapper, body     the forms of the transport wrapper and of its body  *)
(*   version, coordinator, expires_at                                      *)
(*   participants      a sequence of [form, aid, tct]                      *)
(*   signer            who signed exactly this body                        *)
(*   canonicalized     OK, or what canonicalizing the body raises          *)
(*   tagged            FALSE when the signature's tag is not the key's     *)
(* The wrapper is outside what the signature covers.                       *)
(***************************************************************************)
EXTENDS Tct, Manifest, Fields

BodyTypes ==
  [ version |-> {"str"}, session_id |-> {"str"}, coordinator |-> {"str"},
    issued_at |-> {"int"}, expires_at |-> {"int"}, participants |-> {"list"},
    extensions |-> {"dict"}, signature |-> {"str"} ]
BodyFields == DOMAIN BodyTypes
RequiredBodyFields == BodyFields \ {"extensions"}

ParticipantTypes == [aid |-> {"str"}, tct |-> {"str"}]
ParticipantFields == DOMAIN ParticipantTypes

invalid == "SESSION_BUNDLE_INVALID"
tct_invalid == "BUNDLE_PARTICIPANT_TCT_INVALID"

check_wrapper(bundle) ==
  FirstError(<< Check(bundle.wrapper.object, invalid),
                Check("session_bundle" \in DOMAIN bundle.wrapper.types, invalid),
                Check(DOMAIN bundle.wrapper.types = {"session_bundle"}, invalid) >>)

check_object(form, required, declared, allowed) ==
  FirstError(<< Check(form.object, invalid),
                require_members(form, required, invalid),
                check_types(form, declared, invalid),
                reject_unknown_fields(form, allowed, invalid) >>)

check_body(bundle) ==
  check_object(bundle.body, RequiredBodyFields, BodyTypes, BodyFields)

check_entries(bundle) ==
  FirstError([i \in DOMAIN bundle.participants |->
    check_object(bundle.participants[i].form, ParticipantFields, ParticipantTypes,
                 ParticipantFields)])

\* The one place that renames UNKNOWN_FIELD: inside a bundle, what is wrong
\* with a token has one code.
remapped(verdict) == IF verdict = "UNKNOWN_FIELD" THEN tct_invalid ELSE verdict

\* Read before any signature has been verified, for the expiry it holds.
peek(participant) ==
  FirstError(<< parse_compact(participant.tct, tct_invalid),
                remapped(check_tct_claims_shape(participant.tct, tct_invalid)) >>)

peek_all(bundle) ==
  FirstError([i \in DOMAIN bundle.participants |-> peek(bundle.participants[i])])

exps(bundle) == {bundle.participants[i].tct.exp : i \in DOMAIN bundle.participants}

\* Mutant: the expiry of the first participant counts.
earliest_First(bundle) == bundle.participants[1].tct.exp

earliest(bundle) == CHOOSE e \in exps(bundle) : \A x \in exps(bundle) : e <= x

\* Mutant: anybody in the session may have signed the bundle.
check_signature_AnyMember(bundle) ==
  FirstError(<< Check(bundle.tagged, "BUNDLE_INVALID_SIGNATURE"),
                canonical_bytes(bundle.canonicalized, invalid),
                Check(\E i \in DOMAIN bundle.participants :
                        \/ SignedBy(bundle, bundle.participants[i].aid)
                        \/ SignedBy(bundle, bundle.coordinator), "BUNDLE_INVALID_SIGNATURE") >>)

check_signature(bundle) ==
  FirstError(<< Check(bundle.tagged, "BUNDLE_INVALID_SIGNATURE"),
                canonical_bytes(bundle.canonicalized, invalid),
                Check(SignedBy(bundle, bundle.coordinator), "BUNDLE_INVALID_SIGNATURE") >>)

\* Mutant: a token of another issuer passes.
check_participant_AnyIssuer(participant, coordinator, manifest) ==
  FirstError(<<
    parse_compact(participant.tct, tct_invalid),
    remapped(verify_jws(participant.tct, participant.tct.iss, "aitp-tct+jwt",
                        [alg |-> tct_invalid, typ |-> tct_invalid, sig |-> tct_invalid],
                        check_tct_claims_shape(participant.tct, tct_invalid))),
    Check(~ outlives_manifest(participant.tct, manifest.expires_at), tct_invalid),
    Check(participant.tct.aud = participant.aid, "BUNDLE_AUDIENCE_MISMATCH") >>)

check_participant(participant, coordinator, manifest) ==
  FirstError(<<
    parse_compact(participant.tct, tct_invalid),
    remapped(verify_jws(participant.tct, participant.tct.iss, "aitp-tct+jwt",
                        [alg |-> tct_invalid, typ |-> tct_invalid, sig |-> tct_invalid],
                        check_tct_claims_shape(participant.tct, tct_invalid))),
    Check(~ outlives_manifest(participant.tct, manifest.expires_at), tct_invalid),
    Check(participant.tct.iss = coordinator, "BUNDLE_COORDINATOR_ISSUER_MISMATCH"),
    Check(participant.tct.aud = participant.aid, "BUNDLE_AUDIENCE_MISMATCH") >>)

\* What runs once the coordinator's Manifest is resolved.
check_participants(bundle, manifests) ==
  IF designating(bundle.coordinator, manifests) = {} THEN OK
  ELSE FirstError([i \in DOMAIN bundle.participants |->
         check_participant(bundle.participants[i], bundle.coordinator,
                           designated(bundle.coordinator, manifests))])

aids(bundle) == {bundle.participants[i].aid : i \in DOMAIN bundle.participants}

\* Mutant: the last second counts as valid.
check_expiry_Late(bundle, now) == Check(now <= bundle.expires_at, "BUNDLE_EXPIRED")

check_expiry(bundle, now) == Check(now < bundle.expires_at, "BUNDLE_EXPIRED")

verify_session_bundle(bundle, selfAid, manifests, now) ==
  FirstError(<<
    check_wrapper(bundle),
    check_body(bundle),
    check_entries(bundle),
    Check(bundle.version = PROTOCOL_VERSION, "BUNDLE_VERSION_MISMATCH"),
    check_expiry(bundle, now),
    Check(bundle.participants # <<>>, "BUNDLE_EMPTY_PARTICIPANTS"),
    peek_all(bundle),
    Check(bundle.participants # <<>> /\ bundle.expires_at = earliest(bundle),
          "BUNDLE_EXPIRY_WINDOW_INVARIANT"),
    Check(bundle.coordinator \in Aid, invalid),
    resolve_manifest(bundle.coordinator, manifests, now),
    check_signature(bundle),
    check_participants(bundle, manifests),
    Check(selfAid \in aids(bundle), "BUNDLE_NOT_MEMBER") >>)

=============================================================================
