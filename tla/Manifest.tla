------------------------------ MODULE Manifest ------------------------------
(***************************************************************************)
(* Agent Manifests (manifest.py).  A Manifest is a record                  *)
(*   version, aid, expires_at                                              *)
(*   hint       its identity_hint [type, issuer, public_key], the last two *)
(*              Absent when not given                                      *)
(*   popSigner  who signed the challenge of its proof of possession        *)
(*   signer     who signed the Manifest                                    *)
(*   defects    a subset of ManifestDefects                                *)
(***************************************************************************)
EXTENDS Jws

ManifestDefects ==
  { "shape",           \* a member missing or mistyped, in any of the objects
    "grammar",         \* a member of the body outside its grammar
    "hint_grammar",    \* a member of the hint outside its grammar
    "unknown_member",
    "signature_form",  \* a signature whose tag is not the key's
    "uncanonical" }    \* a value that jcs refuses with a JcsError

IdentityTypes == {"oidc", "pinned_key", "spiffe"}

\* What each type of hint must and must not carry.
validate_identity_hint(man) ==
  LET hint == man.hint
  IN Check(/\ hint.type \in IdentityTypes
           /\ "hint_grammar" \notin man.defects
           /\ hint.type = "oidc"       => hint.issuer # Absent /\ hint.public_key = Absent
           /\ hint.type = "spiffe"     => hint.issuer = Absent /\ hint.public_key = Absent
           /\ hint.type = "pinned_key" => hint.public_key # Absent,
           "MANIFEST_INVALID")

verify_manifest(man, supported, now) ==
  FirstError(<< Check("shape" \notin man.defects, "MANIFEST_INVALID"),
                Check(man.version \in supported, "MANIFEST_VERSION_UNKNOWN"),
                Check("grammar" \notin man.defects, "MANIFEST_INVALID"),
                validate_identity_hint(man),
                Check("unknown_member" \notin man.defects, "UNKNOWN_FIELD"),
                Check(now < man.expires_at, "MANIFEST_EXPIRED"),
                Check(man.aid \in Aid, "MANIFEST_INVALID"),
                Check(man.aid \in Aid /\ man.popSigner = KeyOf[man.aid], "MANIFEST_POP_FAILED"),
                Check("signature_form" \notin man.defects, "MANIFEST_SIGNATURE_INVALID"),
                Check("uncanonical" \notin man.defects, "MANIFEST_INVALID"),
                Check(SignedBy(man, man.aid), "MANIFEST_SIGNATURE_INVALID") >>)

designating(aid, manifests) == {i \in DOMAIN manifests : manifests[i].aid = aid}

\* The first Manifest with this AID decides, whatever the others say.
designated(aid, manifests) ==
  LET found == designating(aid, manifests)
  IN  manifests[CHOOSE i \in found : \A j \in found : i <= j]

resolve_manifest(aid, manifests, now) ==
  Check(/\ designating(aid, manifests) # {}
        /\ verify_manifest(designated(aid, manifests), {PROTOCOL_VERSION}, now) = OK
        /\ aid \in Aid,
        "KEY_RESOLUTION_FAILED")

=============================================================================
