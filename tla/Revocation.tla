----------------------------- MODULE Revocation -----------------------------
(***************************************************************************)
(* Revocation snapshots (revocation.py).  A snapshot is a record           *)
(*   issuer, published_at, expires_at, entries   the signed body           *)
(*   signer    the key that signed that body                               *)
(*   defects   what is wrong with its form, a subset of SnapshotDefects    *)
(* A policy is the caller's configuration: `mode` is any value, the three  *)
(* of RFC-AITP-0008 and everything else a JSON document can hold;          *)
(* `bound` says what max_staleness_secs holds.                             *)
(***************************************************************************)
EXTENDS Verdicts, Aids, Integers

FAIL_MODES == {"fail_closed", "fail_open", "soft_fail"}

SnapshotDefects ==
  { "schema",           \* a missing or mistyped member, a wrong version
    "unknown_member",   \* a member outside the schema, anywhere
    "signature_form",   \* an unknown tag, not base64url, not 64 bytes
    "uncanonical" }     \* a value that jcs refuses with a JcsError

Policy ==
  [ mode : STRING, bound : {"none", "seconds", "unusable"},
    max_staleness_secs : Int ]

\* A caller that passes no policy, or one that is not an object, gets {}.
NoPolicy == [mode |-> "unset", bound |-> "none", max_staleness_secs |-> 0]

policy_of(policy) == IF policy = Absent THEN NoPolicy ELSE policy

\* Mutant: a mode outside the three falls through to the permissive one.
resolve_fail_mode_Lenient(value) == IF value \in FAIL_MODES THEN value ELSE "fail_open"

resolve_fail_mode(value) == IF value \in FAIL_MODES THEN value ELSE "fail_closed"

policy_fail_mode(policy) == resolve_fail_mode(policy_of(policy).mode)

\* Mutants: expires_at is still fresh; a snapshot from the future is stale.
snapshot_is_stale_Late(body, policy, now) ==
  \/ now > body.expires_at
  \/ policy.bound = "unusable"
  \/ policy.bound = "seconds" /\ now - body.published_at > policy.max_staleness_secs

snapshot_is_stale_Future(body, policy, now) ==
  \/ now >= body.expires_at
  \/ now < body.published_at
  \/ policy.bound = "unusable"
  \/ policy.bound = "seconds" /\ now - body.published_at > policy.max_staleness_secs

snapshot_is_stale(body, policy, now) ==
  \/ now >= body.expires_at
  \/ policy.bound = "unusable"
  \/ policy.bound = "seconds" /\ now - body.published_at > policy.max_staleness_secs

\* Shape, member set, issuer AID, signature: each with a code of its own.
verify_snapshot_trust(snapshot) ==
  LET invalid == "REVOCATION_SNAPSHOT_INVALID"
      badSig  == "REVOCATION_SNAPSHOT_SIGNATURE_INVALID"
  IN FirstError(<<
       Check("schema" \notin snapshot.defects, invalid),
       Check("unknown_member" \notin snapshot.defects, "UNKNOWN_FIELD"),
       Check(snapshot.issuer \in Aid, invalid),
       Check("signature_form" \notin snapshot.defects, badSig),
       Check("uncanonical" \notin snapshot.defects, invalid),
       Check(SignedBy(snapshot, snapshot.issuer), badSig) >>)

\* The entry point: an untrustworthy snapshot reports its own code, an absent
\* one (stale, or another issuer's) is answered by the fail mode.
\* NotRevoked and Stale are its two successful verdicts.
NotRevoked == "revoked: False"
Stale == "revoked: False, stale: True"

\* Mutant: fail_open falls through to the rejection of fail_closed.
verify_revocation_snapshot_FailOpen(snapshot, expectedIssuer, queriedJti, policy, now) ==
  LET trust  == verify_snapshot_trust(snapshot)
      usable == /\ snapshot.issuer = expectedIssuer
                /\ ~ snapshot_is_stale(snapshot, policy_of(policy), now)
  IN  IF trust # OK THEN trust
      ELSE IF ~ usable
           THEN IF policy_fail_mode(policy) = "soft_fail" THEN Stale ELSE "TCT_REVOKED"
           ELSE IF queriedJti # Absent /\ queriedJti \in snapshot.entries
                THEN "TCT_REVOKED"
                ELSE NotRevoked

verify_revocation_snapshot(snapshot, expectedIssuer, queriedJti, policy, now) ==
  LET trust  == verify_snapshot_trust(snapshot)
      usable == /\ snapshot.issuer = expectedIssuer
                /\ ~ snapshot_is_stale(snapshot, policy_of(policy), now)
  IN  IF trust # OK THEN trust
      ELSE IF ~ usable
           THEN IF policy_fail_mode(policy) \in {"soft_fail", "fail_open"}
                THEN Stale
                ELSE "TCT_REVOKED"
           ELSE IF queriedJti # Absent /\ queriedJti \in snapshot.entries
                THEN "TCT_REVOKED"
                ELSE NotRevoked

=============================================================================
