---------------------------- MODULE MCRevocation ----------------------------
(***************************************************************************)
(* A small world for RevocationLifecycle: one honest issuer B (with two    *)
(* spellings of its AID), a holder A, the verifier V, a dishonest peer C.  *)
(***************************************************************************)
EXTENDS RevocationLifecycle

CONSTANTS kA, kB, kC, kV

MCAid == {"A", "B", "B-legacy", "C", "V"}
MCKey == {kA, kB, kC, kV}
MCKeyOf == [a \in MCAid |-> CASE a = "A" -> kA [] a = "C" -> kC [] a = "V" -> kV [] OTHER -> kB]
MCAlgOf == [k \in MCKey |-> IF k = kB THEN "EdDSA" ELSE "ES256"]
MCHonest == {"B"}
MCJti == {"j1"}

\* A TCT of B for A that every check accepts, and what can be wrong with it.
Grant ==
  [ compact |-> TRUE, members |-> TRUE, typ |-> "aitp-tct+jwt", alg |-> "EdDSA",
    signer |-> kB, defects |-> {}, ver |-> PROTOCOL_VERSION, jti |-> "j1",
    iss |-> "B", sub |-> "A", aud |-> "V", exp |-> 4, jkt |-> kA,
    grants |-> {"read"}, ext |-> {} ]

Attestation ==
  [ Grant EXCEPT !.sub = "B", !.aud = "B", !.jkt = kB,
                 !.grants = {ATTESTATION_MARKER}, !.ext = {"statement"} ]

Returned == [Grant EXCEPT !.aud = "A"]

MCTokens ==
  { Grant, Attestation, Returned,
    [Grant EXCEPT !.signer = NoKey],
    [Grant EXCEPT !.exp = 2],
    [Grant EXCEPT !.iss = "not an AID"],
    [Grant EXCEPT !.iss = "C", !.signer = kC, !.alg = "ES256"],
    [Grant EXCEPT !.defects = {"unknown_member"}, !.signer = NoKey],
    [Grant EXCEPT !.jkt = kC] }

Seconds(mode, secs) ==
  [mode |-> mode, bound |-> "seconds", max_staleness_secs |-> secs]

Call(op, selfAid, policy) ==
  [ op |-> op, selfAid |-> selfAid, manifestExpiresAt |-> Absent,
    policy |-> policy, channelBoundAid |-> Absent, trustStore |-> {} ]

MCContexts ==
  { Call("verify_tct", "V", Absent),
    Call("verify_tct", "V", Seconds("fail_klosed", 1)),
    Call("verify_tct", Absent, Seconds("soft_fail", 0)),
    Call("verify_tct", "A", Absent),
    [Call("verify_tct", "V", Absent) EXCEPT !.manifestExpiresAt = 3],
    [Call("verify_attestation", Absent, Absent) EXCEPT !.trustStore = {"B-legacy"}],
    [Call("verify_attestation", Absent, Seconds("fail_open", 1)) EXCEPT !.manifestExpiresAt = 4,
                                                                        !.trustStore = {"C"}],
    [Call("verify_tct_as_issuer", "B", Absent) EXCEPT !.channelBoundAid = "A"],
    Call("verify_tct_as_issuer", "B", Seconds("fail_open", 1)),
    Call("verify_revocation_snapshot", Absent, Absent),
    Call("verify_revocation_snapshot", Absent,
         [mode |-> "fail_closed", bound |-> "unusable", max_staleness_secs |-> 0]),
    Call("verify_revocation_snapshot", Absent, Seconds("soft_fail", 1)) }

\* C's own snapshots, B's stripped of their entries, and malformed ones.
Forged == [Snapshot("B", 1, {}) EXCEPT !.signer = NoKey, !.expires_at = MaxTime]

MCForgeries ==
  { Forged,
    [Forged EXCEPT !.signer = kC, !.entries = {"j1"}],
    [Forged EXCEPT !.issuer = "C", !.signer = kC, !.entries = {"j1"}],
    [Forged EXCEPT !.defects = {"unknown_member"}],
    [Forged EXCEPT !.issuer = "not an AID"] }

=============================================================================
