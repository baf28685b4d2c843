-------------------------- MODULE RevocationProofs --------------------------
(***************************************************************************)
(* Theorems about RevocationLifecycle, for every set of issuers, tokens,   *)
(* contexts and forgeries, every snapshot lifetime, clock lead and bound.  *)
(***************************************************************************)
EXTENDS RevocationLifecycle, VerdictLemmas

LEMMA TypeInit == Init => TypeOK
BY WorldAssumption DEF Init, TypeOK

LEMMA TypeStep == TypeOK /\ [Next]_vars => TypeOK'
<1> SUFFICES ASSUME TypeOK, [Next]_vars
             PROVE  TypeOK'
  OBVIOUS
<1> USE DEF TypeOK
<1>1. CASE Tick
  BY <1>1, WorldAssumption DEF Tick
<1>2. ASSUME NEW i \in Honest, NEW j \in Jti, Revoke(i, j)
      PROVE  TypeOK'
  BY <1>2, WorldAssumption DEF Revoke
<1>3. ASSUME NEW i \in Honest, NEW lead \in 0 .. MaxLead, Publish(i, lead)
      PROVE  TypeOK'
  <2>1. now + lead \in Times
    BY WorldAssumption DEF Times
  <2>2. Revoked(i) \in SUBSET Jti
    BY DEF Revoked
  <2>3. Snapshot(i, now + lead, Revoked(i))
          \in {Snapshot(h, at, e) : h \in Honest, at \in Times, e \in SUBSET Jti}
    BY <2>1, <2>2
  <2>4. QED
    BY <1>3, <2>3 DEF Publish
<1>4. CASE ObtainPublished
  BY <1>4 DEF ObtainPublished, Obtain
<1>5. CASE ObtainForged
  BY <1>5 DEF ObtainForged, Obtain
<1>6. CASE ObtainNothing
  BY <1>6 DEF ObtainNothing, Obtain
<1>7. ASSUME NEW t \in Tokens, NEW c \in Contexts, Verify(t, c)
      PROVE  TypeOK'
  BY <1>7 DEF Verify
<1>8. CASE Return
  BY <1>8 DEF Return
<1>9. CASE UNCHANGED vars
  BY <1>9 DEF vars
<1>10. QED
  BY <1>1, <1>2, <1>3, <1>4, <1>5, <1>6, <1>7, <1>8, <1>9 DEF Next

(***************************************************************************)
(* The state of the world stays in its types (TypeOK of the runs).         *)
(***************************************************************************)
THEOREM TypeCorrect == Spec => []TypeOK
BY TypeInit, TypeStep, PTL DEF Spec

-----------------------------------------------------------------------------
(***************************************************************************)
(* Evidence.  Under fail_closed no operation accepts a token of an honest  *)
(* issuer without a snapshot that this issuer published and that is fresh, *)
(* so none accepts one on a forgery or on nothing.                         *)
(***************************************************************************)
Evidence(token, context, snapshot, time) ==
  /\ snapshot # Absent
  /\ snapshot \notin Forgeries
  /\ snapshot.issuer = token.iss
  /\ token.jti \notin snapshot.entries
  /\ ~ snapshot_is_stale(snapshot, policy_of(context.policy), time)

LEMMA FailClosedMode ==
  ASSUME NEW context, FailClosed(context)
  PROVE  policy_fail_mode(context.policy) = "fail_closed"
BY DEF FailClosed, policy_fail_mode, policy_of, NoPolicy, resolve_fail_mode, FAIL_MODES

LEMMA AcceptanceNeedsEvidence ==
  ASSUME NEW token \in Tokens, NEW context \in Contexts, NEW snapshot, NEW time,
         token.iss \in Honest, FailClosed(context),
         Accepts(token, context, snapshot, time)
  PROVE  Evidence(token, context, snapshot, time)
<1> DEFINE env == Env(context, snapshot)
           policy == context.policy
<1>1. /\ token.jti \in Jti /\ Absent \notin Jti
      /\ context.op \in Operations
  BY WorldAssumption DEF Context
<1>2. env.snapshot = snapshot /\ env.policy = policy
  BY DEF Env
<1>3. /\ snapshot # Absent
      /\ verify_snapshot_trust(snapshot) = OK
      /\ snapshot.issuer = token.iss
      /\ ~ snapshot_is_stale(snapshot, policy_of(policy), time)
      /\ token.jti \notin snapshot.entries
  <2> HIDE DEF env
  <2>1. CASE check_revocation(token, snapshot, policy, time) = OK
    BY <2>1, FailClosedMode, CheckedEvidence
  <2>2. CASE context.op = "verify_tct"
    <3>1. verify_tct(token, env, time) = OK
      BY <2>2 DEF Accepts, Verdict, Success, env
    <3>2. QED
      BY <3>1, <1>2, <2>1, TctAccepted
  <2>3. CASE context.op = "verify_attestation"
    <3>1. verify_attestation(token, "statement", context.trustStore,
                             context.manifestExpiresAt = Absent, env, time) = OK
      BY <2>3 DEF Accepts, Verdict, Success, env
    <3>2. QED
      BY <3>1, <1>2, <2>1, AttestationAccepted
  <2>4. CASE context.op = "verify_tct_as_issuer"
    <3>1. verify_tct_as_issuer(token, context.selfAid, Channel(context), env, time) = OK
      BY <2>4 DEF Accepts, Verdict, Success, env
    <3>2. QED
      BY <3>1, <1>2, <2>1, ReturnedTctAccepted
  <2>5. CASE context.op = "verify_revocation_snapshot"
    <3>1. /\ snapshot # Absent
          /\ verify_revocation_snapshot(snapshot, token.iss, token.jti, policy, time)
               = NotRevoked
      BY <2>5 DEF Accepts, Verdict, Success, NotRevoked
    <3>2. QED
      BY <3>1, <1>1, NotRevokedEvidence
  <2>6. QED
    BY <1>1, <2>2, <2>3, <2>4, <2>5 DEF Operations
<1>4. snapshot \notin Forgeries
  BY <1>3, TrustedSnapshot, WorldAssumption DEF SignedBy
<1>5. QED
  BY <1>3, <1>4 DEF Evidence

-----------------------------------------------------------------------------
(***************************************************************************)
(* The inductive invariant.  RevocationHorizon says nothing of snapshots,  *)
(* so by itself it cannot survive Verify: what survives every step is that *)
(* deny lists are truthful, and that a verdict is the one of the clock and *)
(* the snapshot it was asked for, which no step changes before Return.     *)
(***************************************************************************)
VerdictIsCurrent ==
  ~ Idle => call.verdict = Verdict(call.token, call.context, held, now)

IInv == TypeOK /\ DenyListsAreTruthful /\ VerdictIsCurrent

LEMMA SnapshotsAreRecords ==
  ASSUME TypeOK, NEW s \in published
  PROVE  /\ s.issuer \in Honest
         /\ s.published_at \in Nat
         /\ s.expires_at = s.published_at + Lifetime
<1>1. PICK i \in Honest, at \in Times, e \in SUBSET Jti : s = Snapshot(i, at, e)
  BY DEF TypeOK
<1>2. at \in Nat
  BY WorldAssumption DEF Times
<1>3. QED
  BY <1>1, <1>2 DEF Snapshot

LEMMA InvInit == Init => IInv
BY TypeInit DEF Init, IInv, DenyListsAreTruthful, VerdictIsCurrent, Idle, NoCall

LEMMA DenyListsStep ==
  TypeOK /\ DenyListsAreTruthful /\ [Next]_vars => DenyListsAreTruthful'
<1> SUFFICES ASSUME TypeOK, DenyListsAreTruthful, [Next]_vars
             PROVE  DenyListsAreTruthful'
  OBVIOUS
<1>1. CASE Tick
  <2>1. \A s \in published : s.published_at \in Nat
    BY SnapshotsAreRecords
  <2>2. QED
    BY <1>1, <2>1, WorldAssumption DEF Tick, DenyListsAreTruthful, TypeOK
<1>2. ASSUME NEW i \in Honest, NEW j \in Jti, Revoke(i, j)
      PROVE  DenyListsAreTruthful'
  <2> SUFFICES ASSUME NEW s \in published, NEW k \in Jti \ s.entries,
                      revokedAt'[s.issuer][k] # Never
               PROVE  s.published_at <= revokedAt'[s.issuer][k] + MaxLead
    BY <1>2 DEF Revoke, DenyListsAreTruthful
  <2>1. CASE s.issuer = i /\ k = j
    <3>1. revokedAt'[s.issuer][k] = now
      BY <1>2, <2>1 DEF Revoke, TypeOK
    <3>2. QED
      BY <3>1 DEF DenyListsAreTruthful
  <2>2. CASE ~ (s.issuer = i /\ k = j)
    <3>1. revokedAt'[s.issuer][k] = revokedAt[s.issuer][k]
      BY <1>2, <2>2, SnapshotsAreRecords DEF Revoke, TypeOK
    <3>2. QED
      BY <3>1 DEF DenyListsAreTruthful
  <2>3. QED
    BY <2>1, <2>2
<1>3. ASSUME NEW i \in Honest, NEW lead \in 0 .. MaxLead, Publish(i, lead)
      PROVE  DenyListsAreTruthful'
  <2> DEFINE new == Snapshot(i, now + lead, Revoked(i))
  <2>1. /\ new.issuer = i
        /\ new.published_at = now + lead
        /\ new.entries = Revoked(i)
    BY DEF Snapshot
  <2>2. new.published_at <= now + MaxLead
    BY <2>1, WorldAssumption DEF TypeOK
  <2>3. \A k \in Jti \ new.entries : revokedAt[new.issuer][k] = Never
    BY <2>1 DEF Revoked
  <2>4. published' = published \cup {new} /\ UNCHANGED <<now, revokedAt>>
    BY <1>3 DEF Publish
  <2> HIDE DEF new
  <2>5. QED
    BY <2>2, <2>3, <2>4 DEF DenyListsAreTruthful
<1>4. CASE UNCHANGED <<now, revokedAt, published>>
  BY <1>4 DEF DenyListsAreTruthful
<1>5. QED
  BY <1>1, <1>2, <1>3, <1>4
  DEF Next, vars, ObtainPublished, ObtainForged, ObtainNothing, Obtain, Verify, Return

LEMMA VerdictStep == VerdictIsCurrent /\ [Next]_vars => VerdictIsCurrent'
<1> SUFFICES ASSUME VerdictIsCurrent, [Next]_vars
             PROVE  VerdictIsCurrent'
  OBVIOUS
<1>1. CASE UNCHANGED call /\ Idle
  BY <1>1 DEF VerdictIsCurrent, Idle
<1>2. ASSUME NEW t \in Tokens, NEW c \in Contexts, Verify(t, c)
      PROVE  VerdictIsCurrent'
  BY <1>2 DEF Verify, VerdictIsCurrent
<1>3. CASE Return
  BY <1>3 DEF Return, VerdictIsCurrent, Idle
<1>4. CASE UNCHANGED vars
  BY <1>4 DEF vars, VerdictIsCurrent, Idle
<1>5. QED
  BY <1>1, <1>2, <1>3, <1>4
  DEF Next, Tick, Revoke, Publish, ObtainPublished, ObtainForged, ObtainNothing, Obtain

LEMMA InvStep == IInv /\ [Next]_vars => IInv'
BY TypeStep, DenyListsStep, VerdictStep DEF IInv

-----------------------------------------------------------------------------
(***************************************************************************)
(* From evidence to the horizon: a snapshot that is fresh and does not     *)
(* list a token is at most its lifetime, and at most max_staleness_secs,   *)
(* older than the revocation of that token.                                *)
(***************************************************************************)
LEMMA EvidenceHorizon ==
  ASSUME TypeOK, DenyListsAreTruthful,
         NEW token \in Tokens, NEW context \in Contexts, token.iss \in Honest,
         held \in published, Evidence(token, context, held, now)
  PROVE  WithinHorizon(revokedAt[token.iss][token.jti], context.policy)
<1> DEFINE revocation == revokedAt[token.iss][token.jti]
           policy == policy_of(context.policy)
<1> SUFFICES ASSUME revocation # Never
             PROVE  /\ now < revocation + Lifetime + MaxLead
                    /\ policy.bound = "seconds" =>
                         now <= revocation + policy.max_staleness_secs + MaxLead
  BY DEF WithinHorizon
<1>1. /\ held.issuer = token.iss
      /\ token.jti \in Jti \ held.entries
      /\ held.published_at \in Nat
      /\ held.expires_at = held.published_at + Lifetime
  BY SnapshotsAreRecords, WorldAssumption DEF Evidence
<1>2. now \in Int /\ revocation \in Int /\ Lifetime \in Nat /\ MaxLead \in Nat
  BY <1>1, WorldAssumption DEF TypeOK
<1>3. held.published_at <= revocation + MaxLead
  BY <1>1 DEF DenyListsAreTruthful
<1>4. /\ ~ (now >= held.expires_at)
      /\ ~ (policy.bound = "seconds"
             /\ now - held.published_at > policy.max_staleness_secs)
  BY DEF Evidence, snapshot_is_stale
<1>5. policy.max_staleness_secs \in Int
  BY WorldAssumption DEF Context, Policy, policy_of, NoPolicy
<1> HIDE DEF revocation, policy
<1>6. QED
  BY <1>1, <1>2, <1>3, <1>4, <1>5

LEMMA AcceptedCallHasEvidence ==
  ASSUME IInv, Accepted, FailClosed(call.context), call.token.iss \in Honest
  PROVE  /\ call.token \in Tokens /\ call.context \in Contexts
         /\ held \in published
         /\ Evidence(call.token, call.context, held, now)
<1>1. call.token \in Tokens /\ call.context \in Contexts
  BY DEF IInv, TypeOK, Accepted, Idle
<1>2. Accepts(call.token, call.context, held, now)
  BY DEF IInv, VerdictIsCurrent, Accepted, Accepts
<1>3. Evidence(call.token, call.context, held, now)
  BY <1>1, <1>2, AcceptanceNeedsEvidence
<1>4. QED
  BY <1>1, <1>3 DEF IInv, TypeOK, Evidence

LEMMA HorizonFromInv == IInv => RevocationHorizon
BY AcceptedCallHasEvidence, EvidenceHorizon DEF IInv, RevocationHorizon

(***************************************************************************)
(* A revocation bites within the horizon, whatever the network delivers,   *)
(* for every lifetime and every staleness bound (RevocationHorizon).       *)
(***************************************************************************)
THEOREM RevocationHorizonHolds == Spec => []RevocationHorizon
BY InvInit, InvStep, HorizonFromInv, PTL DEF Spec

(***************************************************************************)
(* Deny lists stay truthful (DenyListsAreTruthful).                        *)
(***************************************************************************)
THEOREM DenyListsAreTruthfulHolds == Spec => []DenyListsAreTruthful
<1>1. IInv => DenyListsAreTruthful
  BY DEF IInv
<1>2. QED
  BY <1>1, InvInit, InvStep, PTL DEF Spec

(***************************************************************************)
(* Right after a forgery or nothing replaced what the caller held, nothing *)
(* is accepted under fail_closed (CorruptionNeverAdmits).                  *)
(***************************************************************************)
THEOREM CorruptionNeverAdmitsHolds == Spec => CorruptionNeverAdmits
<1> DEFINE Step == held' # held /\ held' \notin published =>
                     \A t \in Tokens, c \in Contexts :
                       FailClosed(c) /\ t.iss \in Honest => ~ Accepts(t, c, held', now')
<1>1. [Next]_vars => [Step]_vars
  <2> SUFFICES ASSUME Next, held' # held, held' \notin published,
                      NEW t \in Tokens, NEW c \in Contexts,
                      FailClosed(c), t.iss \in Honest, Accepts(t, c, held', now')
               PROVE  FALSE
    OBVIOUS
  <2>1. held' \in Forgeries \cup {Absent}
    BY DEF Next, Tick, Revoke, Publish, ObtainPublished, ObtainForged, ObtainNothing,
           Obtain, Verify, Return
  <2>2. Evidence(t, c, held', now')
    BY AcceptanceNeedsEvidence
  <2>3. QED
    BY <2>1, <2>2 DEF Evidence
<1>2. QED
  BY <1>1, PTL DEF Spec, CorruptionNeverAdmits

-----------------------------------------------------------------------------
(***************************************************************************)
(* Waiting.  Every comparison with the clock gets harder as it advances,   *)
(* so an acceptance at a later time is one at every earlier time too.      *)
(***************************************************************************)
LEMMA FreshEarlier ==
  ASSUME NEW body, NEW policy, body.expires_at \in Int, body.published_at \in Int,
         policy.max_staleness_secs \in Int,
         NEW early \in Int, NEW late \in Int, early <= late,
         ~ snapshot_is_stale(body, policy, late)
  PROVE  ~ snapshot_is_stale(body, policy, early)
BY DEF snapshot_is_stale

LEMMA CheckedEarlier ==
  ASSUME NEW token, NEW policy, policy_fail_mode(policy) = "fail_closed",
         policy_of(policy).max_staleness_secs \in Int,
         NEW snapshot, snapshot # Absent =>
           snapshot.expires_at \in Int /\ snapshot.published_at \in Int,
         NEW early \in Int, NEW late \in Int, early <= late,
         check_revocation(token, snapshot, policy, late) = OK
  PROVE  check_revocation(token, snapshot, policy, early) = OK
<1>1. snapshot # Absent /\ ~ snapshot_is_stale(snapshot, policy_of(policy), late)
  BY CheckedEvidence
<1>2. ~ snapshot_is_stale(snapshot, policy_of(policy), early)
  BY <1>1, FreshEarlier
<1>3. snapshot_applies(token, snapshot, policy, early)
  BY <1>1, <1>2, CheckedEvidence DEF snapshot_applies
<1>4. token.jti \notin snapshot.entries
  BY CheckedEvidence
<1>5. QED
  BY <1>3, <1>4 DEF check_revocation, Check

LEMMA AcceptedEarlier ==
  ASSUME NEW token \in Tokens, NEW context \in Contexts, FailClosed(context),
         NEW snapshot, snapshot # Absent =>
           snapshot.expires_at \in Int /\ snapshot.published_at \in Int,
         NEW early \in Int, NEW late \in Int, early <= late,
         Accepts(token, context, snapshot, late)
  PROVE  Accepts(token, context, snapshot, early)
<1> DEFINE env == Env(context, snapshot)
           policy == context.policy
<1>1. /\ context.op \in Operations
      /\ token.exp \in Int
      /\ policy_of(policy).max_staleness_secs \in Int
  BY WorldAssumption DEF Context, Policy, policy_of, NoPolicy
<1>2. env.snapshot = snapshot /\ env.policy = policy
  BY DEF Env
<1>3. late < token.exp => early < token.exp
  BY <1>1
<1>4. check_revocation(token, snapshot, policy, late) = OK
        => check_revocation(token, snapshot, policy, early) = OK
  BY <1>1, FailClosedMode, CheckedEarlier
<1> HIDE DEF env
<1>5. CASE context.op = "verify_tct"
  <2>1. verify_tct(token, env, late) = OK
    BY <1>5 DEF Accepts, Verdict, Success, env
  <2>2. verify_tct(token, env, early) = OK
    BY <2>1, <1>2, <1>3, <1>4, TctAccepted
  <2>3. QED
    BY <1>5, <2>2 DEF Accepts, Verdict, Success, env
<1>6. CASE context.op = "verify_attestation"
  <2> DEFINE answer(time) ==
        verify_attestation(token, "statement", context.trustStore,
                           context.manifestExpiresAt = Absent, env, time)
  <2>1. answer(late) = OK
    BY <1>6 DEF Accepts, Verdict, Success, env
  <2>2. answer(early) = OK
    BY <2>1, <1>2, <1>3, <1>4, AttestationAccepted
  <2>3. QED
    BY <1>6, <2>2 DEF Accepts, Verdict, Success, env
<1>7. CASE context.op = "verify_tct_as_issuer"
  <2> DEFINE answer(time) ==
        verify_tct_as_issuer(token, context.selfAid, Channel(context), env, time)
  <2>1. answer(late) = OK
    BY <1>7 DEF Accepts, Verdict, Success, env
  <2>2. \A time : check_presenter(token, Channel(context), time)
                    = Check(context.channelBoundAid # Absent, "POP_RESPONSE_INVALID")
    BY DEF check_presenter, Channel
  <2>3. answer(early) = OK
    BY <2>1, <2>2, <1>2, <1>3, <1>4, ReturnedTctAccepted
  <2>4. QED
    BY <1>7, <2>3 DEF Accepts, Verdict, Success, env
<1>8. CASE context.op = "verify_revocation_snapshot"
  <2> DEFINE answer(time) ==
        verify_revocation_snapshot(snapshot, token.iss, token.jti, policy, time)
  <2>1. snapshot # Absent /\ answer(late) = NotRevoked
    BY <1>8 DEF Accepts, Verdict, Success, NotRevoked
  <2>2. ~ snapshot_is_stale(snapshot, policy_of(policy), early)
    BY <2>1, <1>1, NotRevokedEvidence, FreshEarlier
  <2>3. answer(early) = NotRevoked
    BY <2>1, <2>2, NotRevokedEvidence DEF verify_revocation_snapshot
  <2>4. QED
    BY <1>8, <2>1, <2>3 DEF Accepts, Verdict, Success
<1>9. QED
  BY <1>1, <1>5, <1>6, <1>7, <1>8 DEF Operations

(***************************************************************************)
(* Under fail_closed waiting never helps (WaitingNeverAdmits).             *)
(***************************************************************************)
THEOREM WaitingNeverAdmitsHolds == Spec => WaitingNeverAdmits
<1> DEFINE Step == now' > now =>
                     \A t \in Tokens, c \in Contexts :
                       FailClosed(c) /\ Accepts(t, c, held, now') => Accepts(t, c, held, now)
<1>1. TypeOK /\ [Next]_vars => [Step]_vars
  <2> SUFFICES ASSUME TypeOK, Next, now' > now,
                      NEW t \in Tokens, NEW c \in Contexts,
                      FailClosed(c), Accepts(t, c, held, now')
               PROVE  Accepts(t, c, held, now)
    OBVIOUS
  <2>1. now \in Int /\ now' \in Int /\ now <= now'
    BY TypeStep, WorldAssumption DEF TypeOK
  <2>2. held # Absent => held.expires_at \in Int /\ held.published_at \in Int
    BY SnapshotsAreRecords, WorldAssumption DEF TypeOK
  <2>3. QED
    BY <2>1, <2>2, AcceptedEarlier
<1>2. QED
  BY <1>1, TypeInit, TypeStep, PTL DEF Spec, WaitingNeverAdmits

-----------------------------------------------------------------------------
(***************************************************************************)
(* No false revocation.  The invariant needs the other half of a truthful  *)
(* deny list: an honest snapshot lists revoked tokens only, for ever, as   *)
(* no issuer takes a revocation back.                                      *)
(***************************************************************************)
ListsOnlyRevoked ==
  \A s \in published : \A j \in s.entries : revokedAt[s.issuer][j] # Never

LEMMA ListsOnlyRevokedStep ==
  TypeOK /\ ListsOnlyRevoked /\ [Next]_vars => ListsOnlyRevoked'
<1> SUFFICES ASSUME TypeOK, ListsOnlyRevoked, [Next]_vars
             PROVE  ListsOnlyRevoked'
  OBVIOUS
<1>1. \A s \in published : s.issuer \in Honest /\ s.entries \subseteq Jti
  BY DEF TypeOK, Snapshot
<1>2. ASSUME NEW i \in Honest, NEW j \in Jti, Revoke(i, j)
      PROVE  ListsOnlyRevoked'
  <2> SUFFICES ASSUME NEW s \in published, NEW k \in s.entries
               PROVE  revokedAt'[s.issuer][k] # Never
    BY <1>2 DEF Revoke, ListsOnlyRevoked
  <2>1. now # Never
    BY WorldAssumption DEF TypeOK
  <2>2. revokedAt[s.issuer][k] # Never
    BY DEF ListsOnlyRevoked
  <2>3. QED
    BY <1>1, <1>2, <2>1, <2>2 DEF Revoke, TypeOK
<1>3. ASSUME NEW i \in Honest, NEW lead \in 0 .. MaxLead, Publish(i, lead)
      PROVE  ListsOnlyRevoked'
  BY <1>3 DEF Publish, Snapshot, Revoked, ListsOnlyRevoked
<1>4. CASE UNCHANGED <<revokedAt, published>>
  BY <1>4 DEF ListsOnlyRevoked
<1>5. QED
  BY <1>2, <1>3, <1>4
  DEF Next, vars, Tick, ObtainPublished, ObtainForged, ObtainNothing, Obtain, Verify, Return

LEMMA PermissiveMode ==
  ASSUME NEW context \in Contexts, ~ FailClosed(context)
  PROVE  policy_fail_mode(context.policy) \in {"soft_fail", "fail_open"}
BY DEF FailClosed, policy_fail_mode, policy_of, resolve_fail_mode, FAIL_MODES

\* A token decision that says TCT_REVOKED got that from its revocation check.
LEMMA RevokedByCheck ==
  ASSUME NEW token, NEW context \in Contexts, NEW snapshot, NEW time,
         context.op # "verify_revocation_snapshot",
         Verdict(token, context, snapshot, time) = "TCT_REVOKED"
  PROVE  check_revocation(token, snapshot, context.policy, time) = "TCT_REVOKED"
<1> DEFINE env == Env(context, snapshot)
           invalid == "TCT_SIGNATURE_INVALID"
           shape == check_tct_claims_shape(token, invalid)
           jws(aid, after) == verify_jws(token, aid, "aitp-tct+jwt", TctErrors, after)
           revocation == check_revocation(token, env.snapshot, env.policy, time)
<1>1. /\ context.op \in Operations
      /\ env.snapshot = snapshot /\ env.policy = context.policy
  BY WorldAssumption DEF Context, Env
<1>2. /\ \A aid : jws(aid, shape) # "TCT_REVOKED"
      /\ jws(token.iss, attestation_pre_signature(token, context.trustStore)) # "TCT_REVOKED"
  BY JwsCodes, TctShapeCodes, PreSignatureCodes DEF TctErrors, OK, ValueError
<1>3. \A holds : /\ Check(holds, invalid) # "TCT_REVOKED"
                 /\ Check(holds, "UNKNOWN_VERSION") # "TCT_REVOKED"
                 /\ Check(holds, "AUDIENCE_MISMATCH") # "TCT_REVOKED"
                 /\ Check(holds, "TCT_EXPIRED") # "TCT_REVOKED"
                 /\ Check(holds, "POP_RESPONSE_INVALID") # "TCT_REVOKED"
                 /\ Check(holds, ValueError) # "TCT_REVOKED"
  BY DEF Check, OK, ValueError
<1>4. /\ check_grant_context(token) # "TCT_REVOKED"
      /\ check_cnf(token, "TCT_CNF_MISMATCH") # "TCT_REVOKED"
      /\ check_cnf(token, invalid) # "TCT_REVOKED"
      /\ check_manifest_cap(token, env.manifestExpiresAt) # "TCT_REVOKED"
      /\ parse_compact(token, invalid) # "TCT_REVOKED"
      /\ check_presenter(token, Channel(context), time) # "TCT_REVOKED"
      /\ OK # "TCT_REVOKED"
  BY DEF check_grant_context, check_cnf, check_manifest_cap, parse_compact, check_presenter,
         Channel, Check, OK
<1> HIDE DEF env, shape, revocation, invalid
<1>5. CASE context.op = "verify_tct"
  <2>1. verify_tct(token, env, time) = "TCT_REVOKED"
    BY <1>5 DEF Verdict, env
  <2>2. revocation = "TCT_REVOKED"
    BY <2>1, <1>2, <1>3, <1>4, NineChecks DEF verify_tct, shape, revocation, invalid
  <2>3. QED
    BY <1>1, <2>2 DEF revocation
<1>6. CASE context.op = "verify_attestation"
  <2>1. verify_attestation(token, "statement", context.trustStore,
                           context.manifestExpiresAt = Absent, env, time) = "TCT_REVOKED"
    BY <1>6 DEF Verdict, env
  <2>2. revocation = "TCT_REVOKED"
    BY <2>1, <1>2, <1>3, <1>4, TenChecks DEF verify_attestation, revocation, invalid
  <2>3. QED
    BY <1>1, <2>2 DEF revocation
<1>7. CASE context.op = "verify_tct_as_issuer"
  <2>1. verify_tct_as_issuer(token, context.selfAid, Channel(context), env, time)
          = "TCT_REVOKED"
    BY <1>7 DEF Verdict, env
  <2>2. revocation = "TCT_REVOKED"
    BY <2>1, <1>2, <1>3, <1>4, TwelveChecks
    DEF verify_tct_as_issuer, shape, revocation, invalid
  <2>3. QED
    BY <1>1, <2>2 DEF revocation
<1>8. QED
  BY <1>1, <1>5, <1>6, <1>7 DEF Operations

LEMMA NoFalseRevocationFromInv == IInv /\ ListsOnlyRevoked => NoFalseRevocation
<1> SUFFICES ASSUME IInv, ListsOnlyRevoked,
                    call.verdict = "TCT_REVOKED", ~ FailClosed(call.context),
                    call.token.iss \in Honest
             PROVE  revokedAt[call.token.iss][call.token.jti] # Never
  BY DEF NoFalseRevocation
<1> DEFINE token == call.token
           policy == call.context.policy
<1>1. ~ Idle
  BY DEF Idle, NoCall
<1>2. token \in Tokens /\ call.context \in Contexts
  BY <1>1 DEF IInv, TypeOK, Idle
<1>3. Verdict(token, call.context, held, now) = "TCT_REVOKED"
  BY <1>1 DEF IInv, VerdictIsCurrent
<1>4. policy_fail_mode(policy) \in {"soft_fail", "fail_open"}
  BY <1>2, PermissiveMode
<1>5. /\ held # Absent
      /\ verify_snapshot_trust(held) = OK
      /\ held.issuer = token.iss
      /\ token.jti \in held.entries
  <2>1. CASE call.context.op = "verify_revocation_snapshot"
    <3>1. /\ held # Absent
          /\ verify_revocation_snapshot(held, token.iss, token.jti, policy, now)
               = "TCT_REVOKED"
      BY <1>3, <2>1 DEF Verdict
    <3>2. QED
      BY <1>4, <3>1, RevokedByEntryPoint
  <2>2. CASE call.context.op # "verify_revocation_snapshot"
    <3>1. check_revocation(token, held, policy, now) = "TCT_REVOKED"
      BY <1>2, <1>3, <2>2, RevokedByCheck
    <3>2. policy_fail_mode(policy) # "fail_closed"
      BY <1>4
    <3>3. QED
      BY <3>1, <3>2, RevokedEvidence
  <2>3. QED
    BY <2>1, <2>2
<1>6. held \notin Forgeries
  BY <1>5, TrustedSnapshot, WorldAssumption DEF SignedBy
<1>7. held \in published
  BY <1>5, <1>6 DEF IInv, TypeOK
<1>8. QED
  BY <1>5, <1>7 DEF ListsOnlyRevoked

(***************************************************************************)
(* Only the issuer revokes: where absence is tolerated, TCT_REVOKED is     *)
(* said of revoked tokens only (NoFalseRevocation).                        *)
(***************************************************************************)
THEOREM NoFalseRevocationHolds == Spec => []NoFalseRevocation
<1>1. Init => ListsOnlyRevoked
  BY DEF Init, ListsOnlyRevoked
<1>2. IInv => TypeOK
  BY DEF IInv
<1>3. QED
  BY <1>1, <1>2, InvInit, InvStep, ListsOnlyRevokedStep, NoFalseRevocationFromInv, PTL
  DEF Spec

-----------------------------------------------------------------------------
(***************************************************************************)
(* Revocation runs last in each of the three token operations.  What the   *)
(* caller holds and its policy reach the last check only, and without a    *)
(* snapshot a permissive caller has nothing against the token there.       *)
(***************************************************************************)
LEMMA NothingAgainst ==
  ASSUME NEW token, NEW context \in Contexts, NEW time
  PROVE  check_revocation(token, Absent, Unconcerned(context).policy, time) = OK
<1>1. Unconcerned(context).policy = [NoPolicy EXCEPT !.mode = "fail_open"]
  BY WorldAssumption DEF Unconcerned, Context
<1>2. Unconcerned(context).policy # Absent
  BY <1>1, WorldAssumption DEF FAIL_MODES
<1>3. policy_of(Unconcerned(context).policy).mode = "fail_open"
  BY <1>1, <1>2, WorldAssumption DEF policy_of, NoPolicy
<1>4. QED
  BY <1>3
  DEF check_revocation, snapshot_applies, apply_absence, Check, policy_fail_mode,
      resolve_fail_mode, FAIL_MODES

LEMMA RevocationRunsLast ==
  ASSUME NEW token, NEW context \in Contexts, NEW snapshot, NEW time,
         context.op # "verify_revocation_snapshot"
  PROVE  LET verdict   == Verdict(token, context, snapshot, time)
             otherwise == Verdict(token, Unconcerned(context), Absent, time)
         IN  \/ verdict = otherwise
             \/ /\ otherwise = OK
                /\ verdict = check_revocation(token, snapshot, context.policy, time)
<1> DEFINE other == Unconcerned(context)
           env == Env(context, snapshot)
           otherEnv == Env(other, Absent)
           revocation == check_revocation(token, snapshot, context.policy, time)
           nothing == check_revocation(token, Absent, other.policy, time)
<1>1. /\ other.op = context.op /\ context.op \in Operations
      /\ other.selfAid = context.selfAid
      /\ other.manifestExpiresAt = context.manifestExpiresAt
      /\ other.channelBoundAid = context.channelBoundAid
      /\ other.trustStore = context.trustStore
  BY WorldAssumption DEF Unconcerned, Context
<1>2. /\ otherEnv.audience = env.audience
      /\ otherEnv.manifestExpiresAt = env.manifestExpiresAt
      /\ env.manifestExpiresAt = context.manifestExpiresAt
      /\ env.snapshot = snapshot /\ env.policy = context.policy
      /\ otherEnv.snapshot = Absent /\ otherEnv.policy = other.policy
      /\ Channel(other) = Channel(context)
  BY <1>1 DEF Env, Channel
<1>3. nothing = OK
  BY NothingAgainst
<1> HIDE DEF other, env, otherEnv, nothing, revocation
<1>4. CASE context.op = "verify_tct"
  <2> DEFINE list(e, last) ==
        << verify_jws(token, token.iss, "aitp-tct+jwt", TctErrors,
                      check_tct_claims_shape(token, "TCT_SIGNATURE_INVALID")),
           Check(token.ver = PROTOCOL_VERSION, "UNKNOWN_VERSION"),
           Check(e.audience \in {Absent, token.aud}, "AUDIENCE_MISMATCH"),
           Check(time < token.exp, "TCT_EXPIRED"),
           check_grant_context(token),
           Check(token.sub \in Aid, "TCT_SIGNATURE_INVALID"),
           check_cnf(token, "TCT_CNF_MISMATCH"),
           check_manifest_cap(token, e.manifestExpiresAt),
           last >>
         checks == list(env, revocation)
         others == list(otherEnv, nothing)
  <2>1. /\ verify_tct(token, env, time) = FirstError(checks)
        /\ verify_tct(token, otherEnv, time) = FirstError(others)
    BY <1>2 DEF verify_tct, revocation, nothing
  <2>2. /\ DOMAIN checks = 1..9 /\ DOMAIN others = 1..9
        /\ checks[9] = revocation /\ others[9] = OK
        /\ \A i \in 1..9 : i # 9 => checks[i] = others[i]
    BY <1>2, <1>3
  <2> HIDE DEF list, checks, others
  <2>3. \/ FirstError(checks) = FirstError(others)
        \/ FirstError(others) = OK /\ FirstError(checks) = checks[9]
    <3>1. 9 \in Nat /\ 9 \in 1..9
      OBVIOUS
    <3>2. QED
      BY <2>2, <3>1, LastCheckDecides
  <2>4. QED
    BY <1>1, <1>4, <2>1, <2>2, <2>3 DEF Verdict, env, otherEnv, other, revocation
<1>5. CASE context.op = "verify_attestation"
  <2> DEFINE list(e, last) ==
        << Check(e.manifestExpiresAt # Absent \/ context.manifestExpiresAt = Absent, ValueError),
           verify_jws(token, token.iss, "aitp-tct+jwt", TctErrors,
                      attestation_pre_signature(token, context.trustStore)),
           Check(token.ver = PROTOCOL_VERSION, "UNKNOWN_VERSION"),
           Check(time < token.exp, "TCT_EXPIRED"),
           Check(token.iss = token.sub /\ token.sub = token.aud, "TCT_SIGNATURE_INVALID"),
           Check(token.grants = {ATTESTATION_MARKER}, "TCT_SIGNATURE_INVALID"),
           check_cnf(token, "TCT_SIGNATURE_INVALID"),
           Check("statement" \in token.ext, "TCT_SIGNATURE_INVALID"),
           check_manifest_cap(token, e.manifestExpiresAt),
           last >>
         checks == list(env, revocation)
         others == list(otherEnv, nothing)
         answer(e) == verify_attestation(token, "statement", context.trustStore,
                                         context.manifestExpiresAt = Absent, e, time)
  <2>1. /\ answer(env) = FirstError(checks)
        /\ answer(otherEnv) = FirstError(others)
    BY <1>2 DEF verify_attestation, revocation, nothing
  <2>2. /\ DOMAIN checks = 1..10 /\ DOMAIN others = 1..10
        /\ checks[10] = revocation /\ others[10] = OK
        /\ \A i \in 1..10 : i # 10 => checks[i] = others[i]
    BY <1>2, <1>3
  <2> HIDE DEF list, checks, others
  <2>3. \/ FirstError(checks) = FirstError(others)
        \/ FirstError(others) = OK /\ FirstError(checks) = checks[10]
    <3>1. 10 \in Nat /\ 10 \in 1..10
      OBVIOUS
    <3>2. QED
      BY <2>2, <3>1, LastCheckDecides
  <2>4. QED
    BY <1>1, <1>5, <2>1, <2>2, <2>3 DEF Verdict, env, otherEnv, other, revocation
<1>6. CASE context.op = "verify_tct_as_issuer"
  <2> DEFINE list(last) ==
        << parse_compact(token, "TCT_SIGNATURE_INVALID"),
           Check(token.iss = context.selfAid, "TCT_SIGNATURE_INVALID"),
           verify_jws(token, context.selfAid, "aitp-tct+jwt", TctErrors,
                      check_tct_claims_shape(token, "TCT_SIGNATURE_INVALID")),
           Check(token.ver = PROTOCOL_VERSION, "UNKNOWN_VERSION"),
           Check(token.aud = token.sub, "TCT_SIGNATURE_INVALID"),
           Check(time < token.exp, "TCT_EXPIRED"),
           check_grant_context(token),
           Check(token.sub \in Aid, "TCT_SIGNATURE_INVALID"),
           check_cnf(token, "TCT_CNF_MISMATCH"),
           check_presenter(token, Channel(context), time),
           Check(presenter_of(token, Channel(context)) = token.sub, "POP_RESPONSE_INVALID"),
           last >>
         checks == list(revocation)
         others == list(nothing)
         answer(e) == verify_tct_as_issuer(token, context.selfAid, Channel(context), e, time)
  <2>1. /\ answer(env) = FirstError(checks)
        /\ answer(otherEnv) = FirstError(others)
    BY <1>2 DEF verify_tct_as_issuer, revocation, nothing
  <2>2. /\ DOMAIN checks = 1..12 /\ DOMAIN others = 1..12
        /\ checks[12] = revocation /\ others[12] = OK
        /\ \A i \in 1..12 : i # 12 => checks[i] = others[i]
    BY <1>3
  <2> HIDE DEF list, checks, others
  <2>3. \/ FirstError(checks) = FirstError(others)
        \/ FirstError(others) = OK /\ FirstError(checks) = checks[12]
    <3>1. 12 \in Nat /\ 12 \in 1..12
      OBVIOUS
    <3>2. QED
      BY <2>2, <3>1, LastCheckDecides
  <2>4. QED
    BY <1>1, <1>2, <1>6, <2>1, <2>2, <2>3 DEF Verdict, env, otherEnv, other, revocation
<1>7. QED
  BY <1>1, <1>4, <1>5, <1>6 DEF Operations

\* A revocation check accepts or revokes.
LEMMA RevocationCodes ==
  ASSUME NEW token, NEW snapshot, NEW policy, NEW time
  PROVE  check_revocation(token, snapshot, policy, time) \in {OK, "TCT_REVOKED"}
BY DEF check_revocation, apply_absence, Check

LEMMA OnlyRevokesFromInv == IInv => RevocationOnlyRevokes
<1> SUFFICES ASSUME IInv, ~ Idle, call.context.op # "verify_revocation_snapshot"
             PROVE  LET otherwise == Verdict(call.token, Unconcerned(call.context), Absent, now)
                    IN  \/ call.verdict = otherwise
                        \/ otherwise = OK /\ call.verdict = "TCT_REVOKED"
  BY DEF RevocationOnlyRevokes
<1>1. call.context \in Contexts
  BY DEF IInv, TypeOK, Idle
<1>2. call.verdict = Verdict(call.token, call.context, held, now)
  BY DEF IInv, VerdictIsCurrent
<1>3. QED
  BY <1>1, <1>2, RevocationRunsLast, RevocationCodes

(***************************************************************************)
(* Revocation turns an acceptance into TCT_REVOKED and changes no other    *)
(* verdict, whatever the caller holds (RevocationOnlyRevokes).             *)
(***************************************************************************)
THEOREM RevocationOnlyRevokesHolds == Spec => []RevocationOnlyRevokes
BY InvInit, InvStep, OnlyRevokesFromInv, PTL DEF Spec

(***************************************************************************)
(* The two copies of the revocation rule agree on whatever the network     *)
(* delivers, for every token and context (EntryPointsAgree).               *)
(***************************************************************************)
THEOREM EntryPointsAgreeHolds == Spec => []EntryPointsAgree
<1>1. TypeOK => EntryPointsAgree
  <2> SUFFICES ASSUME TypeOK, held # Absent, NEW t \in Tokens, NEW c \in Contexts
               PROVE  LET entry == verify_revocation_snapshot(held, t.iss, t.jti, c.policy, now)
                          token == check_revocation(t, held, c.policy, now)
                      IN  token = CASE entry \in {NotRevoked, Stale} -> OK
                                    [] entry = "TCT_REVOKED" -> "TCT_REVOKED"
                                    [] OTHER -> apply_absence(c.policy)
    BY Zenon DEF EntryPointsAgree
  <2>1. Absent \notin held.entries
    BY WorldAssumption DEF TypeOK, Snapshot
  <2>2. QED
    BY <2>1, RuleIsOne, Zenon
<1>2. QED
  BY <1>1, TypeInit, TypeStep, PTL DEF Spec

-----------------------------------------------------------------------------
(***************************************************************************)
(* The refinement: Verify is Admit when it admits, Return and the steps of *)
(* the network admit nothing, Tick and Revoke are themselves.              *)
(***************************************************************************)
LEMMA AdmittedNothing == Idle => Admitted = {}
BY DEF Admitted, Accepted

LEMMA PromiseInit == Init => Promise!Init
BY AdmittedNothing DEF Init, Promise!Init, Idle, NoCall

LEMMA PromiseStep ==
  IInv /\ [Next]_vars => [Promise!Next]_<<now, revokedAt, Admitted>>
<1> SUFFICES ASSUME IInv, [Next]_vars
             PROVE  [Promise!Next]_<<now, revokedAt, Admitted>>
  OBVIOUS
<1>1. ASSUME Idle, UNCHANGED call
      PROVE  Admitted' = {}
  BY <1>1 DEF Admitted, Accepted, Idle
<1>2. CASE Tick
  BY <1>1, <1>2 DEF Tick, Promise!Next, Promise!Tick
<1>3. ASSUME NEW i \in Honest, NEW j \in Jti, Revoke(i, j)
      PROVE  Promise!Next
  BY <1>1, <1>3 DEF Revoke, Promise!Next, Promise!Revoke
<1>4. ASSUME Idle, UNCHANGED <<now, revokedAt, call>>
      PROVE  Promise!Next
  BY <1>1, <1>4 DEF Promise!Next, Promise!Admit
<1>5. ASSUME NEW t \in Tokens, NEW c \in Contexts, Verify(t, c)
      PROVE  Promise!Next
  <2>1. UNCHANGED <<now, revokedAt>>
    BY <1>5 DEF Verify
  <2>2. CASE Admitted' = {}
    BY <2>1, <2>2 DEF Promise!Next, Promise!Admit
  <2>3. CASE Admitted' # {}
    <3> DEFINE i == call'.token.iss
               j == call'.token.jti
    <3>1. /\ Accepted' /\ FailClosed(call.context)' /\ i \in Honest
          /\ Admitted' = {<<i, j>>}
      BY <2>3 DEF Admitted
    <3>2. call'.token \in Tokens /\ j \in Jti
      BY <1>5, <3>1, WorldAssumption DEF Verify
    <3>3. RevocationHorizon'
      <4>1. IInv'
        BY InvStep
      <4>2. QED
        BY <4>1, HorizonFromInv, PTL
    <3>4. revokedAt[i][j] # Never => now < revokedAt[i][j] + (Lifetime + MaxLead)
      <4>1. revokedAt[i][j] # Never => now < revokedAt[i][j] + Lifetime + MaxLead
        BY <2>1, <3>1, <3>3 DEF RevocationHorizon, WithinHorizon
      <4>2. revokedAt[i][j] # Never => revokedAt[i][j] \in Int
        BY <3>1, <3>2, WorldAssumption DEF IInv, TypeOK
      <4>3. QED
        BY <4>1, <4>2, WorldAssumption
    <3>5. Promise!Admit({<<i, j>>})
      BY <2>1, <3>1, <3>4 DEF Promise!Admit
    <3>6. QED
      BY <3>1, <3>2, <3>5 DEF Promise!Next
  <2>4. QED
    BY <2>2, <2>3
<1>6. CASE Return
  <2>1. Admitted' = {}
    BY <1>6 DEF Return, Admitted, Accepted, Idle
  <2>2. QED
    BY <1>6, <2>1 DEF Return, Promise!Next, Promise!Admit
<1>7. CASE UNCHANGED vars
  BY <1>7 DEF vars, Admitted, Accepted, Idle
<1>8. QED
  BY <1>2, <1>3, <1>4, <1>5, <1>6, <1>7
  DEF Next, Publish, ObtainPublished, ObtainForged, ObtainNothing, Obtain

(***************************************************************************)
(* A fail-closed verifier keeps the promise of RevocationPromise.          *)
(***************************************************************************)
THEOREM KeepsPromiseHolds == Spec => KeepsPromise
BY InvInit, InvStep, PromiseInit, PromiseStep, PTL DEF Spec, KeepsPromise, Promise!Spec

=============================================================================
