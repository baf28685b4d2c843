------------------------- MODULE RevocationLifecycle -------------------------
(***************************************************************************)
(* The verifier among the parties its verdicts are about.  Issuers revoke  *)
(* tokens and publish signed snapshots; a network delivers to the caller   *)
(* any snapshot ever published, in any order, none at all, or one that was *)
(* tampered with or made up; the caller passes what it holds to the        *)
(* library together with its clock.  The library keeps no state: what it   *)
(* answers is a function of the arguments.  A call is synchronous: `call`  *)
(* holds its arguments and verdict until it returns.                       *)
(***************************************************************************)
EXTENDS Tct, FiniteSets

CONSTANTS
  Jti,           \* token identifiers
  Tokens,        \* the tokens presented to the verifier
  Contexts,      \* the other arguments of a call, see Context
  Forgeries,     \* snapshots no honest issuer signed
  Honest,        \* the issuers that publish their deny list truthfully
  Lifetime,      \* expires_at - published_at of an honest snapshot
  MaxLead,       \* how far an issuer's clock may be ahead of the verifier's
  MaxTime,       \* bound: the clock stops here
  MaxSnapshots,  \* bound: snapshots published in a behaviour
  Never          \* the revocation time of a token that is not revoked

VARIABLES
  now,           \* the clock, in seconds
  revokedAt,     \* revokedAt[issuer][jti]: when the issuer revoked the token
  published,     \* the snapshots honest issuers have published
  held,          \* the snapshot the caller obtained last, or Absent
  call           \* the last verifier call and its verdict, or NoCall

vars == <<now, revokedAt, published, held, call>>

Operations == {"verify_tct", "verify_attestation", "verify_tct_as_issuer",
               "verify_revocation_snapshot"}

Context ==
  [ op : Operations, selfAid : Aid \cup {Absent},
    manifestExpiresAt : Nat \cup {Absent}, policy : Policy \cup {Absent},
    channelBoundAid : Aid \cup {Absent}, trustStore : SUBSET Aid ]

NoCall == [verdict |-> "none"]
Idle == call.verdict = NoCall.verdict

\* A forgery may claim any issuer, but carries no honest signature.
ASSUME WorldAssumption ==
  /\ Honest \subseteq Aid
  /\ Never \notin Nat
  /\ Lifetime \in Nat /\ MaxLead \in Nat /\ MaxTime \in Nat
  /\ Absent \notin Jti
  /\ \A m \in FAIL_MODES : Absent # [NoPolicy EXCEPT !.mode = m]
  /\ Contexts \subseteq Context
  /\ \A t \in Tokens : /\ t.exp \in Int
                       /\ t.iss \in Honest => t.jti \in Jti
  /\ \A s \in Forgeries : /\ s.signer \notin {KeyOf[h] : h \in Honest}
                          /\ s.published_at \in Int /\ s.expires_at \in Int
                          /\ Absent \notin s.entries

Times == 0 .. (MaxTime + MaxLead)

\* The published_at of an honest snapshot is its issuer's clock reading.
Snapshot(issuer, at, denied) ==
  [ issuer |-> issuer, published_at |-> at, expires_at |-> at + Lifetime,
    entries |-> denied, signer |-> KeyOf[issuer], defects |-> {} ]

Revoked(issuer) == {j \in Jti : revokedAt[issuer][j] # Never}

TypeOK ==
  /\ now \in 0 .. MaxTime
  /\ revokedAt \in [Honest -> [Jti -> (0 .. MaxTime) \cup {Never}]]
  /\ published \subseteq {Snapshot(i, at, e) : i \in Honest, at \in Times, e \in SUBSET Jti}
  /\ held \in published \cup Forgeries \cup {Absent}
  /\ \/ call = NoCall
     \/ call.token \in Tokens /\ call.context \in Contexts

Init ==
  /\ now = 0
  /\ revokedAt = [i \in Honest |-> [j \in Jti |-> Never]]
  /\ published = {}
  /\ held = Absent
  /\ call = NoCall

-----------------------------------------------------------------------------
Tick ==
  /\ Idle
  /\ now < MaxTime
  /\ now' = now + 1
  /\ UNCHANGED <<revokedAt, published, held, call>>

Revoke(issuer, jti) ==
  /\ Idle
  /\ revokedAt[issuer][jti] = Never
  /\ revokedAt' = [revokedAt EXCEPT ![issuer][jti] = now]
  /\ UNCHANGED <<now, published, held, call>>

Publish(issuer, lead) ==
  /\ Idle
  /\ Cardinality(published) < MaxSnapshots
  /\ published' = published \cup {Snapshot(issuer, now + lead, Revoked(issuer))}
  /\ UNCHANGED <<now, revokedAt, held, call>>

\* Delivery: delayed, repeated, reordered or lost, corrupted or made up.
Obtain(snapshot) ==
  /\ Idle
  /\ held # snapshot
  /\ held' = snapshot
  /\ UNCHANGED <<now, revokedAt, published, call>>

ObtainPublished == \E s \in published : Obtain(s)
ObtainForged == \E s \in Forgeries : Obtain(s)
ObtainNothing == Obtain(Absent)

-----------------------------------------------------------------------------
(***************************************************************************)
(* A call of the library.  An attestation is asked for its `statement`,    *)
(* with or without a Manifest; a TCT presented to its issuer comes over a  *)
(* channel, bound to an AID or not.                                        *)
(***************************************************************************)
Env(context, snapshot) ==
  [ audience |-> context.selfAid, manifestExpiresAt |-> context.manifestExpiresAt,
    snapshot |-> snapshot, policy |-> context.policy ]

Channel(context) == [response |-> Absent, channelBoundAid |-> context.channelBoundAid]

Verdict(token, context, snapshot, time) ==
  LET env == Env(context, snapshot)
  IN CASE context.op = "verify_tct" -> verify_tct(token, env, time)
       [] context.op = "verify_attestation" ->
            verify_attestation(token, "statement", context.trustStore,
                               context.manifestExpiresAt = Absent, env, time)
       [] context.op = "verify_tct_as_issuer" ->
            verify_tct_as_issuer(token, context.selfAid, Channel(context), env, time)
       [] context.op = "verify_revocation_snapshot" ->
            IF snapshot = Absent
            THEN "REVOCATION_SNAPSHOT_INVALID"
            ELSE verify_revocation_snapshot(snapshot, token.iss, token.jti,
                                            context.policy, time)

Verify(token, context) ==
  /\ Idle
  /\ call' = [ token |-> token, context |-> context,
               verdict |-> Verdict(token, context, held, now) ]
  /\ UNCHANGED <<now, revokedAt, published, held>>

\* The caller has its answer.
Return ==
  /\ ~ Idle
  /\ call' = NoCall
  /\ UNCHANGED <<now, revokedAt, published, held>>

Next ==
  \/ Tick
  \/ \E i \in Honest, j \in Jti : Revoke(i, j)
  \/ \E i \in Honest, lead \in 0 .. MaxLead : Publish(i, lead)
  \/ ObtainPublished
  \/ ObtainForged
  \/ ObtainNothing
  \/ \E t \in Tokens, c \in Contexts : Verify(t, c)
  \/ Return

Spec == Init /\ [][Next]_vars

-----------------------------------------------------------------------------
\* Only a policy that names a permissive mode is permissive.
FailClosed(context) ==
  context.policy = Absent \/ context.policy.mode \notin {"soft_fail", "fail_open"}

Success(context) ==
  IF context.op = "verify_revocation_snapshot" THEN NotRevoked ELSE OK

Accepts(token, context, snapshot, time) ==
  Verdict(token, context, snapshot, time) = Success(context)

Accepted == ~ Idle /\ call.verdict = Success(call.context)

(***************************************************************************)
(* What the horizon rests on: a published snapshot that does not list a    *)
(* revoked token was published no later than the revocation, by a clock at *)
(* most MaxLead ahead, and none is dated beyond that lead (the issuers     *)
(* _check_revocation relies on).                                           *)
(***************************************************************************)
DenyListsAreTruthful ==
  \A s \in published :
    /\ s.published_at <= now + MaxLead
    /\ \A j \in Jti \ s.entries :
         revokedAt[s.issuer][j] # Never =>
           s.published_at <= revokedAt[s.issuer][j] + MaxLead

(***************************************************************************)
(* Under fail_closed a revocation bites within the lifetime of a snapshot, *)
(* and within max_staleness_secs when the policy has one, whatever the     *)
(* network delivers (_check_revocation, snapshot_is_stale).  The lead of   *)
(* the issuer's clock adds to both: a snapshot from the future is fresh.   *)
(***************************************************************************)
WithinHorizon(revocation, policy) ==
  revocation # Never =>
    /\ now < revocation + Lifetime + MaxLead
    /\ policy_of(policy).bound = "seconds" =>
          now <= revocation + policy_of(policy).max_staleness_secs + MaxLead

RevocationHorizon ==
  Accepted /\ FailClosed(call.context) /\ call.token.iss \in Honest =>
    WithinHorizon(revokedAt[call.token.iss][call.token.jti], call.context.policy)

(***************************************************************************)
(* Only the issuer revokes: where absence is tolerated, no forged, alien   *)
(* or stale snapshot makes the verifier report TCT_REVOKED for a token its *)
(* issuer never revoked (_check_revocation (b), verify_snapshot_trust).    *)
(***************************************************************************)
NoFalseRevocation ==
  /\ call.verdict = "TCT_REVOKED"
  /\ ~ FailClosed(call.context)
  /\ call.token.iss \in Honest
  => revokedAt[call.token.iss][call.token.jti] # Never

(***************************************************************************)
(* Revocation comes last: what the caller holds and how it is configured   *)
(* never changes any other verdict, it can only turn an acceptance into    *)
(* TCT_REVOKED (the order of the checks in the three verify_tct* entry     *)
(* points; "Revocation runs last", item 6 of verify_tct_as_issuer).        *)
(***************************************************************************)
Unconcerned(context) ==
  [context EXCEPT !.policy = [NoPolicy EXCEPT !.mode = "fail_open"]]

RevocationOnlyRevokes ==
  ~ Idle /\ call.context.op # "verify_revocation_snapshot" =>
    LET otherwise == Verdict(call.token, Unconcerned(call.context), Absent, now)
    IN  \/ call.verdict = otherwise
        \/ otherwise = OK /\ call.verdict = "TCT_REVOKED"

(***************************************************************************)
(* The rule is written twice, as an entry point (verify_revocation_        *)
(* snapshot) and inside the token decision (_check_revocation).  The two   *)
(* copies agree on every snapshot, except that a token decision discards   *)
(* the snapshot whose defect the entry point reports.                      *)
(***************************************************************************)
EntryPointsAgree ==
  Idle /\ held # Absent =>
    \A t \in Tokens, c \in Contexts :
      LET entry == verify_revocation_snapshot(held, t.iss, t.jti, c.policy, now)
          token == check_revocation(t, held, c.policy, now)
      IN  token = CASE entry \in {NotRevoked, Stale} -> OK
                    [] entry = "TCT_REVOKED" -> "TCT_REVOKED"
                    [] OTHER -> apply_absence(c.policy)

(***************************************************************************)
(* "Under fail_closed corrupting a snapshot in transit cannot turn         *)
(* fail-closed into fail-open" (_check_revocation): nothing is accepted    *)
(* right after a forged snapshot, or none, replaced what the caller held.  *)
(***************************************************************************)
CorruptionNeverAdmits ==
  [][ held' # held /\ held' \notin published =>
        \A t \in Tokens, c \in Contexts :
          FailClosed(c) /\ t.iss \in Honest => ~ Accepts(t, c, held', now') ]_vars

(***************************************************************************)
(* Under fail_closed waiting never helps: with the same evidence, what is  *)
(* rejected now is rejected at any later time (every comparison with the   *)
(* clock, in the token and in the snapshot, points the same way).          *)
(***************************************************************************)
WaitingNeverAdmits ==
  [][ now' > now =>
        \A t \in Tokens, c \in Contexts :
          FailClosed(c) /\ Accepts(t, c, held, now') => Accepts(t, c, held, now) ]_vars

(***************************************************************************)
(* The README's "Usage and error contract", as it has it: a rejection is   *)
(* an AitpError, never another exception.                                  *)
(***************************************************************************)
RejectionsAreAitpErrors == call.verdict \notin {ValueError, KeyError}

(***************************************************************************)
(* The abstract promise: see module RevocationPromise.                     *)
(***************************************************************************)
Admitted ==
  IF /\ Accepted
     /\ FailClosed(call.context)
     /\ call.token.iss \in Honest
  THEN {<<call.token.iss, call.token.jti>>}
  ELSE {}

Promise == INSTANCE RevocationPromise
             WITH admitted <- Admitted, Horizon <- Lifetime + MaxLead

\* A fail-closed verifier keeps the promise, whatever the network does.
KeepsPromise == Promise!Spec

=============================================================================
