--------------------------- MODULE DelegationWorld ---------------------------
(***************************************************************************)
(* Agents that delegate the rights the verifier granted them.              *)
(*                                                                         *)
(* The verifier Self has issued vouchers.  Agents sign delegation tokens:  *)
(* honest ones pass on what they hold, dishonest ones sign anything under  *)
(* their own key and put together chains from everything that was ever     *)
(* signed, tampered with or not.  Issuers revoke what they signed and      *)
(* publish deny lists.  Anybody presents any token at any time, with       *)
(* whatever snapshots reach the caller.                                    *)
(***************************************************************************)
EXTENDS Delegation, FiniteSets, SequencesExt

CONSTANTS
  Self,          \* the AID of the verifier, which signs the vouchers
  Honest,        \* the agents that follow the protocol, Self among them
  Agents,        \* the agents that delegate
  Right,         \* the rights that are granted
  Scopes,        \* bound: the sets of rights that tokens pass on
  Jti,           \* token identifiers, of vouchers' source TCTs too
  JtisOf,        \* bound: the jti values an agent gives its tokens
  Revocable,     \* bound: the <<issuer, jti>> that can be revoked
  Vouchers,      \* the vouchers Self has issued
  FakeVouchers,  \* vouchers in the name of Self that it did not issue
  Initial,       \* the tokens that were signed before
  Contexts,      \* the arguments of a call that are the caller's own
  Forgeries,     \* snapshot records no honest issuer signed
  Lifetime,      \* expires_at - published_at of an honest snapshot
  MaxTime,       \* bound: the clock stops here, and no token outlives it
  MaxTokens,     \* bound: tokens signed
  MaxSnapshots,  \* bound: snapshots published
  MaxSupplied,   \* bound: snapshot records in a call
  Never          \* the revocation time of what is not revoked

VARIABLES
  now,        \* the clock, in seconds
  signed,     \* the delegation tokens that exist
  revokedAt,  \* revokedAt[issuer][jti], Never when it is not revoked
  published,  \* the snapshots honest issuers have published
  call        \* the last call of verify_delegation_token, or NoCall

vars == <<now, signed, revokedAt, published, call>>

NoCall == [verdict |-> "none"]
Idle == call.verdict = NoCall.verdict

\* A context is [feature, policy, manifests].
Env(context, records) ==
  [ selfAid |-> Self, feature |-> context.feature, policy |-> context.policy,
    manifests |-> context.manifests, isArray |-> TRUE, snapshots |-> records ]

\* A verifier that takes chains and does not test revocation.
OpenEnv ==
  Env([ feature |-> TRUE, manifests |-> Absent,
        policy |-> [NoPolicy EXCEPT !.mode = "fail_open"] ], <<>>)

Token(iss, sub, scope, exp, jti) ==
  [ compact |-> TRUE, members |-> TRUE, typ |-> "aitp-delegation+jwt",
    alg |-> AlgOf[KeyOf[iss]], signer |-> KeyOf[iss], defects |-> {},
    ver |-> PROTOCOL_VERSION, iss |-> iss, sub |-> sub, aud |-> Self,
    scope |-> scope, exp |-> exp, jti |-> jti, jkt |-> KeyOf[sub],
    voucher |-> Absent, chainForm |-> "absent", chain |-> <<>>, commits |-> <<>> ]

Claims == DOMAIN Token(Self, Self, {}, 0, Absent)

Chained(token, chain) ==
  [token EXCEPT !.chainForm = "list", !.chain = chain, !.commits = chain]

\* The tokens a delegation rests on, itself included.
Path(token) == IF token.chainForm = "absent" THEN <<token>> ELSE hops_of(token)

Jtis(tokens) == {t.jti : t \in tokens}

Snapshot(issuer, denied) ==
  [ issuer |-> issuer, published_at |-> now, expires_at |-> now + Lifetime,
    entries |-> denied, signer |-> KeyOf[issuer], defects |-> {} ]

Revoked(issuer) == {j \in Jti : revokedAt[issuer][j] # Never}

\* Self signs only the vouchers it issues, which are good until they expire,
\* and the tokens of the past were made like those of the present.
ASSUME WorldAssumption ==
  /\ Agents \subseteq Aid /\ Honest \subseteq Aid /\ Self \in Honest
  /\ Revocable \subseteq Honest \X Jti
  /\ MaxTime \in Nat /\ Lifetime \in Nat /\ Never \notin Int
  /\ \A v \in Vouchers \cup FakeVouchers : v # Absent
  /\ \A v \in Vouchers :
       /\ v.iss = Self /\ v.exp \in Int /\ v.src_jti \in Jti
       /\ verify_grant_voucher(v, v.exp - 1) = OK
  /\ \A v \in FakeVouchers : v.iss = Self => v.signer # KeyOf[Self]
  /\ \A t \in Initial :
       /\ DOMAIN t = Claims
       /\ t.iss \in Aid /\ t.signer = KeyOf[t.iss]
       /\ t.ver = PROTOCOL_VERSION /\ t.exp \in Int /\ t.jti # Absent
       /\ t.sub \in Aid /\ t.jkt = KeyOf[t.sub]
       /\ t.iss \in Honest => t.jti \in Jti /\ verify_delegation_token(t, OpenEnv, 0) = OK
       /\ t.voucher \in Vouchers \cup {Absent}
       /\ t.chain \in Seq(Initial)
  /\ \A a \in Agents : Absent \notin JtisOf[a] /\ (a \in Honest => JtisOf[a] \subseteq Jti)
  /\ OpenEnv.policy # Absent
  /\ \A c \in Contexts : DOMAIN c = {"feature", "policy", "manifests"}
  /\ \A r \in Forgeries : r.snapshot.signer \notin {KeyOf[h] : h \in Honest}

Init ==
  /\ now = 0
  /\ signed = Initial
  /\ revokedAt = [i \in Honest |-> [j \in Jti |-> Never]]
  /\ published = {}
  /\ call = NoCall

-----------------------------------------------------------------------------
Tick ==
  /\ Idle
  /\ now < MaxTime
  /\ now' = now + 1
  /\ UNCHANGED <<signed, revokedAt, published, call>>

Sign(token) ==
  /\ Idle
  /\ Cardinality(signed) < MaxTokens
  /\ signed' = signed \cup {token}
  /\ UNCHANGED <<now, revokedAt, published, call>>

\* An honest agent uses each jti once, and passes on less than it holds.
SignFromVoucher(agent) ==
  \E v \in Vouchers, sub \in Agents \ {agent}, scope \in Scopes,
     exp \in 1 .. MaxTime, jti \in JtisOf[agent] :
    /\ v.sub = agent
    /\ scope \subseteq v.grants /\ exp <= v.exp
    /\ jti \notin Jtis({t \in signed : t.iss = agent})
    /\ Sign([Token(agent, sub, scope, exp, jti) EXCEPT !.voucher = v])

\* It delegates further what the verifier accepts, within the hop limit.
SignFromToken(agent) ==
  \E held \in signed, sub \in Agents \ {agent}, scope \in Scopes,
     exp \in 1 .. MaxTime, jti \in JtisOf[agent] :
    /\ held.sub = agent
    /\ Len(Path(held)) < MAX_DELEGATION_HOPS
    /\ verify_delegation_token(held, OpenEnv, now) = OK
    /\ scope \subseteq held.scope /\ exp <= held.exp
    /\ jti \notin Jtis({t \in signed : t.iss = agent} \cup ToSet(Path(held)))
    /\ Sign(Chained(Token(agent, sub, scope, exp, jti), Path(held)))

\* Every right, signed by nobody.
Tampered(token) == [token EXCEPT !.scope = Right, !.signer = NoKey]
Available == signed \cup {Tampered(t) : t \in signed}

SignAnything(agent) ==
  \E sub \in Agents \ {agent}, scope \in Scopes, jti \in JtisOf[agent],
     chain \in UNION {[1 .. n -> Available] : n \in 1 .. MAX_DELEGATION_HOPS - 1} :
    LET token == Token(agent, sub, scope, MaxTime, jti)
    IN  \/ Sign(Chained(token, chain))
        \/ \E v \in Vouchers \cup FakeVouchers :
             \/ Sign([token EXCEPT !.voucher = v])
             \/ Sign(Chained([token EXCEPT !.voucher = v], <<>>))

Revoke(issuer, jti) ==
  /\ Idle
  /\ revokedAt[issuer][jti] = Never
  /\ revokedAt' = [revokedAt EXCEPT ![issuer][jti] = now]
  /\ UNCHANGED <<now, signed, published, call>>

Publish(issuer) ==
  /\ Idle
  /\ Cardinality(published) < MaxSnapshots
  /\ published' = published \cup {Snapshot(issuer, Revoked(issuer))}
  /\ UNCHANGED <<now, signed, revokedAt, call>>

\* What can reach the caller: any of it, in any order.
Records == {[label |-> s.issuer, snapshot |-> s] : s \in published} \cup Forgeries

Supplies ==
  UNION {{f \in [1 .. n -> Records] : \A i, j \in 1 .. n : f[i] = f[j] => i = j} :
           n \in 0 .. MaxSupplied}

Verify(token, context, records) ==
  /\ Idle
  /\ call' = [ token |-> token, context |-> context, records |-> records,
               verdict |-> verify_delegation_token(token, Env(context, records), now) ]
  /\ UNCHANGED <<now, signed, revokedAt, published>>

Return ==
  /\ ~ Idle
  /\ call' = NoCall
  /\ UNCHANGED <<now, signed, revokedAt, published>>

Next ==
  \/ Tick
  \/ \E a \in Agents \cap Honest : SignFromVoucher(a) \/ SignFromToken(a)
  \/ \E a \in Agents \ Honest : SignAnything(a)
  \/ \E p \in Revocable : Revoke(p[1], p[2])
  \/ \E p \in Revocable : Publish(p[1])
  \/ \E t \in signed, c \in Contexts, r \in Supplies : Verify(t, c, r)
  \/ Return

Spec == Init /\ [][Next]_vars

-----------------------------------------------------------------------------
TypeOK ==
  /\ now \in 0 .. MaxTime
  /\ \A t \in signed :
       /\ DOMAIN t = Claims
       /\ t.iss \in Aid /\ t.signer = KeyOf[t.iss]
       /\ t.voucher \in Vouchers \cup FakeVouchers \cup {Absent}
       /\ t.chain \in Seq(Available)
  /\ revokedAt \in [Honest -> [Jti -> (0 .. MaxTime) \cup {Never}]]
  /\ \A s \in published :
       /\ s.issuer \in Honest /\ s.entries \subseteq Jti
       /\ s.published_at \in 0 .. now /\ s.expires_at = s.published_at + Lifetime
  /\ \/ call = NoCall
     \/ call.token \in signed /\ call.context \in Contexts

Accepted == ~ Idle /\ call.verdict = OK

Recheck(token, context, records) == verify_delegation_token(token, Env(context, records), now)

(***************************************************************************)
(* Rights come from the verifier.  Who holds a token that a verifier       *)
(* taking chains accepts got each right in it from Self, through vouchers  *)
(* and tokens that were signed, that hold the right and that have not      *)
(* expired: every set of agents that contains Self and is closed under     *)
(* those grants contains the holder.  No splicing of chains, no voucher of *)
(* another agent and no tampering makes a right appear or outlive what it  *)
(* came from (_verify_multihop, the voucher checks).                       *)
(***************************************************************************)
ClosedUnderGrants(S, right) ==
  /\ Self \in S
  /\ \A v \in Vouchers : right \in v.grants /\ now < v.exp => v.sub \in S
  /\ \A t \in signed : t.iss \in S /\ right \in t.scope /\ now < t.exp => t.sub \in S

RightsComeFromSelf ==
  \A t \in signed :
    verify_delegation_token(t, OpenEnv, now) = OK =>
      \A right \in t.scope, S \in SUBSET Aid :
        ClosedUnderGrants(S, right) => t.sub \in S

(***************************************************************************)
(* The voucher an accepted token rests on, through however many hops, is   *)
(* one that the entry point verify_grant_voucher accepts at that moment:   *)
(* the checks are written out three times (voucher.py and both paths of    *)
(* delegation.py).                                                         *)
(***************************************************************************)
VouchersStand ==
  \A t \in signed :
    verify_delegation_token(t, OpenEnv, now) = OK =>
      verify_grant_voucher(Path(t)[1].voucher, now) = OK

(***************************************************************************)
(* What an honest agent signed is accepted until it expires, up to the hop *)
(* limit and whoever stands before it in the chain, by a verifier that     *)
(* takes chains (no check of _verify_multihop refuses a proper chain).     *)
(***************************************************************************)
HonestTokensAreAccepted ==
  Idle =>
    \A t \in signed :
      t.iss \in Honest /\ now < t.exp => verify_delegation_token(t, OpenEnv, now) = OK

(***************************************************************************)
(* The two paths agree.  A token of one hop can be presented with an empty *)
(* chain; it is then accepted exactly when it is accepted without one and  *)
(* passes what only the multi-hop path looks at: ver, cnf, jti and the     *)
(* deny list of its own issuer (verify_delegation_token,                   *)
(* _check_source_tct_revocation: "both entry paths call this").            *)
(***************************************************************************)
PathsAgree ==
  ~ Idle /\ call.token.chainForm = "absent" =>
    LET token == call.token
        env   == Env([call.context EXCEPT !.feature = TRUE], call.records)
    IN  verify_delegation_token(Chained(token, <<>>), env, now) = OK
        <=> /\ call.verdict = OK
            /\ token.ver = PROTOCOL_VERSION
            /\ token.jti # Absent
            /\ token.sub \in Aid /\ token.jkt = Thumbprint(token.sub)
            /\ check_deny_lists(env, token.iss, token.jti, now) = OK

(***************************************************************************)
(* The order in which the caller lists the snapshots does not decide       *)
(* (_verified_snapshot_bodies, _revocation_index).                         *)
(***************************************************************************)
OrderIsIrrelevant ==
  ~ Idle =>
    (call.verdict = OK <=>
       Recheck(call.token, call.context, SetToSeq(ToSet(call.records))) = OK)

(***************************************************************************)
(* The abstract promise of RevocationPromise, for everything an accepted   *)
(* delegation rests on: the source TCT of its voucher and, when it carries *)
(* a chain, every token on the way whose issuer is honest.                 *)
(***************************************************************************)
RestsOn(token) ==
  {<<Self, Path(token)[1].voucher.src_jti>>}
  \cup IF token.chainForm = "absent" THEN {}
       ELSE {<<t.iss, t.jti>> : t \in {u \in ToSet(Path(token)) : u.iss \in Honest}}

Admitted ==
  IF Accepted /\ policy_fail_mode(call.context.policy) = "fail_closed"
  THEN RestsOn(call.token)
  ELSE {}

Promise == INSTANCE RevocationPromise WITH admitted <- Admitted, Horizon <- Lifetime

\* A fail-closed verifier keeps the promise for the whole chain.
KeepsPromise == Promise!Spec

=============================================================================
