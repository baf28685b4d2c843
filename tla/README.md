# Verification of aitp-verifier-py

TLA+ models of the AITP verifier (`src/aitp_verifier/`), model-checked with TLC on small instances and,
where a statement matters for every instance, proved with TLAPS. Paths like `tct.py:174` are relative
to `src/aitp_verifier/`. `PROJECT.json` maps every definition to the lines it translates.

Contents: 1 the system, 2 how it is modelled, 3 the runs, 4 what the checks found, 5 the proofs,
6 what is only model-checked and what is not modelled, 7 what could follow.

## 1. The system

The library is synchronous Python without threads, files or sockets. An operation takes parsed JSON
and a clock (`now`) and returns or raises `AitpError(code)`. Two things in the repository keep state
between calls: the NDJSON adapter (a session per fixture) and `run_conformance.py` (its results, and the
state of the sequence it is in); two recursions keep counters within one call (`jcs.py`, `jwk.py`).
Everything else is a function, and what can go wrong with it goes wrong in the world
around it: what reaches the verifier is signed by others, stored by a caller, delayed, replayed,
recombined and lost, and the clock moves between two calls.

| component (files) | state | operations | correct when |
|---|---|---|---|
| Verdicts (`errors.py`) | – | raise the code of the first failing check | the order of the checks decides the code, and only the code |
| AIDs, keys, JWS (`aid.py`, `crypto.py`, `jws.py`) | – | parse_aid, verify_jws | the AID pins key and algorithm; claims are used after the signature |
| Revocation (`revocation.py`) | – (snapshots are the caller's) | verify_revocation_snapshot, freshness, trust, fail mode | a revocation bites in bounded time; only the issuer revokes |
| TCT (`tct.py`) | – (challenges are the caller's) | verify_tct, verify_tct_as_issuer, verify_attestation, presenter_from_pop | revocation runs last and equally everywhere; possession is proved over an outstanding challenge |
| Delegation (`voucher.py`, `delegation.py`) | – | verify_grant_voucher, verify_delegation_token (single-hop, multi-hop) | rights shrink along a chain and all come from the verifier; both paths agree |
| Manifests (`manifest.py`) | – | verify_manifest, resolve_manifest | who signs is who it names; an issuer's key comes from a Manifest that verifies |
| Identity (`identity.py`) | – | verify_identity: OIDC, pinned key | an accepted identity is the sender's, made for this receiver |
| SPIFFE (`spiffe.py`, opt-in) | – (the bundle store is the caller's) | verify_spiffe: JWT-SVID, X509-SVID | a workload of a domain is one its authority let be certified; proofs are for one message, sender, receiver |
| Envelope (`envelope.py`, `sigfield.py`, `proofinput.py`) | – | verify_envelope, validate_envelope_shape | window, shape, signature in this order |
| Handshake (`handshake.py`) | – (nonces and offers are the caller's) | verify_handshake_payload: hello, hello_ack, commit, commit_ack, both commits | a message is taken for the handshake it was made for, and for its sender's |
| Session bundles (`sessionbundle.py`) | – | verify_session_bundle | the coordinator speaks, of its own TCTs; the window is the minimum of theirs and nothing ends later |
| Adapter (`adapter.py`, `harness.py`) | clock, features, seen message ids, challenges, presenter, challenge-issued flag | begin_fixture, set_clock, set_features, PoP operations, replay check, stateless operations, shutdown | nothing but the clock and the features outlives a fixture; a presenter has proved itself |
| Field checks (`fields.py`) | – | member set, JSON types, required members | a form is accepted whatever way its numbers are spelled |
| Walks (`jcs.py`, `jwk.py`) | the counters and the output of one call | canonicalize, issuer_keys_from | bounded work on any input; a bound never refuses a legal value; equal bytes are equal values |
| Runner (`run_conformance.py`) | rows, fixtures, violations, a sequence's step state | run_pack, run_fixture, step engine, claim gate, report | exit code 0 and a passed gate say that every fixture behind the claim was run and agreed |
| Minter (`minter.py`) | – | fills fixture placeholders | the inverse of the verifiers (test input only) |

How they interact. Every verifier ends in `verify_jws` or an envelope signature, so in
`Aids`/`Jws`. TCTs, delegation and the revocation entry point share the revocation rule but not its
code: it is written in `revocation.py`, in `tct.py` and in `delegation.py`. The handshake calls
`verify_manifest`, then `verify_identity`, then checks the envelope, and in round 2 repeats the checks
of `verify_tct`. Delegation resolves issuers through `resolve_manifest`. The adapter calls all of
them, the PoP functions with the challenges of its session; the runner calls the same operations one
fixture at a time and has a step engine of its own for sequences. Session bundles contain TCTs and
resolve their coordinator through `resolve_manifest`; `verify_identity` hands a SPIFFE descriptor to
`spiffe.py`; the keys an OIDC provider is verified with come out of `jwk.py`, and every signed body
goes through `jcs.py`.

The behaviours that are hard, and the hazards listed in `PROJECT.json` line by line:

- *stale and lost evidence* — a snapshot is older than the revocation, forged, another issuer's, or
  missing; several of them decide one delegation chain;
- *recombination* — signed parts (vouchers, chain links, JWTs, proofs, TCTs) put into other messages;
- *concurrent and repeated handshakes* — the library has only the nonces the caller hands it;
- *sessions* — requests in any order, challenges that expire, answers that come late or again;
- *copies* — the same rule in two or three places, which drifted apart in the past;
- *edges* — `>` and `>=` of the clock comparisons, hop limit, path length, caps, `int` against integral float;
- *delegated trust* — an intermediate, another domain or a renewed root in a certification path;
- *values that hold themselves* — the walks recurse over what a Python caller hands them;
- *one run, two judgements* — the runner's exit code and its report gate the same results separately;
- *codes and exceptions* — which code a defect gets, and what escapes as something else.

## 2. How it is modelled

A verifier is a list of checks in the order of the source; `FirstError` (module `Verdicts`) answers
with the first that is not OK. An exception other than `AitpError` is a verdict of its own
(`"ValueError"`, `"KeyError"`, ...), so that the README's error contract can be stated. Cryptography
is symbolic: an artifact carries the key that signed it as it is, or `NoKey`; equal thumbprints are
equal keys. A grammar or a shape is one *defect* per code and place in the order. Times are integers
and unbounded, as in Python. An argument that is not given, and a member that is not there, is `Absent`.

| module | models | as |
|---|---|---|
| `Verdicts` | `errors.py` | OK, Check, FirstError; the constant `Absent` |
| `Aids`, `Jws` | `aid.py`, `jws.py` | constants KeyOf, AlgOf; `verify_jws` with its seven exits |
| `Revocation` | `revocation.py` | trust, staleness, fail modes, the entry point |
| `Tct` | `tct.py` | the three TCT operations, the shared decision, PoP |
| `Manifest`, `Envelope`, `Identity` | the files of these names | the ordered checks of each operation |
| `Handshake` | `handshake.py` | bootstrap, commit, both commits |
| `Delegation` | `voucher.py`, `delegation.py` | both paths, hops, deny lists, source check |
| `Harness` | `harness.py` | `unverified_claims`, `pop_required` |
| `Fields`, `SessionBundle` | `fields.py`, `sessionbundle.py` | the gates over an object's form; `verify_session_bundle` |
| `Spiffe` | `spiffe.py` | the two SVID branches, bundle store, certification path |
| `RevocationLifecycle` | issuers, network, caller around `Tct` | actions Revoke, Publish, Obtain…, Verify, Return, Tick |
| `RevocationPromise` | – (abstract) | what a fail-closed verifier promises issuers |
| `DelegationWorld` | agents, issuers and a caller around `Delegation` | Sign (from a voucher, from a token, anything), Revoke, Publish, Verify, Return, Tick |
| `HandshakeWorld` | agents and a network around `Handshake` | Initiate, Answer, Confirm, Finish, Corrupt, Compose, ComposeCommit, Tick |
| `SessionWorld` | coordinators, insiders and relays around `SessionBundle` | Issue, Publish, Compose, Relay, Regroup, Spoil, Tick |
| `SvidWorld` | an authority, workloads and insiders around `Spiffe` | Certify, Renew, Forge, Show, Tick |
| `Adapter` | `adapter.py` | one action per request, plus HolderSigns |
| `Runner` | `run_conformance.py` | Ignore, Decline, RunOperation, BeginSequence, RunStep, EndSequence, Finish |
| `Walk`, `Jcs`, `IssuerKeys` | `jcs.py`, `jwk.py` | a stack of calls still to make; one node a step (Serialize, Write, Encode; Resolve, Return) |
| `Walks` | – | a walk of either kind; what a caller may hand over is the constant `Givens` |
| `VerdictLemmas`, `…Proofs` | – | lemmas and theorems |
| `MC…` | – | instances for TLC |

In the worlds, the library has no state and a call is atomic (it runs on one thread to its end). Where
a property is about one call, `call` holds its arguments and verdict until `Return`. In
`HandshakeWorld` it is about *any* call, so the invariants quantify over every message ever sent and
every receiver: a network that delays, reorders, repeats and misdelivers is then nothing but the set
`sent`. What a caller remembers (its nonce, whom it addressed) is what it sent, as the arguments
`sent_pop_nonce`, `peer_aid`, `self_pop_nonce…` say. Honest agents do what the protocol documents of
the code and its tests show; the others sign anything under their own keys and reuse what they saw.
`SessionWorld` and `SvidWorld` are built the same way: verification keeps nothing, so their invariants
speak of every verifier, every set of Manifests, every chain and every proof there is at that moment.

`Runner` and the walks are the code itself, step by step. `Runner` takes what a verifier answers on a
fixture as given (the verifiers have modules of their own) and models what the runner makes of it.
A walk's value is a node of a heap, so that it may be shared or hold itself; `todo` is the stack of
calls still to make with the depth of each, and `StackLimit` stands for the interpreter's own.

Names that end in `_Something` after the name of a definition (`snapshot_is_stale_Late`,
`check_echo_Any`) are mutants: the same definition with a plausible bug. No specification uses them;
each property is broken by the mutant that `PROJECT.json` lists for it.

`RevocationPromise` is the abstract specification. Its `admitted` set may hold a revoked token for at
most `Horizon` seconds after the revocation. `RevocationLifecycle` implements it with
`Horizon = Lifetime + MaxLead` (how long a snapshot is fresh, and how far an issuer's clock may be
ahead), and `DelegationWorld` implements the *same* promise for everything a chain rests on (its
voucher's source TCT and every link of an honest issuer).

## 3. The runs

The worlds and the adapter are safety specifications: the library is called and returns, nothing in it
waits, retries or runs in the background, and no caller is bound to call, so no fairness is assumed.
One part runs to an end that is not plain: the recursion of a walk over a value that may hold itself. It
is one thread that goes on while it can, hence WF of its next-state relation, and `WalksEnd` is
checked under it. (The runner is a loop over a finite list; that it ends needs no check.)

| run | shows | instance |
|---|---|---|
| `revocation` | how long a revocation can go unnoticed by the four operations; forged, lost or late snapshots neither admit nor revoke; the two copies of the rule agree | 9 tokens (valid, forged, expired, malformed), 12 contexts of the four operations, 5 forgeries; Lifetime 2, MaxLead 1, MaxTime 4, 2 snapshots; 392,400 states |
| `adapter` | presenter, freshness, withholding, replay over any sequence of requests | clocks 0 and 1, TTL 1, 2 tokens, 2 holders, 2 challenges, 1 proof, 1 further fixture; 87,725 states |
| `delegation_chain` | no right from nowhere, the voucher stands, no honest chain refused | 1 honest agent that has delegated once, 1 dishonest, 1 that is delegated to, 2 rights, 3 tokens (the hop limit); 16,947 states |
| `delegation_deny` | any deny lists, in any order, decide both paths alike; the promise holds for the chain | 2 snapshots, 3 records in a call, 2 caller contexts with and without Manifests; 96,789 states |
| `handshake` | who is accepted as whom, in which handshake, and that honest handshakes go through | 2 honest agents (OIDC, pinned key) of which one initiates, 1 insider, 3 nonces, 4 honest messages and 1 other; 39,380 states |
| `session` | whose bundle is accepted, with which TCTs, and how it ends | 1 coordinator, 1 insider, a plain participant, 2 TCTs, 2 participants in a bundle, 3 sets of Manifests, 5 forms, 2 exceptions; MaxTime 2; 7,161 states |
| `svid` | who is a workload of a domain, and for which message a proof counts | 1 honest agent, 3 insider keys (a workload, an intermediate, another domain's authority), chains of up to 3, 2 forged certificates, 1 message shown, 2 receivers, 2 messages, JWTs for 1 or 3 with a tolerance of 1; MaxTime 2; 34,086 states |
| `runner` | what exit code 0 and the report's gates say of the pack | all packs of one or two of 27 fixtures, 3 claims, with and without filter, report and minimum; 53,328 states |
| `walks` | canonical form, the candidates of an issuer, the caps, the end | heaps of 2 containers with up to 2 parts (shared, cyclic), 8 odd containers, 8 malformed JWKs; depth cap 2, node cap 5, 3 candidates, 2 calls in a row; 145,681 states |
| `revocation_contract`, `handshake_commit`, `handshake_window` | one disagreement each, see 4 | small |

Why the bounds suffice to see the interesting cases. *Time*: four ticks hold a snapshot's whole life,
a revocation in the middle and the first second it must bite; one tick is what a challenge needs to
expire and two for an OIDC JWT, a TCT or a bundle; a JWT-SVID that lasts for 1 expires within the tolerance
on its iat, one that lasts for 3 is still unexpired in the first second beyond it, and both are accepted in
the second before; a root certificate that ends at 1 and its successor
overlap at 1. *Snapshots*: two of one issuer are needed for one to be older than a
revocation, two of different issuers for a mix-up. *Tokens*: three links are the hop limit; the first is
given (a narrower right than its issuer holds), so that the others can be anything. *Challenges*:
two make one shadow another. *Handshake messages*: four honest ones are a whole handshake (hello, ack,
commit, commit_ack) or two handshakes up to their acks at once, and one message of an insider
or of the network is enough to splice, redirect or corrupt any of them. *Certificates*: a chain of three
is the first in which an intermediate certifies an intermediate, and takes the two forged certificates it
needs. *Packs*: two fixtures are enough for one to disturb the other. *Walks*: with depth 2 and 5 nodes
each of the caps is met exactly and exceeded by one, in both orders, and a second call shows what the
first left behind; the code's numbers (256 and 200,000, 16, 4,096 and 64) are constants of the modules.
The mutant of each property shows that the case it is about happens within these bounds. The nonces,
and the receivers and messages of `svid`, are interchangeable, hence SYMMETRY (no temporal property is
checked there).

Where deadlock checking is off the system really stops: the adapter has shut down, the runner and the
walks are done, no token is left to sign, or the bounds of a world are used up. `revocation` and
`delegation_deny` never stop and are checked for it.

What the properties say, run by run:

- `revocation`: `RevocationHorizon`, `NoFalseRevocation`, `RevocationOnlyRevokes` (revocation turns an
  acceptance into TCT_REVOKED and changes no other verdict), `EntryPointsAgree`, the action properties
  `CorruptionNeverAdmits` and `WaitingNeverAdmits`, and the refinement `KeepsPromise`.
- `adapter`: `PresenterHasProof` (the presenter that is reported proved itself in time over a challenge
  of this fixture), `RandomNonceIsFresh`, `WithheldIsRefused` (exactly when due), `HonestHolderAccepted`,
  `ReplayPerFixture`.
- `delegation_chain`: `RightsComeFromSelf` (every set of agents closed under valid grants that holds
  Self holds the token's subject), `VouchersStand`, `HonestTokensAreAccepted`.
- `delegation_deny`: `PathsAgree`, `OrderIsIrrelevant`, `KeepsPromise`.
- `handshake`: `MeantForMe`, `SubjectIsOwned`, `AckAnswersHello`, `Round2IsFresh`, `CommitTctStands`
  (the embedded token is accepted exactly when `verify_tct` accepts it), `HonestHandshakeGoesThrough`.
- `session`: `NoStaleMember`, `CoordinatorSpeaks`, `TokensStayHome` (its half about the participant's name
  rests on the coordinator's signature first: the comparison with `aud` is the second line, and no single
  change of the code breaks that half), `HonestBundleAccepted` (also after a
  relay has spelled an integer as a float), and the action property `EndsExpired` (an accepted bundle ends
  as expired and by no later check).
- `svid`: `CertifiedByHome` (CA flag, path length, name constraints, bundle by domain),
  `WorkloadsAreTheirOwn` (no insider's key proves an honest agent's workload, whatever the authority certified
  for the insider), `ProofIsForThisMessage`, `JwtIsOfTheSender` (which also bounds how long a token counts),
  `HonestSvidAccepted`.
- `runner`: `GreenMeansAgreement` and `AgreementIsGreen` (exit code 0, against a judgement of each fixture
  from its steps alone), `ReportTellsTheSame`.
- `walks`: `CanonicalForm` (exactly the values that are JSON and within the caps are written, and equally
  exactly when they are equal), `KeysAreExact` (all candidates in order, or none), and the liveness
  property `WalksEnd` (by their own caps, before the stack). The first two are stated against reference
  definitions over the heap that know no stack and no counter: all calls a value comes to (`Unfold`), and
  equality of two values (`Same`), both by the levels that are left.

`TypeOK` and `DenyListsAreTruthful` are parts of the inductive invariants and proved for every instance
(see 5), so no run repeats them.

## 4. What the checks found

Disagreements between the code and its own documentation that a run shows, each ending in a
counterexample:

1. `revocation_contract` — a TCT whose `iss` is no AID is rejected with a bare ValueError (`jws.py:114`),
   against the README's error contract.
2. `handshake_commit` — a commit is accepted though its envelope's signature does not verify
   (`handshake.py:175`); the module's docstring lists the envelope signature first.
3. `handshake_window` — an integral float timestamp skips the tolerance window (`envelope.py:138`), while
   `fields.py` admits it as an integer.

Others met while modelling. The models have them as the code does; no run of its own is kept for each:

- a call without a revocation policy is decided under fail_closed (`revocation.py:137`); the README says it
  raises KeyError;
- a challenge issued again with its nonce after the first expired cannot be answered (`tct.py:269` looks at
  the first match only); `HonestHolderAccepted` excludes exactly this case;
- the single-hop path never compares `ver` (`delegation.py:164`), neither path compares the voucher's, and a
  participant TCT's is not compared in a session bundle (`sessionbundle.py:240`); `version.py` promises a
  strict cutover;
- a chain claim that is no list of strings raises TypeError or AttributeError before any signature is
  checked (`delegation.py:378`, `:120`);
- half of a surrogate pair, which JSON can carry, raises UnicodeEncodeError out of `jcs.py:264` or `:287`.
  `fields.py:225` converts JcsError and RecursionError only, so it leaves the verifier before any signature is
  checked. `canonical_bytes` has it so: `Spoil` makes such a copy of a bundle, and its verdict is
  UnicodeEncodeError. In the other artifact modules the JcsError alone is a defect. A member name that is no
  string (a caller's own dictionary, JSON has none) raises AttributeError at `jcs.py:264`, so the JcsError two
  lines further on is never raised, and `canonical_bytes` lets it pass;
- the first issuing CA of a SPIFFE bundle decides (`spiffe.py:422`): while an expired root with the same name
  and key stands in front, its valid successor is not tried (`HonestSvidAccepted` asks for the first to be
  valid);
- an assertion that fails in a sequence step, or a key of a holder nobody knows, ends the whole run of the
  runner with a traceback (`run_conformance.py:118`), where a crash of an operation is a failed fixture
  (`:183`); a fixture without `status` counts as core for the gate but ends the report with a KeyError
  (`:307`).

## 5. The proofs

Theorems hold for every value of the constants under the assumptions the modules name
(`AidAssumption`, `SpiffeAssumption`, the `WorldAssumption` of each world, `AdapterAssumption`,
`PackAssumption`; for the walks `StackAssumption`, `JcsAssumption`, `KeysAssumption` and `GivensAssumption`),
which TLC evaluates on every run. The proofs
unfold a verifier with the lemmas of `VerdictLemmas`: `FirstErrorOK` (accepted exactly when every check
is OK, for lists of any length, from the well-ordering of the naturals), `FirstErrorFails` and one lemma
per length. Its second half says what the three TCT operations come to: what an accepted call has
established, where the revocation step's verdict can and cannot be the answer, and which codes the steps
before it have.

- **RevocationProofs** — every property of the run: TypeOK, DenyListsAreTruthful, RevocationHorizon,
  NoFalseRevocation, RevocationOnlyRevokes, EntryPointsAgree, CorruptionNeverAdmits, WaitingNeverAdmits and
  the refinement KeepsPromise. The invariant is TypeOK ∧ DenyListsAreTruthful ∧
  "the verdict in `call` is that of its arguments now". The horizon alone is not inductive: it follows
  from the evidence of the acceptance (a trusted snapshot of the issuer that is fresh and does not list
  the token) and from how old such a snapshot can be. Freshness and expiry are monotone in the clock,
  which gives the two action properties. NoFalseRevocation needs the other half of what a list says: an honest
  issuer's lists name what it revoked and nothing else (`ListsOnlyRevoked`). RevocationOnlyRevokes and
  EntryPointsAgree are facts about the code: the revocation step is the last one, no other
  step has its code, and the entry point's three answers are the three cases of that step.
- **AdapterProofs** — TypeOK, PresenterHasProof, RandomNonceIsFresh, WithheldIsRefused, ReplayPerFixture,
  HonestHolderAccepted. PresenterHasProof needs that nonces of outstanding challenges and of proofs
  are pinned or were handed out (`NonceInv`), or a random nonce could have been signed before it was drawn;
  the session fields are tied to the ghosts of the running fixture by `SessionInv`.
- **DelegationProofs** — every property of both runs: TypeOK, RightsComeFromSelf, VouchersStand, PathsAgree,
  OrderIsIrrelevant, HonestTokensAreAccepted and the refinement KeepsPromise, for chains of any length the verifier takes. First about the code: an accepted token says of each token on its path that it is signed, not
  longer than its predecessor's and of no wider scope. Then: whatever is accepted on a path was signed as
  it is; rights travel along the path from a voucher of Self, by the first place where they would not.
  KeepsPromise is proved of the same `RevocationPromise` as above, with the source of the voucher and every
  link of an honest issuer in the role of the token; it needs that honest agents number their tokens with their own
  ids (`HonestJtis`) and that the caller's lists are truthful. PathsAgree and OrderIsIrrelevant are lemmas
  about the code, applied to the verdict in `call`: the two paths are compared check by check, and which snapshot
  decides a link depends on the set of snapshots only. HonestTokensAreAccepted is the other direction: the
  code's checks as equivalences (`OpenAccepted`), and the invariant that every signed token could be continued
  from and an honest one was acceptable at some time (`HonestStand`). It stays so until it expires, because
  attenuation leaves nothing under it that ends earlier (`StandsUntilExpiry`), and hence can be delegated further.
- **HandshakeProofs** — TypeOK, MeantForMe, SubjectIsOwned, AckAnswersHello, Round2IsFresh,
  CommitTctStands, HonestHandshakeGoesThrough, for any agents, insiders, nonces and numbers of concurrent
  handshakes. First about the code: what an accepted hello or ack has passed. TypeOK is not inductive for the rest, since it says nothing of a message's parts, which anybody
  may reuse; the invariant adds, for every message ever sent, that an honest agent's proof names
  the receiver it was made for (`NamesReceiver`), that the provider vouches for a subject to the owner of
  the key only (`SubjectVouched`), and that an honest ack echoes the nonce of a hello that was really sent
  (`AckRecords`). One lemma per action; deviant messages share one (`DeviantMessage`). Uniqueness of
  nonces then ties the ack to its hello. Round 2 has an invariant of its own (`RInv`): every proof
  an honest agent ever made was put into a commit of its own, over the nonce of a hello or ack that was on the
  network by then and is no younger (`PopRecorded`, `NoncesSeen`, `Recent`). CommitTctStands compares the two
  copies of the TCT checks one by one. HonestHandshakeGoesThrough is the other direction, with a third
  invariant (`HonestInv`): all of what an honest agent sent to an honest one (`Stands`), and which handshake of
  the receiver it belongs to — an ack to the hello whose nonce it echoes (`AckStands`), a commit to the hello or
  ack whose nonce it covers (`CommitStands`). That link is kept because an initiator confirms nothing but
  the answer to its own hello (`AckOfItsHello`). It assumes that the provider's keys have different ids and that
  no grant is the marker of an attestation, and holds for JWTs no older than IatTolerance, however long
  they last.
- **SessionProofs** — NoStaleMember, CoordinatorSpeaks, TokensStayHome, HonestBundleAccepted and the action
  property EndsExpired, for any agents, Manifests, number of participants and forms. First about the code: what an accepted bundle
  has passed, for every participant, and that the earliest expiry is the least of a sequence of any
  length. The invariant says that a bundle an honest coordinator did not put out is not signed with
  its key (`Sound`): insiders and relays cannot make such a signature, and a relay that keeps the bytes keeps
  the maker. EndsExpired follows from monotone checks: the expiry of the bundle precedes the
  Manifest's, so nothing but BUNDLE_EXPIRED can come in between.
  HonestBundleAccepted has an invariant of its own (`HonestInv`): a bundle as an honest coordinator put it out
  meets every check that depends on neither the clock nor the verifier (`Presentable`), and a relay that keeps the
  signed bytes keeps that. It assumes that the first Manifest held in a coordinator's name verifies until
  it expires (`WorldAssumption`); a Manifest that never did would make every bundle under it fail.
- **SvidProofs** — CertifiedByHome, WorkloadsAreTheirOwn, ProofIsForThisMessage, JwtIsOfTheSender, HonestSvidAccepted, for chains and
  stores of any length. First about the code: what an accepted SVID has passed. The invariant says what the authority's
  certificates look like and that everything else is signed by an insider's key. The last certificate of an
  accepted path is then the authority's; if the path is longer than one, it is the intermediate's, and its path
  length 0 leaves room for the leaf only. WorkloadsAreTheirOwn follows from that and from what the authority signs: a leaf with a
  workload's URI has that workload's key. HonestSvidAccepted needs to know all of each certificate, and so a
  second invariant (`HonestInv`): the authority certified workloads and at most one intermediate, for one domain;
  whatever insiders signed is a workload's certificate or names no workload; and the bundle lists the first
  certificate alone or with its one successor, on either side (`RootLists`). Then path and anchor are taken check
  by check. It also assumes that no workload and no authority has the intermediate's key, and that
  no datum is `Absent`.
- **RunnerWalkProofs**, the runner — GreenMeansAgreement, AgreementIsGreen, ReportTellsTheSame, for packs and sequences of any
  length. First about one step: if the state is what the steps before amount to (`Tracks`), `run_step` and the
  judgement by the earlier steps alone (`StepAgrees`) agree, and the state after is again what the steps amount to.
  The invariant says that every file dealt with has a row that is right about it and every row a file
  (`RowsOK`), what a violation, a traceback and the table of fixtures stand for, and, in the middle of a sequence,
  that the steps so far agree (`SequenceOK`). The properties follow at the end of the run; only
  ReportTellsTheSame needs the ids to be distinct, since the report finds a row's fixture by its id.
- **RunnerWalkProofs**, the walks — KeysAreExact, CanonicalForm and CapsComeFirst (no walk ends in a
  RecursionError), for every heap, cyclic ones too, any number of calls in a row, and all caps below the
  interpreter's limit. Neither property is inductive: both speak of results only. The invariant
  (`WalkInvariant`) ties the stack to the whole: the calls made so far and the calls each entry of the stack stands
  for are, in this order, all calls of the value (`Covers`), and likewise the candidates collected, or
  the text written; the results so far are right (`Right`). One call replaces an entry by its
  parts, which keeps the sum; a refusal is right because the call that is refused is one of the value's;
  an empty stack leaves nothing but the whole. An entry of the stack is at most one level
  below the cap, so that the cap is met before the interpreter's limit.
  CanonicalForm also says that the text tells the value. The texts of a heap are built level by level
  (`Texts`), and a text is read back from its front: what a value begins with tells its kind, what
  closes a container begins no item (`Apart`), and so a sequence of them can be told item by item
  (`ItemsReadBack`), by induction over their number. Hence equal texts are equal values (`Told`), and
  conversely equal values have equal texts, since sorting forgets the order of insertion (`AllAlike`); both by
  induction over the levels. That takes `GivensAssumption`: the order of the names is strict, as that of UTF-16
  code units is, and a dictionary has no name twice.

## 6. What is left to TLC, and what is not modelled

Only model-checked: the liveness property `WalksEnd` (its safety half is `CapsComeFirst`,
which is proved) and the three disagreements, which are counterexamples. Liveness under fairness and ENABLED are
out of the prover's reach. So is induction with the library's induction theorems, which take an operator as a
parameter: where a proof goes by induction it takes the least element of a set of naturals, and the walks
state this once, for a set of levels (`Induction`) and for what is defined level by level (`Recursion`).
No module declares a RECURSIVE operator.

Not modelled:

- the minter (`minter.py`): it fills placeholders of test input before a verifier is called, keeps nothing and
  decides nothing;
- cryptography and encodings themselves (`crypto.py`, `b64.py`, DER): data without control. The limits on RSA
  numbers are in `IssuerKeys`;
- how `jcs.py` spells numbers and strings, and `loads`: character-level data. `Jcs` takes the spelling for
  injective on values, 1 and 1.0 being one value;
- the URI and pattern grammars of `manifest.py` and the grammar of a SPIFFE ID, one defect or one set each;
- the retired v0.1 delegation object, rejected at the door;
- the rest of `harness.py` (defaults for fixtures) and of the adapter (argument validation, minting);
- command line, git provenance, digest and printing of the runner, and `scripts/parity-diff.py`, which
  compares two reports.

A fixture's `required_for_core` is a boolean or absent (`PackAssumption`); the runner takes any other value as it
takes `false` (`run_conformance.py:69`), which no property speaks of.

`check_round2_pop` follows `handshake.py` in doing nothing without a proof or without the receiver's
nonce, so `Round2IsFresh` speaks of commits that carry one. `verify_both_commits` and
`verify_envelope_input` translate input shapes of conformance fixtures; no run uses them, as they keep no
state and interact with nothing. The handshake's world never sends a malformed payload: the shape
checks are in the model, their codes are not what its properties are about.

## 7. What could follow

1. SPIFFE as a third identity type in `HandshakeWorld`.
2. The adapter and the step engine of the runner in lockstep on one stream of steps.
