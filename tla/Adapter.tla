------------------------------- MODULE Adapter -------------------------------
(***************************************************************************)
(* The NDJSON adapter (adapter.py): one process that serves a stream of    *)
(* requests, with a clock, the enabled features and the session of one     *)
(* fixture, which begin_fixture drops.  Every action below is one request  *)
(* handled to its reply.  The requests come from a conformance runner: any *)
(* operation, in any order, with any parameters.                           *)
(*                                                                         *)
(* Signatures are symbolic: a presenter can put into a pop_response only   *)
(* the proofs its key holder has made, which `signatures` records, and a   *)
(* holder signs only a nonce it was told.  HolderSigns is the one action   *)
(* that is not a request.                                                  *)
(***************************************************************************)
EXTENDS Tct, Harness, FiniteSets

CONSTANTS
  MessageId,      \* message_id values
  Feature,        \* feature names a runner can enable
  Tokens,         \* tokens of the PoP operations, verified by none of them
  Holders,        \* the keys whose holders sign nonces
  PinnedNonce,    \* nonces a fixture's challenge envelope fixes
  RandomNonce,    \* what os.urandom can return: never the same twice
  Envelopes,      \* pop_response envelopes, but for the nonce and its proof
  Invocations,    \* authorize_capability_invocation parameters
  TTL,            \* POP_CHALLENGE_TTL_SECS
  Clocks,         \* bound: the values set_clock gives, REFERENCE_CLOCK = 0
  MaxChallenges,  \* bound: challenges of one fixture
  MaxSignatures,  \* bound: proofs made in a behaviour
  MaxFixtures     \* bound: begin_fixture requests

ASSUME AdapterAssumption ==
  /\ TTL \in Nat \ {0}
  /\ Clocks \subseteq Int /\ 0 \in Clocks
  /\ Holders \subseteq Key
  /\ RandomNonce \subseteq Nonce
  /\ PinnedNonce \cap RandomNonce = {}
  /\ Absent \notin PinnedNonce \cup RandomNonce
  /\ MaxFixtures \in Nat

VARIABLES
  clock, features,       \* survive begin_fixture
  seen_message_ids, challenges, pop_presenter, pop_challenge_issued,
  serving,               \* FALSE once the request loop has ended
  reply,                 \* the last line's reply: operation, error code, result
  fixture,               \* how many begin_fixture requests came before
  used,                  \* the random nonces handed out so far
  signatures,            \* proofs: key, nonce, and the fixture it was made in
  proof,                 \* the pop_response that established pop_presenter
  demandedIn,            \* the last fixture in which a challenge was due
  accepted               \* how often this fixture accepted each message_id

session == <<seen_message_ids, challenges, pop_presenter, pop_challenge_issued>>
config == <<clock, features>>
ghosts == <<fixture, used, signatures, proof, demandedIn, accepted>>
vars == <<session, config, serving, reply, ghosts>>

NoFixture == -1
NoReply == [op |-> "none", code |-> OK, result |-> ""]

\* No proof at all, and what pop_presenter = Absent rests on.
NoProof == [key |-> NoKey, nonce |-> Absent, madeIn |-> NoFixture]
Unproved == [signature |-> NoProof, jti |-> Absent, at |-> 0]

Init ==
  /\ clock = 0 /\ features = {}
  /\ seen_message_ids = {} /\ challenges = <<>>
  /\ pop_presenter = Absent /\ pop_challenge_issued = FALSE
  /\ serving = TRUE
  /\ reply = NoReply
  /\ fixture = 0 /\ used = {} /\ signatures = {} /\ proof = Unproved
  /\ demandedIn = NoFixture
  /\ accepted = [m \in MessageId |-> 0]

Reply(op, code, result) ==
  reply' = [op |-> op, code |-> code, result |-> result]

-----------------------------------------------------------------------------
(***************************************************************************)
(* Control operations.                                                     *)
(***************************************************************************)
SetClock(now) ==
  /\ serving
  /\ clock' = now
  /\ Reply("set_clock", OK, "")
  /\ UNCHANGED <<session, features, serving, ghosts>>

SetFeatures(names) ==
  /\ serving
  /\ features' = names
  /\ Reply("set_features", OK, "")
  /\ UNCHANGED <<session, clock, serving, ghosts>>

\* Mutants: the flag, the challenges or the message ids outlive the fixture.
BeginFixture_KeepsFlag ==
  /\ serving
  /\ fixture < MaxFixtures
  /\ seen_message_ids' = {} /\ challenges' = <<>> /\ pop_presenter' = Absent
  /\ fixture' = fixture + 1
  /\ accepted' = [m \in MessageId |-> 0] /\ proof' = Unproved
  /\ Reply("begin_fixture", OK, "")
  /\ UNCHANGED <<pop_challenge_issued, config, serving, used, signatures, demandedIn>>

BeginFixture_KeepsChallenges ==
  /\ serving
  /\ fixture < MaxFixtures
  /\ seen_message_ids' = {}
  /\ pop_presenter' = Absent /\ pop_challenge_issued' = FALSE
  /\ fixture' = fixture + 1
  /\ accepted' = [m \in MessageId |-> 0] /\ proof' = Unproved
  /\ Reply("begin_fixture", OK, "")
  /\ UNCHANGED <<challenges, config, serving, used, signatures, demandedIn>>

BeginFixture_KeepsIds ==
  /\ serving
  /\ fixture < MaxFixtures
  /\ challenges' = <<>> /\ pop_presenter' = Absent /\ pop_challenge_issued' = FALSE
  /\ fixture' = fixture + 1
  /\ accepted' = [m \in MessageId |-> 0] /\ proof' = Unproved
  /\ Reply("begin_fixture", OK, "")
  /\ UNCHANGED <<seen_message_ids, config, serving, used, signatures, demandedIn>>

BeginFixture ==
  /\ serving
  /\ fixture < MaxFixtures
  /\ seen_message_ids' = {} /\ challenges' = <<>>
  /\ pop_presenter' = Absent /\ pop_challenge_issued' = FALSE
  /\ fixture' = fixture + 1
  /\ accepted' = [m \in MessageId |-> 0] /\ proof' = Unproved
  /\ Reply("begin_fixture", OK, "")
  /\ UNCHANGED <<config, serving, used, signatures, demandedIn>>

\* The shutdown request ends the loop, even when its params are malformed.
Shutdown ==
  /\ serving
  /\ serving' = FALSE
  /\ \E code \in {OK, "MALFORMED_REQUEST"} : Reply("shutdown", code, "")
  /\ UNCHANGED <<session, config, ghosts>>

\* End of the input ends it too, without a reply.
EndOfInput ==
  /\ serving
  /\ serving' = FALSE
  /\ reply' = NoReply
  /\ UNCHANGED <<session, config, ghosts>>

(***************************************************************************)
(* Everything that reads and writes no session state: init, a line that is *)
(* not a request, a set_clock or set_features with bad parameters, an      *)
(* unknown operation, and the verifiers of verify.py, which this module    *)
(* takes for functions of their parameters.  `reply` keeps their code but  *)
(* not which of them it was.                                               *)
(***************************************************************************)
StatelessOutcome ==
  [ init |-> {OK, "MALFORMED_REQUEST", "ADAPTER_INTERNAL_ERROR"},
    unreadable |-> {"MALFORMED_REQUEST"},
    malformed_control |-> {"MALFORMED_REQUEST"},
    unknown |-> {"OP_NOT_SUPPORTED"},
    verifier |-> {OK, "an AITP code", "MALFORMED_REQUEST", "MALFORMED_FIXTURE",
                  "ADAPTER_INTERNAL_ERROR"} ]

Stateless(op) ==
  /\ serving
  /\ \E code \in StatelessOutcome[op] : Reply("stateless", code, "")
  /\ UNCHANGED <<session, config, serving, ghosts>>

(***************************************************************************)
(* A step that names only a message_id: the replay check.                  *)
(***************************************************************************)
CheckReplay(mid) ==
  /\ serving
  /\ IF mid \in seen_message_ids
     THEN /\ Reply("replay", "REPLAY_DETECTED", mid)
          /\ UNCHANGED <<seen_message_ids, accepted>>
     ELSE /\ Reply("replay", OK, mid)
          /\ seen_message_ids' = seen_message_ids \cup {mid}
          /\ accepted' = [accepted EXCEPT ![mid] = @ + 1]
  /\ UNCHANGED <<challenges, pop_presenter, pop_challenge_issued, config, serving,
                 fixture, used, signatures, proof, demandedIn>>

-----------------------------------------------------------------------------
(***************************************************************************)
(* The PoP sequence.  An operation that raises anything but an AitpError   *)
(* is answered ADAPTER_INTERNAL_ERROR by `handle`; what it assigned before *)
(* stays assigned.                                                         *)
(***************************************************************************)
InternalError(op) ==
  /\ serving
  /\ Reply(op, "ADAPTER_INTERNAL_ERROR", "")
  /\ UNCHANGED <<session, config, serving, ghosts>>

Challenge(token, nonce) ==
  [tct_jti |-> unverified_claims(token).jti, nonce |-> nonce, expires_at |-> clock + TTL]

IssueChallenge(token, nonce) ==
  /\ serving
  /\ Len(challenges) < MaxChallenges
  /\ challenges' = Append(challenges, Challenge(token, nonce))
  /\ pop_challenge_issued' = TRUE
  /\ demandedIn' = fixture
  /\ Reply("issue_pop_challenge", OK, nonce)
  /\ UNCHANGED <<seen_message_ids, pop_presenter, config, serving,
                 fixture, signatures, proof, accepted>>

\* The challenge envelope fixes the nonce, or os.urandom makes one.
IssuePinned(token) ==
  \E n \in PinnedNonce : IssueChallenge(token, n) /\ UNCHANGED used

IssueRandom(token) ==
  \E n \in RandomNonce \ used : IssueChallenge(token, n) /\ used' = used \cup {n}

\* An envelope or a payload that is not an object: params.get(...).get raises.
IssueMalformed == InternalError("issue_pop_challenge")

\* The holder of a key signs a nonce it was told, in the fixture running.
HolderSigns(key, nonce) ==
  /\ Cardinality(signatures) < MaxSignatures
  /\ nonce \in PinnedNonce \cup used
  /\ signatures' = signatures \cup {[key |-> key, nonce |-> nonce, madeIn |-> fixture]}
  /\ UNCHANGED <<session, config, serving, reply, fixture, used, proof, demandedIn, accepted>>

\* What a runner can put together: any envelope, any echo, a proof that was
\* made at some time, for whatever purpose, or none.
Response(envelope, echo, signature) ==
  [ sender |-> envelope.sender, signer |-> envelope.signer,
    message_type |-> envelope.message_type, defects |-> envelope.defects,
    tct_jti |-> envelope.tct_jti, nonce_echo |-> echo,
    popSigner |-> signature.key, popNonce |-> signature.nonce ]

PopVerdict(token, response) ==
  presenter_from_pop(response, challenges, unverified_claims(token), clock)

Raised == {KeyError, ValueError}

ProduceResponse(token, envelope, echo, signature) ==
  LET response == Response(envelope, echo, signature)
      verdict  == PopVerdict(token, response)
  IN  /\ serving
      /\ \/ /\ verdict \in Raised
            /\ Reply("produce_pop_response", "ADAPTER_INTERNAL_ERROR", "")
            /\ UNCHANGED <<pop_presenter, proof>>
         \/ /\ verdict = OK
            /\ pop_presenter' = unverified_claims(token).sub
            /\ proof' = [signature |-> signature, jti |-> envelope.tct_jti, at |-> clock]
            /\ Reply("produce_pop_response", OK, "")
         \/ /\ verdict \notin Raised \cup {OK}
            /\ pop_presenter' = Absent
            /\ proof' = Unproved
            /\ Reply("produce_pop_response", verdict, "")
      /\ UNCHANGED <<seen_message_ids, challenges, pop_challenge_issued, config, serving,
                     fixture, used, signatures, demandedIn, accepted>>

Produce(token) ==
  \E envelope \in Envelopes, echo \in PinnedNonce \cup used,
     signature \in signatures \cup {NoProof} :
    ProduceResponse(token, envelope, echo, signature)

\* Reads only what the last produce_pop_response left.
VerifyResponse ==
  /\ serving
  /\ IF pop_presenter = Absent
     THEN Reply("verify_pop_response", "POP_RESPONSE_INVALID", "")
     ELSE Reply("verify_pop_response", OK, pop_presenter)
  /\ UNCHANGED <<session, config, serving, ghosts>>

Authorize(invocation) ==
  /\ serving
  /\ IF pop_required(invocation, unverified_claims(invocation.token))
     THEN /\ pop_challenge_issued' = TRUE
          /\ demandedIn' = fixture
          /\ Reply("authorize_capability_invocation", OK, "pop_challenge_issued")
     ELSE /\ Reply("authorize_capability_invocation", OK, "capability_authorized")
          /\ UNCHANGED <<pop_challenge_issued, demandedIn>>
  /\ UNCHANGED <<seen_message_ids, challenges, pop_presenter, config, serving,
                 fixture, used, signatures, proof, accepted>>

\* An issuer_policy that is not an object.
AuthorizeMalformed == InternalError("authorize_capability_invocation")

ExpectChallengeIssued ==
  /\ serving
  /\ Reply("expect_pop_challenge_issued", OK,
           IF pop_challenge_issued THEN "pop_challenge_issued" ELSE "")
  /\ UNCHANGED <<session, config, serving, ghosts>>

Withhold ==
  /\ serving
  /\ IF pop_challenge_issued
     THEN Reply("withhold_pop_response", "POP_RESPONSE_INVALID", "")
     ELSE Reply("withhold_pop_response", OK, "capability_authorized")
  /\ UNCHANGED <<session, config, serving, ghosts>>

PopOperation ==
  \/ \E t \in Tokens : IssuePinned(t) \/ IssueRandom(t) \/ Produce(t)
  \/ IssueMalformed
  \/ \E i \in Invocations : Authorize(i)
  \/ AuthorizeMalformed
  \/ VerifyResponse
  \/ ExpectChallengeIssued
  \/ Withhold

Next ==
  \/ \E t \in Clocks : SetClock(t)
  \/ \E names \in SUBSET Feature : SetFeatures(names)
  \/ BeginFixture
  \/ Shutdown
  \/ EndOfInput
  \/ \E op \in DOMAIN StatelessOutcome : Stateless(op)
  \/ \E mid \in MessageId : CheckReplay(mid)
  \/ PopOperation
  \/ \E k \in Holders, n \in PinnedNonce \cup RandomNonce : HolderSigns(k, n)

Spec == Init /\ [][Next]_vars

-----------------------------------------------------------------------------
Challenges ==
  [ tct_jti : {unverified_claims(t).jti : t \in Tokens},
    nonce : PinnedNonce \cup RandomNonce, expires_at : {c + TTL : c \in Clocks} ]

Proofs ==
  [key : Holders, nonce : PinnedNonce \cup RandomNonce, madeIn : 0 .. MaxFixtures]

TypeOK ==
  /\ clock \in Clocks /\ features \subseteq Feature
  /\ seen_message_ids \subseteq MessageId
  /\ challenges \in Seq(Challenges)
  /\ pop_presenter \in {unverified_claims(t).sub : t \in Tokens} \cup {Absent}
  /\ pop_challenge_issued \in BOOLEAN /\ serving \in BOOLEAN
  /\ fixture \in 0 .. MaxFixtures
  /\ used \subseteq RandomNonce
  /\ signatures \subseteq Proofs
  /\ proof \in [ signature : signatures, jti : {e.tct_jti : e \in Envelopes},
                 at : Clocks ] \cup {Unproved}
  /\ demandedIn \in {NoFixture} \cup (0 .. MaxFixtures)
  /\ accepted \in [MessageId -> Nat]

(***************************************************************************)
(* Possession.  The presenter that verify_pop_response reports was proved  *)
(* by its own key over the nonce of a challenge this fixture issued for    *)
(* that jti, and was proved in time: neither a proof made for another      *)
(* challenge, nor one of another key, nor a late answer leaves a presenter *)
(* behind (presenter_from_pop as produce_pop_response calls it), whatever  *)
(* the order of the requests and however the clock is set.                 *)
(***************************************************************************)
PresenterHasProof ==
  pop_presenter # Absent =>
    /\ proof.signature \in signatures
    /\ SignedBy([signer |-> proof.signature.key], pop_presenter)
    /\ \E i \in DOMAIN challenges :
         /\ challenges[i].tct_jti = proof.jti
         /\ challenges[i].nonce = proof.signature.nonce
         /\ proof.at < challenges[i].expires_at

(***************************************************************************)
(* Freshness.  A nonce the adapter made itself is good for one fixture: a  *)
(* proof recorded before begin_fixture never establishes a presenter after *)
(* it (_begin_fixture empties the challenges, _issue_pop_challenge draws   *)
(* from os.urandom).  A pinned nonce promises nothing of the kind.         *)
(***************************************************************************)
RandomNonceIsFresh ==
  pop_presenter # Absent /\ proof.signature.nonce \in RandomNonce
    => proof.signature.madeIn = fixture

(***************************************************************************)
(* "Reject, never authorize" (_withhold_pop_response): withholding is      *)
(* refused exactly when something in this very fixture made a challenge    *)
(* due, be it issue_pop_challenge or an authorize that required PoP; no    *)
(* earlier fixture counts, and no request of this one is forgotten.        *)
(***************************************************************************)
WithheldIsRefused ==
  reply.op = "withhold_pop_response" =>
    (reply.code = "POP_RESPONSE_INVALID" <=> demandedIn = fixture)

(***************************************************************************)
(* An honest holder is not locked out: whoever holds the key of the TCT's  *)
(* sub and answers a live challenge for its jti, with a nonce that decodes,*)
(* is accepted, unless an earlier challenge has the same jti and nonce     *)
(* (presenter_from_pop only looks at the first).                           *)
(***************************************************************************)
HonestResponse(token, nonce) ==
  [ sender |-> token.sub, signer |-> KeyOf[token.sub], message_type |-> "pop_response",
    defects |-> {}, tct_jti |-> token.jti, nonce_echo |-> nonce,
    popSigner |-> KeyOf[token.sub], popNonce |-> nonce ]

Answerable(i) ==
  \A t \in {u \in Tokens : /\ u.compact /\ u.sub \in Aid
                          /\ u.jti # Absent /\ u.jti = challenges[i].tct_jti} :
    PopVerdict(t, HonestResponse(t, challenges[i].nonce)) = OK

Shadowed(i) ==
  \E k \in DOMAIN challenges :
    /\ k < i
    /\ challenges[k].tct_jti = challenges[i].tct_jti
    /\ challenges[k].nonce = challenges[i].nonce

HonestHolderAccepted ==
  \A i \in DOMAIN challenges :
    /\ live(challenges[i], clock) /\ challenges[i].nonce \in Nonce
    /\ ~ Shadowed(i)
    => Answerable(i)

(***************************************************************************)
(* Replay.  Within a fixture a message_id is accepted at most once, and    *)
(* refused only if this fixture has accepted it: an id seen in an earlier  *)
(* fixture is new again (the message_id branch of _dispatch and            *)
(* _begin_fixture).                                                        *)
(***************************************************************************)
ReplayPerFixture ==
  /\ \A m \in MessageId : accepted[m] <= 1
  /\ reply.op = "replay" => accepted[reply.result] = 1

=============================================================================
