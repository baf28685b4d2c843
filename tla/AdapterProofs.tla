---------------------------- MODULE AdapterProofs ----------------------------
(***************************************************************************)
(* What the adapter guarantees over any number of fixtures, challenges,    *)
(* proofs and clock values.                                                *)
(*                                                                         *)
(* None of the properties is inductive by itself.  They become so with     *)
(* SessionInv, which ties the session to this fixture, and NonceInv, which *)
(* says where nonces come from: a random nonce is known to nobody before   *)
(* it is handed out, hence no proof over it is older than its fixture.     *)
(***************************************************************************)
EXTENDS Adapter, VerdictLemmas, TLAPS

(***************************************************************************)
(* A pop_response is accepted only when the key of the TCT's sub has       *)
(* signed the echoed nonce, and that nonce is the one of a live challenge  *)
(* for the TCT's jti (presenter_from_pop).                                 *)
(***************************************************************************)
LEMMA PopAccepted ==
  ASSUME NEW response, NEW S, NEW outstanding \in Seq(S), NEW claims, NEW now,
         presenter_from_pop(response, outstanding, claims, now) = OK
  PROVE  /\ claims.sub \in Aid
         /\ response.tct_jti = claims.jti
         /\ response.popSigner = KeyOf[claims.sub]
         /\ response.popNonce = response.nonce_echo
         /\ \E i \in DOMAIN outstanding :
              /\ outstanding[i].tct_jti = claims.jti
              /\ outstanding[i].nonce = response.nonce_echo
              /\ now < outstanding[i].expires_at
<1> DEFINE found == matching(outstanding, claims.jti, response.nonce_echo)
           first == CHOOSE i \in found : \A j \in found : i <= j
<1>1. /\ claims.sub \in Aid
      /\ response.tct_jti = claims.jti
      /\ response.popSigner = KeyOf[claims.sub]
      /\ response.popNonce = response.nonce_echo
      /\ found # {}
      /\ live(answered(outstanding, claims.jti, response.nonce_echo), now)
  BY TwelveChecks DEF presenter_from_pop, Check, OK, KeyError, ValueError
<1>2. found \in SUBSET Nat
  BY DEF matching
<1>3. \E i \in found : \A j \in found : i <= j
  BY <1>1, <1>2, LeastNatural
<1>4. first \in found
  BY <1>3
<1>5. outstanding[first] = answered(outstanding, claims.jti, response.nonce_echo)
  BY DEF answered
<1>6. /\ first \in DOMAIN outstanding
      /\ outstanding[first].tct_jti = claims.jti
      /\ outstanding[first].nonce = response.nonce_echo
  BY <1>4 DEF matching
<1>7. now < outstanding[first].expires_at
  BY <1>1, <1>5 DEF live
<1>8. QED
  BY <1>1, <1>6, <1>7

-----------------------------------------------------------------------------
(***************************************************************************)
(* The session belongs to the running fixture: the flag is set exactly     *)
(* when this fixture made a challenge due, and the ids seen are the ones   *)
(* this fixture accepted, each once.                                       *)
(***************************************************************************)
SessionInv ==
  /\ pop_challenge_issued <=> demandedIn = fixture
  /\ demandedIn <= fixture
  /\ \A m \in MessageId : accepted[m] = IF m \in seen_message_ids THEN 1 ELSE 0
  /\ reply.op = "replay" => reply.result \in seen_message_ids

(***************************************************************************)
(* Nonces are pinned or were handed out, and a proof over the random nonce *)
(* of an outstanding challenge was made in the running fixture.            *)
(***************************************************************************)
NonceInv ==
  /\ \A i \in DOMAIN challenges : challenges[i].nonce \in PinnedNonce \cup used
  /\ \A s \in signatures : s.nonce \in PinnedNonce \cup used
  /\ \A s \in signatures : \A i \in DOMAIN challenges :
       s.nonce \in RandomNonce /\ challenges[i].nonce = s.nonce => s.madeIn = fixture

IInv ==
  /\ TypeOK
  /\ SessionInv
  /\ NonceInv
  /\ PresenterHasProof
  /\ WithheldIsRefused

LEMMA ReplyFields ==
  ASSUME NEW op, NEW code, NEW result, Reply(op, code, result)
  PROVE  reply'.op = op /\ reply'.code = code /\ reply'.result = result
BY DEF Reply

LEMMA InvInit == Init => IInv
<1> SUFFICES ASSUME Init PROVE IInv
  OBVIOUS
<1>1. TypeOK
  <2>1. challenges \in Seq(Challenges)
    BY DEF Init
  <2>2. accepted \in [MessageId -> Nat]
    BY DEF Init
  <2>3. /\ clock \in Clocks /\ features \subseteq Feature
        /\ seen_message_ids \subseteq MessageId
        /\ used \subseteq RandomNonce /\ signatures \subseteq Proofs
        /\ fixture \in 0 .. MaxFixtures
    BY AdapterAssumption DEF Init
  <2>4. QED
    BY <2>1, <2>2, <2>3 DEF Init, TypeOK
<1>2. SessionInv /\ WithheldIsRefused
  <2>1. demandedIn # fixture /\ demandedIn <= fixture
    BY DEF Init, NoFixture
  <2>2. reply.op = "none"
    BY DEF Init, NoReply
  <2>3. ~ pop_challenge_issued
    BY DEF Init
  <2>4. \A m \in MessageId : accepted[m] = IF m \in seen_message_ids THEN 1 ELSE 0
    BY DEF Init
  <2>5. QED
    BY <2>1, <2>2, <2>3, <2>4 DEF SessionInv, WithheldIsRefused
<1>3. NonceInv /\ PresenterHasProof
  <2>1. DOMAIN challenges = {}
    BY DEF Init
  <2>2. QED
    BY <2>1 DEF Init, NonceInv, PresenterHasProof
<1>4. QED
  BY <1>1, <1>2, <1>3 DEF IInv

-----------------------------------------------------------------------------
(***************************************************************************)
(* The requests that leave the session alone: only the clock, the          *)
(* features, the loop and the reply may change.                            *)
(***************************************************************************)
LEMMA QuietStep ==
  ASSUME IInv, UNCHANGED <<session, ghosts>>,
         clock' \in Clocks, features' \subseteq Feature, serving' \in BOOLEAN,
         reply'.op \notin {"replay", "withhold_pop_response"}
  PROVE  IInv'
<1> USE DEF IInv, session, ghosts
<1>1. TypeOK'
  BY DEF TypeOK, Challenges, Proofs
<1>2. SessionInv' /\ WithheldIsRefused'
  BY DEF SessionInv, WithheldIsRefused
<1>3. NonceInv' /\ PresenterHasProof'
  BY DEF NonceInv, PresenterHasProof
<1>4. QED
  BY <1>1, <1>2, <1>3

\* Set_clock, set_features, the ends of the loop, everything stateless, what
\* fails before it assigns, and the two requests that only report.
LEMMA QuietRequests ==
  ASSUME IInv,
         \/ \E t \in Clocks : SetClock(t)
         \/ \E names \in SUBSET Feature : SetFeatures(names)
         \/ Shutdown \/ EndOfInput
         \/ \E op \in DOMAIN StatelessOutcome : Stateless(op)
         \/ IssueMalformed \/ AuthorizeMalformed
         \/ VerifyResponse \/ ExpectChallengeIssued
  PROVE  IInv'
<1> USE DEF Reply, config
<1>0. clock \in Clocks /\ features \subseteq Feature /\ serving \in BOOLEAN
  BY DEF IInv, TypeOK
<1>1. CASE \E t \in Clocks : SetClock(t)
  <2>1. PICK t \in Clocks : SetClock(t)
    BY <1>1
  <2>2. /\ UNCHANGED <<session, ghosts>> /\ clock' = t
        /\ UNCHANGED <<features, serving>> /\ reply'.op = "set_clock"
    BY <2>1 DEF SetClock
  <2>3. QED
    BY <1>0, <2>2, QuietStep
<1>2. CASE \E names \in SUBSET Feature : SetFeatures(names)
  <2>1. PICK names \in SUBSET Feature : SetFeatures(names)
    BY <1>2
  <2>2. /\ UNCHANGED <<session, ghosts>> /\ features' = names
        /\ UNCHANGED <<clock, serving>> /\ reply'.op = "set_features"
    BY <2>1 DEF SetFeatures
  <2>3. QED
    BY <1>0, <2>2, QuietStep
<1>3. CASE Shutdown
  <2>1. /\ UNCHANGED <<session, ghosts>> /\ UNCHANGED <<clock, features>>
        /\ serving' = FALSE
    BY <1>3 DEF Shutdown
  <2>2. reply'.op = "shutdown"
    BY <1>3, ReplyFields, Zenon DEF Shutdown
  <2>3. QED
    BY <1>0, <2>1, <2>2, QuietStep
<1>4. CASE EndOfInput
  BY <1>0, <1>4, QuietStep DEF EndOfInput, NoReply
<1>5. CASE \E op \in DOMAIN StatelessOutcome : Stateless(op)
  <2>1. DOMAIN StatelessOutcome =
          {"init", "unreadable", "malformed_control", "unknown", "verifier"}
    BY DEF StatelessOutcome
  <2>2. PICK op \in DOMAIN StatelessOutcome : Stateless(op)
    BY <1>5
  <2>3. PICK code : Reply("stateless", code, "")
    BY <2>2, Zenon DEF Stateless
  <2>4. reply'.op = "stateless"
    BY <2>3
  <2>5. /\ UNCHANGED <<session, ghosts>>
        /\ UNCHANGED <<clock, features, serving>>
    BY <2>2 DEF Stateless
  <2>6. QED
    BY <1>0, <2>1, <2>4, <2>5, QuietStep
<1>6. CASE IssueMalformed
  BY <1>0, <1>6, QuietStep DEF IssueMalformed, InternalError
<1>7. CASE AuthorizeMalformed
  BY <1>0, <1>7, QuietStep DEF AuthorizeMalformed, InternalError
<1>8. CASE VerifyResponse
  <2>1. /\ UNCHANGED <<session, ghosts>>
        /\ UNCHANGED <<clock, features, serving>>
    BY <1>8 DEF VerifyResponse
  <2>2. reply'.op = "verify_pop_response"
    BY <1>8, ReplyFields, Zenon DEF VerifyResponse
  <2>3. QED
    BY <1>0, <2>1, <2>2, QuietStep
<1>9. CASE ExpectChallengeIssued
  BY <1>0, <1>9, QuietStep DEF ExpectChallengeIssued
<1>10. QED
  BY <1>1, <1>2, <1>3, <1>4, <1>5, <1>6, <1>7, <1>8, <1>9

-----------------------------------------------------------------------------
(***************************************************************************)
(* The requests and steps that change the session or the ghosts.           *)
(***************************************************************************)
LEMMA WithholdStep == IInv /\ Withhold => IInv'
<1> SUFFICES ASSUME IInv, Withhold PROVE IInv'
  OBVIOUS
<1> USE DEF IInv, session, ghosts, config
<1>1. UNCHANGED <<session, config, serving, ghosts>>
  BY DEF Withhold
<1>2. /\ reply'.op = "withhold_pop_response"
      /\ reply'.code = IF pop_challenge_issued THEN "POP_RESPONSE_INVALID" ELSE OK
  BY ReplyFields, Zenon DEF Withhold
<1>3. TypeOK'
  BY <1>1 DEF TypeOK, Challenges, Proofs
<1>4. SessionInv'
  BY <1>1, <1>2 DEF SessionInv
<1>5. NonceInv' /\ PresenterHasProof'
  BY <1>1 DEF NonceInv, PresenterHasProof
<1>6. WithheldIsRefused'
  BY <1>1, <1>2 DEF WithheldIsRefused, SessionInv, OK
<1>7. QED
  BY <1>3, <1>4, <1>5, <1>6

LEMMA ReplayStep ==
  ASSUME IInv, NEW mid \in MessageId, CheckReplay(mid)
  PROVE  IInv'
<1> USE DEF IInv, config
<1>1. UNCHANGED <<challenges, pop_presenter, pop_challenge_issued, config, serving,
                  fixture, used, signatures, proof, demandedIn>>
  BY DEF CheckReplay
<1>2. reply'.op = "replay" /\ reply'.result = mid
  BY ReplyFields, Zenon DEF CheckReplay
<1>3. seen_message_ids' = seen_message_ids \cup {mid}
  BY DEF CheckReplay
<1>4. \/ mid \in seen_message_ids /\ UNCHANGED accepted
      \/ mid \notin seen_message_ids /\ accepted' = [accepted EXCEPT ![mid] = @ + 1]
  BY DEF CheckReplay
<1>5. TypeOK'
  BY <1>1, <1>3, <1>4 DEF TypeOK, Challenges, Proofs
<1>6. SessionInv'
  <2>1. \A m \in MessageId :
          accepted'[m] = IF m \in seen_message_ids' THEN 1 ELSE 0
    BY <1>3, <1>4 DEF SessionInv, TypeOK
  <2>2. QED
    BY <1>1, <1>2, <1>3, <2>1 DEF SessionInv
<1>7. NonceInv' /\ PresenterHasProof'
  BY <1>1 DEF NonceInv, PresenterHasProof
<1>8. WithheldIsRefused'
  BY <1>2 DEF WithheldIsRefused
<1>9. QED
  BY <1>5, <1>6, <1>7, <1>8

\* Nothing of the session outlives the fixture, and no proof is as old.
LEMMA BeginFixtureStep == IInv /\ BeginFixture => IInv'
<1> SUFFICES ASSUME IInv, BeginFixture PROVE IInv'
  OBVIOUS
<1> USE DEF IInv, config
<1>1. /\ seen_message_ids' = {} /\ challenges' = <<>> /\ pop_presenter' = Absent
      /\ pop_challenge_issued' = FALSE /\ fixture' = fixture + 1
      /\ accepted' = [m \in MessageId |-> 0] /\ proof' = Unproved
      /\ fixture < MaxFixtures
      /\ UNCHANGED <<config, serving, used, signatures, demandedIn>>
  BY DEF BeginFixture
<1>2. reply'.op = "begin_fixture"
  BY ReplyFields, Zenon DEF BeginFixture
<1>3. TypeOK'
  <2>1. challenges' \in Seq(Challenges)
    BY <1>1
  <2>2. accepted' \in [MessageId -> Nat]
    BY <1>1
  <2>3. fixture' \in 0 .. MaxFixtures
    BY <1>1, AdapterAssumption DEF TypeOK
  <2>4. QED
    BY <1>1, <2>1, <2>2, <2>3 DEF TypeOK, Challenges, Proofs
<1>4. SessionInv'
  <2>1. demandedIn' # fixture' /\ demandedIn' <= fixture'
    BY <1>1, AdapterAssumption DEF SessionInv, TypeOK, NoFixture
  <2>2. \A m \in MessageId :
          accepted'[m] = IF m \in seen_message_ids' THEN 1 ELSE 0
    BY <1>1
  <2>3. ~ pop_challenge_issued'
    BY <1>1
  <2>4. QED
    BY <1>2, <2>1, <2>2, <2>3 DEF SessionInv
<1>5. NonceInv'
  <2>1. DOMAIN challenges' = {}
    BY <1>1
  <2>2. QED
    BY <1>1, <2>1 DEF NonceInv
<1>6. PresenterHasProof' /\ WithheldIsRefused'
  BY <1>1, <1>2 DEF PresenterHasProof, WithheldIsRefused
<1>7. QED
  BY <1>3, <1>4, <1>5, <1>6

\* A new challenge disturbs no earlier one; its nonce is pinned, or random
\* and then under no signature.
LEMMA IssueStep ==
  ASSUME IInv, NEW token \in Tokens, NEW nonce, IssueChallenge(token, nonce),
         \/ nonce \in PinnedNonce /\ UNCHANGED used
         \/ nonce \in RandomNonce \ used /\ used' = used \cup {nonce}
  PROVE  IInv'
<1> USE DEF IInv, config
<1>1. /\ challenges' = Append(challenges, Challenge(token, nonce))
      /\ pop_challenge_issued' = TRUE /\ demandedIn' = fixture
      /\ UNCHANGED <<seen_message_ids, pop_presenter, config, serving,
                     fixture, signatures, proof, accepted>>
  BY DEF IssueChallenge
<1>2. reply'.op = "issue_pop_challenge"
  BY ReplyFields, Zenon DEF IssueChallenge
<1>3. Challenge(token, nonce) \in Challenges
  BY DEF Challenge, Challenges, TypeOK
<1>4. challenges \in Seq(Challenges)
  BY DEF TypeOK
<1>5. /\ challenges' \in Seq(Challenges)
      /\ Len(challenges') = Len(challenges) + 1
      /\ \A i \in DOMAIN challenges :
           i \in DOMAIN challenges' /\ challenges'[i] = challenges[i]
      /\ \A i \in DOMAIN challenges' :
           i \in DOMAIN challenges \/ challenges'[i] = Challenge(token, nonce)
  BY <1>1, <1>3, <1>4
<1>6. TypeOK'
  BY <1>1, <1>5 DEF TypeOK, Proofs
<1>7. SessionInv'
  BY <1>1, <1>2 DEF SessionInv, TypeOK
<1>8. NonceInv'
  <2>1. Challenge(token, nonce).nonce = nonce
    BY DEF Challenge
  <2>2. \A i \in DOMAIN challenges' : challenges'[i].nonce \in PinnedNonce \cup used'
    BY <1>5, <2>1 DEF NonceInv
  <2>3. \A s \in signatures' : s.nonce \in PinnedNonce \cup used'
    BY <1>1 DEF NonceInv
  <2>4. ASSUME NEW s \in signatures, s.nonce \in RandomNonce
        PROVE  s.nonce # nonce
    BY <2>4, AdapterAssumption DEF NonceInv
  <2>5. \A s \in signatures' : \A i \in DOMAIN challenges' :
          s.nonce \in RandomNonce /\ challenges'[i].nonce = s.nonce => s.madeIn = fixture'
    BY <1>1, <1>5, <2>1, <2>4 DEF NonceInv
  <2>6. QED
    BY <2>2, <2>3, <2>5 DEF NonceInv
<1>9. PresenterHasProof' /\ WithheldIsRefused'
  BY <1>1, <1>2, <1>5 DEF PresenterHasProof, WithheldIsRefused
<1>10. QED
  BY <1>6, <1>7, <1>8, <1>9

\* What a holder signs, it was told: the nonce is not a fresh one.
LEMMA SignStep ==
  ASSUME IInv, NEW key \in Holders, NEW nonce, HolderSigns(key, nonce)
  PROVE  IInv'
<1> USE DEF IInv, session, config
<1> DEFINE made == [key |-> key, nonce |-> nonce, madeIn |-> fixture]
<1>1. /\ nonce \in PinnedNonce \cup used
      /\ signatures' = signatures \cup {made}
      /\ UNCHANGED <<session, config, serving, reply, fixture, used, proof,
                     demandedIn, accepted>>
  BY DEF HolderSigns
<1>2. made \in Proofs
  BY <1>1 DEF Proofs, TypeOK
<1>3. TypeOK'
  BY <1>1, <1>2 DEF TypeOK, Challenges, Proofs
<1>4. SessionInv' /\ WithheldIsRefused'
  BY <1>1 DEF SessionInv, WithheldIsRefused
<1>5. NonceInv' /\ PresenterHasProof'
  BY <1>1 DEF NonceInv, PresenterHasProof
<1>6. QED
  BY <1>3, <1>4, <1>5

LEMMA AuthorizeStep ==
  ASSUME IInv, NEW invocation, Authorize(invocation)
  PROVE  IInv'
<1> USE DEF IInv, config
<1>1. UNCHANGED <<seen_message_ids, challenges, pop_presenter, config, serving,
                  fixture, used, signatures, proof, accepted>>
  BY DEF Authorize
<1>2. \/ pop_challenge_issued' = TRUE /\ demandedIn' = fixture
      \/ UNCHANGED <<pop_challenge_issued, demandedIn>>
  BY DEF Authorize
<1>3. reply'.op = "authorize_capability_invocation"
  BY ReplyFields, Zenon DEF Authorize
<1>4. TypeOK'
  BY <1>1, <1>2 DEF TypeOK, Challenges, Proofs
<1>5. SessionInv'
  BY <1>1, <1>2, <1>3 DEF SessionInv, TypeOK
<1>6. NonceInv' /\ PresenterHasProof' /\ WithheldIsRefused'
  BY <1>1, <1>3 DEF NonceInv, PresenterHasProof, WithheldIsRefused
<1>7. QED
  BY <1>4, <1>5, <1>6

(***************************************************************************)
(* A pop_response either establishes a presenter, with its proof, or takes *)
(* the one there was away, or raises before it assigns anything.           *)
(***************************************************************************)
LEMMA ProduceStep ==
  ASSUME IInv, NEW token \in Tokens, NEW envelope \in Envelopes, NEW echo,
         NEW signature \in signatures \cup {NoProof},
         ProduceResponse(token, envelope, echo, signature)
  PROVE  IInv'
<1> USE DEF IInv, config
<1> DEFINE response == Response(envelope, echo, signature)
           verdict  == PopVerdict(token, response)
           claims   == unverified_claims(token)
<1>1. UNCHANGED <<seen_message_ids, challenges, pop_challenge_issued, config, serving,
                  fixture, used, signatures, demandedIn, accepted>>
  BY DEF ProduceResponse
<1>2. reply'.op = "produce_pop_response"
  BY ReplyFields, Zenon DEF ProduceResponse
<1>3. \/ UNCHANGED <<pop_presenter, proof>>
      \/ pop_presenter' = Absent /\ proof' = Unproved
      \/ /\ verdict = OK
         /\ pop_presenter' = claims.sub
         /\ proof' = [signature |-> signature, jti |-> envelope.tct_jti, at |-> clock]
  BY DEF ProduceResponse
<1>4. SessionInv' /\ WithheldIsRefused' /\ NonceInv'
  BY <1>1, <1>2 DEF SessionInv, WithheldIsRefused, NonceInv
<1>5. CASE UNCHANGED <<pop_presenter, proof>>
  <2>1. TypeOK' /\ PresenterHasProof'
    BY <1>1, <1>5 DEF TypeOK, Challenges, Proofs, PresenterHasProof
  <2>2. QED
    BY <1>4, <2>1
<1>6. CASE pop_presenter' = Absent /\ proof' = Unproved
  <2>1. TypeOK' /\ PresenterHasProof'
    BY <1>1, <1>6 DEF TypeOK, Challenges, Proofs, PresenterHasProof
  <2>2. QED
    BY <1>4, <2>1
<1>7. CASE /\ verdict = OK
           /\ pop_presenter' = claims.sub
           /\ proof' = [signature |-> signature, jti |-> envelope.tct_jti, at |-> clock]
  <2>1. challenges \in Seq(Challenges)
    BY DEF TypeOK
  <2>2. presenter_from_pop(response, challenges, claims, clock) = OK
    BY <1>7 DEF PopVerdict
  <2>3. /\ response.tct_jti = envelope.tct_jti /\ response.nonce_echo = echo
        /\ response.popSigner = signature.key /\ response.popNonce = signature.nonce
    BY DEF Response
  <2> HIDE DEF response, verdict, claims
  <2>4. /\ claims.sub \in Aid
        /\ response.tct_jti = claims.jti
        /\ response.popSigner = KeyOf[claims.sub]
        /\ response.popNonce = response.nonce_echo
        /\ \E i \in DOMAIN challenges :
             /\ challenges[i].tct_jti = claims.jti
             /\ challenges[i].nonce = response.nonce_echo
             /\ clock < challenges[i].expires_at
    BY <2>1, <2>2, PopAccepted
  <2>5. signature.key = KeyOf[claims.sub]
    BY <2>3, <2>4
  <2>6. signature \in signatures
    BY <2>4, <2>5, AidAssumption DEF NoProof
  <2>7. PresenterHasProof'
    BY <1>1, <1>7, <2>3, <2>4, <2>5, <2>6 DEF PresenterHasProof, SignedBy
  <2>8. TypeOK'
    <3>1. pop_presenter' \in {unverified_claims(t).sub : t \in Tokens}
      BY <1>7 DEF claims
    <3>2. proof' \in [ signature : signatures', jti : {e.tct_jti : e \in Envelopes},
                       at : Clocks ]
      BY <1>1, <1>7, <2>6 DEF TypeOK
    <3>3. QED
      BY <1>1, <3>1, <3>2 DEF TypeOK, Challenges, Proofs
  <2>9. QED
    BY <1>4, <2>7, <2>8
<1>8. QED
  BY <1>3, <1>5, <1>6, <1>7

LEMMA InvStep == IInv /\ [Next]_vars => IInv'
<1> SUFFICES ASSUME IInv, [Next]_vars PROVE IInv'
  OBVIOUS
<1>1. CASE UNCHANGED vars
  <2>1. /\ UNCHANGED <<session, ghosts>>
        /\ UNCHANGED <<clock, features, serving, reply>>
    BY <1>1 DEF vars, config
  <2>2. TypeOK' /\ SessionInv'
    BY <2>1 DEF IInv, TypeOK, SessionInv, session, ghosts, Challenges, Proofs
  <2>3. NonceInv' /\ PresenterHasProof' /\ WithheldIsRefused'
    BY <2>1 DEF IInv, NonceInv, PresenterHasProof, WithheldIsRefused, session, ghosts
  <2>4. QED
    BY <2>2, <2>3 DEF IInv
<1>2. CASE \/ \E t \in Clocks : SetClock(t)
           \/ \E names \in SUBSET Feature : SetFeatures(names)
           \/ Shutdown \/ EndOfInput
           \/ \E op \in DOMAIN StatelessOutcome : Stateless(op)
  BY <1>2, QuietRequests
<1>3. CASE BeginFixture
  BY <1>3, BeginFixtureStep
<1>4. CASE \E mid \in MessageId : CheckReplay(mid)
  BY <1>4, ReplayStep
<1>5. CASE \E k \in Holders, n \in PinnedNonce \cup RandomNonce : HolderSigns(k, n)
  BY <1>5, SignStep
<1>6. CASE PopOperation
  <2>1. ASSUME NEW t \in Tokens, IssuePinned(t) \/ IssueRandom(t)
        PROVE  IInv'
    BY <2>1, IssueStep DEF IssuePinned, IssueRandom
  <2>2. ASSUME NEW t \in Tokens, Produce(t)
        PROVE  IInv'
    BY <2>2, ProduceStep DEF Produce
  <2>3. ASSUME NEW i \in Invocations, Authorize(i)
        PROVE  IInv'
    BY <2>3, AuthorizeStep
  <2>4. CASE IssueMalformed \/ AuthorizeMalformed \/ VerifyResponse \/ ExpectChallengeIssued
    BY <2>4, QuietRequests
  <2>5. CASE Withhold
    BY <2>5, WithholdStep
  <2>6. QED
    BY <1>6, <2>1, <2>2, <2>3, <2>4, <2>5 DEF PopOperation
<1>7. QED
  BY <1>1, <1>2, <1>3, <1>4, <1>5, <1>6 DEF Next

\* The state of the adapter stays in its types.
THEOREM TypeCorrect == Spec => []TypeOK
<1>1. IInv => TypeOK
  BY DEF IInv
<1>2. QED
  BY <1>1, InvInit, InvStep, PTL DEF Spec

(***************************************************************************)
(* The presenter verify_pop_response reports was proved by its own key, in *)
(* time, over a challenge of this fixture.                                 *)
(***************************************************************************)
THEOREM PresenterHasProofHolds == Spec => []PresenterHasProof
<1>1. IInv => PresenterHasProof
  BY DEF IInv
<1>2. QED
  BY <1>1, InvInit, InvStep, PTL DEF Spec

(***************************************************************************)
(* A proof over a nonce the adapter made itself establishes a presenter in *)
(* the fixture it was made in, and in no later one.                        *)
(***************************************************************************)
THEOREM RandomNonceIsFreshHolds == Spec => []RandomNonceIsFresh
<1>1. IInv => RandomNonceIsFresh
  BY DEF IInv, NonceInv, PresenterHasProof, RandomNonceIsFresh
<1>2. QED
  BY <1>1, InvInit, InvStep, PTL DEF Spec

\* Withholding is refused exactly when this fixture made a challenge due.
THEOREM WithheldIsRefusedHolds == Spec => []WithheldIsRefused
<1>1. IInv => WithheldIsRefused
  BY DEF IInv
<1>2. QED
  BY <1>1, InvInit, InvStep, PTL DEF Spec

\* A message_id is accepted once in a fixture, and then refused in it only.
THEOREM ReplayPerFixtureHolds == Spec => []ReplayPerFixture
<1>1. IInv => ReplayPerFixture
  BY DEF IInv, TypeOK, SessionInv, ReplayPerFixture
<1>2. QED
  BY <1>1, InvInit, InvStep, PTL DEF Spec

-----------------------------------------------------------------------------
\* What an honest holder of the key of sub answers to an unshadowed live
\* challenge passes every check of presenter_from_pop.
LEMMA HonestAnswer ==
  ASSUME TypeOK, NEW i \in DOMAIN challenges,
         live(challenges[i], clock), challenges[i].nonce \in Nonce, ~ Shadowed(i),
         NEW t \in Tokens, t.compact, t.sub \in Aid,
         t.jti # Absent, t.jti = challenges[i].tct_jti
  PROVE  PopVerdict(t, HonestResponse(t, challenges[i].nonce)) = OK
<1> DEFINE response == HonestResponse(t, challenges[i].nonce)
           found == matching(challenges, t.jti, challenges[i].nonce)
           first == CHOOSE k \in found : \A j \in found : k <= j
<1>1. /\ response.sender = t.sub /\ response.signer = KeyOf[t.sub]
      /\ response.message_type = "pop_response" /\ response.defects = {}
      /\ response.tct_jti = t.jti /\ response.nonce_echo = challenges[i].nonce
      /\ response.popSigner = KeyOf[t.sub] /\ response.popNonce = challenges[i].nonce
  BY DEF HonestResponse
<1>2. unverified_claims(t) = t
  BY DEF unverified_claims
<1>3. found \in SUBSET Nat /\ i \in found
  BY DEF matching, TypeOK
<1>4. first \in found /\ \A j \in found : first <= j
  <2>1. \E k \in found : \A j \in found : k <= j
    BY <1>3, LeastNatural
  <2>2. QED
    BY <2>1
<1>5. first = i
  <2>1. ~ (first < i)
    BY <1>4 DEF matching, Shadowed
  <2>2. QED
    BY <1>3, <1>4, <2>1
<1>6. answered(challenges, t.jti, challenges[i].nonce) = challenges[i]
  BY <1>5 DEF answered
<1> HIDE DEF response
<1>7. presenter_from_pop(response, challenges, t, clock) = OK
  <2>1. found # {}
    BY <1>3
  <2>2. SignedBy(response, response.sender)
    BY <1>1 DEF SignedBy
  <2>3. t.sub # Absent
    BY AidAssumption
  <2>4. matching(challenges, t.jti, response.nonce_echo) # {}
    BY <1>1, <2>1
  <2>5. live(answered(challenges, t.jti, response.nonce_echo), clock)
    BY <1>1, <1>6
  <2>6. QED
    BY <1>1, <2>2, <2>3, <2>4, <2>5, TwelveChecks DEF presenter_from_pop, Check
<1>8. QED
  BY <1>2, <1>7 DEF PopVerdict, response

(***************************************************************************)
(* An honest holder is not locked out, however many challenges are         *)
(* outstanding and in whatever order they were issued.                     *)
(***************************************************************************)
THEOREM HonestHolderAcceptedHolds == Spec => []HonestHolderAccepted
<1>1. TypeOK => HonestHolderAccepted
  BY HonestAnswer DEF HonestHolderAccepted, Answerable
<1>2. QED
  BY <1>1, TypeCorrect, PTL

=============================================================================
