---------------------------- MODULE SessionProofs ----------------------------
(***************************************************************************)
(* For every set of agents, tokens, Manifests and bounds: whose bundles a  *)
(* participant accepts, with which tokens, and how a bundle ends (module   *)
(* SessionWorld).                                                          *)
(*                                                                         *)
(* The first part is about the code alone: what acceptance says of a       *)
(* bundle, and what an accepted bundle is told when time goes by.  The     *)
(* second adds what is true of every bundle that can be out, and of those  *)
(* of an honest coordinator, which are accepted.                           *)
(***************************************************************************)
EXTENDS SessionWorld, VerdictLemmas

-----------------------------------------------------------------------------
\* The checks of verify_session_bundle, in its order.
Checks(b, r, held, time) ==
  << check_wrapper(b),
     check_body(b),
     check_entries(b),
     Check(b.version = PROTOCOL_VERSION, "BUNDLE_VERSION_MISMATCH"),
     check_expiry(b, time),
     Check(b.participants # <<>>, "BUNDLE_EMPTY_PARTICIPANTS"),
     peek_all(b),
     Check(b.participants # <<>> /\ b.expires_at = earliest(b),
           "BUNDLE_EXPIRY_WINDOW_INVARIANT"),
     Check(b.coordinator \in Aid, invalid),
     resolve_manifest(b.coordinator, held, time),
     check_signature(b),
     check_participants(b, held),
     Check(r \in aids(b), "BUNDLE_NOT_MEMBER") >>

LEMMA VerifierIsChecks ==
  ASSUME NEW b, NEW r, NEW held, NEW time
  PROVE  /\ verify_session_bundle(b, r, held, time) = FirstError(Checks(b, r, held, time))
         /\ DOMAIN Checks(b, r, held, time) = 1 .. 13
BY DEF verify_session_bundle, Checks

LEMMA AllPass ==
  ASSUME NEW b, NEW r, NEW held, NEW time
  PROVE  verify_session_bundle(b, r, held, time) = OK
           <=> \A i \in 1 .. 13 : Checks(b, r, held, time)[i] = OK
<1> DEFINE checks == Checks(b, r, held, time)
<1>1. DOMAIN checks = 1 .. 13 /\ verify_session_bundle(b, r, held, time) = FirstError(checks)
  BY VerifierIsChecks
<1> HIDE DEF checks
<1>2. FirstError(checks) = OK <=> \A i \in 1 .. 13 : checks[i] = OK
  BY <1>1, FirstErrorOK, 13 \in Nat
<1>3. QED
  BY <1>1, <1>2 DEF checks

\* The checks that the properties rest on.
LEMMA BundleAccepted ==
  ASSUME NEW b, NEW r, NEW held, NEW time,
         verify_session_bundle(b, r, held, time) = OK
  PROVE  /\ time < b.expires_at
         /\ b.expires_at = earliest(b)
         /\ b.coordinator \in Aid
         /\ resolve_manifest(b.coordinator, held, time) = OK
         /\ SignedBy(b, b.coordinator)
         /\ check_participants(b, held) = OK
<1>1. \A i \in 1 .. 13 : Checks(b, r, held, time)[i] = OK
  BY AllPass
<1>2. /\ check_expiry(b, time) = OK
      /\ Check(b.participants # <<>> /\ b.expires_at = earliest(b),
               "BUNDLE_EXPIRY_WINDOW_INVARIANT") = OK
      /\ Check(b.coordinator \in Aid, invalid) = OK
  BY <1>1, 5 \in 1 .. 13, 8 \in 1 .. 13, 9 \in 1 .. 13 DEF Checks
<1>3. /\ resolve_manifest(b.coordinator, held, time) = OK
      /\ check_signature(b) = OK
      /\ check_participants(b, held) = OK
  BY <1>1, 10 \in 1 .. 13, 11 \in 1 .. 13, 12 \in 1 .. 13 DEF Checks
<1>4. Check(SignedBy(b, b.coordinator), "BUNDLE_INVALID_SIGNATURE") = OK
  BY <1>3, ThreeChecks DEF check_signature
<1>5. QED
  BY <1>2, <1>3, <1>4 DEF Check, OK, check_expiry, invalid

\* One turn of the loop over the participants.
LEMMA ParticipantAccepted ==
  ASSUME NEW p, NEW coordinator, NEW man,
         check_participant(p, coordinator, man) = OK
  PROVE  /\ ~ outlives_manifest(p.tct, man.expires_at)
         /\ p.tct.iss = coordinator
         /\ p.tct.aud = p.aid
<1> DEFINE parsed == parse_compact(p.tct, tct_invalid)
           signed == remapped(verify_jws(p.tct, p.tct.iss, "aitp-tct+jwt",
                        [alg |-> tct_invalid, typ |-> tct_invalid, sig |-> tct_invalid],
                        check_tct_claims_shape(p.tct, tct_invalid)))
           cap    == Check(~ outlives_manifest(p.tct, man.expires_at), tct_invalid)
           issuer == Check(p.tct.iss = coordinator, "BUNDLE_COORDINATOR_ISSUER_MISMATCH")
           target == Check(p.tct.aud = p.aid, "BUNDLE_AUDIENCE_MISMATCH")
<1>1. check_participant(p, coordinator, man) = FirstError(<<parsed, signed, cap, issuer, target>>)
  BY DEF check_participant
<1>2. cap = OK /\ issuer = OK /\ target = OK
  <2> HIDE DEF parsed, signed, cap, issuer, target
  <2>1. QED
    BY <1>1, FiveChecks
<1>3. QED
  BY <1>2 DEF Check, OK, tct_invalid

\* The Manifest that decides is one that is there.
LEMMA DesignatedIsHeld ==
  ASSUME NEW aid, NEW held, DOMAIN held \subseteq Nat, designating(aid, held) # {}
  PROVE  \E i \in DOMAIN held : designated(aid, held) = held[i]
<1> DEFINE found == designating(aid, held)
<1>1. found \in SUBSET Nat /\ found \subseteq DOMAIN held
  BY DEF designating
<1>2. designated(aid, held) = held[CHOOSE i \in found : \A j \in found : i <= j]
  BY DEF designated
<1> HIDE DEF found
<1>3. found # {}
  BY DEF found
<1>4. \E i \in found : \A j \in found : i <= j
  BY <1>1, <1>3, LeastNatural
<1>5. QED
  BY <1>1, <1>2, <1>4

-----------------------------------------------------------------------------
\* A bundle as far as its numbers go: a sequence of tokens that expire.
Typed(b) ==
  /\ \E n \in Nat : DOMAIN b.participants = 1 .. n
  /\ exps(b) \in SUBSET Nat /\ exps(b) # {}

LEMMA EarliestIsLeast ==
  ASSUME NEW b, Typed(b)
  PROVE  earliest(b) \in exps(b) /\ \A x \in exps(b) : earliest(b) <= x
<1>1. \E e \in exps(b) : \A x \in exps(b) : e <= x
  BY LeastNatural DEF Typed
<1>2. QED
  BY <1>1 DEF earliest

\* All of them pass, with the Manifest that designates the coordinator.
LEMMA ParticipantsAccepted ==
  ASSUME NEW b, NEW held, NEW time, Typed(b),
         resolve_manifest(b.coordinator, held, time) = OK,
         check_participants(b, held) = OK
  PROVE  /\ designating(b.coordinator, held) # {}
         /\ \A i \in DOMAIN b.participants :
              check_participant(b.participants[i], b.coordinator,
                                designated(b.coordinator, held)) = OK
<1>1. designating(b.coordinator, held) # {}
  BY DEF resolve_manifest, Check, OK
<1> DEFINE checks == [i \in DOMAIN b.participants |->
                        check_participant(b.participants[i], b.coordinator,
                                          designated(b.coordinator, held))]
<1>2. FirstError(checks) = OK
  BY <1>1 DEF check_participants
<1>3. PICK n \in Nat : DOMAIN b.participants = 1 .. n
  BY DEF Typed
<1>4. DOMAIN checks = 1 .. n
  BY <1>3
<1>5. \A i \in 1 .. n : checks[i] = OK
  <2> HIDE DEF checks
  <2>1. QED
    BY <1>2, <1>4, FirstErrorOK
<1>6. QED
  BY <1>1, <1>3, <1>5

LEMMA AcceptedIsSound ==
  ASSUME NEW b, NEW r, NEW held \in Holdings, NEW time \in Nat, Typed(b),
         verify_session_bundle(b, r, held, time) = OK
  PROVE  LET man == designated(b.coordinator, held)
         IN  /\ man.expires_at \in Nat
             /\ \A exp \in exps(b) :
                  time < exp /\ b.expires_at <= exp /\ exp <= man.expires_at
             /\ \A i \in DOMAIN b.participants :
                  /\ b.participants[i].tct.iss = b.coordinator
                  /\ b.participants[i].tct.aud = b.participants[i].aid
<1> DEFINE man == designated(b.coordinator, held)
<1>1. /\ time < b.expires_at /\ b.expires_at = earliest(b)
      /\ resolve_manifest(b.coordinator, held, time) = OK
      /\ check_participants(b, held) = OK
  BY BundleAccepted
<1>2. /\ designating(b.coordinator, held) # {}
      /\ \A i \in DOMAIN b.participants :
           check_participant(b.participants[i], b.coordinator, man) = OK
  BY <1>1, ParticipantsAccepted
<1>3. \A i \in DOMAIN b.participants :
        /\ ~ outlives_manifest(b.participants[i].tct, man.expires_at)
        /\ b.participants[i].tct.iss = b.coordinator
        /\ b.participants[i].tct.aud = b.participants[i].aid
  BY <1>2, ParticipantAccepted
<1>4. man.expires_at \in Nat
  BY <1>2, DesignatedIsHeld, WorldAssumption
<1>5. ASSUME NEW exp \in exps(b)
      PROVE  time < exp /\ b.expires_at <= exp /\ exp <= man.expires_at
  <2>1. exp \in Nat /\ earliest(b) \in Nat /\ earliest(b) <= exp
    BY EarliestIsLeast DEF Typed
  <2>2. PICK i \in DOMAIN b.participants : exp = b.participants[i].tct.exp
    BY DEF exps
  <2>3. ~ (exp > man.expires_at)
    BY <1>3, <2>2 DEF outlives_manifest
  <2>4. QED
    BY <1>1, <1>4, <2>1, <2>3
<1>6. QED
  BY <1>3, <1>4, <1>5

-----------------------------------------------------------------------------
\* Of a Manifest's checks only one looks at the clock.
ManifestChecks(man, supported, time) ==
  << Check("shape" \notin man.defects, "MANIFEST_INVALID"),
     Check(man.version \in supported, "MANIFEST_VERSION_UNKNOWN"),
     Check("grammar" \notin man.defects, "MANIFEST_INVALID"),
     validate_identity_hint(man),
     Check("unknown_member" \notin man.defects, "UNKNOWN_FIELD"),
     Check(time < man.expires_at, "MANIFEST_EXPIRED"),
     Check(man.aid \in Aid, "MANIFEST_INVALID"),
     Check(man.aid \in Aid /\ man.popSigner = KeyOf[man.aid], "MANIFEST_POP_FAILED"),
     Check("signature_form" \notin man.defects, "MANIFEST_SIGNATURE_INVALID"),
     Check("uncanonical" \notin man.defects, "MANIFEST_INVALID"),
     Check(SignedBy(man, man.aid), "MANIFEST_SIGNATURE_INVALID") >>

LEMMA ManifestAllPass ==
  ASSUME NEW man, NEW supported, NEW time
  PROVE  verify_manifest(man, supported, time) = OK
           <=> \A i \in 1 .. 11 : ManifestChecks(man, supported, time)[i] = OK
<1> DEFINE checks == ManifestChecks(man, supported, time)
<1>1. DOMAIN checks = 1 .. 11 /\ verify_manifest(man, supported, time) = FirstError(checks)
  BY DEF verify_manifest, ManifestChecks
<1> HIDE DEF checks
<1>2. FirstError(checks) = OK <=> \A i \in 1 .. 11 : checks[i] = OK
  BY <1>1, FirstErrorOK, 11 \in Nat
<1>3. QED
  BY <1>1, <1>2 DEF checks

LEMMA ManifestStays ==
  ASSUME NEW man, NEW supported, NEW time, NEW later, later < man.expires_at,
         verify_manifest(man, supported, time) = OK
  PROVE  verify_manifest(man, supported, later) = OK
<1>1. \A i \in 1 .. 11 : ManifestChecks(man, supported, time)[i] = OK
  BY ManifestAllPass
<1>2. ASSUME NEW i \in 1 .. 11
      PROVE  ManifestChecks(man, supported, later)[i] = OK
  <2>1. CASE i = 6
    BY <2>1 DEF ManifestChecks, Check
  <2>2. CASE i # 6
    <3>1. ManifestChecks(man, supported, later)[i] = ManifestChecks(man, supported, time)[i]
      BY <2>2 DEF ManifestChecks
    <3>2. QED
      BY <1>1, <3>1
  <2>3. QED
    BY <2>1, <2>2
<1>3. QED
  BY <1>2, ManifestAllPass

\* The Manifest ends after the bundle: the cap on its tokens sees to that.
LEMMA ResolutionStays ==
  ASSUME NEW b, NEW r, NEW held \in Holdings, NEW time \in Nat, NEW later \in Nat,
         Typed(b), later < b.expires_at,
         verify_session_bundle(b, r, held, time) = OK
  PROVE  resolve_manifest(b.coordinator, held, later) = OK
<1> DEFINE man == designated(b.coordinator, held)
<1>1. resolve_manifest(b.coordinator, held, time) = OK /\ b.expires_at = earliest(b)
  BY BundleAccepted
<1>2. /\ designating(b.coordinator, held) # {}
      /\ verify_manifest(man, {PROTOCOL_VERSION}, time) = OK
      /\ b.coordinator \in Aid
  BY <1>1 DEF resolve_manifest, Check, OK
<1>3. later < man.expires_at
  <2>1. earliest(b) \in exps(b) /\ earliest(b) \in Nat
    BY EarliestIsLeast DEF Typed
  <2>2. man.expires_at \in Nat /\ earliest(b) <= man.expires_at
    BY <2>1, AcceptedIsSound
  <2>3. QED
    BY <1>1, <2>1, <2>2
<1>4. verify_manifest(man, {PROTOCOL_VERSION}, later) = OK
  BY <1>2, <1>3, ManifestStays
<1>5. QED
  BY <1>2, <1>4 DEF resolve_manifest, Check

\* With time an accepted bundle comes to its end, and to no other refusal.
LEMMA AcceptedEnds ==
  ASSUME NEW b, NEW r, NEW held \in Holdings, NEW time \in Nat, NEW later \in Nat,
         Typed(b), verify_session_bundle(b, r, held, time) = OK
  PROVE  verify_session_bundle(b, r, held, later) \in {OK, "BUNDLE_EXPIRED"}
<1>1. \A i \in 1 .. 13 : Checks(b, r, held, time)[i] = OK
  BY AllPass
<1>2. \A i \in 1 .. 13 \ {5, 10} : Checks(b, r, held, later)[i] = Checks(b, r, held, time)[i]
  BY DEF Checks
<1>3. b.expires_at \in Nat
  BY BundleAccepted, EarliestIsLeast DEF Typed
<1>4. CASE later < b.expires_at
  <2>1. Checks(b, r, held, later)[5] = OK
    BY <1>4 DEF Checks, check_expiry, Check
  <2>2. Checks(b, r, held, later)[10] = OK
    BY <1>4, ResolutionStays DEF Checks
  <2>3. \A i \in 1 .. 13 : Checks(b, r, held, later)[i] = OK
    BY <1>1, <1>2, <2>1, <2>2
  <2>4. QED
    BY <2>3, AllPass
<1>5. CASE ~ (later < b.expires_at)
  <2> DEFINE checks == Checks(b, r, held, later)
  <2>1. checks[5] = "BUNDLE_EXPIRED" /\ "BUNDLE_EXPIRED" # OK
    BY <1>5 DEF Checks, check_expiry, Check, OK
  <2>2. \A i \in 1 .. 4 : checks[i] = OK
    BY <1>1, <1>2
  <2>3. DOMAIN checks = 1 .. 13 /\ verify_session_bundle(b, r, held, later) = FirstError(checks)
    BY VerifierIsChecks
  <2> HIDE DEF checks
  <2>4. FirstError(checks) # OK
    BY <2>1, <2>3, FirstErrorOK, 13 \in Nat, 5 \in 1 .. 13
  <2>5. PICK i \in 1 .. 13 : /\ FirstError(checks) = checks[i]
                             /\ checks[i] # OK
                             /\ \A j \in 1 .. 13 : j < i => checks[j] = OK
    BY <2>3, <2>4, FirstErrorFails, 13 \in Nat
  <2>6. i = 5
    BY <2>1, <2>2, <2>5
  <2>7. QED
    BY <2>1, <2>3, <2>5, <2>6
<1>6. QED
  BY <1>4, <1>5

-----------------------------------------------------------------------------
(***************************************************************************)
(* What is true of every bundle that can be out.  The properties speak of  *)
(* `by`, which no check looks at: the invariant ties it to the signature.  *)
(***************************************************************************)
CoordinatorKeys == {KeyOf[c] : c \in Coordinators}

BundleParts ==
  { "wrapper", "body", "version", "coordinator", "expires_at", "participants", "signer",
    "canonicalized", "tagged" }

Sound(b, maker) ==
  /\ Typed(b) /\ DOMAIN b = BundleParts
  /\ IF maker = Absent THEN b.signer \notin CoordinatorKeys
     ELSE maker \in Coordinators /\ maker = b.coordinator

IInv ==
  /\ now \in Nat
  /\ \A t \in tcts : t.exp \in Nat
  /\ (bundle = Absent /\ by = Absent) \/ Sound(bundle, by)

LEMMA KeysApart ==
  /\ NoKey \notin CoordinatorKeys
  /\ \A e \in Insiders : KeyOf[e] \notin CoordinatorKeys
BY AidAssumption, WorldAssumption DEF CoordinatorKeys

\* A new bundle of tokens that expire is typed, however it is signed.
LEMMA NewBundle ==
  ASSUME NEW n \in 1 .. MaxParticipants, NEW entries, DOMAIN entries = 1 .. n,
         \A i \in 1 .. n : entries[i].tct.exp \in Nat,
         NEW coordinator, NEW signer, NEW end
  PROVE  LET b == Bundle(coordinator, signer, entries, end)
         IN  /\ Typed(b) /\ DOMAIN b = BundleParts
             /\ b.signer = signer /\ b.coordinator = coordinator /\ b.participants = entries
<1> DEFINE b == Bundle(coordinator, signer, entries, end)
<1>1. /\ DOMAIN b = BundleParts /\ b.participants = entries
      /\ b.signer = signer /\ b.coordinator = coordinator
  BY DEF Bundle, BundleParts
<1>2. n \in Nat /\ 1 \in 1 .. n
  BY WorldAssumption
<1>3. exps(b) = {entries[i].tct.exp : i \in 1 .. n}
  BY <1>1 DEF exps
<1>4. exps(b) \in SUBSET Nat /\ exps(b) # {}
  BY <1>2, <1>3
<1>5. QED
  BY <1>1, <1>2, <1>4 DEF Typed

\* A change of what Typed does not look at.
LEMMA SameNumbers ==
  ASSUME NEW b, NEW c, Typed(b), c.participants = b.participants
  PROVE  Typed(c)
BY DEF Typed, exps

LEMMA IssueInv ==
  ASSUME IInv, NEW c \in Coordinators, Issue(c)
  PROVE  IInv'
<1>1. PICK aud \in Aid \ {c}, exp \in Exps : tcts' = tcts \cup {TctOf(c, aud, exp)}
                                            /\ UNCHANGED <<now, bundle, by>>
  BY DEF Issue
<1>2. TctOf(c, aud, exp).exp \in Nat
  BY WorldAssumption DEF TctOf
<1>3. \A t \in tcts' : t.exp \in Nat
  BY <1>1, <1>2 DEF IInv
<1>4. QED
  BY <1>1, <1>3 DEF IInv

LEMMA PublishInv ==
  ASSUME IInv, NEW c \in Coordinators, Publish(c)
  PROVE  IInv'
<1> DEFINE good == {t \in tcts : t.iss = c /\ now < t.exp}
           Entries(chosen) == [i \in DOMAIN chosen |-> Entry(chosen[i].aud, chosen[i])]
           Draft(chosen)   == Bundle(c, KeyOf[c], Entries(chosen), 0)
<1>1. PICK chosen \in Sequences(good) :
        PutOut(c, [Draft(chosen) EXCEPT !.expires_at = earliest(Draft(chosen))])
  BY DEF Publish
<1>2. PICK n \in 1 .. MaxParticipants : chosen \in [1 .. n -> good]
  BY DEF Sequences
<1> DEFINE entries == Entries(chosen)
           draft   == Draft(chosen)
           made    == [draft EXCEPT !.expires_at = earliest(draft)]
<1>3. DOMAIN entries = 1 .. n /\ \A i \in 1 .. n : entries[i].tct = chosen[i]
  BY <1>2 DEF Entry
<1>4. \A i \in 1 .. n : entries[i].tct.exp \in Nat
  <2> HIDE DEF entries
  <2>1. QED
    BY <1>2, <1>3 DEF IInv
<1>5. /\ Typed(draft) /\ DOMAIN draft = BundleParts /\ draft.coordinator = c
  <2>1. draft = Bundle(c, KeyOf[c], entries, 0)
    OBVIOUS
  <2> HIDE DEF draft, entries
  <2>2. QED
    BY <1>2, <1>3, <1>4, <2>1, NewBundle
<1>6. /\ DOMAIN made = BundleParts /\ made.coordinator = c
      /\ made.participants = draft.participants
  <2> HIDE DEF draft
  <2>1. QED
    BY <1>5 DEF BundleParts
<1>7. Typed(made)
  <2> HIDE DEF draft, made
  <2>1. QED
    BY <1>5, <1>6, SameNumbers
<1>8. c # Absent
  BY WorldAssumption, AidAssumption
<1>9. Sound(made, c)
  <2> HIDE DEF made
  <2>1. QED
    BY <1>6, <1>7, <1>8 DEF Sound
<1>10. bundle' = made /\ by' = c /\ UNCHANGED <<now, tcts>>
  BY <1>1 DEF PutOut
<1>11. QED
  <2> HIDE DEF made
  <2>1. QED
    BY <1>9, <1>10 DEF IInv

LEMMA ComposeInv ==
  ASSUME IInv, NEW e \in Insiders, Compose(e)
  PROVE  IInv'
<1> DEFINE S == {Entry(t.aud, t) : t \in tcts \cup OwnTcts(e)} \cup {Entry(e, t) : t \in tcts}
<1>1. PICK entries \in Sequences(S), coordinator \in Coordinators \cup {e}, end \in Exps :
        PutOut(Absent, Bundle(coordinator, KeyOf[e], entries, end))
  BY DEF Compose
<1>2. PICK n \in 1 .. MaxParticipants : entries \in [1 .. n -> S]
  BY DEF Sequences
<1>3. ASSUME NEW t \in OwnTcts(e)
      PROVE  t.exp \in Nat
  <2>1. PICK aud \in Aid \ {e}, exp \in Exps, ver \in Versions :
          t = [TctOf(e, aud, exp) EXCEPT !.ver = ver]
    BY DEF OwnTcts
  <2>2. t.exp = exp
    BY <2>1 DEF TctOf
  <2>3. QED
    BY <2>2, WorldAssumption
<1>4. DOMAIN entries = 1 .. n /\ \A i \in 1 .. n : entries[i].tct.exp \in Nat
  <2>1. \A p \in S : p.tct \in tcts \cup OwnTcts(e)
    BY DEF Entry
  <2> HIDE DEF S
  <2>2. QED
    BY <1>2, <1>3, <2>1 DEF IInv
<1> DEFINE made == Bundle(coordinator, KeyOf[e], entries, end)
<1>5. Typed(made) /\ DOMAIN made = BundleParts /\ made.signer = KeyOf[e]
  <2> HIDE DEF S
  <2>1. QED
    BY <1>2, <1>4, NewBundle
<1>6. bundle' = made /\ by' = Absent /\ UNCHANGED <<now, tcts>>
  BY <1>1 DEF PutOut
<1>7. Sound(made, Absent)
  <2> HIDE DEF made
  <2>1. QED
    BY <1>5, KeysApart DEF Sound
<1>8. QED
  <2> HIDE DEF made
  <2>1. QED
    BY <1>6, <1>7 DEF IInv

LEMMA RelayInv ==
  ASSUME IInv, Relay
  PROVE  IInv'
<1>1. Sound(bundle, by)
  BY DEF Relay, IInv
<1>2. PICK wrapper \in WrapperForms, body \in BodyForms :
        LET changed == [bundle EXCEPT !.wrapper = wrapper, !.body = body]
        IN  \/ PutOut(by, changed)
            \/ PutOut(Absent, [changed EXCEPT !.signer = NoKey])
  BY DEF Relay
<1> DEFINE changed  == [bundle EXCEPT !.wrapper = wrapper, !.body = body]
           unsigned == [changed EXCEPT !.signer = NoKey]
<1>3. /\ DOMAIN changed = BundleParts /\ changed.participants = bundle.participants
      /\ changed.signer = bundle.signer /\ changed.coordinator = bundle.coordinator
  BY <1>1 DEF Sound, BundleParts
<1>4. /\ DOMAIN unsigned = BundleParts /\ unsigned.participants = bundle.participants
      /\ unsigned.signer = NoKey
  <2> HIDE DEF changed
  <2>1. QED
    BY <1>3 DEF BundleParts
<1> HIDE DEF changed, unsigned
<1>5. Typed(changed) /\ Typed(unsigned)
  BY <1>1, <1>3, <1>4, SameNumbers DEF Sound
<1>6. Sound(changed, by) /\ Sound(unsigned, Absent)
  BY <1>1, <1>3, <1>4, <1>5, KeysApart DEF Sound
<1>7. UNCHANGED <<now, tcts>> /\ Sound(bundle', by')
  BY <1>2, <1>6 DEF PutOut, changed, unsigned
<1>8. QED
  BY <1>7 DEF IInv

LEMMA RegroupInv ==
  ASSUME IInv, Regroup
  PROVE  IInv'
<1>1. Sound(bundle, by)
  BY DEF Regroup, IInv
<1>2. PICK i \in DOMAIN bundle.participants, j \in DOMAIN bundle.participants :
        PutOut(Absent, [bundle EXCEPT !.participants[i] = bundle.participants[j],
                                      !.signer = NoKey])
  BY DEF Regroup
<1> DEFINE was  == bundle.participants
           are  == [was EXCEPT ![i] = was[j]]
           made == [bundle EXCEPT !.participants = are, !.signer = NoKey]
<1>3. bundle' = made /\ by' = Absent /\ UNCHANGED <<now, tcts>>
  BY <1>2 DEF PutOut
<1>4. DOMAIN made = BundleParts /\ made.participants = are /\ made.signer = NoKey
  <2> HIDE DEF are
  <2>1. QED
    BY <1>1 DEF Sound, BundleParts
<1>5. DOMAIN are = DOMAIN was /\ \A k \in DOMAIN was : \E m \in DOMAIN was : are[k] = was[m]
  BY <1>2
<1>6. PICK n \in Nat : DOMAIN was = 1 .. n
  BY <1>1 DEF Sound, Typed
<1>7. exps(bundle) = {was[k].tct.exp : k \in DOMAIN was}
  BY DEF exps
<1>8. exps(made) = {are[k].tct.exp : k \in DOMAIN are}
  BY <1>4 DEF exps
<1> HIDE DEF are, made, was
<1>9. exps(made) \subseteq exps(bundle) /\ exps(made) # {}
  BY <1>1, <1>5, <1>7, <1>8 DEF Sound, Typed
<1>10. Typed(made)
  BY <1>1, <1>4, <1>5, <1>6, <1>9 DEF Sound, Typed
<1>11. Sound(made, Absent)
  BY <1>4, <1>10, KeysApart DEF Sound
<1>12. QED
  BY <1>3, <1>11 DEF IInv

LEMMA SpoilInv ==
  ASSUME IInv, Spoil
  PROVE  IInv'
<1>1. Sound(bundle, by)
  BY DEF Spoil, IInv
<1>2. PICK exception \in {"JcsError", "UnicodeEncodeError"} :
        PutOut(Absent, [bundle EXCEPT !.canonicalized = exception, !.signer = NoKey])
  BY DEF Spoil
<1> DEFINE made == [bundle EXCEPT !.canonicalized = exception, !.signer = NoKey]
<1>3. bundle' = made /\ by' = Absent /\ UNCHANGED <<now, tcts>>
  BY <1>2 DEF PutOut
<1>4. /\ DOMAIN made = BundleParts /\ made.participants = bundle.participants
      /\ made.signer = NoKey
  BY <1>1 DEF Sound, BundleParts
<1> HIDE DEF made
<1>5. Typed(made)
  BY <1>1, <1>4, SameNumbers DEF Sound
<1>6. Sound(made, Absent)
  BY <1>4, <1>5, KeysApart DEF Sound
<1>7. QED
  BY <1>3, <1>6 DEF IInv

\* What the properties rest on holds in every state.
THEOREM Invariance == Spec => []IInv
<1>1. Init => IInv
  BY DEF Init, IInv
<1>2. ASSUME IInv, [Next]_vars
      PROVE  IInv'
  <2>1. CASE Tick
    BY <1>2, <2>1 DEF Tick, IInv
  <2>2. CASE \E c \in Coordinators : Issue(c) \/ Publish(c)
    BY <1>2, <2>2, IssueInv, PublishInv
  <2>3. CASE \E e \in Insiders : Compose(e)
    BY <1>2, <2>3, ComposeInv
  <2>4. CASE Relay
    BY <1>2, <2>4, RelayInv
  <2>5. CASE Regroup
    BY <1>2, <2>5, RegroupInv
  <2>6. CASE Spoil
    BY <1>2, <2>6, SpoilInv
  <2>7. CASE UNCHANGED vars
    BY <1>2, <2>7 DEF IInv, vars
  <2>8. QED
    BY <1>2, <2>1, <2>2, <2>3, <2>4, <2>5, <2>6, <2>7 DEF Next
<1>3. QED
  BY <1>1, <1>2, PTL DEF Spec

-----------------------------------------------------------------------------
(***************************************************************************)
(* The other direction: what an honest coordinator publishes meets every   *)
(* check, whatever a relay does that keeps the signature.                  *)
(***************************************************************************)
Issued(t, c) == \E aud \in Aid \ {c}, exp \in Exps : t = TctOf(c, aud, exp)

Presentable(b) ==
  /\ check_body(b) = OK
  /\ b.version = PROTOCOL_VERSION /\ b.expires_at = earliest(b)
  /\ b.coordinator \in Aid /\ b.signer = KeyOf[b.coordinator] /\ b.tagged
  /\ b.canonicalized = OK
  /\ \A i \in DOMAIN b.participants :
       \E t : Issued(t, b.coordinator) /\ b.participants[i] = Entry(t.aud, t)

HonestInv ==
  /\ \A t \in tcts : t.iss \in Aid /\ Issued(t, t.iss)
  /\ by # Absent => Presentable(bundle)

\* What is written with the types of a schema has its shape.
LEMMA WrittenChecked ==
  ASSUME NEW required, NEW declared, required \subseteq DOMAIN declared,
         \A m \in required : declared[m] # {}
  PROVE  check_object(Written(required, declared), required, declared, DOMAIN declared) = OK
<1> DEFINE form == Written(required, declared)
<1>1. form.object /\ DOMAIN form.types = required
      /\ \A m \in required : form.types[m] \in declared[m]
  BY DEF Written, Object
<1> HIDE DEF form
<1>2. /\ Check(form.object, invalid) = OK
      /\ require_members(form, required, invalid) = OK
      /\ check_types(form, declared, invalid) = OK
      /\ reject_unknown_fields(form, DOMAIN declared, invalid) = OK
  BY <1>1 DEF Check, require_members, check_types, of_declared_type, reject_unknown_fields
<1>3. check_object(form, required, declared, DOMAIN declared) = OK
  BY <1>2, FourChecks DEF check_object
<1>4. QED
  BY <1>3 DEF form

\* A body that is written like another has its shape too.
LEMMA SameBytesChecked ==
  ASSUME NEW form, NEW other, same_bytes(form, other),
         check_object(form, RequiredBodyFields, BodyTypes, BodyFields) = OK
  PROVE  check_object(other, RequiredBodyFields, BodyTypes, BodyFields) = OK
<1>1. /\ Check(form.object, invalid) = OK
      /\ require_members(form, RequiredBodyFields, invalid) = OK
      /\ check_types(form, BodyTypes, invalid) = OK
      /\ reject_unknown_fields(form, BodyFields, invalid) = OK
  BY FourChecks DEF check_object
<1>2. invalid # OK /\ "UNKNOWN_FIELD" # OK
  BY DEF invalid, OK
<1>3. /\ RequiredBodyFields \subseteq DOMAIN form.types
      /\ \A m \in BodyFields \cap DOMAIN form.types : of_declared_type(form.types[m], BodyTypes[m])
      /\ DOMAIN form.types \subseteq BodyFields
  BY <1>1, <1>2 DEF Check, require_members, check_types, reject_unknown_fields, BodyFields
<1>4. /\ form.object /\ other.object /\ DOMAIN other.types = DOMAIN form.types
      /\ \A m \in DOMAIN form.types :
           form.types[m] = other.types[m] \/ {form.types[m], other.types[m]} = {"int", "integral_float"}
  BY DEF same_bytes
<1>5. \A m \in BodyFields : "integral_float" \notin BodyTypes[m]
  BY DEF BodyFields, BodyTypes
<1>6. \A m \in BodyFields \cap DOMAIN other.types : of_declared_type(other.types[m], BodyTypes[m])
  <2> SUFFICES ASSUME NEW m \in BodyFields \cap DOMAIN other.types
               PROVE  of_declared_type(other.types[m], BodyTypes[m])
    OBVIOUS
  <2>1. of_declared_type(form.types[m], BodyTypes[m]) /\ "integral_float" \notin BodyTypes[m]
    BY <1>3, <1>4, <1>5
  <2>2. CASE form.types[m] = other.types[m]
    BY <2>1, <2>2
  <2>3. CASE {form.types[m], other.types[m]} = {"int", "integral_float"}
    <3>1. /\ form.types[m] \in {"int", "integral_float"}
          /\ other.types[m] \in {"int", "integral_float"}
      BY <2>3
    <3>2. "int" \in BodyTypes[m]
      BY <2>1, <3>1 DEF of_declared_type
    <3>3. QED
      BY <3>1, <3>2 DEF of_declared_type
  <2>4. QED
    BY <1>4, <2>2, <2>3
<1>7. /\ Check(other.object, invalid) = OK
      /\ require_members(other, RequiredBodyFields, invalid) = OK
      /\ check_types(other, BodyTypes, invalid) = OK
      /\ reject_unknown_fields(other, BodyFields, invalid) = OK
  BY <1>3, <1>4, <1>6
  DEF Check, require_members, check_types, reject_unknown_fields, BodyFields
<1>8. QED
  BY <1>7, FourChecks DEF check_object

\* The token a coordinator issues to a participant, as the bundle's checks see it.
LEMMA EntryChecked ==
  ASSUME NEW c \in Aid, NEW t, Issued(t, c)
  PROVE  LET p == Entry(t.aud, t)
         IN  /\ p.tct = t /\ p.aid = t.aud
             /\ check_object(p.form, ParticipantFields, ParticipantTypes, ParticipantFields) = OK
             /\ peek(p) = OK
             /\ \A man : ~ (t.exp > man.expires_at) => check_participant(p, c, man) = OK
<1>1. PICK aud \in Aid \ {c}, exp \in Exps : t = TctOf(c, aud, exp)
  BY DEF Issued
<1>2. /\ t.compact /\ t.members /\ t.typ = "aitp-tct+jwt" /\ t.alg = AlgOf[KeyOf[c]]
      /\ t.signer = KeyOf[c] /\ t.defects = {} /\ t.iss = c
  BY <1>1 DEF TctOf
<1> DEFINE p == Entry(t.aud, t)
<1>3. p.form = Written(ParticipantFields, ParticipantTypes) /\ p.tct = t /\ p.aid = t.aud
  BY DEF Entry
<1>4. check_object(p.form, ParticipantFields, ParticipantTypes, ParticipantFields) = OK
  <2>1. \A m \in ParticipantFields : ParticipantTypes[m] # {}
    BY DEF ParticipantFields, ParticipantTypes
  <2>2. QED
    BY <1>3, <2>1, WrittenChecked DEF ParticipantFields
<1>5. check_tct_claims_shape(t, tct_invalid) = OK
  BY <1>2, ThreeChecks DEF check_tct_claims_shape, Check
<1>6. parse_compact(t, tct_invalid) = OK /\ remapped(OK) = OK
  BY <1>2 DEF parse_compact, Check, remapped, OK
<1>7. peek(p) = OK
  BY <1>3, <1>5, <1>6, TwoChecks DEF peek
<1> DEFINE err == [alg |-> tct_invalid, typ |-> tct_invalid, sig |-> tct_invalid]
<1>8. verify_jws(t, t.iss, "aitp-tct+jwt", err, check_tct_claims_shape(t, tct_invalid)) = OK
  <2>1. PinnedAlg(t.iss, t.alg) /\ SignedBy(t, t.iss)
    BY <1>2 DEF PinnedAlg, SignedBy
  <2>2. QED
    BY <1>2, <1>5, <2>1, SevenChecks DEF verify_jws, parse_compact, Check
<1>9. ASSUME NEW man, ~ (t.exp > man.expires_at)
      PROVE  check_participant(p, c, man) = OK
  <2>1. ~ outlives_manifest(t, man.expires_at)
    BY <1>9 DEF outlives_manifest
  <2>2. QED
    BY <1>2, <1>3, <1>6, <1>8, <2>1, FiveChecks DEF check_participant, Check
<1>10. QED
  BY <1>3, <1>4, <1>7, <1>9

\* With a Manifest that covers the tokens every participant accepts.
LEMMA PresentableAccepted ==
  ASSUME NEW b, Typed(b), Presentable(b), b.coordinator \in Coordinators, b.wrapper = Wrapped,
         NEW held \in Holdings, designating(b.coordinator, held) # {},
         \A exp \in exps(b) : exp <= designated(b.coordinator, held).expires_at,
         NEW time \in Nat, time < b.expires_at, NEW r \in aids(b)
  PROVE  verify_session_bundle(b, r, held, time) = OK
<1> DEFINE man == designated(b.coordinator, held)
           c == b.coordinator
<1>1. PICK n \in Nat : DOMAIN b.participants = 1 .. n
  BY DEF Typed
<1>2. b.participants # <<>>
  BY DEF Typed, exps
<1>3. ASSUME NEW i \in 1 .. n
      PROVE  /\ check_object(b.participants[i].form, ParticipantFields, ParticipantTypes,
                             ParticipantFields) = OK
             /\ peek(b.participants[i]) = OK
             /\ check_participant(b.participants[i], c, man) = OK
  <2>1. PICK t : Issued(t, c) /\ b.participants[i] = Entry(t.aud, t)
    BY <1>1 DEF Presentable
  <2>2. b.participants[i].tct = t
    BY <2>1 DEF Entry
  <2>3. t.exp \in exps(b)
    BY <1>1, <2>2 DEF exps
  <2>4. t.exp \in Nat /\ man.expires_at \in Nat /\ t.exp <= man.expires_at
    BY <2>3, DesignatedIsHeld, WorldAssumption DEF Typed
  <2>5. ~ (t.exp > man.expires_at) /\ c \in Aid
    BY <2>4 DEF Presentable
  <2> HIDE DEF man, c
  <2>6. QED
    BY <2>1, <2>5, EntryChecked
<1> HIDE DEF man, c
<1>4. check_wrapper(b) = OK
  BY ThreeChecks DEF check_wrapper, Check, Wrapped, Object
<1>5. check_entries(b) = OK
  <2> DEFINE own == [i \in DOMAIN b.participants |->
                       check_object(b.participants[i].form, ParticipantFields, ParticipantTypes,
                                    ParticipantFields)]
  <2>1. DOMAIN own = 1 .. n /\ \A i \in 1 .. n : own[i] = OK
    BY <1>1, <1>3
  <2>2. check_entries(b) = FirstError(own)
    BY DEF check_entries
  <2> HIDE DEF own
  <2>3. QED
    BY <2>1, <2>2, FirstErrorOK
<1>6. peek_all(b) = OK
  <2> DEFINE own == [i \in DOMAIN b.participants |-> peek(b.participants[i])]
  <2>1. DOMAIN own = 1 .. n /\ \A i \in 1 .. n : own[i] = OK
    BY <1>1, <1>3
  <2>2. peek_all(b) = FirstError(own)
    BY DEF peek_all
  <2> HIDE DEF own
  <2>3. QED
    BY <2>1, <2>2, FirstErrorOK
<1>7. check_participants(b, held) = OK
  <2> DEFINE own == [i \in DOMAIN b.participants |-> check_participant(b.participants[i], c, man)]
  <2>1. DOMAIN own = 1 .. n /\ \A i \in 1 .. n : own[i] = OK
    BY <1>1, <1>3
  <2>2. check_participants(b, held) = FirstError(own)
    BY DEF check_participants, man, c
  <2> HIDE DEF own
  <2>3. QED
    BY <2>1, <2>2, FirstErrorOK
<1>8. resolve_manifest(b.coordinator, held, time) = OK
  <2>1. /\ man.expires_at \in Nat
        /\ verify_manifest(man, {PROTOCOL_VERSION}, man.expires_at - 1) = OK
    <3>1. /\ DOMAIN held \subseteq Nat /\ \A i \in DOMAIN held : held[i].expires_at \in Nat
          /\ verify_manifest(man, {PROTOCOL_VERSION}, man.expires_at - 1) = OK
      BY WorldAssumption, Zenon DEF man
    <3>2. QED
      BY <3>1, DesignatedIsHeld DEF man
  <2>2. earliest(b) \in exps(b) /\ earliest(b) \in Nat
    BY EarliestIsLeast DEF Typed
  <2>3. time < man.expires_at
    BY <2>1, <2>2 DEF Presentable, man
  <2>4. verify_manifest(man, {PROTOCOL_VERSION}, time) = OK
    BY <2>1, <2>3, ManifestStays
  <2>5. QED
    BY <2>4 DEF resolve_manifest, Check, Presentable, man
<1>9. check_signature(b) = OK
  <2>1. canonical_bytes(b.canonicalized, invalid) = OK
    BY DEF canonical_bytes, Presentable, OK
  <2>2. QED
    BY <2>1, ThreeChecks DEF check_signature, Check, SignedBy, Presentable
<1>10. \A i \in 1 .. 13 : Checks(b, r, held, time)[i] = OK
  BY <1>2, <1>4, <1>5, <1>6, <1>7, <1>8, <1>9 DEF Checks, Check, check_expiry, Presentable
<1>11. QED
  BY <1>10, AllPass

-----------------------------------------------------------------------------
LEMMA HonestInit == Init => HonestInv
BY DEF Init, HonestInv

LEMMA HonestPublish ==
  ASSUME IInv, HonestInv, NEW c \in Coordinators, Publish(c)
  PROVE  HonestInv'
<1> DEFINE good == {t \in tcts : t.iss = c /\ now < t.exp}
           Entries(chosen) == [i \in DOMAIN chosen |-> Entry(chosen[i].aud, chosen[i])]
           Draft(chosen)   == Bundle(c, KeyOf[c], Entries(chosen), 0)
<1>1. PICK chosen \in Sequences(good) :
        PutOut(c, [Draft(chosen) EXCEPT !.expires_at = earliest(Draft(chosen))])
  BY DEF Publish
<1>2. PICK n \in 1 .. MaxParticipants : chosen \in [1 .. n -> good]
  BY DEF Sequences
<1> DEFINE entries == Entries(chosen)
           draft   == Draft(chosen)
           made    == [draft EXCEPT !.expires_at = earliest(draft)]
<1>3. DOMAIN entries = 1 .. n
      /\ \A i \in 1 .. n : entries[i] = Entry(chosen[i].aud, chosen[i]) /\ chosen[i] \in good
  BY <1>2
<1>4. /\ made.body = WrittenBody /\ made.version = PROTOCOL_VERSION
      /\ made.expires_at = earliest(draft) /\ made.coordinator = c /\ made.signer = KeyOf[c]
      /\ made.tagged /\ made.canonicalized = OK
      /\ made.participants = entries /\ draft.participants = entries
  <2>1. draft = Bundle(c, KeyOf[c], entries, 0)
    OBVIOUS
  <2> HIDE DEF draft, entries
  <2>2. /\ draft.body = WrittenBody /\ draft.version = PROTOCOL_VERSION
        /\ draft.coordinator = c /\ draft.signer = KeyOf[c] /\ draft.tagged
        /\ draft.canonicalized = OK
        /\ draft.participants = entries /\ DOMAIN draft = BundleParts
    BY <2>1 DEF Bundle, BundleParts
  <2>3. QED
    BY <2>2 DEF BundleParts
<1>5. bundle' = made /\ by' = c /\ UNCHANGED <<now, tcts>>
  BY <1>1 DEF PutOut
<1> HIDE DEF made, draft
<1>6. earliest(made) = earliest(draft)
  BY <1>4 DEF earliest, exps
<1>7. check_body(made) = OK
  <2>1. \A m \in RequiredBodyFields : BodyTypes[m] # {}
    BY DEF RequiredBodyFields, BodyFields, BodyTypes
  <2>2. RequiredBodyFields \subseteq DOMAIN BodyTypes
    BY DEF RequiredBodyFields, BodyFields
  <2>3. QED
    BY <1>4, <2>1, <2>2, WrittenChecked DEF check_body, WrittenBody, BodyFields
<1>8. \A i \in DOMAIN made.participants :
        \E t : Issued(t, c) /\ made.participants[i] = Entry(t.aud, t)
  <2> HIDE DEF entries
  <2>1. \A t \in good : Issued(t, c)
    BY DEF HonestInv
  <2> HIDE DEF good
  <2>2. QED
    BY <1>3, <1>4, <2>1
<1>9. Presentable(made)
  BY <1>4, <1>6, <1>7, <1>8, WorldAssumption DEF Presentable
<1>10. QED
  BY <1>5, <1>9 DEF HonestInv

LEMMA HonestRelay ==
  ASSUME IInv, HonestInv, Relay
  PROVE  HonestInv'
<1>1. Sound(bundle, by) /\ Presentable(bundle)
  BY DEF Relay, IInv, HonestInv
<1>2. PICK wrapper \in WrapperForms, body \in BodyForms :
        LET changed == [bundle EXCEPT !.wrapper = wrapper, !.body = body]
        IN  IF same_bytes(bundle.body, body)
            THEN PutOut(by, changed)
            ELSE PutOut(Absent, [changed EXCEPT !.signer = NoKey])
  BY DEF Relay
<1> DEFINE changed == [bundle EXCEPT !.wrapper = wrapper, !.body = body]
<1>3. CASE same_bytes(bundle.body, body)
  <2>1. bundle' = changed /\ by' = by /\ UNCHANGED <<now, tcts>>
    BY <1>2, <1>3 DEF PutOut
  <2>2. /\ changed.body = body /\ changed.participants = bundle.participants
        /\ changed.version = bundle.version /\ changed.expires_at = bundle.expires_at
        /\ changed.coordinator = bundle.coordinator /\ changed.signer = bundle.signer
        /\ changed.tagged = bundle.tagged /\ changed.canonicalized = bundle.canonicalized
    BY <1>1 DEF Sound, BundleParts
  <2> HIDE DEF changed
  <2>3. check_body(changed) = OK
    BY <1>1, <1>3, <2>2, SameBytesChecked DEF Presentable, check_body
  <2>4. earliest(changed) = earliest(bundle)
    BY <2>2 DEF earliest, exps
  <2>5. Presentable(changed)
    BY <1>1, <2>2, <2>3, <2>4 DEF Presentable
  <2>6. QED
    BY <2>1, <2>5 DEF HonestInv
<1>4. CASE ~ same_bytes(bundle.body, body)
  <2>1. by' = Absent /\ UNCHANGED <<now, tcts>>
    BY <1>2, <1>4 DEF PutOut
  <2>2. QED
    BY <2>1 DEF HonestInv
<1>5. QED
  BY <1>3, <1>4

LEMMA HonestStep == IInv /\ HonestInv /\ [Next]_vars => HonestInv'
<1> SUFFICES ASSUME IInv, HonestInv, [Next]_vars
             PROVE  HonestInv'
  OBVIOUS
<1>1. ASSUME NEW c \in Coordinators, Issue(c)
      PROVE  HonestInv'
  <2>1. PICK aud \in Aid \ {c}, exp \in Exps :
          tcts' = tcts \cup {TctOf(c, aud, exp)} /\ UNCHANGED <<now, bundle, by>>
    BY <1>1 DEF Issue
  <2>2. TctOf(c, aud, exp).iss = c /\ c \in Aid /\ Issued(TctOf(c, aud, exp), c)
    BY WorldAssumption DEF TctOf, Issued
  <2>3. \A t \in tcts' : t.iss \in Aid /\ Issued(t, t.iss)
    BY <2>1, <2>2 DEF HonestInv
  <2>4. QED
    BY <2>1, <2>3 DEF HonestInv
<1>2. ASSUME NEW c \in Coordinators, Publish(c)
      PROVE  HonestInv'
  BY <1>2, HonestPublish
<1>3. ASSUME NEW e \in Insiders, Compose(e)
      PROVE  HonestInv'
  BY <1>3 DEF Compose, PutOut, HonestInv
<1>4. CASE Relay
  BY <1>4, HonestRelay
<1>5. CASE Regroup \/ Spoil
  BY <1>5 DEF Regroup, Spoil, PutOut, HonestInv
<1>6. CASE Tick \/ UNCHANGED vars
  BY <1>6 DEF Tick, vars, HonestInv
<1>7. QED
  BY <1>1, <1>2, <1>3, <1>4, <1>5, <1>6 DEF Next

-----------------------------------------------------------------------------
\* A bundle that is accepted is one that is there.
LEMMA AcceptedBundle ==
  ASSUME IInv, NEW held \in Holdings, Accepted(held)
  PROVE  /\ Sound(bundle, by)
         /\ \E r \in Members : verify_session_bundle(bundle, r, held, now) = OK
<1>1. bundle # Absent
  BY DEF Accepted, Members
<1>2. QED
  BY <1>1 DEF IInv, Accepted, Verdict

(***************************************************************************)
(* While a bundle is accepted every TCT in it is valid and within the      *)
(* Manifest of the coordinator, for any number of participants and any     *)
(* Manifests (the minimum, the cap and the order of the checks).           *)
(***************************************************************************)
THEOREM NoMemberIsStale == Spec => []NoStaleMember
<1>1. IInv => NoStaleMember
  <2> SUFFICES ASSUME IInv, NEW held \in Holdings, Accepted(held)
               PROVE  \A exp \in exps(bundle) :
                        /\ now < exp /\ bundle.expires_at <= exp
                        /\ exp <= designated(bundle.coordinator, held).expires_at
    BY DEF NoStaleMember
  <2>1. PICK r \in Members : verify_session_bundle(bundle, r, held, now) = OK
    BY AcceptedBundle
  <2>2. Typed(bundle) /\ now \in Nat
    BY AcceptedBundle DEF Sound, IInv
  <2>3. QED
    BY <2>1, <2>2, AcceptedIsSound
<1>2. QED
  BY Invariance, <1>1, PTL

(***************************************************************************)
(* Nobody speaks for an honest coordinator: its name over a bundle that is *)
(* accepted means that it published that body.                             *)
(***************************************************************************)
THEOREM OnlyCoordinatorSpeaks == Spec => []CoordinatorSpeaks
<1>1. IInv => CoordinatorSpeaks
  <2> SUFFICES ASSUME IInv, NEW held \in Holdings, Accepted(held),
                      bundle.coordinator \in Coordinators
               PROVE  by = bundle.coordinator
    BY DEF CoordinatorSpeaks
  <2>1. PICK r \in Members : verify_session_bundle(bundle, r, held, now) = OK
    BY AcceptedBundle
  <2>2. bundle.signer \in CoordinatorKeys
    BY <2>1, BundleAccepted DEF SignedBy, CoordinatorKeys
  <2>3. QED
    BY <2>2, AcceptedBundle DEF Sound
<1>2. QED
  BY Invariance, <1>1, PTL

(***************************************************************************)
(* A TCT counts in the sessions of its issuer, for its audience, alone.    *)
(***************************************************************************)
THEOREM TokensAreAtHome == Spec => []TokensStayHome
<1>1. IInv => TokensStayHome
  <2> SUFFICES ASSUME IInv, NEW held \in Holdings, Accepted(held),
                      NEW i \in DOMAIN bundle.participants
               PROVE  LET entry == bundle.participants[i]
                      IN  bundle.coordinator = entry.tct.iss /\ entry.aid = entry.tct.aud
    BY DEF TokensStayHome
  <2>1. PICK r \in Members : verify_session_bundle(bundle, r, held, now) = OK
    BY AcceptedBundle
  <2>2. Typed(bundle) /\ now \in Nat
    BY AcceptedBundle DEF Sound, IInv
  <2>3. QED
    BY <2>1, <2>2, AcceptedIsSound
<1>2. QED
  BY Invariance, <1>1, PTL

(***************************************************************************)
(* An accepted bundle ends with BUNDLE_EXPIRED, never with a code that     *)
(* asks the caller to try again, whatever Manifests the verifier holds.    *)
(***************************************************************************)
THEOREM BundlesEndExpired == Spec => EndsExpired
<1> DEFINE Ends == UNCHANGED <<bundle, by>> =>
                     \A held \in Holdings, r \in Members :
                       Verdict(r, held) = OK => Verdict(r, held)' \in {OK, "BUNDLE_EXPIRED"}
<1>1. ASSUME IInv, IInv', [Next]_vars
      PROVE  [Ends]_vars
  <2> SUFFICES ASSUME UNCHANGED <<bundle, by>>, NEW held \in Holdings, NEW r \in Members,
                      Verdict(r, held) = OK
               PROVE  Verdict(r, held)' \in {OK, "BUNDLE_EXPIRED"}
    OBVIOUS
  <2>1. Typed(bundle) /\ now \in Nat /\ now' \in Nat
    BY <1>1 DEF IInv, Sound, Members
  <2>2. verify_session_bundle(bundle, r, held, now) = OK
    BY DEF Verdict
  <2>3. verify_session_bundle(bundle, r, held, now') \in {OK, "BUNDLE_EXPIRED"}
    BY <2>1, <2>2, AcceptedEnds
  <2>4. Verdict(r, held)' = verify_session_bundle(bundle, r, held, now')
    BY DEF Verdict
  <2>5. QED
    BY <2>3, <2>4
<1>2. QED
  BY Invariance, <1>1, PTL DEF EndsExpired, Spec

(***************************************************************************)
(* No check refuses an honest bundle: every participant accepts what a     *)
(* coordinator published until it ends, however many TCTs there are in it  *)
(* and whatever relays made of it that its signature does not cover        *)
(* (check_wrapper, the shape gates, the cap and the minimum of             *)
(* verify_session_bundle; a number rewritten as 5.0 is an integer still).  *)
(***************************************************************************)
THEOREM HonestBundleIsAccepted == Spec => []HonestBundleAccepted
<1>1. IInv /\ HonestInv => HonestBundleAccepted
  <2> SUFFICES ASSUME IInv, HonestInv, NEW held \in Holdings,
                      by \in Coordinators, bundle.wrapper = Wrapped,
                      now < bundle.expires_at, designating(by, held) # {},
                      \A exp \in exps(bundle) : exp <= designated(by, held).expires_at,
                      NEW r \in Members
               PROVE  Verdict(r, held) = OK
    BY DEF HonestBundleAccepted
  <2>1. by # Absent
    BY WorldAssumption, AidAssumption
  <2>2. Typed(bundle) /\ Presentable(bundle) /\ bundle.coordinator = by /\ now \in Nat
    BY <2>1 DEF IInv, HonestInv, Sound
  <2>3. r \in aids(bundle)
    BY DEF Members
  <2>4. QED
    BY <2>2, <2>3, PresentableAccepted DEF Verdict
<1>2. Spec => []HonestInv
  BY Invariance, HonestInit, HonestStep, PTL DEF Spec
<1>3. QED
  BY Invariance, <1>1, <1>2, PTL

=============================================================================
