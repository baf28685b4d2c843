---------------------------- MODULE SessionWorld ----------------------------
(***************************************************************************)
(* Coordinators that issue TCTs and publish bundles of them, insiders that *)
(* put bundles together out of whatever they have seen, and relays that    *)
(* change the copies they pass on.  Verification keeps nothing, so it is   *)
(* enough to follow one bundle, from whoever made it through any number of *)
(* relays; anybody can verify it at any time, with any Manifests it may    *)
(* hold, and the properties speak of every verifier and set of Manifests.  *)
(***************************************************************************)
EXTENDS SessionBundle, FiniteSets

CONSTANTS
  Coordinators,    \* honest agents that coordinate sessions
  Insiders,        \* agents that compose bundles
  Holdings,        \* the sequences of Manifests a verifier may hold
  Covered,         \* how long a coordinator lets its TCTs last
  Exps,            \* the times at which TCTs expire
  Versions,        \* what an insider writes as the version of a TCT
  WrapperForms,    \* the wrappers a relay puts around a bundle
  BodyForms,       \* what a relay makes of a body
  MaxTime,         \* bound: the clock stops here
  MaxTokens,       \* bound: TCTs of honest coordinators
  MaxParticipants  \* bound: participants of a bundle

VARIABLES
  now,    \* the clock
  tcts,   \* the TCTs honest coordinators have issued
  bundle, \* the bundle that is out, Absent before there is one
  by      \* the coordinator whose body it has, Absent when an insider made
          \* it or a relay changed it

vars == <<now, tcts, bundle, by>>

\* The first Manifest that is held in the name of a coordinator is its own.
ASSUME WorldAssumption ==
  /\ Coordinators \subseteq Aid
  /\ Insiders \subseteq Aid \ Coordinators
  /\ \A a, b \in Aid : KeyOf[a] = KeyOf[b] => a = b
  /\ Exps \subseteq Nat /\ MaxTime \in Nat
  /\ Covered \in [Coordinators -> Nat] /\ MaxParticipants \in Nat
  /\ \A held \in Holdings :
       /\ DOMAIN held \subseteq Nat /\ \A i \in DOMAIN held : held[i].expires_at \in Nat
       /\ \A c \in Coordinators :
            LET man == designated(c, held)
            IN  designating(c, held) # {} =>
                  verify_manifest(man, {PROTOCOL_VERSION}, man.expires_at - 1) = OK

-----------------------------------------------------------------------------
TctOf(iss, aud, exp) ==
  [ compact |-> TRUE, members |-> TRUE, typ |-> "aitp-tct+jwt", alg |-> AlgOf[KeyOf[iss]],
    signer |-> KeyOf[iss], defects |-> {}, ver |-> PROTOCOL_VERSION, iss |-> iss,
    sub |-> aud, aud |-> aud, jti |-> aud, exp |-> exp, grants |-> {"join"}, ext |-> {},
    jkt |-> KeyOf[aud] ]

\* The form of an object as its schema has it, without what is optional.
Written(required, declared) ==
  Object([m \in required |-> CHOOSE t \in declared[m] : TRUE])

Wrapped == Object([session_bundle |-> "dict"])
WrittenBody == Written(RequiredBodyFields, BodyTypes)

Entry(aid, tct) ==
  [form |-> Written(ParticipantFields, ParticipantTypes), aid |-> aid, tct |-> tct]

Bundle(coordinator, signer, participants, expiresAt) ==
  [ wrapper |-> Wrapped, body |-> WrittenBody, version |-> PROTOCOL_VERSION,
    coordinator |-> coordinator, expires_at |-> expiresAt, participants |-> participants,
    signer |-> signer, canonicalized |-> OK, tagged |-> TRUE ]

Init ==
  /\ now = 0
  /\ tcts = {}
  /\ bundle = Absent /\ by = Absent

Tick ==
  /\ now < MaxTime
  /\ now' = now + 1
  /\ UNCHANGED <<tcts, bundle, by>>

\* What is issued after the bundle was made cannot be in it.
Issue(c) ==
  /\ bundle = Absent
  /\ \E aud \in Aid \ {c}, exp \in Exps :
       /\ now < exp /\ exp <= Covered[c]
       /\ Cardinality(tcts) < MaxTokens
       /\ tcts' = tcts \cup {TctOf(c, aud, exp)}
       /\ UNCHANGED <<now, bundle, by>>

PutOut(maker, made) ==
  /\ bundle' = made /\ by' = maker
  /\ UNCHANGED <<now, tcts>>

Sequences(S) == UNION {[1 .. n -> S] : n \in 1 .. MaxParticipants}

\* One entry for each of some of its TCTs that are still valid.
Publish(c) ==
  /\ bundle = Absent
  /\ \E chosen \in Sequences({t \in tcts : t.iss = c /\ now < t.exp}) :
       LET participants == [i \in DOMAIN chosen |-> Entry(chosen[i].aud, chosen[i])]
           draft == Bundle(c, KeyOf[c], participants, 0)
       IN  /\ \A i, j \in DOMAIN chosen : chosen[i].aud = chosen[j].aud => i = j
           /\ PutOut(c, [draft EXCEPT !.expires_at = earliest(draft)])

\* An insider's own TCTs last as long as it likes and say what it likes.
OwnTcts(e) ==
  {[TctOf(e, aud, exp) EXCEPT !.ver = ver] : aud \in Aid \ {e}, exp \in Exps, ver \in Versions}

\* Any name as the coordinator, any TCT for any entry, any expiry.
Compose(e) ==
  /\ bundle = Absent
  /\ \E entries \in Sequences({Entry(t.aud, t) : t \in tcts \cup OwnTcts(e)}
                                \cup {Entry(e, t) : t \in tcts}),
        coordinator \in Coordinators \cup {e}, expiresAt \in Exps :
       PutOut(Absent, Bundle(coordinator, KeyOf[e], entries, expiresAt))

\* JCS writes 5.0 as it writes 5, so that change leaves the signature valid.
same_bytes(form, other) ==
  /\ form.object /\ other.object
  /\ DOMAIN form.types = DOMAIN other.types
  /\ \A m \in DOMAIN form.types :
       form.types[m] = other.types[m] \/ {form.types[m], other.types[m]} = {"int", "integral_float"}

\* Only what a coordinator signed: an insider could as well have made its
\* bundle differently, and what has been changed is refused already.
Relay ==
  /\ by # Absent
  /\ \E wrapper \in WrapperForms, body \in BodyForms :
       LET changed == [bundle EXCEPT !.wrapper = wrapper, !.body = body]
       IN  IF same_bytes(bundle.body, body)
           THEN PutOut(by, changed)
           ELSE PutOut(Absent, [changed EXCEPT !.signer = NoKey])

\* A relay may also put one participant in the place of another.
Regroup ==
  /\ by # Absent
  /\ \E i, j \in DOMAIN bundle.participants :
       /\ i # j
       /\ PutOut(Absent, [bundle EXCEPT !.participants[i] = bundle.participants[j],
                                        !.signer = NoKey])

\* Or a value that JSON carries and jcs cannot write: an issued_at that is too
\* large, half of a surrogate pair in the session_id or anywhere in extensions.
Spoil ==
  /\ by # Absent
  /\ \E exception \in {"JcsError", "UnicodeEncodeError"} :
       PutOut(Absent, [bundle EXCEPT !.canonicalized = exception, !.signer = NoKey])

Next ==
  \/ Tick
  \/ \E c \in Coordinators : Issue(c) \/ Publish(c)
  \/ \E e \in Insiders : Compose(e)
  \/ Relay
  \/ Regroup
  \/ Spoil

Spec == Init /\ [][Next]_vars

-----------------------------------------------------------------------------
Verdict(r, held) == verify_session_bundle(bundle, r, held, now)

\* Only a participant can accept, and only what is there.
Members == IF bundle = Absent THEN {} ELSE aids(bundle)
Accepted(held) == \E r \in Members : Verdict(r, held) = OK

(***************************************************************************)
(* As long as a bundle is accepted no participant's TCT has expired, none  *)
(* outlives the Manifest of its coordinator, and the bundle itself is not  *)
(* past its end: expires_at is the minimum of the TCT expiries, and it is  *)
(* the only one of these times that is compared with the clock.            *)
(***************************************************************************)
NoStaleMember ==
  \A held \in Holdings :
    Accepted(held) =>
      \A exp \in exps(bundle) :
        /\ now < exp /\ bundle.expires_at <= exp
        /\ exp <= designated(bundle.coordinator, held).expires_at

(***************************************************************************)
(* A bundle that is accepted under the name of an honest coordinator has   *)
(* the very body that coordinator published: the insiders' compositions of *)
(* its TCTs and the copies a relay changed are refused (the coordinator's  *)
(* key comes from its Manifest and covers the body).                       *)
(***************************************************************************)
CoordinatorSpeaks ==
  \A held \in Holdings :
    Accepted(held) /\ bundle.coordinator \in Coordinators => by = bundle.coordinator

(***************************************************************************)
(* A TCT is good for the sessions of its issuer and for its own audience   *)
(* only: no accepted bundle lists it under another agent, or under another *)
(* coordinator, though a TCT that is in a bundle is there for all to take. *)
(***************************************************************************)
TokensStayHome ==
  \A held \in Holdings :
    Accepted(held) =>
      \A i \in DOMAIN bundle.participants :
        LET entry == bundle.participants[i]
        IN  entry.tct \in tcts =>
              bundle.coordinator = entry.tct.iss /\ entry.aid = entry.tct.aud

(***************************************************************************)
(* A bundle that was accepted and no longer is has ended: it answers       *)
(* BUNDLE_EXPIRED, which is final, and not KEY_RESOLUTION_FAILED, which    *)
(* callers retry, though the Manifest it rests on ends as well.  The cap   *)
(* on the TCTs, the minimum and the order of the checks together see to    *)
(* that.                                                                   *)
(***************************************************************************)
EndsExpired ==
  [][ UNCHANGED <<bundle, by>> =>
        \A held \in Holdings, r \in Members :
          Verdict(r, held) = OK => Verdict(r, held)' \in {OK, "BUNDLE_EXPIRED"} ]_vars

(***************************************************************************)
(* Every participant accepts what an honest coordinator published until it *)
(* ends, from whatever relay it comes, if the relay left the wrapper as it *)
(* was and the Manifest the participant holds covers the TCTs.             *)
(***************************************************************************)
HonestBundleAccepted ==
  \A held \in Holdings :
    /\ by \in Coordinators /\ bundle.wrapper = Wrapped
    /\ now < bundle.expires_at
    /\ designating(by, held) # {}
    /\ \A exp \in exps(bundle) : exp <= designated(by, held).expires_at
    => \A r \in Members : Verdict(r, held) = OK

=============================================================================
