--------------------------- MODULE HandshakeWorld ---------------------------
(***************************************************************************)
(* Agents that shake hands over a network that delays, repeats, misdelivers*)
(* and corrupts messages.  Honest agents follow the protocol, in any number*)
(* of handshakes at a time; the others sign what they like under their own *)
(* key and reuse in it whatever parts of messages they have seen.          *)
(*                                                                         *)
(* The library keeps no state between the messages of a handshake.  The    *)
(* caller does, and here its memory is what the agent itself has sent.     *)
(* Anybody can receive any message that was ever sent, at any time, so the *)
(* properties speak of every message and every receiver.                   *)
(***************************************************************************)
EXTENDS Handshake, FiniteSets

CONSTANTS
  Honest,        \* the agents that follow the protocol
  TypeOf,        \* the identity type of each agent
  Subject,       \* what the identity provider calls each agent
  Idp, IdpKeys,  \* the provider, and the candidates its keys resolve to
  IdpKey,        \* which of them it signs with: [key, kid, alg]
  FloatClocks,   \* the agents that write integral timestamps as floats
  Lifetime,      \* for how long a JWT and a TCT are valid
  Grants,        \* what agents offer and grant each other
  Tolerance,     \* the window of verify_envelope
  Initiators,    \* bound: the honest agents that open handshakes
  MaxTime,       \* bound: the clock stops here; Manifests expire then
  MaxMessages,   \* bound: messages of honest agents
  MaxDeviant     \* bound: messages of other agents and corrupted ones

VARIABLES
  now,    \* the clock, in seconds
  sent    \* the messages ever sent: [by, to, env, answers], where by is
          \* Absent when it is a corrupted copy, to when it is for anybody,
          \* and answers is the message that this one was sent upon

vars == <<now, sent>>

\* Keys and subjects have one owner each, the receivers can pick the key the
\* provider signs with, and what is given is not Absent.
ASSUME WorldAssumption ==
  /\ Initiators \subseteq Honest /\ Honest \subseteq Aid
  /\ TypeOf \in [Aid -> {"oidc", "pinned_key"}]
  /\ \A a, b \in Aid : KeyOf[a] = KeyOf[b] \/ Subject[a] = Subject[b] => a = b
  /\ IdpKey.key \notin Key
  /\ \A k \in DOMAIN IdpKeys : IdpKeys[k].key \notin Key
  /\ MaxTime \in Nat /\ Lifetime \in Nat /\ IatTolerance \in Nat
  /\ IdpKey.alg \in OidcAlgs
  /\ \E k \in DOMAIN IdpKeys : /\ IdpKeys[k] = IdpKey
                               /\ \A j \in DOMAIN IdpKeys \ {k} : IdpKeys[j].kid # IdpKey.kid
  /\ ATTESTATION_MARKER \notin Grants
  /\ Absent \notin Nonce \cup Key \cup Nat /\ Absent # Idp /\ Absent # IdpKey.kid
  /\ Absent # [NoPolicy EXCEPT !.mode = "fail_open"]

-----------------------------------------------------------------------------
(* What agents send.                                                       *)

ManifestOf(a) ==
  [ version |-> PROTOCOL_VERSION, aid |-> a, expires_at |-> MaxTime, popSigner |-> KeyOf[a],
    signer |-> KeyOf[a], defects |-> {},
    hint |-> [ type |-> TypeOf[a],
               issuer |-> IF TypeOf[a] = "oidc" THEN Idp ELSE Absent,
               public_key |-> IF TypeOf[a] = "oidc" THEN Absent ELSE KeyOf[a] ] ]

\* The provider signs a JWT for the key of who asks for it.
Jwt(a, peer, nonce) ==
  [ compact |-> TRUE, forbidden |-> FALSE, alg |-> IdpKey.alg, kid |-> IdpKey.kid,
    signer |-> IdpKey.key, iss |-> Idp, sub |-> Subject[a], exp |-> now + Lifetime,
    iat |-> now, aud |-> peer, nonce |-> nonce, jkt |-> KeyOf[a] ]

PinnedProof(a, peer, nonce) ==
  [ signer |-> KeyOf[a],
    covers |-> [ sender |-> a, receiver |-> peer, message_id |-> nonce,
                 timestamp |-> now, nonce |-> nonce ] ]

IdentityOf(a, peer, nonce) ==
  [ object |-> TRUE, type |-> TypeOf[a], defects |-> {}, subject |-> Subject[a],
    issuer |-> IF TypeOf[a] = "oidc" THEN Idp ELSE Absent,
    public_key |-> IF TypeOf[a] = "oidc" THEN Absent ELSE KeyOf[a],
    proof |-> IF TypeOf[a] = "oidc" THEN Jwt(a, peer, nonce) ELSE PinnedProof(a, peer, nonce) ]

Blank(a, type) ==
  [ version |-> PROTOCOL_VERSION, message_type |-> type, message_id |-> Absent,
    timestamp |-> now, sender |-> a, signer |-> KeyOf[a],
    defects |-> IF a \in FloatClocks THEN {"float_timestamp"} ELSE {},
    manifest |-> Absent, identity |-> Absent, pop_nonce |-> Absent,
    pop_nonce_echo |-> Absent, tct |-> Absent, pop |-> Absent ]

Members ==
  { "version", "message_type", "message_id", "timestamp", "sender", "signer", "defects",
    "manifest", "identity", "pop_nonce", "pop_nonce_echo", "tct", "pop" }

Hello(a, type, peer, nonce, echo) ==
  [Blank(a, type) EXCEPT !.message_id = nonce, !.manifest = ManifestOf(a),
                         !.identity = IdentityOf(a, peer, nonce),
                         !.pop_nonce = nonce, !.pop_nonce_echo = echo]

TctFor(iss, sub) ==
  [ compact |-> TRUE, members |-> TRUE, typ |-> "aitp-tct+jwt", alg |-> AlgOf[KeyOf[iss]],
    signer |-> KeyOf[iss], defects |-> {}, ver |-> PROTOCOL_VERSION, iss |-> iss,
    sub |-> sub, aud |-> sub, jti |-> iss, exp |-> now + Lifetime, grants |-> Grants,
    ext |-> {}, jkt |-> KeyOf[sub] ]

Pop(a, nonce) == [signer |-> KeyOf[a], nonce |-> nonce]

CommitTo(a, type, peer, nonce) ==
  [Blank(a, type) EXCEPT !.tct = TctFor(a, peer), !.pop = Pop(a, nonce)]

-----------------------------------------------------------------------------
Receiver(a) ==
  [ selfAid |-> a, trustAnchors |-> {Idp}, issuerKeys |-> [i \in {Idp} |-> IdpKeys],
    trustStore |-> {KeyOf[b] : b \in {c \in Honest : TypeOf[c] = "pinned_key"}},
    acceptedTypes |-> {"oidc", "pinned_key"}, peerAid |-> Absent, sentNonce |-> Absent,
    selfNonce |-> Absent, offered |-> Absent ]

\* What the caller passes along in each step of a handshake.
Initiator(h) == [Receiver(h.by) EXCEPT !.peerAid = h.to, !.sentNonce = h.env.pop_nonce]
Committed(h) == [Receiver(h.by) EXCEPT !.selfNonce = h.env.pop_nonce, !.offered = Grants]

Accepts(receiver, env) == verify_handshake_payload(env, receiver, now) = OK

SentBy(agents, type) == {m \in sent : m.by \in agents /\ m.env.message_type = type}
Received(type) == {m \in sent : m.env.message_type = type}

Fresh == {n \in Nonce : \A m \in SentBy(Honest, "mutual_hello")
                                 \cup SentBy(Honest, "mutual_hello_ack") : m.env.pop_nonce # n}

Init ==
  /\ now = 0
  /\ sent = {}

Tick ==
  /\ now < MaxTime
  /\ now' = now + 1
  /\ UNCHANGED sent

Send(by, to, env, answers) ==
  /\ sent' = sent \cup {[by |-> by, to |-> to, env |-> env, answers |-> answers]}
  /\ UNCHANGED now

SendHonestly(by, to, env, answers) ==
  /\ Cardinality({m \in sent : m.by \in Honest}) < MaxMessages
  /\ Send(by, to, env, answers)

Initiate(a) ==
  \E peer \in Aid \ {a}, n \in Fresh :
    SendHonestly(a, peer, Hello(a, "mutual_hello", peer, n, Absent), Absent)

\* A hello that arrives again is answered again: the library does not tell.
Answer(b) ==
  \E m \in Received("mutual_hello"), n \in Fresh :
    /\ Accepts(Receiver(b), m.env)
    /\ SendHonestly(b, m.env.sender,
                    Hello(b, "mutual_hello_ack", m.env.sender, n, m.env.pop_nonce), m.env)

Confirm(a) ==
  \E h \in SentBy({a}, "mutual_hello"), m \in Received("mutual_hello_ack") :
    /\ Accepts(Initiator(h), m.env)
    /\ ~ \E c \in SentBy({a}, "mutual_commit") : c.answers = m.env
    /\ SendHonestly(a, h.to, CommitTo(a, "mutual_commit", h.to, m.env.pop_nonce), m.env)

\* The caller finds the handshake a commit belongs to by its sender.
Finish(b) ==
  \E k \in SentBy({b}, "mutual_hello_ack"), m \in Received("mutual_commit") :
    /\ m.env.sender = k.to
    /\ Accepts(Committed(k), m.env)
    /\ ~ \E c \in SentBy({b}, "mutual_commit_ack") : c.answers = m.env
    /\ SendHonestly(b, k.to, CommitTo(b, "mutual_commit_ack", k.to, k.env.pop_nonce_echo), m.env)

-----------------------------------------------------------------------------
Deviant == {m \in sent : m.by \notin Honest}

SendDeviantly(by, env) ==
  /\ Cardinality(Deviant) < MaxDeviant
  /\ Send(by, Absent, env, Absent)

\* A bit flips on the way.
Corrupt ==
  \E m \in sent :
    /\ m.by \in Honest
    /\ SendDeviantly(Absent, [m.env EXCEPT !.signer = NoKey])

\* A hello or an ack made of one that was sent, under the agent's own key: it
\* may name itself, show its own Manifest and identity, a JWT it wrote
\* itself, or what the other one showed.
SelfMade(d, a, peer, nonce) ==
  IF TypeOf[a] = "oidc"
  THEN {[IdentityOf(a, peer, nonce) EXCEPT
           !.proof = [Jwt(a, peer, nonce) EXCEPT !.signer = KeyOf[d], !.jkt = KeyOf[d]]]}
  ELSE {}

Echoes(type) == IF type = "mutual_hello" THEN {Absent} ELSE Nonce \ Fresh

Compose(d) ==
  \E m \in Received("mutual_hello") \cup Received("mutual_hello_ack"), peer \in Honest,
     type \in Bootstrap :
    \E sender \in {d, m.env.sender}, echo \in Echoes(type),
       identity \in {m.env.identity, IdentityOf(d, peer, m.env.pop_nonce)}
                      \cup SelfMade(d, m.env.sender, peer, m.env.pop_nonce) :
      SendDeviantly(d,
        [m.env EXCEPT !.message_type = type, !.sender = sender, !.signer = KeyOf[d],
                      !.manifest = ManifestOf(sender), !.identity = identity,
                      !.pop_nonce_echo = echo])

\* A commit made of a token and a proof that were sent, or of its own, in
\* anybody's name; or one in its own name with a token that is bound to the
\* wrong key or valid for no time.
Tokens(d) ==
  {m.env.tct : m \in {x \in sent : x.env.tct # Absent}} \cup {TctFor(d, a) : a \in Honest}

BadTokens(d) ==
  UNION {{[TctFor(d, a) EXCEPT !.jkt = KeyOf[d]], [TctFor(d, a) EXCEPT !.exp = now]} : a \in Honest}

Pops(d) ==
  {m.env.pop : m \in sent} \cup {Pop(d, n) : n \in Nonce \ Fresh} \cup {Absent}

CommitAs(d, sender, token, pop) ==
  SendDeviantly(d, [Blank(sender, "mutual_commit") EXCEPT !.signer = KeyOf[d], !.tct = token,
                                                          !.pop = pop])

ComposeCommit(d) ==
  \/ \E sender \in Aid, token \in Tokens(d), pop \in Pops(d) : CommitAs(d, sender, token, pop)
  \/ \E token \in BadTokens(d) : CommitAs(d, d, token, Absent)

Next ==
  \/ Tick
  \/ \E a \in Initiators : Initiate(a)
  \/ \E a \in Honest : Answer(a) \/ Confirm(a) \/ Finish(a)
  \/ Corrupt
  \/ \E d \in Aid \ Honest : Compose(d) \/ ComposeCommit(d)

Spec == Init /\ [][Next]_vars

-----------------------------------------------------------------------------
\* Nobody has a key of an honest agent, and no nonce is used twice.
TypeOK ==
  /\ now \in 0 .. MaxTime
  /\ \A m \in sent :
       /\ m.by \in Aid \cup {Absent} /\ m.to \in Aid \cup {Absent}
       /\ m.env.signer \in {KeyOf[a] : a \in Honest} => m.by \in Honest
       /\ m.by \in Honest => m.env.sender = m.by /\ m.env.signer = KeyOf[m.by]
       /\ DOMAIN m.env = Members
       /\ m.env.timestamp \in 0 .. now
  /\ \A m, x \in SentBy(Honest, "mutual_hello") \cup SentBy(Honest, "mutual_hello_ack") :
       m.env.pop_nonce = x.env.pop_nonce => m = x

(***************************************************************************)
(* A hello or an ack that is accepted under the name of an honest agent    *)
(* was sent by that agent to the one that accepts it: neither a message    *)
(* delivered to the wrong agent nor one put together from its parts is     *)
(* (_verify_bootstrap: the identity names the receiver, the envelope's     *)
(* signature covers the identity).                                         *)
(***************************************************************************)
MeantForMe ==
  \A m \in sent, r \in Honest :
    /\ m.env.message_type \in Bootstrap
    /\ m.env.sender \in Honest
    /\ Accepts(Receiver(r), m.env)
    => m.by = m.env.sender /\ m.to = r

(***************************************************************************)
(* Whoever the sender of an accepted message is, the subject it shows as   *)
(* its identity is its own (verify_identity: "an unverified identity proof *)
(* MUST NOT be accepted").                                                 *)
(***************************************************************************)
SubjectIsOwned ==
  \A m \in sent, r \in Honest :
    /\ m.env.message_type \in Bootstrap
    /\ m.env.identity.type = "oidc"
    /\ Accepts(Receiver(r), m.env)
    => m.env.identity.subject = Subject[m.env.sender]

(***************************************************************************)
(* An ack that an initiator accepts answers the hello of that handshake,   *)
(* and not one of another handshake of the same two agents, running at the *)
(* same time or before (peer_aid, the ACK nonce echo and the identity).    *)
(***************************************************************************)
AckAnswersHello ==
  \A h \in SentBy(Honest, "mutual_hello"), m \in Received("mutual_hello_ack") :
    h.to \in Honest /\ Accepts(Initiator(h), m.env)
    => m.by = h.to /\ m.to = h.by /\ m.answers = h.env

(***************************************************************************)
(* A commit with a proof of possession that is accepted in a handshake is  *)
(* recent: its sender, when honest, made that proof in a commit it sent no *)
(* earlier than the receiver sent its nonce (_verify_commit: "round-2 PoP  *)
(* over the verifier's own nonce").                                        *)
(***************************************************************************)
Round2IsFresh ==
  \A h \in SentBy(Honest, "mutual_hello") \cup SentBy(Honest, "mutual_hello_ack"),
     m \in Received("mutual_commit") \cup Received("mutual_commit_ack") :
    m.env.sender \in Honest /\ m.env.pop # Absent /\ Accepts(Committed(h), m.env)
    => \E c \in sent : /\ c.by = m.env.sender
                      /\ c.env.pop = m.env.pop
                      /\ c.env.timestamp >= h.env.timestamp

(***************************************************************************)
(* The token in a commit is accepted exactly when the operation verify_tct *)
(* accepts it for the same audience: handshake.py repeats its checks, less *)
(* the Manifest cap and revocation.                                        *)
(***************************************************************************)
CommitTctStands ==
  \A m \in Received("mutual_commit") \cup Received("mutual_commit_ack"), r \in Honest :
    Accepts(Receiver(r), m.env)
    <=> verify_tct(m.env.tct,
                   [ audience |-> r, manifestExpiresAt |-> Absent, snapshot |-> Absent,
                     policy |-> [NoPolicy EXCEPT !.mode = "fail_open"] ], now) = OK

(***************************************************************************)
(* Between honest agents every message is accepted while it is valid, in   *)
(* some handshake of the agent it was sent to, whatever else is going on.  *)
(* A JWT is valid until it expires and no longer than IatTolerance.        *)
(***************************************************************************)
Expecting(m) ==
  CASE m.env.message_type = "mutual_hello"     -> {Receiver(m.to)}
    [] m.env.message_type = "mutual_hello_ack" -> {Initiator(h) : h \in SentBy({m.to}, "mutual_hello")}
    [] OTHER -> {Committed(h) : h \in SentBy({m.to}, "mutual_hello")
                                       \cup SentBy({m.to}, "mutual_hello_ack")}

HonestHandshakeGoesThrough ==
  \A m \in sent :
    /\ m.by \in Honest /\ m.to \in Honest
    /\ now < m.env.timestamp + Lifetime /\ now < MaxTime
    /\ m.env.message_type \in Bootstrap /\ TypeOf[m.by] = "oidc"
         => now - m.env.timestamp <= IatTolerance
    => \E receiver \in Expecting(m) : Accepts(receiver, m.env)

(***************************************************************************)
(* handshake.py:20 says that for a commit the "envelope signature" is      *)
(* verified first.                                                         *)
(***************************************************************************)
CommitsAreSigned ==
  \A m \in Received("mutual_commit") \cup Received("mutual_commit_ack"), r \in Honest :
    Accepts(Receiver(r), m.env) => SignedBy(m.env, m.env.sender)

(***************************************************************************)
(* envelope.py:9 says that the timestamp window runs before the other      *)
(* checks, and fields.py:182 that an integral float is a valid integer.    *)
(***************************************************************************)
StaleEnvelopesAreRefused ==
  \A m \in sent :
    verify_envelope(m.env, Tolerance, now) = OK => within(Tolerance, m.env.timestamp, now)

=============================================================================
