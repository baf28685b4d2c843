--------------------------- MODULE HandshakeProofs ---------------------------
(***************************************************************************)
(* For every set of agents, keys, nonces and bounds: a message accepted    *)
(* under the name of an honest agent is what that agent sent, to the agent *)
(* that accepts it; an accepted subject is the sender's own; and an        *)
(* accepted ack answers the hello of its handshake; and what one honest    *)
(* agent sends another is accepted (HandshakeWorld).                       *)
(*                                                                         *)
(* The first part is about the code alone: what acceptance says of the     *)
(* message.  The second adds what is true of every message ever sent, and  *)
(* the last goes the other way, from what was sent to acceptance.          *)
(***************************************************************************)
EXTENDS HandshakeWorld, VerdictLemmas

-----------------------------------------------------------------------------
\* What an accepted hello or ack has passed, of all its checks.
LEMMA BootstrapAccepted ==
  ASSUME NEW m, NEW receiver, NEW time, m.message_type \in Bootstrap,
         verify_handshake_payload(m, receiver, time) = OK
  PROVE  /\ check_peer(m, receiver) = OK
         /\ verify_identity(m.identity, m, receiver, time) = OK
         /\ m.sender \in Aid /\ m.signer = KeyOf[m.sender]
         /\ check_echo(m, receiver) = OK
<1> DEFINE rest == CASE m.message_type \in Bootstrap -> verify_bootstrap(m, receiver, time)
                     [] m.message_type \in Commit    -> verify_commit(m, m.sender, receiver, time)
                     [] OTHER                        -> "INVALID_ENVELOPE"
<1>1. verify_bootstrap(m, receiver, time) = OK
  <2>1. rest = OK
    <3> HIDE DEF rest
    <3>1. QED
      BY TwoChecks DEF verify_handshake_payload, rest
  <2>2. m.message_type \notin Commit
    BY DEF Bootstrap, Commit
  <2>3. QED
    BY <2>1, <2>2
<1>2. /\ check_peer(m, receiver) = OK
      /\ verify_identity(m.identity, m, receiver, time) = OK
      /\ verify_signature(m) = OK
      /\ check_echo(m, receiver) = OK
  BY <1>1, TenChecks DEF verify_bootstrap
<1>3. SignedBy(m, m.sender)
  BY <1>2, ThreeChecks DEF verify_signature, Check, OK
<1>4. QED
  BY <1>2, <1>3 DEF SignedBy

\* An accepted identity names its receiver; a JWT is signed by a key of the
\* provider, and names the subject shown and the key of the sender.
LEMMA IdentityAccepted ==
  ASSUME NEW identity, NEW env, NEW receiver, NEW time, receiver.selfAid # Absent,
         verify_identity(identity, env, receiver, time) = OK
  PROVE  LET proof      == identity.proof
             candidates == candidates_of(receiver, identity.issuer)
         IN  \/ /\ identity.type = "oidc"
                /\ proof.aud = receiver.selfAid
                /\ identity.subject = proof.sub
                /\ env.sender \in Aid /\ proof.jkt = KeyOf[env.sender]
                /\ \E k \in DOMAIN candidates : proof.signer = candidates[k].key
             \/ /\ identity.type = "pinned_key"
                /\ proof.covers.receiver = receiver.selfAid
<1> DEFINE jwt        == identity.proof
           candidates == candidates_of(receiver, identity.issuer)
           chosen     == candidates[select_issuer_key(candidates, jwt.kid)]
<1>1. \/ identity.type = "oidc" /\ verify_oidc(identity, env, receiver, time) = OK
      \/ identity.type = "pinned_key" /\ verify_pinned_key(identity, env, receiver) = OK
  BY ThreeChecks DEF verify_identity, OK
<1>2. CASE verify_oidc(identity, env, receiver, time) = OK /\ identity.type = "oidc"
  <2> DEFINE unique    == Check(\E k \in DOMAIN candidates :
                                  eligible(candidates, jwt.kid) = {k}, "IDENTITY_FAILED")
             signature == Check(/\ eligible(candidates, jwt.kid) # {}
                                /\ chosen.alg = jwt.alg
                                /\ chosen.key = jwt.signer, "IDENTITY_FAILED")
             claims    == verify_claims(identity, env, receiver, time)
  <2>1. signature = OK /\ claims = OK
    <3>1. verify_oidc(identity, env, receiver, time) =
            FirstError(<<
              Check(identity.public_key = Absent /\ identity.issuer # Absent, "IDENTITY_FAILED"),
              Check(identity.issuer \in receiver.trustAnchors, "INCOMPATIBLE_TRUST_ANCHORS"),
              parse_compact(jwt, "IDENTITY_FAILED"),
              Check(~ jwt.forbidden /\ jwt.alg \in OidcAlgs, "IDENTITY_FAILED"),
              Check(candidates # <<>>, "KEY_RESOLUTION_FAILED"),
              unique, signature, claims >>)
      BY DEF verify_oidc
    <3> HIDE DEF unique, signature, claims
    <3>2. QED
      BY <1>2, <3>1, EightChecks
  <2>2. eligible(candidates, jwt.kid) # {} /\ chosen.key = jwt.signer
    BY <2>1 DEF Check, OK
  <2>3. select_issuer_key(candidates, jwt.kid) \in DOMAIN candidates
    BY <2>2 DEF select_issuer_key, eligible
  <2>4. /\ jwt.aud = receiver.selfAid
        /\ identity.subject = jwt.sub
        /\ env.sender \in Aid /\ jwt.jkt = KeyOf[env.sender]
    BY <2>1 DEF verify_claims, Check, OK, Thumbprint
  <2>5. QED
    BY <1>2, <2>2, <2>3, <2>4
<1>3. CASE verify_pinned_key(identity, env, receiver) = OK /\ identity.type = "pinned_key"
  BY <1>3 DEF verify_pinned_key, Check, OK, pinned_key_proof_input
<1>4. QED
  BY <1>1, <1>2, <1>3

-----------------------------------------------------------------------------
(***************************************************************************)
(* What is true of each message ever sent.  TypeOK is not inductive for    *)
(* the properties: it does not say what the parts of a message are, which  *)
(* anybody may take out of it and put into another.                        *)
(***************************************************************************)
WellFormed(m) ==
  /\ m.by \in Aid \cup {Absent} /\ m.to \in Aid \cup {Absent}
  /\ m.env.signer \in {KeyOf[a] : a \in Honest} => m.by \in Honest
  /\ m.by \in Honest => m.env.sender = m.by /\ m.env.signer = KeyOf[m.by]
  /\ DOMAIN m.env = Members
  /\ m.env.timestamp \in 0 .. now

\* An honest agent's proof names the receiver it sent the message to.
NamesReceiver(m) ==
  m.by \in Honest /\ m.env.message_type \in Bootstrap
    => /\ m.env.pop_nonce \in Nonce
       /\ m.env.identity.type = "oidc" => m.env.identity.proof.aud = m.to
       /\ m.env.identity.type = "pinned_key" => m.env.identity.proof.covers.receiver = m.to

\* The provider vouches for no subject but the owner of the key.
SubjectVouched(m) ==
  LET proof == m.env.identity.proof
  IN  /\ m.env.message_type \in Bootstrap
      /\ m.env.identity.type = "oidc"
      /\ proof.signer \notin Key
      => \E a \in Aid : proof.jkt = KeyOf[a] /\ proof.sub = Subject[a]

\* An honest agent's ack echoes the nonce of a hello, and the hello of an
\* honest agent is one that it sent.
AckRecords(m) ==
  m.by \in Honest /\ m.env.message_type = "mutual_hello_ack"
    => /\ m.answers.pop_nonce = m.env.pop_nonce_echo
       /\ m.to \in Honest => \E x \in SentBy({m.to}, "mutual_hello") : x.env = m.answers

Hellos == SentBy(Honest, "mutual_hello") \cup SentBy(Honest, "mutual_hello_ack")

UniqueNonces == \A m, x \in Hellos : m.env.pop_nonce = x.env.pop_nonce => m = x

IInv ==
  /\ now \in 0 .. MaxTime
  /\ UniqueNonces
  /\ \A m \in sent :
       WellFormed(m) /\ NamesReceiver(m) /\ SubjectVouched(m) /\ AckRecords(m)

\* A message that is itself sound and brings no nonce twice keeps the invariant.
LEMMA SoundMessage ==
  ASSUME IInv, NEW m, sent' = sent \cup {m}, now' = now,
         WellFormed(m), NamesReceiver(m), SubjectVouched(m), AckRecords(m),
         m.by \in Honest /\ m.env.message_type \in Bootstrap => m.env.pop_nonce \in Fresh
  PROVE  IInv'
<1>1. now' \in 0 .. MaxTime
  BY DEF IInv
<1>2. UniqueNonces'
  <2>1. m \in Hellos' => m.env.pop_nonce \in Fresh
    BY DEF Hellos, SentBy, Bootstrap
  <2>2. \A x \in Hellos' : x \in Hellos \/ x = m
    BY DEF Hellos, SentBy
  <2>3. m.env.pop_nonce \in Fresh => \A x \in Hellos : x.env.pop_nonce # m.env.pop_nonce
    BY DEF Fresh, Hellos
  <2>4. UniqueNonces
    BY DEF IInv
  <2>5. QED
    BY <2>1, <2>2, <2>3, <2>4 DEF UniqueNonces
<1>3. ASSUME NEW x \in sent'
      PROVE  WellFormed(x)' /\ NamesReceiver(x)' /\ SubjectVouched(x)' /\ AckRecords(x)'
  <2>1. WellFormed(x) /\ NamesReceiver(x) /\ SubjectVouched(x) /\ AckRecords(x)
    BY <1>3 DEF IInv
  <2>2. WellFormed(x)'
    BY <2>1 DEF WellFormed
  <2>3. NamesReceiver(x)' /\ SubjectVouched(x)'
    BY <2>1 DEF NamesReceiver, SubjectVouched
  <2>4. AckRecords(x)'
    BY <2>1 DEF AckRecords, SentBy
  <2>5. QED
    BY <2>2, <2>3, <2>4
<1>4. QED
  BY <1>1, <1>2, <1>3 DEF IInv

\* The fields of what honest agents send.
LEMMA HelloFields ==
  ASSUME NEW a, NEW type, NEW peer, NEW nonce, NEW echo
  PROVE  LET env == Hello(a, type, peer, nonce, echo)
         IN  /\ DOMAIN env = Members
             /\ env.sender = a /\ env.signer = KeyOf[a] /\ env.timestamp = now
             /\ env.message_type = type /\ env.pop_nonce = nonce /\ env.pop_nonce_echo = echo
             /\ env.identity = IdentityOf(a, peer, nonce)
BY DEF Hello, Blank, Members

LEMMA CommitFields ==
  ASSUME NEW a, NEW type, NEW peer, NEW nonce
  PROVE  LET env == CommitTo(a, type, peer, nonce)
         IN  /\ DOMAIN env = Members
             /\ env.sender = a /\ env.signer = KeyOf[a] /\ env.timestamp = now
             /\ env.message_type = type
BY DEF CommitTo, Blank, Members

LEMMA IdentityFields ==
  ASSUME NEW a \in Aid, NEW peer, NEW nonce
  PROVE  LET identity == IdentityOf(a, peer, nonce)
         IN  /\ identity.type = "oidc" =>
                  /\ identity.proof.aud = peer
                  /\ identity.proof.jkt = KeyOf[a] /\ identity.proof.sub = Subject[a]
             /\ identity.type = "pinned_key" => identity.proof.covers.receiver = peer
<1>1. CASE TypeOf[a] = "oidc"
  BY <1>1 DEF IdentityOf, Jwt
<1>2. CASE TypeOf[a] # "oidc"
  <2>1. TypeOf[a] = "pinned_key"
    BY <1>2, WorldAssumption
  <2>2. QED
    BY <1>2, <2>1 DEF IdentityOf, PinnedProof
<1>3. QED
  BY <1>1, <1>2

\* A hello or an ack of an honest agent is sound, and so is a commit.
LEMMA HelloSound ==
  ASSUME IInv, NEW a \in Honest, NEW type \in Bootstrap, NEW peer \in Aid, NEW n \in Nonce,
         NEW echo, NEW answers
  PROVE  LET m == [by |-> a, to |-> peer, env |-> Hello(a, type, peer, n, echo), answers |-> answers]
         IN  WellFormed(m) /\ NamesReceiver(m) /\ SubjectVouched(m)
<1> DEFINE env == Hello(a, type, peer, n, echo)
           m == [by |-> a, to |-> peer, env |-> env, answers |-> answers]
<1>1. a \in Aid /\ now \in 0 .. MaxTime /\ MaxTime \in Nat
  BY WorldAssumption DEF IInv
<1>2. /\ DOMAIN env = Members
      /\ env.sender = a /\ env.signer = KeyOf[a] /\ env.timestamp = now
      /\ env.message_type = type /\ env.pop_nonce = n
      /\ env.identity = IdentityOf(a, peer, n)
  BY HelloFields
<1> HIDE DEF env
<1>3. m.by = a /\ m.to = peer /\ m.env = env
  OBVIOUS
<1> HIDE DEF m
<1>4. WellFormed(m)
  BY <1>1, <1>2, <1>3 DEF WellFormed
<1>5. NamesReceiver(m)
  BY <1>1, <1>2, <1>3, IdentityFields DEF NamesReceiver
<1>6. SubjectVouched(m)
  BY <1>1, <1>2, <1>3, IdentityFields DEF SubjectVouched
<1>7. QED
  BY <1>4, <1>5, <1>6 DEF m, env

LEMMA CommitSound ==
  ASSUME IInv, NEW a \in Honest, NEW type \in Commit, NEW peer \in Aid \cup {Absent}, NEW n,
         NEW answers
  PROVE  LET m == [by |-> a, to |-> peer, env |-> CommitTo(a, type, peer, n), answers |-> answers]
         IN  /\ WellFormed(m) /\ NamesReceiver(m) /\ SubjectVouched(m) /\ AckRecords(m)
             /\ m.env.message_type \notin Bootstrap
<1> DEFINE env == CommitTo(a, type, peer, n)
           m == [by |-> a, to |-> peer, env |-> env, answers |-> answers]
<1>1. a \in Aid /\ now \in 0 .. MaxTime /\ MaxTime \in Nat
  BY WorldAssumption DEF IInv
<1>2. /\ DOMAIN env = Members
      /\ env.sender = a /\ env.signer = KeyOf[a] /\ env.timestamp = now
      /\ env.message_type = type
  BY CommitFields
<1>3. type \notin Bootstrap /\ type # "mutual_hello_ack"
  BY DEF Bootstrap, Commit
<1> HIDE DEF env
<1>4. m.by = a /\ m.to = peer /\ m.env = env
  OBVIOUS
<1> HIDE DEF m
<1>5. WellFormed(m)
  BY <1>1, <1>2, <1>4 DEF WellFormed
<1>6. NamesReceiver(m) /\ SubjectVouched(m) /\ AckRecords(m)
  BY <1>2, <1>3, <1>4 DEF NamesReceiver, SubjectVouched, AckRecords
<1>7. QED
  BY <1>2, <1>3, <1>4, <1>5, <1>6 DEF m, env

(***************************************************************************)
(* What an agent accepts under the name of an honest one is what that one  *)
(* sent to it: the signature says who sent it, the identity to whom.       *)
(***************************************************************************)
LEMMA Genuine ==
  ASSUME IInv, NEW m \in sent, NEW receiver, receiver.selfAid # Absent,
         m.env.message_type \in Bootstrap, m.env.sender \in Honest,
         Accepts(receiver, m.env)
  PROVE  m.by = m.env.sender /\ m.to = receiver.selfAid
<1> DEFINE env == m.env
<1>1. WellFormed(m) /\ NamesReceiver(m)
  BY DEF IInv
<1>2. verify_identity(env.identity, env, receiver, now) = OK /\ env.signer = KeyOf[env.sender]
  BY BootstrapAccepted DEF Accepts
<1>3. m.by \in Honest /\ m.by = env.sender
  BY <1>1, <1>2 DEF WellFormed
<1>4. \/ env.identity.type = "oidc" /\ env.identity.proof.aud = receiver.selfAid
      \/ /\ env.identity.type = "pinned_key"
         /\ env.identity.proof.covers.receiver = receiver.selfAid
  BY <1>2, IdentityAccepted
<1>5. QED
  BY <1>1, <1>3, <1>4 DEF NamesReceiver

-----------------------------------------------------------------------------
\* The invariant holds at first and is kept by every step.
LEMMA InitInv == Init => IInv
BY WorldAssumption DEF Init, IInv, UniqueNonces, Hellos, SentBy

LEMMA TickInv == IInv /\ Tick => IInv'
<1> SUFFICES ASSUME IInv, Tick
             PROVE  IInv'
  OBVIOUS
<1>1. now \in 0 .. MaxTime /\ now < MaxTime /\ now' = now + 1 /\ sent' = sent /\ MaxTime \in Nat
  BY WorldAssumption DEF IInv, Tick
<1>2. now' \in 0 .. MaxTime /\ UniqueNonces'
  BY <1>1 DEF IInv, UniqueNonces, Hellos, SentBy
<1>3. ASSUME NEW m \in sent'
      PROVE  WellFormed(m)' /\ NamesReceiver(m)' /\ SubjectVouched(m)' /\ AckRecords(m)'
  <2>1. WellFormed(m) /\ NamesReceiver(m) /\ SubjectVouched(m) /\ AckRecords(m)
    BY <1>1, <1>3 DEF IInv
  <2>2. WellFormed(m)'
    BY <1>1, <2>1 DEF WellFormed
  <2>3. NamesReceiver(m)' /\ SubjectVouched(m)' /\ AckRecords(m)'
    BY <1>1, <2>1 DEF NamesReceiver, SubjectVouched, AckRecords, SentBy
  <2>4. QED
    BY <2>2, <2>3
<1>4. QED
  BY <1>2, <1>3 DEF IInv

LEMMA InitiateInv == ASSUME NEW a \in Honest PROVE IInv /\ Initiate(a) => IInv'
<1> SUFFICES ASSUME IInv, Initiate(a)
             PROVE  IInv'
  OBVIOUS
<1>1. PICK peer \in Aid \ {a}, n \in Fresh :
        SendHonestly(a, peer, Hello(a, "mutual_hello", peer, n, Absent), Absent)
  BY DEF Initiate
<1> DEFINE env == Hello(a, "mutual_hello", peer, n, Absent)
           m == [by |-> a, to |-> peer, env |-> env, answers |-> Absent]
<1>2. sent' = sent \cup {m} /\ now' = now
  BY <1>1 DEF SendHonestly, Send
<1>3. WellFormed(m) /\ NamesReceiver(m) /\ SubjectVouched(m)
  BY HelloSound DEF Fresh, Bootstrap
<1>4. env.message_type = "mutual_hello" /\ env.pop_nonce = n
  BY HelloFields
<1> HIDE DEF env
<1>5. AckRecords(m)
  BY <1>4 DEF AckRecords
<1>6. m.env.pop_nonce \in Fresh
  BY <1>4
<1> HIDE DEF m
<1>7. QED
  BY <1>2, <1>3, <1>5, <1>6, SoundMessage

LEMMA AnswerInv == ASSUME NEW b \in Honest PROVE IInv /\ Answer(b) => IInv'
<1> SUFFICES ASSUME IInv, Answer(b)
             PROVE  IInv'
  OBVIOUS
<1>1. PICK h \in Received("mutual_hello"), n \in Fresh :
        /\ Accepts(Receiver(b), h.env)
        /\ SendHonestly(b, h.env.sender,
                        Hello(b, "mutual_hello_ack", h.env.sender, n, h.env.pop_nonce), h.env)
  BY DEF Answer
<1> DEFINE peer == h.env.sender
           env == Hello(b, "mutual_hello_ack", peer, n, h.env.pop_nonce)
           m == [by |-> b, to |-> peer, env |-> env, answers |-> h.env]
<1>2. sent' = sent \cup {m} /\ now' = now
  BY <1>1 DEF SendHonestly, Send
<1>3. h \in sent /\ h.env.message_type = "mutual_hello" /\ h.env.message_type \in Bootstrap
  BY DEF Received, Bootstrap
<1>4. peer \in Aid
  BY <1>1, <1>3, BootstrapAccepted DEF Accepts
<1>5. WellFormed(m) /\ NamesReceiver(m) /\ SubjectVouched(m)
  BY <1>4, HelloSound DEF Fresh, Bootstrap
<1>6. /\ env.message_type = "mutual_hello_ack" /\ env.pop_nonce = n
      /\ env.pop_nonce_echo = h.env.pop_nonce
  BY HelloFields
<1>7. peer \in Honest => h \in SentBy({peer}, "mutual_hello")
  <2>1. Receiver(b).selfAid = b /\ b # Absent
    BY WorldAssumption, AidAssumption DEF Receiver
  <2>2. QED
    BY <1>1, <1>3, <2>1, Genuine DEF SentBy
<1> HIDE DEF env
<1>8. AckRecords(m)
  BY <1>6, <1>7 DEF AckRecords
<1>9. m.env.pop_nonce \in Fresh
  BY <1>6
<1> HIDE DEF m
<1>10. QED
  BY <1>2, <1>5, <1>8, <1>9, SoundMessage

LEMMA ConfirmInv == ASSUME NEW a \in Honest PROVE IInv /\ Confirm(a) => IInv'
<1> SUFFICES ASSUME IInv, Confirm(a)
             PROVE  IInv'
  OBVIOUS
<1>1. PICK h \in SentBy({a}, "mutual_hello"), x \in Received("mutual_hello_ack") :
        SendHonestly(a, h.to, CommitTo(a, "mutual_commit", h.to, x.env.pop_nonce), x.env)
  BY DEF Confirm
<1> DEFINE m == [by |-> a, to |-> h.to,
                 env |-> CommitTo(a, "mutual_commit", h.to, x.env.pop_nonce), answers |-> x.env]
<1>2. sent' = sent \cup {m} /\ now' = now
  BY <1>1 DEF SendHonestly, Send
<1>3. h.to \in Aid \cup {Absent}
  BY DEF SentBy, IInv, WellFormed
<1>4. /\ WellFormed(m) /\ NamesReceiver(m) /\ SubjectVouched(m) /\ AckRecords(m)
      /\ m.env.message_type \notin Bootstrap
  BY <1>3, CommitSound DEF Commit
<1> HIDE DEF m
<1>5. QED
  BY <1>2, <1>4, SoundMessage

LEMMA FinishInv == ASSUME NEW b \in Honest PROVE IInv /\ Finish(b) => IInv'
<1> SUFFICES ASSUME IInv, Finish(b)
             PROVE  IInv'
  OBVIOUS
<1>1. PICK k \in SentBy({b}, "mutual_hello_ack"), x \in Received("mutual_commit") :
        SendHonestly(b, k.to,
                     CommitTo(b, "mutual_commit_ack", k.to, k.env.pop_nonce_echo), x.env)
  BY DEF Finish
<1> DEFINE m == [by |-> b, to |-> k.to, answers |-> x.env,
                 env |-> CommitTo(b, "mutual_commit_ack", k.to, k.env.pop_nonce_echo)]
<1>2. sent' = sent \cup {m} /\ now' = now
  BY <1>1 DEF SendHonestly, Send
<1>3. k.to \in Aid \cup {Absent}
  BY DEF SentBy, IInv, WellFormed
<1>4. /\ WellFormed(m) /\ NamesReceiver(m) /\ SubjectVouched(m) /\ AckRecords(m)
      /\ m.env.message_type \notin Bootstrap
  BY <1>3, CommitSound DEF Commit
<1> HIDE DEF m
<1>5. QED
  BY <1>2, <1>4, SoundMessage

\* What is not by an honest agent has only to be well formed and vouched for.
LEMMA DeviantMessage ==
  ASSUME IInv, NEW by \in (Aid \cup {Absent}) \ Honest, NEW env, SendDeviantly(by, env),
         DOMAIN env = Members, env.timestamp \in 0 .. now,
         env.signer \notin {KeyOf[a] : a \in Honest},
         SubjectVouched([by |-> by, to |-> Absent, env |-> env, answers |-> Absent])
  PROVE  IInv'
<1> DEFINE m == [by |-> by, to |-> Absent, env |-> env, answers |-> Absent]
<1>1. sent' = sent \cup {m} /\ now' = now
  BY DEF SendDeviantly, Send
<1>2. WellFormed(m)
  BY DEF WellFormed
<1>3. NamesReceiver(m) /\ AckRecords(m)
  BY DEF NamesReceiver, AckRecords
<1>4. SubjectVouched(m) /\ m.by \notin Honest
  OBVIOUS
<1> HIDE DEF m
<1>5. QED
  BY <1>1, <1>2, <1>3, <1>4, SoundMessage

LEMMA CorruptInv == IInv /\ Corrupt => IInv'
<1> SUFFICES ASSUME IInv, Corrupt
             PROVE  IInv'
  OBVIOUS
<1>1. PICK m \in sent : SendDeviantly(Absent, [m.env EXCEPT !.signer = NoKey])
  BY DEF Corrupt
<1> DEFINE env == [m.env EXCEPT !.signer = NoKey]
<1>2. WellFormed(m) /\ SubjectVouched(m)
  BY DEF IInv
<1>3. /\ DOMAIN env = Members /\ env.timestamp = m.env.timestamp /\ env.signer = NoKey
      /\ env.identity = m.env.identity /\ env.message_type = m.env.message_type
  BY <1>2 DEF WellFormed, Members
<1>4. Absent \notin Honest /\ NoKey \notin {KeyOf[a] : a \in Honest}
  BY WorldAssumption, AidAssumption
<1> HIDE DEF env
<1>5. SubjectVouched([by |-> Absent, to |-> Absent, env |-> env, answers |-> Absent])
  BY <1>2, <1>3 DEF SubjectVouched
<1>6. QED
  BY <1>1, <1>2, <1>3, <1>4, <1>5, DeviantMessage DEF WellFormed, env

LEMMA ComposeInv == ASSUME NEW d \in Aid \ Honest PROVE IInv /\ Compose(d) => IInv'
<1> SUFFICES ASSUME IInv, Compose(d)
             PROVE  IInv'
  OBVIOUS
<1>1. PICK m \in Received("mutual_hello") \cup Received("mutual_hello_ack"), peer \in Honest,
           type \in Bootstrap :
        \E sender \in {d, m.env.sender}, echo \in Echoes(type),
           identity \in {m.env.identity, IdentityOf(d, peer, m.env.pop_nonce)}
                          \cup SelfMade(d, m.env.sender, peer, m.env.pop_nonce) :
          SendDeviantly(d,
            [m.env EXCEPT !.message_type = type, !.sender = sender, !.signer = KeyOf[d],
                          !.manifest = ManifestOf(sender), !.identity = identity,
                          !.pop_nonce_echo = echo])
  BY DEF Compose
<1>2. PICK sender \in {d, m.env.sender}, echo \in Echoes(type),
           identity \in {m.env.identity, IdentityOf(d, peer, m.env.pop_nonce)}
                          \cup SelfMade(d, m.env.sender, peer, m.env.pop_nonce) :
          SendDeviantly(d,
            [m.env EXCEPT !.message_type = type, !.sender = sender, !.signer = KeyOf[d],
                          !.manifest = ManifestOf(sender), !.identity = identity,
                          !.pop_nonce_echo = echo])
  BY <1>1
<1> DEFINE env == [m.env EXCEPT !.message_type = type, !.sender = sender, !.signer = KeyOf[d],
                                !.manifest = ManifestOf(sender), !.identity = identity,
                                !.pop_nonce_echo = echo]
           message == [by |-> d, to |-> Absent, env |-> env, answers |-> Absent]
<1>3. m \in sent /\ m.env.message_type \in Bootstrap
  BY DEF Received, Bootstrap
<1>4. WellFormed(m) /\ SubjectVouched(m)
  BY <1>3 DEF IInv
<1>5. /\ DOMAIN env = Members /\ env.timestamp = m.env.timestamp /\ env.signer = KeyOf[d]
      /\ env.identity = identity
  BY <1>4 DEF WellFormed, Members
<1>6. KeyOf[d] \notin {KeyOf[a] : a \in Honest} /\ KeyOf[d] \in Key
  BY WorldAssumption, AidAssumption
<1> HIDE DEF env
<1>7. identity.type = "oidc" /\ identity.proof.signer \notin Key
        => \E a \in Aid : identity.proof.jkt = KeyOf[a] /\ identity.proof.sub = Subject[a]
  <2>1. CASE identity = m.env.identity
    BY <1>3, <1>4, <2>1 DEF SubjectVouched
  <2>2. CASE identity = IdentityOf(d, peer, m.env.pop_nonce)
    BY <2>2, IdentityFields
  <2>3. CASE identity \in SelfMade(d, m.env.sender, peer, m.env.pop_nonce)
    <3> DEFINE shown == IdentityOf(m.env.sender, peer, m.env.pop_nonce)
               jwt == Jwt(m.env.sender, peer, m.env.pop_nonce)
               made == [jwt EXCEPT !.signer = KeyOf[d], !.jkt = KeyOf[d]]
    <3>1. identity = [shown EXCEPT !.proof = made]
      BY <2>3 DEF SelfMade
    <3>2. "proof" \in DOMAIN shown
      BY DEF IdentityOf
    <3>3. made.signer = KeyOf[d]
      BY DEF Jwt
    <3> HIDE DEF shown, made
    <3>4. identity.proof = made
      BY <3>1, <3>2
    <3>5. QED
      BY <1>6, <3>3, <3>4
  <2>4. QED
    BY <1>2, <2>1, <2>2, <2>3
<1>8. SubjectVouched(message)
  BY <1>5, <1>7 DEF SubjectVouched
<1>9. SendDeviantly(d, env)
  BY <1>2 DEF env
<1>10. QED
  BY <1>4, <1>5, <1>6, <1>8, <1>9, DeviantMessage DEF WellFormed

LEMMA ComposeCommitInv == ASSUME NEW d \in Aid \ Honest PROVE IInv /\ ComposeCommit(d) => IInv'
<1> SUFFICES ASSUME IInv, ComposeCommit(d)
             PROVE  IInv'
  OBVIOUS
<1>1. PICK sender \in Aid, token \in Tokens(d) \cup BadTokens(d), pop \in Pops(d) \cup {Absent} :
        SendDeviantly(d, [Blank(sender, "mutual_commit") EXCEPT !.signer = KeyOf[d],
                                                                !.tct = token, !.pop = pop])
  BY DEF ComposeCommit, CommitAs
<1> DEFINE env == [Blank(sender, "mutual_commit") EXCEPT !.signer = KeyOf[d], !.tct = token,
                                                         !.pop = pop]
<1>2. /\ DOMAIN env = Members /\ env.timestamp = now /\ env.signer = KeyOf[d]
      /\ env.message_type = "mutual_commit"
  BY DEF Blank, Members
<1>3. now \in 0 .. now
  BY WorldAssumption DEF IInv
<1>4. KeyOf[d] \notin {KeyOf[a] : a \in Honest}
  BY WorldAssumption
<1> HIDE DEF env
<1>5. SubjectVouched([by |-> d, to |-> Absent, env |-> env, answers |-> Absent])
  BY <1>2 DEF SubjectVouched, Bootstrap
<1>6. SendDeviantly(d, env)
  BY <1>1 DEF env
<1>7. QED
  BY <1>2, <1>3, <1>4, <1>5, <1>6, DeviantMessage

LEMMA InvStep == IInv /\ [Next]_vars => IInv'
<1> SUFFICES ASSUME IInv, [Next]_vars
             PROVE  IInv'
  OBVIOUS
<1>1. CASE Tick
  BY <1>1, TickInv
<1>2. CASE \E a \in Initiators : Initiate(a)
  BY <1>2, InitiateInv, WorldAssumption
<1>3. CASE \E a \in Honest : Answer(a) \/ Confirm(a) \/ Finish(a)
  BY <1>3, AnswerInv, ConfirmInv, FinishInv
<1>4. CASE Corrupt
  BY <1>4, CorruptInv
<1>5. CASE \E d \in Aid \ Honest : Compose(d) \/ ComposeCommit(d)
  BY <1>5, ComposeInv, ComposeCommitInv
<1>6. CASE UNCHANGED vars
  BY <1>6 DEF vars, IInv, UniqueNonces, Hellos, SentBy, WellFormed, NamesReceiver,
              SubjectVouched, AckRecords
<1>7. QED
  BY <1>1, <1>2, <1>3, <1>4, <1>5, <1>6 DEF Next

LEMMA Invariance == Spec => []IInv
<1>1. QED
  BY InitInv, InvStep, PTL DEF Spec

-----------------------------------------------------------------------------
(***************************************************************************)
(* The second round.  Whoever answers a nonce has seen it, so a proof is   *)
(* never older than the nonce it covers: no message holds a nonce that is  *)
(* still to be used, and a proof signed by an honest agent is in a commit  *)
(* of that agent, sent after the nonce.                                    *)
(***************************************************************************)
Recent(c) ==
  \A h \in Hellos : h.env.pop_nonce = c.env.pop.nonce => h.env.timestamp <= c.env.timestamp

Made(a, pop) == \E c \in sent : c.by = a /\ c.env.pop = pop /\ Recent(c)

WellShaped(m) ==
  /\ m.env.version = PROTOCOL_VERSION
  /\ m.env.defects \subseteq {"float_timestamp"}

NoncesSeen(m) ==
  /\ m.by \notin Honest /\ m.env.message_type \in Bootstrap => m.env.pop_nonce \notin Fresh
  /\ m.by \in Honest /\ m.env.message_type = "mutual_hello_ack"
       => m.env.pop_nonce_echo \notin Fresh
  /\ m.env.pop # Absent => m.env.pop.nonce \notin Fresh

PopRecorded(m) ==
  m.env.pop # Absent =>
    \A a \in Honest : m.env.pop.signer = KeyOf[a] => Made(a, m.env.pop)

RInv == IInv /\ \A m \in sent : WellShaped(m) /\ NoncesSeen(m) /\ PopRecorded(m)

\* A nonce that is no longer fresh stays so, and what was sent stays sent.
LEMMA FreshShrinks ==
  ASSUME NEW m, sent' = sent \cup {m}
  PROVE  /\ Fresh' \subseteq Fresh
         /\ \A h \in Hellos' : h \in Hellos \/ h = m
         /\ m \in Hellos' => m.by \in Honest /\ m.env.message_type \in Bootstrap
BY DEF Fresh, Hellos, SentBy, Bootstrap

\* What every hello and ack carries is not fresh: an honest agent has used it.
LEMMA HelloNonceSeen ==
  ASSUME RInv, NEW m \in sent, m.env.message_type \in Bootstrap
  PROVE  m.env.pop_nonce \notin Fresh
<1>1. CASE m.by \in Honest
  BY <1>1 DEF Fresh, SentBy, Bootstrap
<1>2. CASE m.by \notin Honest
  BY <1>2 DEF RInv, NoncesSeen
<1>3. QED
  BY <1>1, <1>2

\* A new message keeps the invariant when its nonces were seen before and its
\* proof was made before, or is its honest sender's and is made now.
LEMMA RecordedMessage ==
  ASSUME RInv, IInv', NEW m, sent' = sent \cup {m}, now' = now,
         WellShaped(m), NoncesSeen(m), m.env.timestamp \in 0 .. now,
         m.by \in Honest /\ m.env.message_type \in Bootstrap => m.env.pop_nonce \in Fresh,
         m.env.pop # Absent =>
           \A a \in Honest : m.env.pop.signer = KeyOf[a] =>
             Made(a, m.env.pop) \/ (m.by = a /\ m.env.timestamp = now)
  PROVE  RInv'
<1>1. /\ Fresh' \subseteq Fresh
      /\ \A h \in Hellos' : h \in Hellos \/ h = m
      /\ m \in Hellos' => m.by \in Honest /\ m.env.message_type \in Bootstrap
  BY FreshShrinks
<1>2. \A h \in Hellos' : h.env.timestamp \in 0 .. now
  BY <1>1 DEF RInv, IInv, WellFormed, Hellos, SentBy
<1>3. ASSUME NEW a, NEW pop, Made(a, pop), pop.nonce \notin Fresh
      PROVE  Made(a, pop)'
  <2>1. PICK c \in sent : c.by = a /\ c.env.pop = pop /\ Recent(c)
    BY <1>3 DEF Made
  <2>2. ASSUME NEW h \in Hellos', h.env.pop_nonce = c.env.pop.nonce
        PROVE  h.env.timestamp <= c.env.timestamp
    <3>1. h \in Hellos
      BY <1>1, <1>3, <2>1, <2>2
    <3>2. QED
      BY <2>1, <2>2, <3>1 DEF Recent
  <2>3. Recent(c)'
    BY <2>2 DEF Recent
  <2>4. QED
    BY <2>1, <2>3 DEF Made
<1>4. ASSUME NEW x \in sent
      PROVE  WellShaped(x)' /\ NoncesSeen(x)' /\ PopRecorded(x)'
  <2>1. WellShaped(x) /\ NoncesSeen(x) /\ PopRecorded(x)
    BY DEF RInv
  <2>2. WellShaped(x)' /\ NoncesSeen(x)'
    BY <1>1, <2>1 DEF WellShaped, NoncesSeen
  <2>3. PopRecorded(x)'
    BY <1>3, <2>1 DEF PopRecorded, NoncesSeen
  <2>4. QED
    BY <2>2, <2>3
<1>5. WellShaped(m)' /\ NoncesSeen(m)' /\ PopRecorded(m)'
  <2>1. WellShaped(m)' /\ NoncesSeen(m)'
    BY <1>1 DEF WellShaped, NoncesSeen
  <2>2. ASSUME NEW a \in Honest, m.env.pop # Absent, m.env.pop.signer = KeyOf[a]
        PROVE  Made(a, m.env.pop)'
    <3>1. CASE Made(a, m.env.pop)
      BY <1>3, <2>2, <3>1 DEF NoncesSeen
    <3>2. CASE m.by = a /\ m.env.timestamp = now
      <4>1. \A h \in Hellos' : h.env.timestamp <= m.env.timestamp
        BY <1>2, <3>2, WorldAssumption DEF RInv, IInv
      <4>2. Recent(m)'
        BY <4>1 DEF Recent
      <4>3. QED
        BY <3>2, <4>2 DEF Made
    <3>3. QED
      BY <2>2, <3>1, <3>2
  <2>3. PopRecorded(m)'
    BY <2>2 DEF PopRecorded
  <2>4. QED
    BY <2>1, <2>3
<1>6. QED
  BY <1>4, <1>5 DEF RInv

\* The rest of the fields of what is sent.
LEMMA BlankFields ==
  ASSUME NEW a, NEW type
  PROVE  LET env == Blank(a, type)
         IN  /\ DOMAIN env = Members /\ env.sender = a /\ env.signer = KeyOf[a]
             /\ env.timestamp = now /\ env.message_type = type
             /\ env.version = PROTOCOL_VERSION /\ env.defects \subseteq {"float_timestamp"}
             /\ env.pop = Absent
BY DEF Blank, Members

LEMMA HelloShape ==
  ASSUME NEW a, NEW type, NEW peer, NEW nonce, NEW echo
  PROVE  LET env == Hello(a, type, peer, nonce, echo)
         IN  /\ env.version = PROTOCOL_VERSION /\ env.defects \subseteq {"float_timestamp"}
             /\ env.pop = Absent
<1> DEFINE blank == Blank(a, type)
<1>1. /\ DOMAIN blank = Members /\ blank.version = PROTOCOL_VERSION
      /\ blank.defects \subseteq {"float_timestamp"} /\ blank.pop = Absent
  BY BlankFields
<1> HIDE DEF blank
<1>2. QED
  BY <1>1 DEF Hello, Members, blank

LEMMA CommitShape ==
  ASSUME NEW a, NEW type, NEW peer, NEW nonce
  PROVE  LET env == CommitTo(a, type, peer, nonce)
         IN  /\ env.version = PROTOCOL_VERSION /\ env.defects \subseteq {"float_timestamp"}
             /\ env.pop = Pop(a, nonce)
<1> DEFINE blank == Blank(a, type)
<1>1. /\ DOMAIN blank = Members /\ blank.version = PROTOCOL_VERSION
      /\ blank.defects \subseteq {"float_timestamp"}
  BY BlankFields
<1> HIDE DEF blank
<1>2. QED
  BY <1>1 DEF CommitTo, Members, blank

\* An honest agent's hello, ack and commit.
LEMMA HelloRecorded ==
  ASSUME RInv, IInv', NEW a \in Honest, NEW type \in Bootstrap, NEW peer, NEW n \in Fresh,
         NEW echo, NEW answers, type = "mutual_hello_ack" => echo \notin Fresh,
         SendHonestly(a, peer, Hello(a, type, peer, n, echo), answers)
  PROVE  RInv'
<1> DEFINE env == Hello(a, type, peer, n, echo)
           m == [by |-> a, to |-> peer, env |-> env, answers |-> answers]
<1>1. sent' = sent \cup {m} /\ now' = now
  BY DEF SendHonestly, Send
<1>2. /\ env.timestamp = now /\ env.message_type = type
      /\ env.pop_nonce = n /\ env.pop_nonce_echo = echo
      /\ env.version = PROTOCOL_VERSION /\ env.defects \subseteq {"float_timestamp"}
      /\ env.pop = Absent
  BY HelloFields, HelloShape
<1> HIDE DEF env
<1>3. m.by = a /\ m.env = env
  OBVIOUS
<1> HIDE DEF m
<1>4. WellShaped(m) /\ NoncesSeen(m)
  BY <1>2, <1>3 DEF WellShaped, NoncesSeen
<1>5. m.env.timestamp \in 0 .. now
  BY <1>2, <1>3, WorldAssumption DEF RInv, IInv
<1>6. m.env.pop_nonce \in Fresh /\ m.env.pop = Absent
  BY <1>2, <1>3
<1>7. QED
  BY <1>1, <1>4, <1>5, <1>6, RecordedMessage

LEMMA CommitRecorded ==
  ASSUME RInv, IInv', NEW a \in Honest, NEW type \in Commit, NEW peer, NEW n,
         n \notin Fresh, NEW answers,
         SendHonestly(a, peer, CommitTo(a, type, peer, n), answers)
  PROVE  RInv'
<1> DEFINE env == CommitTo(a, type, peer, n)
           m == [by |-> a, to |-> peer, env |-> env, answers |-> answers]
<1>1. sent' = sent \cup {m} /\ now' = now
  BY DEF SendHonestly, Send
<1>2. /\ env.timestamp = now /\ env.message_type = type
      /\ env.version = PROTOCOL_VERSION /\ env.defects \subseteq {"float_timestamp"}
      /\ env.pop.signer = KeyOf[a] /\ env.pop.nonce = n
  <2>1. env.timestamp = now /\ env.message_type = type
    BY CommitFields
  <2>2. /\ env.version = PROTOCOL_VERSION /\ env.defects \subseteq {"float_timestamp"}
        /\ env.pop = Pop(a, n)
    BY CommitShape
  <2> HIDE DEF env
  <2>3. QED
    BY <2>1, <2>2 DEF Pop
<1>3. type \notin Bootstrap /\ type # "mutual_hello_ack" /\ a \in Aid
  BY WorldAssumption DEF Bootstrap, Commit
<1> HIDE DEF env
<1>4. m.by = a /\ m.env = env
  OBVIOUS
<1> HIDE DEF m
<1>5. WellShaped(m) /\ NoncesSeen(m)
  BY <1>2, <1>3, <1>4 DEF WellShaped, NoncesSeen
<1>6. m.env.timestamp = now /\ m.env.timestamp \in 0 .. now
  BY <1>2, <1>4, WorldAssumption DEF RInv, IInv
<1>7. \A b \in Honest : m.env.pop.signer = KeyOf[b] => m.by = b
  BY <1>2, <1>3, <1>4, WorldAssumption
<1>8. m.env.message_type \notin Bootstrap
  BY <1>2, <1>3, <1>4
<1>9. QED
  BY <1>1, <1>5, <1>6, <1>7, <1>8, RecordedMessage

\* What is not by an honest agent: the proof is one that was sent, or its own.
LEMMA DeviantRecorded ==
  ASSUME RInv, IInv', NEW by \in (Aid \cup {Absent}) \ Honest, NEW env, SendDeviantly(by, env),
         env.version = PROTOCOL_VERSION, env.defects \subseteq {"float_timestamp"},
         env.timestamp \in 0 .. now,
         env.message_type \in Bootstrap => env.pop_nonce \notin Fresh,
         env.pop # Absent =>
           /\ env.pop.nonce \notin Fresh
           /\ \A a \in Honest : env.pop.signer = KeyOf[a] => Made(a, env.pop)
  PROVE  RInv'
<1> DEFINE m == [by |-> by, to |-> Absent, env |-> env, answers |-> Absent]
<1>1. sent' = sent \cup {m} /\ now' = now
  BY DEF SendDeviantly, Send
<1>2. m.by = by /\ m.env = env
  OBVIOUS
<1> HIDE DEF m
<1>3. WellShaped(m) /\ NoncesSeen(m)
  BY <1>2 DEF WellShaped, NoncesSeen
<1>4. QED
  BY <1>1, <1>2, <1>3, RecordedMessage

LEMMA CorruptRecorded == RInv /\ IInv' /\ Corrupt => RInv'
<1> SUFFICES ASSUME RInv, IInv', Corrupt
             PROVE  RInv'
  OBVIOUS
<1>1. PICK m \in sent : SendDeviantly(Absent, [m.env EXCEPT !.signer = NoKey])
  BY DEF Corrupt
<1> DEFINE env == [m.env EXCEPT !.signer = NoKey]
<1>2. WellFormed(m) /\ WellShaped(m) /\ NoncesSeen(m) /\ PopRecorded(m)
  BY DEF RInv, IInv
<1>3. /\ env.timestamp = m.env.timestamp /\ env.message_type = m.env.message_type
      /\ env.version = m.env.version /\ env.defects = m.env.defects
      /\ env.pop = m.env.pop /\ env.pop_nonce = m.env.pop_nonce
  BY <1>2 DEF WellFormed, Members
<1>4. Absent \in (Aid \cup {Absent}) \ Honest
  BY WorldAssumption, AidAssumption
<1>5. SendDeviantly(Absent, env)
  BY <1>1
<1> HIDE DEF env
<1>6. env.message_type \in Bootstrap => env.pop_nonce \notin Fresh
  BY <1>3, HelloNonceSeen
<1>7. QED
  BY <1>2, <1>3, <1>4, <1>5, <1>6, DeviantRecorded
  DEF WellFormed, WellShaped, NoncesSeen, PopRecorded

LEMMA ComposeRecorded ==
  ASSUME NEW d \in Aid \ Honest PROVE RInv /\ IInv' /\ Compose(d) => RInv'
<1> SUFFICES ASSUME RInv, IInv', Compose(d)
             PROVE  RInv'
  OBVIOUS
<1>0. PICK m \in Received("mutual_hello") \cup Received("mutual_hello_ack") :
        \E type, sender, echo, identity :
          SendDeviantly(d,
            [m.env EXCEPT !.message_type = type, !.sender = sender, !.signer = KeyOf[d],
                          !.manifest = ManifestOf(sender), !.identity = identity,
                          !.pop_nonce_echo = echo])
  BY DEF Compose
<1>1. PICK type, sender, echo, identity :
        SendDeviantly(d,
          [m.env EXCEPT !.message_type = type, !.sender = sender, !.signer = KeyOf[d],
                        !.manifest = ManifestOf(sender), !.identity = identity,
                        !.pop_nonce_echo = echo])
  BY <1>0
<1> DEFINE env == [m.env EXCEPT !.message_type = type, !.sender = sender, !.signer = KeyOf[d],
                                !.manifest = ManifestOf(sender), !.identity = identity,
                                !.pop_nonce_echo = echo]
<1>2. m \in sent /\ m.env.message_type \in Bootstrap
  BY DEF Received, Bootstrap
<1>3. WellFormed(m) /\ WellShaped(m) /\ NoncesSeen(m) /\ PopRecorded(m)
  BY <1>2 DEF RInv, IInv
<1>4. /\ env.timestamp = m.env.timestamp
      /\ env.version = m.env.version /\ env.defects = m.env.defects
      /\ env.pop = m.env.pop /\ env.pop_nonce = m.env.pop_nonce
  BY <1>3 DEF WellFormed, Members
<1>5. SendDeviantly(d, env)
  BY <1>1
<1> HIDE DEF env
<1>6. env.pop_nonce \notin Fresh
  BY <1>2, <1>4, HelloNonceSeen
<1>7. QED
  BY <1>3, <1>4, <1>5, <1>6, DeviantRecorded
  DEF WellFormed, WellShaped, NoncesSeen, PopRecorded

LEMMA ComposeCommitRecorded ==
  ASSUME NEW d \in Aid \ Honest PROVE RInv /\ IInv' /\ ComposeCommit(d) => RInv'
<1> SUFFICES ASSUME RInv, IInv', ComposeCommit(d)
             PROVE  RInv'
  OBVIOUS
<1>1. PICK sender \in Aid, token \in Tokens(d) \cup BadTokens(d), pop \in Pops(d) \cup {Absent} :
        SendDeviantly(d, [Blank(sender, "mutual_commit") EXCEPT !.signer = KeyOf[d],
                                                                !.tct = token, !.pop = pop])
  BY DEF ComposeCommit, CommitAs
<1> DEFINE blank == Blank(sender, "mutual_commit")
           env == [blank EXCEPT !.signer = KeyOf[d], !.tct = token, !.pop = pop]
<1>2. SendDeviantly(d, env)
  BY <1>1
<1>3. /\ DOMAIN blank = Members /\ blank.timestamp = now
      /\ blank.message_type = "mutual_commit" /\ blank.version = PROTOCOL_VERSION
      /\ blank.defects \subseteq {"float_timestamp"}
  BY BlankFields
<1> HIDE DEF blank
<1>4. /\ env.timestamp = now /\ env.message_type = "mutual_commit" /\ env.pop = pop
      /\ env.version = PROTOCOL_VERSION /\ env.defects \subseteq {"float_timestamp"}
  BY <1>3 DEF Members
<1> HIDE DEF env
<1>5. now \in 0 .. now
  BY WorldAssumption DEF RInv, IInv
<1>6. pop # Absent =>
        /\ pop.nonce \notin Fresh
        /\ \A a \in Honest : pop.signer = KeyOf[a] => Made(a, pop)
  <2>1. CASE \E m \in sent : pop = m.env.pop
    BY <2>1 DEF RInv, NoncesSeen, PopRecorded
  <2>2. CASE \E n \in Nonce \ Fresh : pop = Pop(d, n)
    <3>1. pop.nonce \notin Fresh /\ pop.signer = KeyOf[d]
      BY <2>2 DEF Pop
    <3>2. \A a \in Honest : KeyOf[d] # KeyOf[a]
      BY WorldAssumption
    <3>3. QED
      BY <3>1, <3>2
  <2>3. QED
    BY <1>1, <2>1, <2>2 DEF Pops
<1>7. env.message_type \notin Bootstrap
  BY <1>4 DEF Bootstrap
<1>8. QED
  BY <1>2, <1>4, <1>5, <1>6, <1>7, DeviantRecorded

LEMMA RInvStep == RInv /\ [Next]_vars => RInv'
<1> SUFFICES ASSUME RInv, [Next]_vars
             PROVE  RInv'
  OBVIOUS
<1>1. IInv /\ IInv'
  BY InvStep DEF RInv
<1>2. CASE sent' = sent
  BY <1>1, <1>2
  DEF RInv, WellShaped, NoncesSeen, PopRecorded, Made, Recent, Hellos, SentBy, Fresh
<1>3. ASSUME NEW a \in Honest, Initiate(a)
      PROVE  RInv'
  <2>1. PICK peer \in Aid \ {a}, n \in Fresh :
          SendHonestly(a, peer, Hello(a, "mutual_hello", peer, n, Absent), Absent)
    BY <1>3 DEF Initiate
  <2>2. QED
    BY <1>1, <2>1, HelloRecorded DEF Bootstrap
<1>4. ASSUME NEW b \in Honest, Answer(b)
      PROVE  RInv'
  <2>1. PICK h \in Received("mutual_hello"), n \in Fresh :
          SendHonestly(b, h.env.sender,
                       Hello(b, "mutual_hello_ack", h.env.sender, n, h.env.pop_nonce), h.env)
    BY <1>4 DEF Answer
  <2>2. h.env.pop_nonce \notin Fresh
    BY HelloNonceSeen DEF Received, Bootstrap
  <2>3. QED
    BY <1>1, <2>1, <2>2, HelloRecorded DEF Bootstrap
<1>5. ASSUME NEW a \in Honest, Confirm(a)
      PROVE  RInv'
  <2>1. PICK h \in SentBy({a}, "mutual_hello"), x \in Received("mutual_hello_ack") :
          SendHonestly(a, h.to, CommitTo(a, "mutual_commit", h.to, x.env.pop_nonce), x.env)
    BY <1>5 DEF Confirm
  <2>2. x.env.pop_nonce \notin Fresh
    BY HelloNonceSeen DEF Received, Bootstrap
  <2>3. QED
    BY <1>1, <2>1, <2>2, CommitRecorded DEF Commit
<1>6. ASSUME NEW b \in Honest, Finish(b)
      PROVE  RInv'
  <2>1. PICK k \in SentBy({b}, "mutual_hello_ack"), x \in Received("mutual_commit") :
          SendHonestly(b, k.to,
                       CommitTo(b, "mutual_commit_ack", k.to, k.env.pop_nonce_echo), x.env)
    BY <1>6 DEF Finish
  <2>2. k.env.pop_nonce_echo \notin Fresh
    BY DEF RInv, NoncesSeen, SentBy
  <2>3. QED
    BY <1>1, <2>1, <2>2, CommitRecorded DEF Commit
<1>7. QED
  BY <1>1, <1>2, <1>3, <1>4, <1>5, <1>6, CorruptRecorded, ComposeRecorded,
     ComposeCommitRecorded, WorldAssumption DEF Next, Tick, vars

LEMMA Round2Invariance == Spec => []RInv
<1>1. Init => RInv
  BY InitInv DEF Init, RInv
<1>2. QED
  BY <1>1, RInvStep, PTL DEF Spec

\* What a commit has passed that is accepted, and what is enough.
LEMMA CommitAccepted ==
  ASSUME NEW m, NEW receiver, NEW time, m.message_type \in Commit, m.version = PROTOCOL_VERSION,
         m.defects \subseteq {"float_timestamp"}
  PROVE  verify_handshake_payload(m, receiver, time) = OK <=>
           /\ check_round2_pop(m.pop, m.sender, receiver) = OK
           /\ m.tct.compact
           /\ verify_embedded_tct(m.tct, receiver, time) = OK
           /\ receiver.offered # Absent => m.tct.grants \subseteq receiver.offered
<1> DEFINE rest == CASE m.message_type \in Bootstrap -> verify_bootstrap(m, receiver, time)
                     [] m.message_type \in Commit    -> verify_commit(m, m.sender, receiver, time)
                     [] OTHER                        -> "INVALID_ENVELOPE"
<1>1. rest = verify_commit(m, m.sender, receiver, time)
  <2>1. m.message_type \notin Bootstrap
    BY DEF Bootstrap, Commit
  <2>2. QED
    BY <2>1, Zenon
<1>2. validate_envelope_shape(m) = OK
  <2>1. /\ "object" \notin m.defects /\ {"timestamp", "shape"} \cap m.defects = {}
        /\ "unknown_member" \notin m.defects /\ "grammar" \notin m.defects
        /\ "unknown_sender_member" \notin m.defects
    OBVIOUS
  <2>2. QED
    BY <2>1, SixChecks DEF validate_envelope_shape, Check
<1>3. verify_handshake_payload(m, receiver, time) = OK <=>
        verify_commit(m, m.sender, receiver, time) = OK
  <2>1. verify_handshake_payload(m, receiver, time)
          = FirstError(<<validate_envelope_shape(m), rest>>)
    BY DEF verify_handshake_payload
  <2> HIDE DEF rest
  <2>2. QED
    BY <1>1, <1>2, <2>1, TwoChecks
<1>4. verify_commit(m, m.sender, receiver, time) = OK <=>
        /\ "payload_unknown" \notin m.defects /\ "payload_members" \notin m.defects
        /\ check_round2_pop(m.pop, m.sender, receiver) = OK
        /\ m.tct.compact
        /\ verify_embedded_tct(m.tct, receiver, time) = OK
        /\ receiver.offered # Absent => m.tct.grants \subseteq receiver.offered
  BY SixChecks DEF verify_commit, parse_compact, Check, OK
<1>5. QED
  BY <1>3, <1>4

\* The token in a commit passes what verify_tct asks, less the last two checks.
LEMMA EmbeddedTctAccepted ==
  ASSUME NEW token, NEW receiver, NEW time
  PROVE  verify_embedded_tct(token, receiver, time) = OK <=>
           /\ verify_jws(token, token.iss, "aitp-tct+jwt", TctErrors,
                         check_tct_claims_shape(token, "TCT_SIGNATURE_INVALID")) = OK
           /\ token.ver = PROTOCOL_VERSION
           /\ receiver.selfAid \in {Absent, token.aud}
           /\ time < token.exp
           /\ check_grant_context(token) = OK
           /\ token.sub \in Aid
           /\ check_cnf(token, "TCT_CNF_MISMATCH") = OK
BY SevenChecks DEF verify_embedded_tct, Check, OK

-----------------------------------------------------------------------------
(***************************************************************************)
(* Nobody signs with a key of an honest agent but the agent itself, and no *)
(* two of the hellos and acks of honest agents have one nonce.             *)
(***************************************************************************)
THEOREM TypeCorrect == Spec => []TypeOK
<1>1. IInv => TypeOK
  BY DEF IInv, TypeOK, WellFormed, UniqueNonces, Hellos
<1>2. QED
  BY Invariance, <1>1, PTL

(***************************************************************************)
(* No misdelivered hello or ack is accepted, and none made of the parts of *)
(* others (_verify_bootstrap).                                             *)
(***************************************************************************)
THEOREM MeantForMeHolds == Spec => []MeantForMe
<1>1. IInv => MeantForMe
  <2> SUFFICES ASSUME IInv, NEW m \in sent, NEW r \in Honest,
                      m.env.message_type \in Bootstrap, m.env.sender \in Honest,
                      Accepts(Receiver(r), m.env)
               PROVE  m.by = m.env.sender /\ m.to = r
    BY DEF MeantForMe
  <2>1. Receiver(r).selfAid = r /\ r # Absent
    BY WorldAssumption, AidAssumption DEF Receiver
  <2>2. QED
    BY <2>1, Genuine
<1>2. QED
  BY Invariance, <1>1, PTL

(***************************************************************************)
(* Nobody is accepted under the subject of somebody else (_verify_oidc).   *)
(***************************************************************************)
THEOREM SubjectIsOwnedHolds == Spec => []SubjectIsOwned
<1>1. IInv => SubjectIsOwned
  <2> SUFFICES ASSUME IInv, NEW m \in sent, NEW r \in Honest,
                      m.env.message_type \in Bootstrap, Accepts(Receiver(r), m.env),
                      m.env.identity.type = "oidc"
               PROVE  m.env.identity.subject = Subject[m.env.sender]
    BY DEF SubjectIsOwned
  <2> DEFINE identity == m.env.identity
             receiver == Receiver(r)
             candidates == candidates_of(receiver, identity.issuer)
  <2>1. receiver.selfAid # Absent
    BY WorldAssumption, AidAssumption DEF Receiver
  <2>2. verify_identity(identity, m.env, receiver, now) = OK
    BY BootstrapAccepted DEF Accepts
  <2>3. /\ identity.subject = identity.proof.sub
        /\ m.env.sender \in Aid /\ identity.proof.jkt = KeyOf[m.env.sender]
        /\ \E k \in DOMAIN candidates : identity.proof.signer = candidates[k].key
    <3> HIDE DEF receiver
    <3>1. QED
      BY <2>1, <2>2, IdentityAccepted
  <2>4. candidates = IdpKeys \/ candidates = <<>>
    BY DEF candidates_of, Receiver
  <2>5. identity.proof.signer \notin Key
    BY <2>3, <2>4, WorldAssumption
  <2>6. PICK a \in Aid : identity.proof.jkt = KeyOf[a] /\ identity.proof.sub = Subject[a]
    BY <2>5 DEF IInv, SubjectVouched
  <2>7. a = m.env.sender
    BY <2>3, <2>6, WorldAssumption
  <2>8. QED
    BY <2>3, <2>6, <2>7
<1>2. QED
  BY Invariance, <1>1, PTL

\* An accepted ack is the answer to the hello of its handshake.
LEMMA AckOfItsHello == IInv => AckAnswersHello
<1> SUFFICES ASSUME IInv, NEW h \in SentBy(Honest, "mutual_hello"),
                    NEW m \in Received("mutual_hello_ack"),
                    h.to \in Honest, Accepts(Initiator(h), m.env)
             PROVE  m.by = h.to /\ m.to = h.by /\ m.answers = h.env
  BY DEF AckAnswersHello
<1> DEFINE receiver == Initiator(h)
<1>1. /\ h \in sent /\ h.by \in Honest /\ h.env.message_type = "mutual_hello"
      /\ m \in sent /\ m.env.message_type = "mutual_hello_ack"
  BY DEF SentBy, Received
<1>2. /\ receiver.selfAid = h.by /\ receiver.peerAid = h.to
      /\ receiver.sentNonce = h.env.pop_nonce
  BY DEF Initiator, Receiver
<1>3. h.by # Absent /\ h.to # Absent /\ h.env.pop_nonce \in Nonce
  BY <1>1, WorldAssumption, AidAssumption DEF IInv, NamesReceiver, Bootstrap
<1>4. check_peer(m.env, receiver) = OK /\ check_echo(m.env, receiver) = OK
  BY <1>1, BootstrapAccepted DEF Accepts, Bootstrap
<1> HIDE DEF receiver
<1>5. m.env.sender = h.to /\ m.env.pop_nonce_echo = h.env.pop_nonce
  BY <1>1, <1>2, <1>3, <1>4, WorldAssumption DEF check_peer, check_echo, Check, OK
<1>6. m.by = h.to /\ m.to = h.by
  BY <1>1, <1>2, <1>3, <1>5, Genuine DEF Bootstrap, receiver
<1>7. PICK x \in SentBy({h.by}, "mutual_hello") : x.env = m.answers
  BY <1>1, <1>6 DEF IInv, AckRecords
<1>8. x.env.pop_nonce = h.env.pop_nonce
  BY <1>1, <1>5, <1>6, <1>7 DEF IInv, AckRecords
<1>9. x = h
  BY <1>1, <1>8 DEF IInv, UniqueNonces, Hellos, SentBy
<1>10. QED
  BY <1>6, <1>7, <1>9

(***************************************************************************)
(* In concurrent and repeated handshakes of two agents no ack is taken for *)
(* that of another handshake (the nonce echo of _verify_bootstrap).        *)
(***************************************************************************)
THEOREM AckAnswersHelloHolds == Spec => []AckAnswersHello
BY Invariance, AckOfItsHello, PTL

(***************************************************************************)
(* Nobody makes an agent accept an old proof of possession in a new        *)
(* handshake: the proof of an honest peer is no older than the nonce it    *)
(* answers (check_round2_pop, with the nonce the caller remembers).        *)
(***************************************************************************)
THEOREM Round2IsFreshHolds == Spec => []Round2IsFresh
<1>1. RInv => Round2IsFresh
  <2> SUFFICES ASSUME RInv, NEW h \in Hellos,
                      NEW m \in Received("mutual_commit") \cup Received("mutual_commit_ack"),
                      m.env.sender \in Honest, m.env.pop # Absent,
                      Accepts(Committed(h), m.env)
               PROVE  \E c \in sent : /\ c.by = m.env.sender
                                      /\ c.env.pop = m.env.pop
                                      /\ c.env.timestamp >= h.env.timestamp
    BY DEF Round2IsFresh, Hellos
  <2> DEFINE receiver == Committed(h)
             pop == m.env.pop
             sender == m.env.sender
  <2>1. /\ h \in sent /\ h.by \in Honest /\ h.env.message_type \in Bootstrap
        /\ m \in sent /\ m.env.message_type \in Commit
    BY DEF Hellos, SentBy, Received, Bootstrap, Commit
  <2>2. receiver.selfNonce = h.env.pop_nonce /\ receiver.selfNonce # Absent
    BY <2>1, WorldAssumption DEF Committed, Receiver, RInv, IInv, NamesReceiver
  <2>3. WellShaped(m) /\ PopRecorded(m)
    BY <2>1 DEF RInv
  <2> HIDE DEF receiver
  <2>4. check_round2_pop(pop, sender, receiver) = OK
    BY <2>1, <2>3, CommitAccepted DEF Accepts, WellShaped, receiver
  <2>5. pop.signer = KeyOf[sender] /\ pop.nonce = h.env.pop_nonce
    BY <2>2, <2>4, TwoChecks DEF check_round2_pop, Check, OK
  <2>6. PICK c \in sent : c.by = sender /\ c.env.pop = pop /\ Recent(c)
    BY <2>3, <2>5 DEF PopRecorded, Made
  <2>7. h.env.timestamp <= c.env.timestamp
    BY <2>5, <2>6 DEF Recent
  <2>8. h.env.timestamp \in Nat /\ c.env.timestamp \in Nat
    BY <2>1, <2>6, WorldAssumption DEF RInv, IInv, WellFormed
  <2>9. QED
    BY <2>6, <2>7, <2>8
<1>2. QED
  BY Round2Invariance, <1>1, PTL

(***************************************************************************)
(* The checks of a token that are written out again for the commits are    *)
(* those of verify_tct, no more and no less (_verify_embedded_tct).        *)
(***************************************************************************)
THEOREM CommitTctStandsHolds == Spec => []CommitTctStands
<1>1. RInv => CommitTctStands
  <2> SUFFICES ASSUME RInv, NEW r \in Honest,
                      NEW m \in Received("mutual_commit") \cup Received("mutual_commit_ack")
               PROVE  Accepts(Receiver(r), m.env) <=>
                        verify_tct(m.env.tct,
                          [ audience |-> r, manifestExpiresAt |-> Absent, snapshot |-> Absent,
                            policy |-> [NoPolicy EXCEPT !.mode = "fail_open"] ], now) = OK
    BY DEF CommitTctStands
  <2> DEFINE token == m.env.tct
             receiver == Receiver(r)
             open == [NoPolicy EXCEPT !.mode = "fail_open"]
             env == [ audience |-> r, manifestExpiresAt |-> Absent, snapshot |-> Absent,
                      policy |-> open ]
  <2>1. m \in sent /\ m.env.message_type \in Commit /\ WellShaped(m)
    BY DEF Received, Commit, RInv
  <2>2. receiver.selfAid = r /\ receiver.selfNonce = Absent /\ receiver.offered = Absent
    BY DEF Receiver
  <2>3. /\ env.audience = r /\ env.manifestExpiresAt = Absent /\ env.snapshot = Absent
        /\ env.policy = open
    OBVIOUS
  <2>4. open # Absent /\ open.mode = "fail_open"
    BY WorldAssumption DEF NoPolicy
  <2> HIDE DEF receiver, env, open
  <2>5. policy_fail_mode(env.policy) = "fail_open"
    BY <2>3, <2>4 DEF policy_fail_mode, policy_of, resolve_fail_mode, FAIL_MODES
  <2>6. check_revocation(token, env.snapshot, env.policy, now) = OK
    BY <2>3, <2>5 DEF check_revocation, snapshot_applies, apply_absence, Check
  <2>7. check_manifest_cap(token, env.manifestExpiresAt) = OK
    BY <2>3 DEF check_manifest_cap, Check
  <2>8. verify_handshake_payload(m.env, receiver, now) = OK <=>
          token.compact /\ verify_embedded_tct(token, receiver, now) = OK
    BY <2>1, <2>2, CommitAccepted DEF WellShaped, check_round2_pop
  <2>9. verify_jws(token, token.iss, "aitp-tct+jwt", TctErrors,
                   check_tct_claims_shape(token, "TCT_SIGNATURE_INVALID")) = OK
          => token.compact
    BY SevenChecks DEF verify_jws, parse_compact, Check, OK, TctErrors
  <2>10. verify_tct(token, env, now) = OK <=> verify_embedded_tct(token, receiver, now) = OK
    BY <2>2, <2>3, <2>6, <2>7, EmbeddedTctAccepted, TctAccepted
  <2>11. QED
    BY <2>8, <2>9, <2>10, EmbeddedTctAccepted DEF Accepts, receiver, env, open
<1>2. QED
  BY Round2Invariance, <1>1, PTL

-----------------------------------------------------------------------------
(***************************************************************************)
(* The other direction: what an honest agent sends to an honest one meets  *)
(* every check.  It needs to know all of a message, and which handshake of *)
(* its receiver the message belongs to.                                    *)
(***************************************************************************)
JwtStands(jwt, m) ==
  /\ jwt.compact /\ jwt.forbidden = FALSE
  /\ jwt.alg = IdpKey.alg /\ jwt.kid = IdpKey.kid /\ jwt.signer = IdpKey.key
  /\ jwt.iss = Idp /\ jwt.sub = Subject[m.by]
  /\ jwt.exp = m.env.timestamp + Lifetime /\ jwt.iat = m.env.timestamp
  /\ jwt.aud = m.to /\ jwt.nonce = m.env.pop_nonce /\ jwt.jkt = KeyOf[m.by]

PinnedStands(proof, m) ==
  /\ proof.signer = KeyOf[m.by]
  /\ proof.covers = [ sender |-> m.by, receiver |-> m.to, message_id |-> m.env.message_id,
                      timestamp |-> m.env.timestamp, nonce |-> m.env.pop_nonce ]

IdentityStands(identity, m) ==
  /\ identity.object /\ identity.defects = {} /\ identity.type = TypeOf[m.by]
  /\ identity.subject = Subject[m.by]
  /\ TypeOf[m.by] = "oidc" =>
       /\ identity.issuer = Idp /\ identity.public_key = Absent
       /\ JwtStands(identity.proof, m)
  /\ TypeOf[m.by] = "pinned_key" =>
       /\ identity.issuer = Absent /\ identity.public_key = KeyOf[m.by]
       /\ PinnedStands(identity.proof, m)

TctStands(token, m) ==
  /\ token.compact /\ token.members /\ token.typ = "aitp-tct+jwt" /\ token.defects = {}
  /\ token.alg = AlgOf[KeyOf[m.by]] /\ token.signer = KeyOf[m.by]
  /\ token.ver = PROTOCOL_VERSION /\ token.iss = m.by /\ token.sub = m.to /\ token.aud = m.to
  /\ token.exp = m.env.timestamp + Lifetime /\ token.grants = Grants /\ token.jkt = KeyOf[m.to]

HelloStands(m) ==
  m.env.message_type \in Bootstrap =>
    /\ m.env.manifest = ManifestOf(m.by)
    /\ IdentityStands(m.env.identity, m)

AckStands(m) ==
  m.env.message_type = "mutual_hello_ack" =>
    \E h \in SentBy({m.to}, "mutual_hello") :
      h.to = m.by /\ h.env.pop_nonce = m.env.pop_nonce_echo

CommitStands(m) ==
  m.env.message_type \in Commit =>
    /\ TctStands(m.env.tct, m)
    /\ m.env.pop.signer = KeyOf[m.by]
    /\ \E h \in SentBy({m.to}, "mutual_hello") \cup SentBy({m.to}, "mutual_hello_ack") :
         h.env.pop_nonce = m.env.pop.nonce

Stands(m) ==
  /\ m.by # m.to /\ m.env.message_type \in Bootstrap \cup Commit
  /\ HelloStands(m) /\ AckStands(m) /\ CommitStands(m)

HonestInv ==
  /\ RInv
  /\ \A m \in sent : m.by \in Honest /\ m.to \in Honest => Stands(m)

LEMMA StandingMessage ==
  ASSUME HonestInv, RInv', NEW m, sent' = sent \cup {m},
         m.by \in Honest /\ m.to \in Honest => Stands(m)
  PROVE  HonestInv'
<1>1. ASSUME NEW x, Stands(x)
      PROVE  Stands(x)'
  <2>1. HelloStands(x)'
    BY <1>1 DEF Stands, HelloStands, IdentityStands, JwtStands, PinnedStands
  <2>2. AckStands(x)'
    BY <1>1 DEF Stands, AckStands, SentBy
  <2>3. CommitStands(x)'
    BY <1>1 DEF Stands, CommitStands, TctStands, SentBy
  <2>4. QED
    BY <1>1, <2>1, <2>2, <2>3 DEF Stands
<1>2. QED
  BY <1>1 DEF HonestInv

-----------------------------------------------------------------------------
\* All of what is sent.
LEMMA HelloWhole ==
  ASSUME NEW a, NEW type, NEW peer, NEW nonce, NEW echo
  PROVE  LET env == Hello(a, type, peer, nonce, echo)
         IN  /\ env.manifest = ManifestOf(a) /\ env.message_id = nonce
             /\ env.identity = IdentityOf(a, peer, nonce)
             /\ env.timestamp = now /\ env.message_type = type
             /\ env.pop_nonce = nonce /\ env.pop_nonce_echo = echo
BY DEF Hello, Blank

LEMMA CommitWhole ==
  ASSUME NEW a, NEW type, NEW peer, NEW nonce
  PROVE  LET env == CommitTo(a, type, peer, nonce)
         IN  /\ env.tct = TctFor(a, peer) /\ env.pop = Pop(a, nonce)
             /\ env.timestamp = now /\ env.message_type = type
BY DEF CommitTo, Blank

LEMMA IdentityWhole ==
  ASSUME NEW m, m.by \in Aid, m.env.identity = IdentityOf(m.by, m.to, m.env.pop_nonce),
         m.env.timestamp = now, m.env.message_id = m.env.pop_nonce
  PROVE  IdentityStands(m.env.identity, m)
<1> DEFINE identity == IdentityOf(m.by, m.to, m.env.pop_nonce)
<1>1. /\ identity.object /\ identity.defects = {} /\ identity.type = TypeOf[m.by]
      /\ identity.subject = Subject[m.by]
  BY DEF IdentityOf
<1>2. CASE TypeOf[m.by] = "oidc"
  <2> DEFINE jwt == Jwt(m.by, m.to, m.env.pop_nonce)
  <2>1. identity.issuer = Idp /\ identity.public_key = Absent /\ identity.proof = jwt
    BY <1>2 DEF IdentityOf
  <2>2. JwtStands(jwt, m)
    BY DEF JwtStands, Jwt
  <2> HIDE DEF identity, jwt
  <2>3. QED
    BY <1>1, <1>2, <2>1, <2>2 DEF IdentityStands, identity
<1>3. CASE TypeOf[m.by] = "pinned_key"
  <2> DEFINE proof == PinnedProof(m.by, m.to, m.env.pop_nonce)
  <2>1. identity.issuer = Absent /\ identity.public_key = KeyOf[m.by] /\ identity.proof = proof
    BY <1>3 DEF IdentityOf
  <2>2. PinnedStands(proof, m)
    BY DEF PinnedStands, PinnedProof
  <2> HIDE DEF identity, proof
  <2>3. QED
    BY <1>1, <1>3, <2>1, <2>2 DEF IdentityStands, identity
<1>4. QED
  BY <1>2, <1>3, WorldAssumption

LEMMA TctWhole ==
  ASSUME NEW m, m.env.tct = TctFor(m.by, m.to), m.env.timestamp = now
  PROVE  TctStands(m.env.tct, m)
BY DEF TctStands, TctFor

\* A new hello or ack, and a new commit.
LEMMA HelloCarriesOn ==
  ASSUME HonestInv, RInv', NEW a \in Honest, NEW type \in Bootstrap, NEW peer, NEW n, NEW echo,
         NEW answers, a # peer,
         SendHonestly(a, peer, Hello(a, type, peer, n, echo), answers),
         type = "mutual_hello_ack" /\ peer \in Honest =>
           \E h \in SentBy({peer}, "mutual_hello") : h.to = a /\ h.env.pop_nonce = echo
  PROVE  HonestInv'
<1> DEFINE env == Hello(a, type, peer, n, echo)
           m == [by |-> a, to |-> peer, env |-> env, answers |-> answers]
<1>1. sent' = sent \cup {m}
  BY DEF SendHonestly, Send
<1>2. /\ env.manifest = ManifestOf(a) /\ env.message_id = n
      /\ env.identity = IdentityOf(a, peer, n)
      /\ env.timestamp = now /\ env.message_type = type
      /\ env.pop_nonce = n /\ env.pop_nonce_echo = echo
  BY HelloWhole
<1> HIDE DEF env
<1>3. m.by = a /\ m.to = peer /\ m.env = env
  OBVIOUS
<1> HIDE DEF m
<1>4. a \in Aid /\ type \notin Commit
  BY WorldAssumption DEF Bootstrap, Commit
<1>5. IdentityStands(m.env.identity, m)
  BY <1>2, <1>3, <1>4, IdentityWhole
<1>6. m.to \in Honest => Stands(m)
  BY <1>2, <1>3, <1>4, <1>5 DEF Stands, HelloStands, AckStands, CommitStands
<1>7. QED
  BY <1>1, <1>6, StandingMessage

LEMMA CommitCarriesOn ==
  ASSUME HonestInv, RInv', NEW a \in Honest, NEW type \in Commit, NEW peer, NEW n, NEW answers,
         SendHonestly(a, peer, CommitTo(a, type, peer, n), answers),
         peer \in Honest =>
           /\ a # peer
           /\ \E h \in SentBy({peer}, "mutual_hello") \cup SentBy({peer}, "mutual_hello_ack") :
                h.env.pop_nonce = n
  PROVE  HonestInv'
<1> DEFINE env == CommitTo(a, type, peer, n)
           m == [by |-> a, to |-> peer, env |-> env, answers |-> answers]
<1>1. sent' = sent \cup {m}
  BY DEF SendHonestly, Send
<1>2. /\ env.tct = TctFor(a, peer) /\ env.pop = Pop(a, n)
      /\ env.timestamp = now /\ env.message_type = type
  BY CommitWhole
<1> HIDE DEF env
<1>3. m.by = a /\ m.to = peer /\ m.env = env
  OBVIOUS
<1> HIDE DEF m
<1>4. type \notin Bootstrap /\ type # "mutual_hello_ack"
  BY DEF Bootstrap, Commit
<1>5. TctStands(m.env.tct, m)
  BY <1>2, <1>3, TctWhole
<1>6. m.env.pop.signer = KeyOf[m.by] /\ m.env.pop.nonce = n
  BY <1>2, <1>3 DEF Pop
<1>7. m.to \in Honest => Stands(m)
  BY <1>2, <1>3, <1>4, <1>5, <1>6 DEF Stands, HelloStands, AckStands, CommitStands
<1>8. QED
  BY <1>1, <1>7, StandingMessage

LEMMA HonestStep == HonestInv /\ [Next]_vars => HonestInv'
<1> SUFFICES ASSUME HonestInv, [Next]_vars
             PROVE  HonestInv'
  OBVIOUS
<1>1. RInv /\ RInv' /\ IInv
  BY RInvStep DEF HonestInv, RInv
<1>2. CASE sent' = sent
  BY <1>1, <1>2 DEF HonestInv, Stands, HelloStands, AckStands, CommitStands, IdentityStands,
     JwtStands, PinnedStands, TctStands, SentBy
<1>3. ASSUME NEW a \in Honest, Initiate(a)
      PROVE  HonestInv'
  <2>1. PICK peer \in Aid \ {a}, n \in Fresh :
          SendHonestly(a, peer, Hello(a, "mutual_hello", peer, n, Absent), Absent)
    BY <1>3 DEF Initiate
  <2>2. QED
    BY <1>1, <2>1, HelloCarriesOn DEF Bootstrap
<1>4. ASSUME NEW b \in Honest, Answer(b)
      PROVE  HonestInv'
  <2>1. PICK h \in Received("mutual_hello"), n \in Fresh :
          /\ Accepts(Receiver(b), h.env)
          /\ SendHonestly(b, h.env.sender,
                       Hello(b, "mutual_hello_ack", h.env.sender, n, h.env.pop_nonce), h.env)
    BY <1>4 DEF Answer
  <2>2. h \in sent /\ h.env.message_type = "mutual_hello" /\ h.env.message_type \in Bootstrap
    BY DEF Received, Bootstrap
  <2>3. Receiver(b).selfAid = b /\ b # Absent
    BY WorldAssumption, AidAssumption DEF Receiver
  <2>4. h.env.sender \in Honest => h.by = h.env.sender /\ h.to = b
    BY <1>1, <2>1, <2>2, <2>3, Genuine
  <2>5. h.env.sender \in Honest => Stands(h)
    BY <2>2, <2>4 DEF HonestInv
  <2>6. b # h.env.sender
    BY <2>4, <2>5 DEF Stands
  <2>7. h.env.sender \in Honest => h \in SentBy({h.env.sender}, "mutual_hello")
    BY <2>2, <2>4 DEF SentBy
  <2>8. QED
    BY <1>1, <2>1, <2>4, <2>6, <2>7, HelloCarriesOn DEF Bootstrap
<1>5. ASSUME NEW a \in Honest, Confirm(a)
      PROVE  HonestInv'
  <2>1. PICK h \in SentBy({a}, "mutual_hello"), x \in Received("mutual_hello_ack") :
          /\ Accepts(Initiator(h), x.env)
          /\ SendHonestly(a, h.to, CommitTo(a, "mutual_commit", h.to, x.env.pop_nonce), x.env)
    BY <1>5 DEF Confirm
  <2>2. h \in SentBy(Honest, "mutual_hello") /\ h \in sent /\ h.by = a /\ x \in sent
        /\ x.env.message_type = "mutual_hello_ack"
    BY DEF SentBy, Received
  <2>3. h.to \in Honest => a # h.to
    BY <2>2 DEF HonestInv, Stands
  <2>4. h.to \in Honest => x \in SentBy({h.to}, "mutual_hello_ack")
    BY <1>1, <2>1, <2>2, AckOfItsHello DEF AckAnswersHello, SentBy
  <2>5. QED
    BY <1>1, <2>1, <2>3, <2>4, CommitCarriesOn DEF Commit
<1>6. ASSUME NEW b \in Honest, Finish(b)
      PROVE  HonestInv'
  <2>1. PICK k \in SentBy({b}, "mutual_hello_ack"), x \in Received("mutual_commit") :
          SendHonestly(b, k.to,
                       CommitTo(b, "mutual_commit_ack", k.to, k.env.pop_nonce_echo), x.env)
    BY <1>6 DEF Finish
  <2>2. k \in sent /\ k.by = b /\ k.env.message_type = "mutual_hello_ack"
    BY DEF SentBy
  <2>3. k.to \in Honest => Stands(k)
    BY <2>2 DEF HonestInv
  <2>4. k.to \in Honest =>
          /\ b # k.to
          /\ \E h \in SentBy({k.to}, "mutual_hello") : h.env.pop_nonce = k.env.pop_nonce_echo
    BY <2>2, <2>3 DEF Stands, AckStands
  <2>5. QED
    BY <1>1, <2>1, <2>4, CommitCarriesOn DEF Commit
<1>7. ASSUME NEW by \in (Aid \cup {Absent}) \ Honest, NEW env, SendDeviantly(by, env)
      PROVE  HonestInv'
  <2> DEFINE m == [by |-> by, to |-> Absent, env |-> env, answers |-> Absent]
  <2>1. sent' = sent \cup {m} /\ m.by \notin Honest
    BY <1>7 DEF SendDeviantly, Send
  <2> HIDE DEF m
  <2>2. QED
    BY <1>1, <2>1, StandingMessage
<1>8. Absent \notin Honest
  BY WorldAssumption, AidAssumption
<1>9. CASE Corrupt
  BY <1>7, <1>8, <1>9 DEF Corrupt
<1>10. ASSUME NEW d \in Aid \ Honest, Compose(d)
       PROVE  HonestInv'
  <2>1. \E env : SendDeviantly(d, env)
    BY <1>10 DEF Compose
  <2>2. QED
    BY <1>7, <2>1
<1>11. ASSUME NEW d \in Aid \ Honest, ComposeCommit(d)
       PROVE  HonestInv'
  <2>1. \E env : SendDeviantly(d, env)
    BY <1>11 DEF ComposeCommit, CommitAs
  <2>2. QED
    BY <1>7, <2>1
<1>12. CASE Tick \/ UNCHANGED vars
  BY <1>2, <1>12 DEF Tick, vars
<1>13. CASE \E a \in Initiators : Initiate(a)
  BY <1>3, <1>13, WorldAssumption
<1>14. CASE \E a \in Honest : Answer(a) \/ Confirm(a) \/ Finish(a)
  BY <1>4, <1>5, <1>6, <1>14
<1>15. CASE \E d \in Aid \ Honest : Compose(d) \/ ComposeCommit(d)
  BY <1>10, <1>11, <1>15
<1>16. QED
  BY <1>9, <1>12, <1>13, <1>14, <1>15 DEF Next

LEMMA HonestInvariance == Spec => []HonestInv
<1>1. Init => HonestInv
  BY InitInv DEF Init, RInv, HonestInv
<1>2. QED
  BY <1>1, HonestStep, PTL DEF Spec

-----------------------------------------------------------------------------
(***************************************************************************)
(* Acceptance, check by check.                                             *)
(***************************************************************************)
Configured(receiver, a) ==
  /\ receiver.selfAid = a /\ receiver.trustAnchors = {Idp}
  /\ receiver.issuerKeys = [i \in {Idp} |-> IdpKeys]
  /\ receiver.trustStore = {KeyOf[b] : b \in {c \in Honest : TypeOf[c] = "pinned_key"}}
  /\ receiver.acceptedTypes = {"oidc", "pinned_key"}

LEMMA ManifestStands ==
  ASSUME NEW a \in Aid, NEW man, man = ManifestOf(a), now < MaxTime
  PROVE  man.aid = a /\ man.hint.type = TypeOf[a] /\ verify_manifest(man, {PROTOCOL_VERSION}, now) = OK
<1>1. /\ man.version = PROTOCOL_VERSION /\ man.aid = a /\ man.expires_at = MaxTime
      /\ man.popSigner = KeyOf[a] /\ man.signer = KeyOf[a] /\ man.defects = {}
      /\ man.hint.type = TypeOf[a]
  BY DEF ManifestOf
<1>2. validate_identity_hint(man) = OK
  <2>1. CASE TypeOf[a] = "oidc"
    <3>1. man.hint.type = "oidc" /\ man.hint.issuer = Idp /\ man.hint.public_key = Absent
      BY <2>1 DEF ManifestOf
    <3>2. QED
      BY <1>1, <3>1, WorldAssumption DEF validate_identity_hint, IdentityTypes, Check
  <2>2. CASE TypeOf[a] = "pinned_key"
    <3>1. man.hint.type = "pinned_key" /\ man.hint.public_key = KeyOf[a]
      BY <2>2 DEF ManifestOf
    <3>2. KeyOf[a] # Absent
      BY WorldAssumption, AidAssumption
    <3>3. QED
      BY <1>1, <3>1, <3>2 DEF validate_identity_hint, IdentityTypes, Check
  <2>3. QED
    BY <2>1, <2>2, WorldAssumption
<1>3. verify_manifest(man, {PROTOCOL_VERSION}, now) = OK
  BY <1>1, <1>2, ElevenChecks DEF verify_manifest, Check, SignedBy
<1>4. QED
  BY <1>1, <1>3

LEMMA OidcStands ==
  ASSUME NEW m, m.by \in Aid, m.to \in Aid, m.env.sender = m.by, m.env.pop_nonce \in Nonce,
         m.env.timestamp \in 0 .. now, now \in Nat,
         IdentityStands(m.env.identity, m), TypeOf[m.by] = "oidc",
         now < m.env.timestamp + Lifetime, now - m.env.timestamp <= IatTolerance,
         NEW receiver, Configured(receiver, m.to)
  PROVE  verify_oidc(m.env.identity, m.env, receiver, now) = OK
<1> DEFINE identity   == m.env.identity
           jwt        == identity.proof
           candidates == candidates_of(receiver, identity.issuer)
           chosen     == candidates[select_issuer_key(candidates, jwt.kid)]
<1>1. identity.issuer = Idp /\ identity.public_key = Absent /\ JwtStands(jwt, m)
      /\ identity.subject = Subject[m.by]
  BY DEF IdentityStands
<1>2. candidates = IdpKeys
  BY <1>1 DEF candidates_of, Configured
<1>3. PICK k \in DOMAIN IdpKeys :
        IdpKeys[k] = IdpKey /\ \A j \in DOMAIN IdpKeys \ {k} : IdpKeys[j].kid # IdpKey.kid
  BY WorldAssumption
<1>4. eligible(candidates, jwt.kid) = {k} /\ IdpKeys # <<>>
  BY <1>1, <1>2, <1>3, WorldAssumption DEF JwtStands, eligible
<1>5. select_issuer_key(candidates, jwt.kid) = k
  BY <1>4 DEF select_issuer_key
<1>6. chosen.alg = jwt.alg /\ chosen.key = jwt.signer
  BY <1>1, <1>2, <1>3, <1>5 DEF JwtStands
<1>7. verify_claims(identity, m.env, receiver, now) = OK
  <2>1. /\ jwt.exp \in Nat /\ jwt.iat \in Nat /\ now < jwt.exp
        /\ now - jwt.iat <= IatTolerance /\ jwt.iat - now <= IatTolerance
    BY <1>1, WorldAssumption DEF JwtStands
  <2>2. jwt.exp # Absent /\ jwt.iat # Absent /\ jwt.aud # Absent /\ jwt.nonce # Absent
    BY <1>1, <2>1, WorldAssumption, AidAssumption DEF JwtStands
  <2>3. QED
    BY <1>1, <2>1, <2>2 DEF verify_claims, Check, JwtStands, Configured, Thumbprint
<1>8. jwt.compact /\ jwt.forbidden = FALSE /\ jwt.alg \in OidcAlgs
  BY <1>1, WorldAssumption DEF JwtStands
<1>9. Idp # Absent /\ Idp \in receiver.trustAnchors
  BY WorldAssumption DEF Configured
<1> HIDE DEF identity, jwt, candidates, chosen
<1> DEFINE form     == Check(identity.public_key = Absent /\ identity.issuer # Absent,
                            "IDENTITY_FAILED")
           anchored == Check(identity.issuer \in receiver.trustAnchors,
                             "INCOMPATIBLE_TRUST_ANCHORS")
           parsed   == parse_compact(jwt, "IDENTITY_FAILED")
           header   == Check(~ jwt.forbidden /\ jwt.alg \in OidcAlgs, "IDENTITY_FAILED")
           resolved == Check(candidates # <<>>, "KEY_RESOLUTION_FAILED")
           only     == Check(\E n \in DOMAIN candidates : eligible(candidates, jwt.kid) = {n},
                             "IDENTITY_FAILED")
           signed   == Check(/\ eligible(candidates, jwt.kid) # {}
                             /\ chosen.alg = jwt.alg
                             /\ chosen.key = jwt.signer, "IDENTITY_FAILED")
           claims   == verify_claims(identity, m.env, receiver, now)
<1>10. verify_oidc(identity, m.env, receiver, now)
         = FirstError(<<form, anchored, parsed, header, resolved, only, signed, claims>>)
  BY DEF verify_oidc, identity, jwt, candidates, chosen
<1>11. form = OK /\ anchored = OK /\ parsed = OK /\ header = OK /\ resolved = OK
  BY <1>1, <1>2, <1>4, <1>8, <1>9 DEF Check, parse_compact
<1>12. only = OK /\ signed = OK /\ claims = OK
  BY <1>2, <1>3, <1>4, <1>6, <1>7 DEF Check
<1> HIDE DEF form, anchored, parsed, header, resolved, only, signed, claims
<1>13. verify_oidc(identity, m.env, receiver, now) = OK
  BY <1>10, <1>11, <1>12, EightChecks
<1>14. QED
  BY <1>13 DEF identity

LEMMA PinnedKeyStands ==
  ASSUME NEW m, m.by \in Honest, m.env.sender = m.by,
         IdentityStands(m.env.identity, m), TypeOf[m.by] = "pinned_key",
         NEW receiver, Configured(receiver, m.to)
  PROVE  verify_pinned_key(m.env.identity, m.env, receiver) = OK
<1> DEFINE identity == m.env.identity
<1>1. /\ identity.issuer = Absent /\ identity.public_key = KeyOf[m.by]
      /\ PinnedStands(identity.proof, m)
  BY DEF IdentityStands
<1>2. m.by \in Aid /\ KeyOf[m.by] \in receiver.trustStore
  BY WorldAssumption DEF Configured
<1>3. identity.proof.covers = pinned_key_proof_input(m.env, receiver)
  BY <1>1 DEF PinnedStands, pinned_key_proof_input, Configured
<1>4. identity.proof.signer = KeyOf[m.env.sender]
  BY <1>1 DEF PinnedStands
<1>5. QED
  BY <1>1, <1>2, <1>3, <1>4 DEF verify_pinned_key, Check

LEMMA BootstrapStands ==
  ASSUME HonestInv, NEW m \in sent, m.by \in Honest, m.to \in Honest,
         m.env.message_type \in Bootstrap,
         now < m.env.timestamp + Lifetime, now < MaxTime,
         TypeOf[m.by] = "oidc" => now - m.env.timestamp <= IatTolerance,
         NEW receiver, Configured(receiver, m.to),
         check_peer(m.env, receiver) = OK, check_echo(m.env, receiver) = OK
  PROVE  Accepts(receiver, m.env)
<1> DEFINE env      == m.env
           identity == env.identity
           man      == env.manifest
<1>1. /\ m.by \in Aid /\ m.to \in Aid /\ env.sender = m.by /\ env.signer = KeyOf[m.by]
      /\ env.pop_nonce \in Nonce /\ env.timestamp \in 0 .. now /\ now \in Nat
      /\ env.version = PROTOCOL_VERSION /\ env.defects \subseteq {"float_timestamp"}
  BY WorldAssumption DEF HonestInv, RInv, IInv, WellFormed, WellShaped, NamesReceiver
<1>2. env.manifest = ManifestOf(m.by) /\ IdentityStands(identity, m)
  BY DEF HonestInv, Stands, HelloStands
<1>3. /\ man.aid = m.by /\ man.hint.type = TypeOf[m.by]
      /\ verify_manifest(man, {PROTOCOL_VERSION}, now) = OK
  BY <1>1, <1>2, ManifestStands
<1>4. identity.object /\ identity.defects = {} /\ identity.type = TypeOf[m.by]
  BY <1>2 DEF IdentityStands
<1>5. TypeOf[m.by] \in {"oidc", "pinned_key"}
  BY <1>1, WorldAssumption
<1>6. verify_identity(identity, env, receiver, now) = OK
  <2> DEFINE proof == CASE identity.type = "oidc"       -> verify_oidc(identity, env, receiver, now)
                        [] identity.type = "pinned_key" -> verify_pinned_key(identity, env, receiver)
                        [] OTHER                        -> "IDENTITY_FAILED"
  <2>1. ASSUME TypeOf[m.by] = "oidc"
        PROVE  proof = OK
    <3>1. verify_oidc(identity, env, receiver, now) = OK
      BY <1>1, <1>2, <2>1, OidcStands
    <3>2. identity.type = "oidc" /\ identity.type # "pinned_key"
      BY <1>4, <2>1
    <3>3. proof = verify_oidc(identity, env, receiver, now)
      BY <3>2, Zenon
    <3> HIDE DEF proof
    <3>4. QED
      BY <3>1, <3>3
  <2>2. ASSUME TypeOf[m.by] = "pinned_key"
        PROVE  proof = OK
    <3>1. verify_pinned_key(identity, env, receiver) = OK
      BY <1>1, <1>2, <2>2, PinnedKeyStands
    <3>2. identity.type = "pinned_key" /\ identity.type # "oidc"
      BY <1>4, <2>2
    <3>3. proof = verify_pinned_key(identity, env, receiver)
      BY <3>2, Zenon
    <3> HIDE DEF proof
    <3>4. QED
      BY <3>1, <3>3
  <2>3. verify_identity(identity, env, receiver, now) = FirstError(<<
          Check("unknown_member" \notin identity.defects, "UNKNOWN_FIELD"),
          Check(identity.type \in {"oidc", "pinned_key"} => "spiffe_member" \notin identity.defects,
                "IDENTITY_FAILED"), proof >>)
    BY DEF verify_identity
  <2> HIDE DEF proof
  <2>4. proof = OK
    BY <1>5, <2>1, <2>2
  <2>5. QED
    BY <1>4, <2>3, <2>4, ThreeChecks DEF Check
<1>7. verify_signature(env) = OK
  BY <1>1, ThreeChecks DEF verify_signature, Check, SignedBy
<1> HIDE DEF env, identity, man
<1>8. verify_bootstrap(env, receiver, now) = FirstError(<<
        Check("payload_unknown" \notin env.defects, "UNKNOWN_FIELD"),
        Check("payload_members" \notin env.defects, "INVALID_ENVELOPE"),
        check_peer(env, receiver),
        verify_manifest(man, {PROTOCOL_VERSION}, now),
        Check(man.aid = env.sender, "INVALID_ENVELOPE"),
        Check(identity.object /\ man.hint.type = identity.type, "IDENTITY_FAILED"),
        verify_identity(identity, env, receiver, now),
        verify_signature(env),
        Check(identity.type \in receiver.acceptedTypes, "INCOMPATIBLE_IDENTITY_TYPE"),
        check_echo(env, receiver) >>)
  BY DEF verify_bootstrap, man, identity
<1>9. /\ Check("payload_unknown" \notin env.defects, "UNKNOWN_FIELD") = OK
      /\ Check("payload_members" \notin env.defects, "INVALID_ENVELOPE") = OK
      /\ Check(man.aid = env.sender, "INVALID_ENVELOPE") = OK
      /\ Check(identity.object /\ man.hint.type = identity.type, "IDENTITY_FAILED") = OK
      /\ Check(identity.type \in receiver.acceptedTypes, "INCOMPATIBLE_IDENTITY_TYPE") = OK
  BY <1>1, <1>3, <1>4, <1>5 DEF Check, Configured
<1>10. verify_bootstrap(env, receiver, now) = OK
  BY <1>3, <1>6, <1>7, <1>8, <1>9, TenChecks DEF env
<1>11. validate_envelope_shape(env) = OK
  <2>1. /\ "object" \notin env.defects /\ {"timestamp", "shape"} \cap env.defects = {}
        /\ "unknown_member" \notin env.defects /\ "grammar" \notin env.defects
        /\ "unknown_sender_member" \notin env.defects
    BY <1>1
  <2>2. QED
    BY <1>1, <2>1, SixChecks DEF validate_envelope_shape, Check
<1> DEFINE rest == CASE env.message_type \in Bootstrap -> verify_bootstrap(env, receiver, now)
                     [] env.message_type \in Commit    -> verify_commit(env, env.sender, receiver, now)
                     [] OTHER                         -> "INVALID_ENVELOPE"
<1>12. rest = verify_bootstrap(env, receiver, now)
  <2>1. env.message_type \in Bootstrap /\ env.message_type \notin Commit
    BY DEF Bootstrap, Commit, env
  <2>2. QED
    BY <2>1, Zenon
<1>13. verify_handshake_payload(env, receiver, now) = FirstError(<<validate_envelope_shape(env), rest>>)
  BY DEF verify_handshake_payload
<1> HIDE DEF rest
<1>14. QED
  BY <1>10, <1>11, <1>12, <1>13, TwoChecks DEF Accepts, env

LEMMA CommitIsAccepted ==
  ASSUME HonestInv, NEW m \in sent, m.by \in Honest, m.to \in Honest,
         m.env.message_type \in Commit, now < m.env.timestamp + Lifetime,
         NEW h, h.by = m.to, h.env.pop_nonce = m.env.pop.nonce
  PROVE  Accepts(Committed(h), m.env)
<1> DEFINE env      == m.env
           token    == env.tct
           receiver == Committed(h)
<1>1. /\ m.by \in Aid /\ m.to \in Aid /\ m.by # m.to
      /\ env.sender = m.by
      /\ env.version = PROTOCOL_VERSION /\ env.defects \subseteq {"float_timestamp"}
  BY WorldAssumption DEF HonestInv, RInv, IInv, WellFormed, WellShaped, Stands
<1>2. TctStands(token, m) /\ env.pop.signer = KeyOf[m.by]
  BY DEF HonestInv, Stands, CommitStands
<1>3. /\ receiver.selfAid = m.to /\ receiver.selfNonce = env.pop.nonce
      /\ receiver.offered = Grants
  BY DEF Committed, Receiver
<1> HIDE DEF receiver
<1>4. check_round2_pop(env.pop, env.sender, receiver) = OK
  BY <1>1, <1>2, <1>3, TwoChecks DEF check_round2_pop, Check
<1>5. check_tct_claims_shape(token, "TCT_SIGNATURE_INVALID") = OK
  BY <1>2, ThreeChecks DEF check_tct_claims_shape, Check, TctStands
<1>6. verify_jws(token, token.iss, "aitp-tct+jwt", TctErrors,
                 check_tct_claims_shape(token, "TCT_SIGNATURE_INVALID")) = OK
  BY <1>1, <1>2, <1>5, SevenChecks DEF verify_jws, parse_compact, Check, TctStands, PinnedAlg, SignedBy
<1>7. check_grant_context(token) = OK /\ check_cnf(token, "TCT_CNF_MISMATCH") = OK
  BY <1>1, <1>2, WorldAssumption DEF check_grant_context, check_cnf, Check, TctStands, Thumbprint
<1>8. verify_embedded_tct(token, receiver, now) = OK
  BY <1>1, <1>2, <1>3, <1>6, <1>7, EmbeddedTctAccepted DEF TctStands
<1>9. token.compact /\ (receiver.offered # Absent => token.grants \subseteq receiver.offered)
  BY <1>2, <1>3 DEF TctStands
<1>10. QED
  BY <1>1, <1>4, <1>8, <1>9, CommitAccepted DEF Accepts, receiver

(***************************************************************************)
(* Honest agents are not held up: each of the four messages is accepted by *)
(* the one it is for, in the handshake it belongs to, while it is valid    *)
(* (verify_handshake_payload with what the caller passes in each step).    *)
(***************************************************************************)
THEOREM HonestHandshakeGoesThroughHolds == Spec => []HonestHandshakeGoesThrough
<1>1. HonestInv => HonestHandshakeGoesThrough
  <2> SUFFICES ASSUME HonestInv, NEW m \in sent, m.by \in Honest, m.to \in Honest,
                      now < m.env.timestamp + Lifetime, now < MaxTime,
                      m.env.message_type \in Bootstrap /\ TypeOf[m.by] = "oidc"
                        => now - m.env.timestamp <= IatTolerance
               PROVE  \E receiver \in Expecting(m) : Accepts(receiver, m.env)
    BY DEF HonestHandshakeGoesThrough
  <2>1. Stands(m) /\ m.env.message_type \in Bootstrap \cup Commit /\ m.env.sender = m.by
    BY DEF HonestInv, Stands, RInv, IInv, WellFormed
  <2>2. CASE m.env.message_type = "mutual_hello"
    <3>1. Expecting(m) = {Receiver(m.to)}
      BY <2>2, Zenon DEF Expecting
    <3>2. Configured(Receiver(m.to), m.to)
      BY DEF Configured, Receiver
    <3>3. check_peer(m.env, Receiver(m.to)) = OK /\ check_echo(m.env, Receiver(m.to)) = OK
      BY <2>2 DEF check_peer, check_echo, Check
    <3>4. QED
      BY <2>2, <3>1, <3>2, <3>3, BootstrapStands DEF Bootstrap
  <2>3. CASE m.env.message_type = "mutual_hello_ack"
    <3>1. Expecting(m) = {Initiator(h) : h \in SentBy({m.to}, "mutual_hello")}
      <4>1. m.env.message_type # "mutual_hello"
        BY <2>3
      <4>2. QED
        BY <2>3, <4>1, Zenon DEF Expecting
    <3>2. PICK h \in SentBy({m.to}, "mutual_hello") :
            h.to = m.by /\ h.env.pop_nonce = m.env.pop_nonce_echo
      BY <2>1, <2>3 DEF Stands, AckStands
    <3>3. h.by = m.to
      BY DEF SentBy
    <3>4. /\ Configured(Initiator(h), m.to)
          /\ Initiator(h).peerAid = h.to /\ Initiator(h).sentNonce = h.env.pop_nonce
      BY <3>3 DEF Configured, Initiator, Receiver
    <3>5. check_peer(m.env, Initiator(h)) = OK /\ check_echo(m.env, Initiator(h)) = OK
      BY <2>1, <3>2, <3>4 DEF check_peer, check_echo, Check
    <3>6. Accepts(Initiator(h), m.env)
      BY <2>3, <3>4, <3>5, BootstrapStands DEF Bootstrap
    <3>7. QED
      BY <3>1, <3>2, <3>6
  <2>4. CASE m.env.message_type \in Commit
    <3>1. Expecting(m) = {Committed(h) : h \in SentBy({m.to}, "mutual_hello")
                                                \cup SentBy({m.to}, "mutual_hello_ack")}
      <4>1. m.env.message_type # "mutual_hello" /\ m.env.message_type # "mutual_hello_ack"
        BY <2>4 DEF Commit
      <4>2. QED
        BY <4>1, Zenon DEF Expecting
    <3>2. PICK h \in SentBy({m.to}, "mutual_hello") \cup SentBy({m.to}, "mutual_hello_ack") :
            h.env.pop_nonce = m.env.pop.nonce
      BY <2>1, <2>4 DEF Stands, CommitStands
    <3>3. h.by = m.to
      BY DEF SentBy
    <3>4. Accepts(Committed(h), m.env)
      BY <2>4, <3>2, <3>3, CommitIsAccepted
    <3>5. QED
      BY <3>1, <3>2, <3>4
  <2>5. QED
    BY <2>1, <2>2, <2>3, <2>4 DEF Bootstrap
<1>2. QED
  BY HonestInvariance, <1>1, PTL

=============================================================================
