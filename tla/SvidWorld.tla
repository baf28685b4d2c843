------------------------------ MODULE SvidWorld ------------------------------
(***************************************************************************)
(* The authority of a trust domain certifies workloads, lets an            *)
(* intermediate certify some of them, and renews its own certificate; the  *)
(* workload of an honest agent shows its SVIDs.  Insiders (a workload, the *)
(* intermediate, the authority of another domain) sign whatever they like  *)
(* with the keys they have.  The receiver keeps its bundle store and       *)
(* nothing else, so the properties speak of every chain of certificates    *)
(* there is, every message and every proof there is.                       *)
(***************************************************************************)
EXTENDS Spiffe, FiniteSets

CONSTANTS
  Home,           \* the trust domain of the honest authority
  Authority,      \* its key, as [ca, jwt]; the bundle of Home holds the two
  OtherKeys,      \* the JWKs in the bundle of the other domain
  Other,          \* the other domain
  Subject,        \* Subject[a]: the SPIFFE ID of a's workload
  WorkloadKey,    \* WorkloadKey[a]: the key of its X509-SVID
  HonestAgents,   \* the agents whose keys and workloads are honest
  Subordinate,    \* the key of the intermediate
  InsiderKeys,    \* the keys in other hands, of workloads and authorities
  ForgedKeys,     \* the keys insiders put into certificates
  NameOf,         \* the name an authority's or an insider's certificate has
  Receivers,      \* whom messages are for
  Messages,       \* their ids; each has a pop_nonce of its own, named like it
  Term,           \* how long a certificate lasts
  JwtTerms,       \* how long a JWT may last
  MaxTime,        \* bound: the clock stops here
  MaxForged,      \* bound: certificates signed by insiders
  MaxShown        \* bound: messages of honest agents

VARIABLES
  now,     \* the clock
  certs,   \* what the authority of Home has certified
  forged,  \* the certificates of insiders
  roots,   \* the authority's own certificates, as the bundle lists them
  shown    \* what honest agents have proved: [type, agent, receiver, message, at,
           \* term], the term of a JWT

vars == <<now, certs, forged, roots, shown>>

-----------------------------------------------------------------------------
Leaf(issuer, signer, subject, key, from, until) ==
  [ v3 |-> TRUE, subject |-> "workload", issuer |-> issuer, key |-> key, keyType |-> "P-256",
    signer |-> signer, from |-> from, until |-> until, critical |-> {"subject_alt_name"},
    ca |-> FALSE, pathLen |-> Absent, usage |-> {"digitalSignature"}, uris |-> <<subject>>,
    permitted |-> Absent, excluded |-> {}, otherForms |-> FALSE ]

CaCert(issuer, signer, key, pathLen, permitted, from, until) ==
  [ Leaf(issuer, signer, Absent, key, from, until)
    EXCEPT !.subject = NameOf[key], !.ca = TRUE, !.pathLen = pathLen, !.uris = <<>>,
           !.usage = {"keyCertSign", "cRLSign"}, !.critical = {"basic_constraints"},
           !.permitted = permitted ]

Root(from, until) ==
  CaCert(NameOf[Authority.ca], Authority.ca, Authority.ca, 1, Absent, from, until)

JwtKey == [ use |-> "jwt-svid", kid |-> "k1", kty |-> "P-256", alg |-> Absent,
            key |-> Authority.jwt, cert |-> Absent ]

CaKey(cert) ==
  [JwtKey EXCEPT !.use = "x509-svid", !.kid = Absent, !.key = cert.key, !.cert = cert]

HomeKeys(list) ==
  [i \in 1 .. Len(list) + 1 |-> IF i = 1 THEN JwtKey ELSE CaKey(list[i - 1])]

Store ==
  << [domain |-> Home, keys |-> HomeKeys(roots)], [domain |-> Other, keys |-> OtherKeys] >>

CertOf(a, from, until) ==
  Leaf(NameOf[Authority.ca], Authority.ca, Subject[a], WorkloadKey[a], from, until)

\* An intermediate issues to workloads, and not to further intermediates.
SubordinateCert(permitted) ==
  CaCert(NameOf[Authority.ca], Authority.ca, Subordinate, 0, permitted, 0, Term)

\* The authority's certificates: the first, and a second from its renewal.
RootLists ==
  {<<Root(0, 1)>>}
  \cup {<<Root(0, 1), Root(t, MaxTime)>> : t \in 0 .. MaxTime}
  \cup {<<Root(t, MaxTime), Root(0, 1)>> : t \in 0 .. MaxTime}

\* Keys and workloads have one owner each, and what is given is not Absent.
ASSUME WorldAssumption ==
  /\ HonestAgents \subseteq Aid /\ DOMAIN Subject = Aid
  /\ \A a, b \in HonestAgents : WorkloadKey[a] = WorkloadKey[b] => a = b
  /\ \A a, b \in Aid : KeyOf[a] = KeyOf[b] => a = b
  /\ \A a, b \in DOMAIN Subject : Subject[a] = Subject[b] => a = b
  /\ \A a \in HonestAgents : WorkloadKey[a] \notin InsiderKeys /\ DomainOf[Subject[a]] = Home
  /\ Authority.ca \notin InsiderKeys /\ Authority.jwt \notin InsiderKeys
  /\ Subordinate # Authority.ca /\ \A a \in DOMAIN Subject : WorkloadKey[a] # Subordinate
  /\ \A a \in HonestAgents : Subject[a] \in SpiffeId
  /\ MaxTime \in Nat /\ Term \in Nat /\ JwtTerms \subseteq Nat
  /\ Home # Other /\ Absent # Home /\ Absent # Other /\ Absent # {Home} /\ Absent # {Other}
  /\ Absent \notin Receivers \cup Messages
  /\ Absent # {"digitalSignature"} /\ Absent # {"keyCertSign", "cRLSign"}
  /\ \A list \in RootLists :
       HomeKeys(list) # Absent /\ \A i \in DOMAIN list : list[i] # Absent

\* The workloads of insiders are certified, and the intermediate may be.
Init ==
  /\ now = 0
  /\ certs \in { {CertOf(a, 0, MaxTime) : a \in DOMAIN Subject \ HonestAgents} \cup delegated :
                 delegated \in {{}, {SubordinateCert({Home})}, {SubordinateCert({Other})}} }
  /\ forged = {} /\ shown = {}
  /\ roots = <<Root(0, 1)>>

Tick ==
  /\ now < MaxTime
  /\ now' = now + 1
  /\ UNCHANGED <<certs, forged, roots, shown>>

\* Bound: one certificate for a workload.
Certify(a) ==
  /\ \A c \in certs : c.key # WorkloadKey[a]
  /\ certs' = certs \cup {CertOf(a, now, now + Term)}
  /\ UNCHANGED <<now, forged, roots, shown>>

\* The same key in a new certificate, in front of the old one or behind it;
\* in time, and not at once.
Renew ==
  /\ Len(roots) = 1 /\ now > 0 /\ in_validity(roots[1], now)
  /\ \E front \in BOOLEAN :
       roots' = IF front THEN <<Root(now, MaxTime)>> \o roots ELSE roots \o <<Root(now, MaxTime)>>
  /\ UNCHANGED <<now, certs, forged, shown>>

Forge(k) ==
  /\ Cardinality(forged) < MaxForged
  /\ \E cert \in {Leaf(NameOf[k], k, Subject[a], key, 0, MaxTime) :
                      key \in ForgedKeys, a \in HonestAgents}
                  \cup {CaCert(NameOf[k], k, key, Absent, Absent, 0, MaxTime) :
                          key \in ForgedKeys \cap InsiderKeys} :
       forged' = forged \cup {cert}
  /\ UNCHANGED <<now, certs, roots, shown>>

Show(a) ==
  /\ Cardinality(shown) < MaxShown
  /\ \E type \in {"jwt-svid", "x509-svid"}, receiver \in Receivers, message \in Messages,
        term \in JwtTerms :
       shown' = shown \cup
         {[ type |-> type, agent |-> a, receiver |-> receiver, message |-> message, at |-> now,
            term |-> term ]}
  /\ UNCHANGED <<now, certs, forged, roots>>

Next ==
  \/ Tick
  \/ \E a \in HonestAgents : Certify(a)
  \/ Renew
  \/ \E k \in InsiderKeys : Forge(k)
  \/ \E a \in HonestAgents : Show(a)

Spec == Init /\ [][Next]_vars

-----------------------------------------------------------------------------
Envelope(agent, message) ==
  [sender |-> agent, message_id |-> message, timestamp |-> 0, pop_nonce |-> message]

Envelopes == {Envelope(a, m) : a \in Aid, m \in Messages}

EnvelopeOf(s) == Envelope(s.agent, s.message)

Jwt(signer, subject, receiver, nonce, agent, at, term) ==
  [ compact |-> TRUE, header |-> {"alg", "kid"}, alg |-> "ES256", typ |-> Absent, kid |-> "k1",
    signer |-> signer, sub |-> subject, aud |-> <<receiver>>, exp |-> at + term,
    iat |-> at, nonce |-> nonce, jkt |-> KeyOf[agent] ]

JwtProof(s) ==
  Jwt(Authority.jwt, Subject[s.agent], s.receiver, s.message, s.agent, s.at, s.term)

X509Proof(s) ==
  [ signer |-> WorkloadKey[s.agent],
    covers |-> proof_input(EnvelopeOf(s), s.receiver) ]

\* Whoever has a key can sign whatever is asked for.
SignedAs(key, env, receiver) == [signer |-> key, covers |-> proof_input(env, receiver)]

Shown(type) == {s \in shown : s.type = type}

\* An insider asks the authority for a JWT of its own workload, or signs one.
JwtProofs(env, receiver) ==
  {JwtProof(s) : s \in Shown("jwt-svid")}
    \cup {Jwt(Authority.jwt, Subject[a], receiver, env.pop_nonce, env.sender, now, term) :
            a \in {b \in DOMAIN Subject \ HonestAgents : DomainOf[Subject[b]] = Home},
            term \in JwtTerms}
    \cup {Jwt(k, id, receiver, env.pop_nonce, env.sender, now, term) :
            k \in InsiderKeys, id \in SpiffeId, term \in JwtTerms}

X509Proofs(env, receiver) ==
  {X509Proof(s) : s \in Shown("x509-svid")}
    \cup {SignedAs(k, env, receiver) : k \in InsiderKeys}

JwtSvid(subject, proof) ==
  [svid_type |-> "jwt-svid", subject |-> subject, members |-> {}, x5c |-> <<>>, proof |-> proof]

X509Svid(subject, chain, proof) ==
  [ svid_type |-> "x509-svid", subject |-> subject, members |-> {"x5c"}, x5c |-> chain,
    proof |-> proof ]

Chains == UNION {[1 .. n -> certs \cup forged] : n \in 1 .. MaxChain}

Accepted(identity, env, receiver, store) ==
  verify_spiffe(identity, env, receiver, store, now) = OK

\* The authority lets the intermediate certify workloads of its domain.
Entrusted ==
  \E c \in certs : c.key = Subordinate /\ Home \in c.permitted /\ in_validity(c, now)

Certifiers == {Authority.ca} \cup {k \in {Subordinate} : Entrusted}

(***************************************************************************)
(* A workload of the honest domain is what its authority, or an            *)
(* intermediate the authority let certify workloads of this domain,        *)
(* certified: no workload's certificate certifies another, no intermediate *)
(* passes its right on, and the authority of another domain counts for     *)
(* nothing here (CA flag, path length, name constraints, bundle by         *)
(* domain).                                                                *)
(***************************************************************************)
CertifiedByHome ==
  LET store    == Store
      env      == CHOOSE e \in Envelopes : TRUE
      receiver == CHOOSE r \in Receivers : TRUE
  IN  \A chain \in Chains :
        chain[1].signer \notin Certifiers =>
          \A subject \in {id \in SpiffeId : DomainOf[id] = Home} :
            ~ Accepted(X509Svid(subject, chain, SignedAs(chain[1].key, env, receiver)),
                       env, receiver, store)

(***************************************************************************)
(* No key of an insider proves the workload of an honest agent, whichever  *)
(* certificates its owner puts together: the leaf that the authority       *)
(* signed for the insider's own workload names that workload alone         *)
(* (leaf_ok compares it with the subject of the descriptor).  Only the     *)
(* intermediate could, once the authority lets it certify for this domain. *)
(***************************************************************************)
WorkloadsAreTheirOwn ==
  LET store    == Store
      env      == CHOOSE e \in Envelopes : TRUE
      receiver == CHOOSE r \in Receivers : TRUE
  IN  \A a \in HonestAgents, k \in InsiderKeys : \A chain \in Chains :
        Accepted(X509Svid(Subject[a], chain, SignedAs(k, env, receiver)), env, receiver, store) =>
          Entrusted /\ chain[1].signer = Subordinate

\* A workload's certificate and, if need be, that of who issued it.
HonestChains(a) ==
  {chain \in Chains :
     /\ chain[1].key = WorkloadKey[a] /\ chain[1].uris = <<Subject[a]>>
     /\ \A i \in DOMAIN chain : in_validity(chain[i], now)
     /\ \/ Len(chain) = 1 /\ chain[1].signer = Authority.ca
        \/ Len(chain) = 2 /\ chain[1].signer = Subordinate /\ chain[2].key = Subordinate
           /\ chain[2] \in certs /\ Entrusted}

(***************************************************************************)
(* The SVID of an honest agent's workload is accepted only with a message  *)
(* the agent proved, whole and for this receiver: its certificates are     *)
(* there for everybody, and so is every proof it ever made.                *)
(***************************************************************************)
ProofIsForThisMessage ==
  \A a \in HonestAgents : \A chain \in HonestChains(a) :
    \A env \in Envelopes, receiver \in Receivers :
      \A proof \in X509Proofs(env, receiver) :
        Accepted(X509Svid(Subject[a], chain, proof), env, receiver, Store) =>
          \E s \in Shown("x509-svid") :
            s.agent = a /\ s.receiver = receiver /\ EnvelopeOf(s) = env

(***************************************************************************)
(* A JWT-SVID of an honest agent's workload is accepted only from that     *)
(* agent, by the receiver it was issued for, for the nonce it was issued   *)
(* for and while it is both unexpired and fresh; other domains and         *)
(* workloads issue none for it, though they may name their keys like the   *)
(* authority's.                                                            *)
(***************************************************************************)
JwtIsOfTheSender ==
  \A env \in Envelopes, receiver \in Receivers, a \in HonestAgents :
    \A proof \in JwtProofs(env, receiver) :
      Accepted(JwtSvid(Subject[a], proof), env, receiver, Store) =>
        \E s \in Shown("jwt-svid") :
          /\ s.agent = a /\ env.sender = a /\ s.receiver = receiver
          /\ s.message = env.pop_nonce
          /\ now < s.at + s.term /\ now - s.at <= IatTolerance

(***************************************************************************)
(* What an honest agent shows is accepted while it lasts: its JWT-SVID and *)
(* its X509-SVID, directly or through an intermediate that may certify no  *)
(* further CA, as long as the first of the authority's certificates is     *)
(* valid.                                                                  *)
(***************************************************************************)
HonestSvidAccepted ==
  /\ \A s \in Shown("jwt-svid") :
       now < s.at + s.term /\ now - s.at <= IatTolerance =>
         Accepted(JwtSvid(Subject[s.agent], JwtProof(s)), EnvelopeOf(s), s.receiver, Store)
  /\ \A s \in Shown("x509-svid") : \A chain \in HonestChains(s.agent) :
       in_validity(roots[1], now) =>
         Accepted(X509Svid(Subject[s.agent], chain, X509Proof(s)), EnvelopeOf(s), s.receiver, Store)

=============================================================================
