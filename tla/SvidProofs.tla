----------------------------- MODULE SvidProofs ------------------------------
(***************************************************************************)
(* For every set of agents, keys, domains, certificates and bounds, and    *)
(* chains of any length: the SPIFFE ID of an honest domain is certified by *)
(* its authority or by whom the authority entrusted, and the SVIDs of an   *)
(* honest workload prove the messages of its agent only, and are accepted  *)
(* while they last (SvidWorld).                                            *)
(*                                                                         *)
(* The first part is about the code alone: what acceptance says of an      *)
(* identity.  The second adds what is true of every certificate there is,  *)
(* and the last goes the other way, from what an honest workload shows to  *)
(* acceptance.                                                             *)
(***************************************************************************)
EXTENDS SvidWorld, VerdictLemmas

-----------------------------------------------------------------------------
LEMMA SvidAccepted ==
  ASSUME NEW identity, NEW env, NEW selfAid, NEW store, NEW time,
         verify_spiffe(identity, env, selfAid, store, time) = OK
  PROVE  svid_ok(identity, env, selfAid, store, time)
BY DEF verify_spiffe, Check, OK

LEMMA JwtAccepted ==
  ASSUME NEW subject, NEW proof, NEW env, NEW selfAid, NEW store, NEW time,
         verify_spiffe(JwtSvid(subject, proof), env, selfAid, store, time) = OK
  PROVE  LET keys == keys_for(store, DomainOf[subject], "jwt-svid")
         IN  /\ \E i \in DOMAIN keys : proof.signer = keys[i].key
             /\ jwt_claims_ok(JwtSvid(subject, proof), env, selfAid, time)
<1> DEFINE identity == JwtSvid(subject, proof)
<1>1. /\ identity.svid_type = "jwt-svid" /\ identity.subject = subject
      /\ identity.proof = proof
  BY DEF JwtSvid
<1> HIDE DEF identity
<1> DEFINE keys == keys_for(store, DomainOf[subject], "jwt-svid")
<1>2. jwt_svid_ok(identity, env, selfAid, keys, time)
  <2>1. svid_ok(identity, env, selfAid, store, time)
    BY SvidAccepted DEF identity
  <2> HIDE DEF keys
  <2>2. QED
    BY <1>1, <2>1 DEF svid_ok, keys
<1> HIDE DEF keys
<1>3. jwt_claims_ok(identity, env, selfAid, time)
  BY <1>2 DEF jwt_svid_ok
<1>4. \E i \in DOMAIN keys : jwt_signature_ok(keys[i], proof)
  BY <1>1, <1>2 DEF jwt_svid_ok
<1>5. QED
  BY <1>3, <1>4 DEF jwt_signature_ok, keys, identity

LEMMA X509Accepted ==
  ASSUME NEW subject, NEW chain, NEW proof, NEW env, NEW selfAid, NEW store, NEW time,
         verify_spiffe(X509Svid(subject, chain, proof), env, selfAid, store, time) = OK
  PROVE  LET anchors == keys_for(store, DomainOf[subject], "x509-svid")
         IN  /\ leaf_ok(chain[1], subject)
             /\ path_ok(chain, DomainOf[subject], time)
             /\ anchor_ok(chain, anchors, DomainOf[subject], time)
             /\ proof.signer = chain[1].key
             /\ proof.covers = proof_input(env, selfAid)
<1> DEFINE identity == X509Svid(subject, chain, proof)
<1>1. /\ identity.svid_type = "x509-svid" /\ identity.subject = subject
      /\ identity.x5c = chain /\ identity.proof = proof
  BY DEF X509Svid
<1> HIDE DEF identity
<1> DEFINE anchors == keys_for(store, DomainOf[subject], "x509-svid")
<1>2. x509_svid_ok(identity, env, selfAid, anchors, time)
  <2>1. svid_ok(identity, env, selfAid, store, time)
    BY SvidAccepted DEF identity
  <2> HIDE DEF anchors
  <2>2. QED
    BY <1>1, <2>1 DEF svid_ok, anchors
<1> HIDE DEF anchors
<1>3. /\ leaf_ok(chain[1], subject) /\ path_ok(chain, DomainOf[subject], time)
      /\ anchor_ok(chain, anchors, DomainOf[subject], time)
      /\ x509_proof_ok(identity, env, selfAid)
  BY <1>1, <1>2 DEF x509_svid_ok
<1>4. QED
  BY <1>1, <1>3 DEF x509_proof_ok, anchors

-----------------------------------------------------------------------------
(***************************************************************************)
(* What is true of every certificate and every proof there is.             *)
(***************************************************************************)
OfHome(cert) ==
  \/ cert.ca = FALSE
  \/ cert.key = Subordinate /\ cert.pathLen = 0 /\ cert.permitted \in {{Home}, {Other}}

RootCerts == {Root(from, until) : from \in Nat, until \in Nat}

IInv ==
  /\ now \in Nat
  /\ \A c \in certs : OfHome(c)
  /\ \A c \in forged : c.signer \in InsiderKeys
  /\ roots \in Seq(RootCerts)
  /\ \A s \in shown : s.agent \in HonestAgents

LEMMA CaCertFields ==
  ASSUME NEW issuer, NEW signer, NEW key, NEW pathLen, NEW permitted, NEW from, NEW until
  PROVE  /\ CaCert(issuer, signer, key, pathLen, permitted, from, until).signer = signer
         /\ CaCert(issuer, signer, key, pathLen, permitted, from, until).key = key
         /\ CaCert(issuer, signer, key, pathLen, permitted, from, until).pathLen = pathLen
         /\ CaCert(issuer, signer, key, pathLen, permitted, from, until).permitted = permitted
BY DEF CaCert, Leaf

\* Who signed a workload's certificate is in it.
LEMMA LeafSigner ==
  ASSUME NEW issuer, NEW signer, NEW subject, NEW key, NEW from, NEW until
  PROVE  Leaf(issuer, signer, subject, key, from, until).signer = signer
BY DEF Leaf

LEMMA CertOfHome ==
  ASSUME NEW a, NEW from, NEW until
  PROVE  OfHome(CertOf(a, from, until))
<1>1. CertOf(a, from, until).ca = FALSE
  BY DEF CertOf, Leaf
<1>2. QED
  BY <1>1 DEF OfHome

LEMMA SubordinateOfHome ==
  ASSUME NEW permitted \in {{Home}, {Other}}
  PROVE  OfHome(SubordinateCert(permitted))
<1>1. /\ SubordinateCert(permitted).key = Subordinate
      /\ SubordinateCert(permitted).pathLen = 0
      /\ SubordinateCert(permitted).permitted = permitted
  BY CaCertFields DEF SubordinateCert
<1>2. QED
  BY <1>1 DEF OfHome

LEMMA RootKey ==
  ASSUME NEW c \in RootCerts
  PROVE  c.key = Authority.ca
<1>1. PICK from \in Nat, until \in Nat : c = Root(from, until)
  BY DEF RootCerts
<1>2. QED
  BY <1>1, CaCertFields DEF Root

LEMMA InitInv == Init => IInv
<1> SUFFICES ASSUME Init PROVE IInv
  OBVIOUS
<1>1. \A c \in certs : OfHome(c)
  BY CertOfHome, SubordinateOfHome DEF Init
<1>2. Root(0, 1) \in RootCerts
  BY DEF RootCerts
<1>3. QED
  BY <1>1, <1>2 DEF Init, IInv

LEMMA RenewInv ==
  ASSUME IInv, Renew
  PROVE  IInv'
<1> DEFINE new == Root(now, MaxTime)
<1>1. roots' = <<new>> \o roots \/ roots' = roots \o <<new>>
  BY DEF Renew
<1>2. new \in RootCerts
  BY WorldAssumption DEF IInv, RootCerts
<1> HIDE DEF new
<1>3. <<new>> \in Seq(RootCerts) /\ roots \in Seq(RootCerts)
  BY <1>2 DEF IInv
<1>4. <<new>> \o roots \in Seq(RootCerts) /\ roots \o <<new>> \in Seq(RootCerts)
  BY <1>3
<1>5. QED
  BY <1>1, <1>4 DEF Renew, IInv

LEMMA ForgeInv ==
  ASSUME IInv, NEW k \in InsiderKeys, Forge(k)
  PROVE  IInv'
<1> DEFINE made == {Leaf(NameOf[k], k, Subject[a], key, 0, MaxTime) :
                      key \in ForgedKeys, a \in HonestAgents}
                   \cup {CaCert(NameOf[k], k, key, Absent, Absent, 0, MaxTime) :
                           key \in ForgedKeys \cap InsiderKeys}
<1>1. ASSUME NEW c \in made
      PROVE  c.signer = k
  <2>1. CASE \E key \in ForgedKeys, a \in HonestAgents :
               c = Leaf(NameOf[k], k, Subject[a], key, 0, MaxTime)
    <3>1. PICK key \in ForgedKeys, a \in HonestAgents :
            c = Leaf(NameOf[k], k, Subject[a], key, 0, MaxTime)
      BY <2>1
    <3> HIDE DEF made
    <3>2. QED
      BY <3>1, LeafSigner
  <2>2. CASE \E key \in ForgedKeys \cap InsiderKeys :
               c = CaCert(NameOf[k], k, key, Absent, Absent, 0, MaxTime)
    <3>1. PICK key \in ForgedKeys \cap InsiderKeys :
            c = CaCert(NameOf[k], k, key, Absent, Absent, 0, MaxTime)
      BY <2>2
    <3> HIDE DEF made
    <3>2. QED
      BY <3>1, CaCertFields
  <2>3. QED
    BY <2>1, <2>2
<1>2. PICK cert \in made : forged' = forged \cup {cert} /\ UNCHANGED <<now, certs, roots, shown>>
  BY DEF Forge
<1> HIDE DEF made
<1>3. \A c \in forged' : c.signer \in InsiderKeys
  BY <1>1, <1>2 DEF IInv
<1>4. QED
  BY <1>2, <1>3 DEF IInv

\* What the properties rest on holds in every state.
THEOREM Invariance == Spec => []IInv
<1>1. ASSUME IInv, [Next]_vars
      PROVE  IInv'
  <2>1. CASE Tick
    BY <1>1, <2>1 DEF Tick, IInv
  <2>2. CASE \E a \in HonestAgents : Certify(a)
    <3>1. PICK a \in HonestAgents : Certify(a)
      BY <2>2
    <3>2. \A c \in certs' : OfHome(c)
      BY <1>1, <3>1, CertOfHome DEF Certify, IInv
    <3>3. QED
      BY <1>1, <3>1, <3>2 DEF Certify, IInv
  <2>3. CASE Renew
    BY <1>1, <2>3, RenewInv
  <2>4. CASE \E k \in InsiderKeys : Forge(k)
    BY <1>1, <2>4, ForgeInv
  <2>5. CASE \E a \in HonestAgents : Show(a)
    BY <1>1, <2>5 DEF Show, IInv
  <2>6. CASE UNCHANGED vars
    BY <1>1, <2>6 DEF IInv, vars
  <2>7. QED
    BY <1>1, <2>1, <2>2, <2>3, <2>4, <2>5, <2>6 DEF Next
<1>2. QED
  BY InitInv, <1>1, PTL DEF Spec

-----------------------------------------------------------------------------
\* In the bundle of Home each key has its use.
LEMMA BundleKeys ==
  ASSUME IInv, NEW use \in {"jwt-svid", "x509-svid"},
         NEW i \in DOMAIN keys_for(Store, Home, use)
  PROVE  LET jwk == keys_for(Store, Home, use)[i]
         IN  /\ use = "jwt-svid" => jwk.key = Authority.jwt
             /\ use = "x509-svid" => jwk.cert.key = Authority.ca
<1> DEFINE at    == {n \in DOMAIN Store : Store[n].domain = Home /\ Store[n].keys # Absent}
           keys  == IF at = {} THEN <<>> ELSE Store[CHOOSE n \in at : TRUE].keys
           chain == [n \in 1 .. Len(roots) + 1 |-> IF n = 1 THEN JwtKey ELSE CaKey(roots[n - 1])]
<1>1. keys_for(Store, Home, use) = [n \in {m \in DOMAIN keys : keys[m].use = use} |-> keys[n]]
  BY DEF keys_for
<1>2. at \subseteq {1} /\ Store[1].keys = chain
  <2>1. Store[1].domain = Home /\ Store[2].domain = Other /\ DOMAIN Store = {1, 2}
    BY DEF Store
  <2>2. Store[1].keys = chain
    BY DEF Store, HomeKeys
  <2> HIDE DEF chain
  <2>3. QED
    BY <2>1, <2>2, WorldAssumption
<1> HIDE DEF at, chain
<1>3. keys = <<>> \/ keys = chain
  BY <1>2
<1> HIDE DEF keys
<1>4. /\ i \in DOMAIN keys /\ keys[i].use = use
      /\ keys_for(Store, Home, use)[i] = keys[i]
  BY <1>1
<1>5. keys = chain
  BY <1>3, <1>4
<1>6. i \in 1 .. Len(roots) + 1
  BY <1>4, <1>5 DEF chain
<1>7. DOMAIN roots = 1 .. Len(roots) /\ Len(roots) \in Nat
  BY DEF IInv
<1>8. CASE i = 1
  <2>1. keys[i] = JwtKey
    BY <1>5, <1>6, <1>8 DEF chain
  <2>2. QED
    BY <1>4, <2>1 DEF JwtKey
<1>9. CASE i # 1
  <2>1. i - 1 \in DOMAIN roots /\ keys[i] = CaKey(roots[i - 1])
    BY <1>5, <1>6, <1>7, <1>9 DEF chain
  <2>2. roots[i - 1] \in RootCerts
    BY <1>7, <2>1 DEF IInv
  <2>3. keys[i].use = "x509-svid" /\ keys[i].cert = roots[i - 1]
    BY <2>1 DEF CaKey, JwtKey
  <2>4. QED
    BY <1>4, <2>2, <2>3, RootKey
<1>10. QED
  BY <1>8, <1>9

\* The last certificate of an accepted chain is the authority's.
LEMMA LastIsOfHome ==
  ASSUME IInv, NEW n \in Nat \ {0}, NEW chain \in [1 .. n -> certs \cup forged],
         anchor_ok(chain, keys_for(Store, Home, "x509-svid"), Home, now)
  PROVE  chain[n].signer = Authority.ca /\ chain[n] \in certs
<1> DEFINE anchors == keys_for(Store, Home, "x509-svid")
<1>1. Len(chain) = n
  OBVIOUS
<1>2. PICK i \in issuing(anchors, chain) : TRUE
  BY DEF anchor_ok
<1>3. i \in DOMAIN anchors /\ chain[n].signer = anchors[i].cert.key
  BY <1>1, <1>2 DEF issuing, issued_by
<1>4. chain[n].signer = Authority.ca
  BY <1>3, BundleKeys
<1>5. chain[n] \notin forged
  BY <1>4, WorldAssumption DEF IInv
<1>6. QED
  BY <1>4, <1>5

(***************************************************************************)
(* Whoever certifies a workload of the honest domain is its authority or   *)
(* the intermediate that it let certify workloads of this very domain, for *)
(* chains of any length and whatever insiders sign.                        *)
(***************************************************************************)
THEOREM HomeCertifies == Spec => []CertifiedByHome
<1>1. IInv => CertifiedByHome
  <2> SUFFICES ASSUME IInv,
                      NEW env, NEW receiver,
                      NEW chain \in Chains, chain[1].signer \notin Certifiers,
                      NEW subject, DomainOf[subject] = Home,
                      Accepted(X509Svid(subject, chain, SignedAs(chain[1].key, env, receiver)),
                               env, receiver, Store)
               PROVE  FALSE
    BY DEF CertifiedByHome
  <2>1. /\ path_ok(chain, Home, now)
        /\ anchor_ok(chain, keys_for(Store, Home, "x509-svid"), Home, now)
    BY X509Accepted DEF Accepted
  <2>2. PICK n \in 1 .. MaxChain : chain \in [1 .. n -> certs \cup forged]
    BY DEF Chains
  <2>3. n \in Nat \ {0}
    BY <2>2, SpiffeAssumption
  <2>4. chain[n].signer = Authority.ca /\ chain[n] \in certs
    BY <2>1, <2>2, <2>3, LastIsOfHome
  <2>5. n > 1
    BY <2>3, <2>4 DEF Certifiers
  <2>6. /\ check_ca(chain[n], n - 2) /\ check_name_constraints(chain[n], Home)
        /\ in_validity(chain[n], now)
    BY <2>1, <2>2, <2>3, <2>5 DEF path_ok
  <2>7. chain[n].key = Subordinate /\ chain[n].pathLen = 0 /\ chain[n].permitted \in {{Home}, {Other}}
    BY <2>4, <2>6 DEF check_ca, IInv, OfHome
  <2>8. n = 2
    BY <2>3, <2>5, <2>6, <2>7, SpiffeAssumption DEF check_ca
  <2>9. chain[1].signer = Subordinate
    <3>1. issued_by(chain[1], chain[1 + 1])
      BY <2>1, <2>2, <2>8 DEF path_ok
    <3>2. QED
      BY <2>7, <2>8, <3>1 DEF issued_by
  <2>10. Entrusted
    BY <2>4, <2>6, <2>7, WorldAssumption DEF Entrusted, check_name_constraints
  <2>11. QED
    BY <2>9, <2>10 DEF Certifiers
<1>2. QED
  BY Invariance, <1>1, PTL

(***************************************************************************)
(* A chain that is accepted for an honest workload comes with a proof its  *)
(* agent made of this message, for this receiver.                          *)
(***************************************************************************)
THEOREM ProofsAreOfTheMessage == Spec => []ProofIsForThisMessage
<1>1. IInv => ProofIsForThisMessage
  <2> SUFFICES ASSUME IInv, NEW a \in HonestAgents, NEW chain \in HonestChains(a),
                      NEW env \in Envelopes, NEW receiver \in Receivers,
                      NEW proof \in X509Proofs(env, receiver),
                      Accepted(X509Svid(Subject[a], chain, proof), env, receiver, Store)
               PROVE  \E s \in Shown("x509-svid") :
                        s.agent = a /\ s.receiver = receiver /\ EnvelopeOf(s) = env
    BY DEF ProofIsForThisMessage
  <2>1. proof.signer = chain[1].key /\ proof.covers = proof_input(env, receiver)
    BY X509Accepted DEF Accepted
  <2>2. proof.signer = WorkloadKey[a]
    BY <2>1 DEF HonestChains
  <2>3. proof \notin {SignedAs(k, env, receiver) : k \in InsiderKeys}
    BY <2>2, WorldAssumption DEF SignedAs
  <2>4. PICK s \in Shown("x509-svid") : proof = X509Proof(s)
    BY <2>3 DEF X509Proofs
  <2>5. WorkloadKey[s.agent] = WorkloadKey[a] /\ s.agent \in HonestAgents
    BY <2>2, <2>4 DEF X509Proof, IInv, Shown
  <2>6. s.agent = a
    BY <2>5, WorldAssumption
  <2>7. proof_input(EnvelopeOf(s), s.receiver) = proof_input(env, receiver)
    BY <2>1, <2>4 DEF X509Proof
  <2>8. s.receiver = receiver /\ EnvelopeOf(s) = env
    BY <2>7 DEF proof_input, EnvelopeOf, Envelope, Envelopes
  <2>9. QED
    BY <2>6, <2>8
<1>2. QED
  BY Invariance, <1>1, PTL

(***************************************************************************)
(* A JWT-SVID that is accepted for an honest workload was issued for it,   *)
(* for its agent as the sender, this receiver and this nonce, and is fresh *)
(* and unexpired.                                                          *)
(***************************************************************************)
THEOREM JwtsAreOfTheSender == Spec => []JwtIsOfTheSender
<1>1. IInv => JwtIsOfTheSender
  <2> SUFFICES ASSUME IInv, NEW env \in Envelopes, NEW receiver \in Receivers,
                      NEW a \in HonestAgents, NEW proof \in JwtProofs(env, receiver),
                      Accepted(JwtSvid(Subject[a], proof), env, receiver, Store)
               PROVE  \E s \in Shown("jwt-svid") :
                        /\ s.agent = a /\ env.sender = a /\ s.receiver = receiver
                        /\ s.message = env.pop_nonce
                        /\ now < s.at + s.term /\ now - s.at <= IatTolerance
    BY DEF JwtIsOfTheSender
  <2> DEFINE keys == keys_for(Store, Home, "jwt-svid")
  <2>1. DomainOf[Subject[a]] = Home
    BY WorldAssumption
  <2>2. /\ \E i \in DOMAIN keys : proof.signer = keys[i].key
        /\ jwt_claims_ok(JwtSvid(Subject[a], proof), env, receiver, now)
    BY <2>1, JwtAccepted DEF Accepted
  <2>3. proof.signer = Authority.jwt
    BY <2>2, BundleKeys
  <2>4. /\ proof.sub = Subject[a] /\ proof.aud = <<receiver>> /\ proof.nonce = env.pop_nonce
        /\ env.sender \in Aid /\ proof.jkt = KeyOf[env.sender]
        /\ now < proof.exp /\ now - proof.iat <= IatTolerance
    BY <2>2 DEF jwt_claims_ok, JwtSvid, Thumbprint
  <2>5. proof \notin {Jwt(k, id, receiver, env.pop_nonce, env.sender, now, term) :
                        k \in InsiderKeys, id \in SpiffeId, term \in JwtTerms}
    BY <2>3, WorldAssumption DEF Jwt
  <2>6. proof \notin {Jwt(Authority.jwt, Subject[b], receiver, env.pop_nonce, env.sender, now, term) :
                        b \in {c \in DOMAIN Subject \ HonestAgents : DomainOf[Subject[c]] = Home},
                        term \in JwtTerms}
    BY <2>4, WorldAssumption DEF Jwt
  <2>7. PICK s \in Shown("jwt-svid") : proof = JwtProof(s)
    BY <2>5, <2>6 DEF JwtProofs
  <2>8. s.agent \in HonestAgents
    BY DEF Shown, IInv
  <2>9. /\ proof.sub = Subject[s.agent] /\ proof.aud = <<s.receiver>>
        /\ proof.nonce = s.message /\ proof.jkt = KeyOf[s.agent]
        /\ proof.exp = s.at + s.term /\ proof.iat = s.at
    BY <2>7 DEF JwtProof, Jwt
  <2>10. s.agent = a /\ env.sender = a
    BY <2>4, <2>8, <2>9, WorldAssumption
  <2>11. s.receiver = receiver
    <3>1. <<s.receiver>>[1] = <<receiver>>[1]
      BY <2>4, <2>9
    <3>2. QED
      BY <3>1
  <2>12. QED
    BY <2>4, <2>9, <2>10, <2>11
<1>2. QED
  BY Invariance, <1>1, PTL

-----------------------------------------------------------------------------
(***************************************************************************)
(* The other direction: what an honest workload shows meets every check.   *)
(* It needs to know all of a certificate, and that the authority certifies *)
(* one intermediate, for one domain.                                       *)
(***************************************************************************)
OfWorkload(cert) ==
  /\ cert.v3 /\ cert.issuer = NameOf[cert.signer] /\ cert.critical \subseteq Processed
  /\ cert.ca = FALSE /\ cert.usage = {"digitalSignature"} /\ cert.keyType = "P-256"

ShownProperly(s) ==
  /\ s.agent \in HonestAgents /\ s.receiver \in Receivers /\ s.message \in Messages
  /\ s.at \in 0 .. now /\ s.term \in JwtTerms

HonestInv ==
  /\ now \in 0 .. MaxTime
  /\ \E permitted \in {{Home}, {Other}} : \A c \in certs :
       \/ \E a \in DOMAIN Subject, from, until \in Nat : c = CertOf(a, from, until)
       \/ c = SubordinateCert(permitted)
  /\ \A c \in forged : OfWorkload(c) \/ c.uris = <<>>
  /\ roots \in RootLists
  /\ \A s \in shown : ShownProperly(s)

LEMMA ForgedCaCert ==
  ASSUME NEW k, NEW key, NEW c, c = CaCert(NameOf[k], k, key, Absent, Absent, 0, MaxTime)
  PROVE  c.uris = <<>>
BY DEF CaCert, Leaf

LEMMA RootIsWhole ==
  ASSUME NEW from, NEW until, NEW c, c = Root(from, until)
  PROVE  /\ c.subject = NameOf[Authority.ca] /\ c.key = Authority.ca
         /\ check_ca(c, 0) /\ check_ca(c, 1) /\ check_name_constraints(c, Home)
<1>1. /\ c.subject = NameOf[Authority.ca] /\ c.key = Authority.ca
      /\ c.ca = TRUE /\ c.pathLen = 1 /\ c.usage = {"keyCertSign", "cRLSign"}
      /\ c.permitted = Absent /\ c.excluded = {} /\ c.otherForms = FALSE
  BY DEF Root, CaCert, Leaf
<1>2. QED
  BY <1>1, WorldAssumption DEF check_ca, check_name_constraints

OfSubordinate(cert, permitted) ==
  /\ cert.v3 /\ cert.issuer = NameOf[Authority.ca] /\ cert.signer = Authority.ca
  /\ cert.subject = NameOf[Subordinate] /\ cert.key = Subordinate
  /\ cert.critical \subseteq Processed /\ cert.uris = <<>>
  /\ cert.ca = TRUE /\ cert.pathLen = 0 /\ cert.usage = {"keyCertSign", "cRLSign"}
  /\ cert.permitted = permitted /\ cert.excluded = {} /\ cert.otherForms = FALSE

LEMMA SubordinateIsWhole ==
  ASSUME NEW permitted
  PROVE  OfSubordinate(SubordinateCert(permitted), permitted)
<1> DEFINE cert == SubordinateCert(permitted)
<1>1. cert = SubordinateCert(permitted)
  OBVIOUS
<1> HIDE DEF cert
<1>2. OfSubordinate(cert, permitted)
  BY <1>1 DEF OfSubordinate, SubordinateCert, CaCert, Leaf, Processed
<1>3. QED
  BY <1>2 DEF cert

LEMMA CertOfIsOfWorkload ==
  ASSUME NEW a, NEW from, NEW until, NEW c, c = CertOf(a, from, until)
  PROVE  OfWorkload(c) /\ c.key = WorkloadKey[a]
BY DEF CertOf, Leaf, OfWorkload, Processed

LEMMA TwoInARow ==
  ASSUME NEW x, NEW y
  PROVE  <<x>> \o <<y>> = <<x, y>>
<1> DEFINE row == <<x>> \o <<y>>
<1>1. row \in Seq({x, y}) /\ Len(row) = 2
  OBVIOUS
<1>2. row[1] = x /\ row[2] = y
  OBVIOUS
<1> HIDE DEF row
<1>3. row = <<x, y>>
  BY <1>1, <1>2
<1>4. QED
  BY <1>3 DEF row

\* The bundle of Home: the JWT key, and then the authority's certificates.
LEMMA HomeBundle ==
  ASSUME HonestInv
  PROVE  LET jwt  == keys_for(Store, Home, "jwt-svid")
             x509 == keys_for(Store, Home, "x509-svid")
         IN  /\ store_ok(Store)
             /\ Len(roots) \in Nat \ {0} /\ DOMAIN roots = 1 .. Len(roots)
             /\ DOMAIN jwt = {1} /\ jwt[1] = JwtKey
             /\ DOMAIN x509 = 2 .. Len(roots) + 1
             /\ \A i \in 2 .. Len(roots) + 1 : x509[i].cert = roots[i - 1]
<1> DEFINE at   == {n \in DOMAIN Store : Store[n].domain = Home /\ Store[n].keys # Absent}
           keys == IF at = {} THEN <<>> ELSE Store[CHOOSE n \in at : TRUE].keys
<1>1. /\ Store[1].domain = Home /\ Store[2].domain = Other /\ DOMAIN Store = {1, 2}
      /\ Store[1].keys = HomeKeys(roots)
  BY DEF Store
<1>2. HomeKeys(roots) # Absent
  BY WorldAssumption DEF HonestInv
<1>3. at = {1}
  BY <1>1, <1>2, WorldAssumption
<1>4. keys = HomeKeys(roots)
  BY <1>1, <1>3
<1>5. \A use : keys_for(Store, Home, use)
                 = [n \in {m \in DOMAIN keys : keys[m].use = use} |-> keys[n]]
  BY DEF keys_for
<1>6. store_ok(Store)
  BY <1>1, WorldAssumption DEF store_ok
<1>7. Len(roots) \in Nat \ {0} /\ DOMAIN roots = 1 .. Len(roots)
  BY DEF HonestInv, RootLists
<1> HIDE DEF keys, at
<1>8. /\ DOMAIN keys = 1 .. Len(roots) + 1 /\ keys[1] = JwtKey
      /\ \A i \in 2 .. Len(roots) + 1 : keys[i] = CaKey(roots[i - 1])
  BY <1>4, <1>7 DEF HomeKeys
<1>9. JwtKey.use = "jwt-svid" /\ \A c : CaKey(c).use = "x509-svid" /\ CaKey(c).cert = c
  BY DEF JwtKey, CaKey
<1>10. {m \in DOMAIN keys : keys[m].use = "jwt-svid"} = {1}
  BY <1>7, <1>8, <1>9
<1>11. {m \in DOMAIN keys : keys[m].use = "x509-svid"} = 2 .. Len(roots) + 1
  BY <1>7, <1>8, <1>9
<1> DEFINE jwt  == keys_for(Store, Home, "jwt-svid")
           x509 == keys_for(Store, Home, "x509-svid")
<1>12. jwt = [n \in {1} |-> keys[n]]
  BY <1>5, <1>10
<1>13. x509 = [n \in 2 .. Len(roots) + 1 |-> keys[n]]
  BY <1>5, <1>11
<1> HIDE DEF jwt, x509
<1>14. DOMAIN jwt = {1} /\ jwt[1] = JwtKey
  BY <1>8, <1>12
<1>15. /\ DOMAIN x509 = 2 .. Len(roots) + 1
       /\ \A i \in 2 .. Len(roots) + 1 : x509[i].cert = roots[i - 1]
  BY <1>8, <1>9, <1>13
<1>16. QED
  BY <1>6, <1>7, <1>14, <1>15 DEF jwt, x509

LEMMA RootsOfAuthority ==
  ASSUME HonestInv, NEW i \in DOMAIN roots
  PROVE  \E from, until : roots[i] = Root(from, until)
BY DEF HonestInv, RootLists

\* The authority's certificate in front anchors what it signed itself.
LEMMA Anchored ==
  ASSUME HonestInv, in_validity(roots[1], now),
         NEW n \in {1, 2}, NEW chain, Len(chain) = n,
         chain[n].signer = Authority.ca, chain[n].issuer = NameOf[Authority.ca]
  PROVE  LET anchors == keys_for(Store, Home, "x509-svid")
         IN  /\ anchor_ok(chain, anchors, Home, now)
             /\ \A i \in DOMAIN anchors : anchors[i].cert # Absent
             /\ DOMAIN anchors # {}
<1> DEFINE anchors == keys_for(Store, Home, "x509-svid")
<1>1. /\ Len(roots) \in Nat \ {0} /\ DOMAIN roots = 1 .. Len(roots)
      /\ DOMAIN anchors = 2 .. Len(roots) + 1
      /\ \A i \in 2 .. Len(roots) + 1 : anchors[i].cert = roots[i - 1]
  BY HomeBundle
<1> HIDE DEF anchors
<1>2. 2 \in DOMAIN anchors /\ anchors[2].cert = roots[1] /\ 1 \in DOMAIN roots
  BY <1>1
<1>3. PICK from, until : roots[1] = Root(from, until)
  BY <1>2, RootsOfAuthority
<1>4. /\ roots[1].subject = NameOf[Authority.ca] /\ roots[1].key = Authority.ca
      /\ check_ca(roots[1], 0) /\ check_ca(roots[1], 1)
      /\ check_name_constraints(roots[1], Home)
  <2> DEFINE first == roots[1]
  <2>1. first = Root(from, until)
    BY <1>3
  <2> HIDE DEF first
  <2>2. /\ first.subject = NameOf[Authority.ca] /\ first.key = Authority.ca
        /\ check_ca(first, 0) /\ check_ca(first, 1) /\ check_name_constraints(first, Home)
    BY <2>1, RootIsWhole, Zenon
  <2>3. QED
    BY <2>2 DEF first
<1>5. 2 \in issuing(anchors, chain) /\ \A j \in issuing(anchors, chain) : 2 <= j
  BY <1>1, <1>2, <1>4 DEF issuing, issued_by
<1>6. check_ca(roots[1], n - 1) /\ check_name_constraints(roots[1], Home)
  BY <1>4
<1>7. anchor_ok(chain, anchors, Home, now)
  BY <1>2, <1>5, <1>6 DEF anchor_ok
<1>8. \A i \in DOMAIN anchors : anchors[i].cert # Absent
  <2> SUFFICES ASSUME NEW i \in DOMAIN anchors PROVE anchors[i].cert # Absent
    OBVIOUS
  <2>1. anchors[i].cert = roots[i - 1] /\ i - 1 \in DOMAIN roots
    BY <1>1
  <2>2. \A j \in DOMAIN roots : roots[j] # Absent
    BY WorldAssumption DEF HonestInv
  <2>3. QED
    BY <2>1, <2>2
<1>9. QED
  BY <1>2, <1>7, <1>8 DEF anchors

LEMMA CertOfWorkload ==
  ASSUME HonestInv, NEW c \in certs \cup forged, NEW id, c.uris = <<id>>
  PROVE  OfWorkload(c)
<1>1. <<id>> # <<>>
  OBVIOUS
<1>2. PICK permitted \in {{Home}, {Other}} : \A d \in certs :
        \/ \E a \in DOMAIN Subject, from, until \in Nat : d = CertOf(a, from, until)
        \/ d = SubordinateCert(permitted)
  BY DEF HonestInv
<1>3. c # SubordinateCert(permitted)
  <2>1. OfSubordinate(SubordinateCert(permitted), permitted)
    BY SubordinateIsWhole
  <2>2. SubordinateCert(permitted).uris = <<>>
    BY <2>1 DEF OfSubordinate
  <2>3. QED
    BY <1>1, <2>2
<1>4. CASE c \in certs
  BY <1>2, <1>3, <1>4, CertOfIsOfWorkload
<1>5. CASE c \in forged
  BY <1>1, <1>5 DEF HonestInv
<1>6. QED
  BY <1>4, <1>5

\* The intermediate's certificate, when the authority let it certify for Home.
LEMMA SubordinateOfEntrusted ==
  ASSUME HonestInv, Entrusted, NEW c \in certs, c.key = Subordinate
  PROVE  /\ c.v3 /\ c.issuer = NameOf[Authority.ca] /\ c.signer = Authority.ca
         /\ c.subject = NameOf[Subordinate] /\ c.critical \subseteq Processed
         /\ check_ca(c, 0) /\ check_name_constraints(c, Home)
<1>1. PICK permitted \in {{Home}, {Other}} : \A d \in certs :
        \/ \E a \in DOMAIN Subject, from, until \in Nat : d = CertOf(a, from, until)
        \/ d = SubordinateCert(permitted)
  BY DEF HonestInv
<1>2. \A d \in certs : d.key = Subordinate => d = SubordinateCert(permitted)
  <2>1. \A a \in DOMAIN Subject, from, until \in Nat :
          CertOf(a, from, until).key = WorkloadKey[a]
    BY CertOfIsOfWorkload
  <2>2. QED
    BY <1>1, <2>1, WorldAssumption
<1>3. c = SubordinateCert(permitted) /\ Home \in c.permitted
  BY <1>2 DEF Entrusted
<1>4. OfSubordinate(c, permitted)
  BY <1>3, SubordinateIsWhole
<1>5. check_ca(c, 0) /\ check_name_constraints(c, Home)
  BY <1>3, <1>4, WorldAssumption DEF check_ca, check_name_constraints, OfSubordinate
<1>6. QED
  BY <1>4, <1>5 DEF OfSubordinate

LEMMA HonestChainStands ==
  ASSUME HonestInv, NEW a \in HonestAgents, NEW chain \in HonestChains(a)
  PROVE  /\ Len(chain) \in 1 .. MaxChain /\ Len(chain) \in {1, 2}
         /\ leaf_ok(chain[1], Subject[a]) /\ path_ok(chain, Home, now)
         /\ chain[Len(chain)].signer = Authority.ca
         /\ chain[Len(chain)].issuer = NameOf[Authority.ca]
<1>1. PICK n \in 1 .. MaxChain : chain \in [1 .. n -> certs \cup forged]
  BY DEF HonestChains, Chains
<1>2. n \in Nat \ {0} /\ Len(chain) = n /\ DOMAIN chain = 1 .. n
  BY <1>1, SpiffeAssumption
<1>3. /\ chain[1].uris = <<Subject[a]>>
      /\ \A i \in 1 .. n : in_validity(chain[i], now)
      /\ \/ n = 1 /\ chain[1].signer = Authority.ca
         \/ n = 2 /\ chain[1].signer = Subordinate /\ chain[2].key = Subordinate
            /\ chain[2] \in certs /\ Entrusted
  BY <1>2 DEF HonestChains
<1>4. OfWorkload(chain[1])
  BY <1>1, <1>2, <1>3, CertOfWorkload
<1>5. leaf_ok(chain[1], Subject[a])
  BY <1>3, <1>4, WorldAssumption DEF leaf_ok, OfWorkload
<1>6. CASE n = 1
  BY <1>1, <1>2, <1>3, <1>4, <1>5, <1>6, WorldAssumption DEF path_ok, OfWorkload
<1>7. CASE n = 2
  <2>1. /\ chain[2].v3 /\ chain[2].issuer = NameOf[Authority.ca] /\ chain[2].signer = Authority.ca
        /\ chain[2].subject = NameOf[Subordinate] /\ chain[2].critical \subseteq Processed
        /\ check_ca(chain[2], 0) /\ check_name_constraints(chain[2], Home)
    BY <1>3, <1>7, SubordinateOfEntrusted
  <2>2. issued_by(chain[1], chain[2])
    BY <1>3, <1>4, <1>7, <2>1 DEF issued_by, OfWorkload
  <2>3. path_ok(chain, Home, now)
    <3> SUFFICES ASSUME NEW i \in {1, 2}
                 PROVE  /\ chain[i].v3 /\ in_validity(chain[i], now)
                        /\ chain[i].critical \subseteq Processed
                        /\ i > 1 => check_ca(chain[i], i - 2)
                                    /\ check_name_constraints(chain[i], Home)
                        /\ i + 1 \in 1 .. 2 => issued_by(chain[i], chain[i + 1])
      BY <1>2, <1>7 DEF path_ok
    <3>1. CASE i = 1
      BY <1>3, <1>4, <1>7, <2>2, <3>1 DEF OfWorkload
    <3>2. CASE i = 2
      BY <1>3, <1>7, <2>1, <3>2
    <3>3. QED
      BY <3>1, <3>2
  <2>4. QED
    BY <1>1, <1>2, <1>5, <1>7, <2>1, <2>3
<1>8. QED
  BY <1>3, <1>6, <1>7

-----------------------------------------------------------------------------
LEMMA X509Stands ==
  ASSUME HonestInv, NEW s \in Shown("x509-svid"), NEW chain \in HonestChains(s.agent),
         in_validity(roots[1], now)
  PROVE  Accepted(X509Svid(Subject[s.agent], chain, X509Proof(s)), EnvelopeOf(s), s.receiver, Store)
<1> DEFINE identity == X509Svid(Subject[s.agent], chain, X509Proof(s))
           anchors  == keys_for(Store, Home, "x509-svid")
<1>1. s.agent \in HonestAgents /\ DomainOf[Subject[s.agent]] = Home /\ Subject[s.agent] \in SpiffeId
  BY WorldAssumption DEF HonestInv, ShownProperly, Shown
<1>2. /\ identity.svid_type = "x509-svid" /\ identity.members = {"x5c"}
      /\ identity.subject = Subject[s.agent] /\ identity.x5c = chain
      /\ identity.proof = X509Proof(s)
  BY DEF X509Svid
<1> HIDE DEF identity
<1>3. descriptor_ok(identity) /\ store_ok(Store)
  BY <1>1, <1>2, HomeBundle DEF descriptor_ok
<1>4. /\ Len(chain) \in 1 .. MaxChain /\ Len(chain) \in {1, 2}
      /\ leaf_ok(chain[1], Subject[s.agent]) /\ path_ok(chain, Home, now)
      /\ chain[Len(chain)].signer = Authority.ca
      /\ chain[Len(chain)].issuer = NameOf[Authority.ca]
  BY <1>1, HonestChainStands
<1>5. /\ anchor_ok(chain, anchors, Home, now)
      /\ \A i \in DOMAIN anchors : anchors[i].cert # Absent
      /\ DOMAIN anchors # {}
  BY <1>4, Anchored
<1> HIDE DEF anchors
<1>6. x509_proof_ok(identity, EnvelopeOf(s), s.receiver)
  BY <1>2 DEF x509_proof_ok, X509Proof, HonestChains
<1>7. x509_svid_ok(identity, EnvelopeOf(s), s.receiver, anchors, now)
  BY <1>1, <1>2, <1>4, <1>5, <1>6 DEF x509_svid_ok
<1>8. svid_ok(identity, EnvelopeOf(s), s.receiver, Store, now)
  BY <1>1, <1>2, <1>3, <1>5, <1>7 DEF svid_ok, anchors
<1>9. QED
  BY <1>8 DEF Accepted, verify_spiffe, Check, identity

LEMMA JwtStands ==
  ASSUME HonestInv, NEW s \in Shown("jwt-svid"), now < s.at + s.term, now - s.at <= IatTolerance
  PROVE  Accepted(JwtSvid(Subject[s.agent], JwtProof(s)), EnvelopeOf(s), s.receiver, Store)
<1> DEFINE jwt      == JwtProof(s)
           identity == JwtSvid(Subject[s.agent], jwt)
           env      == EnvelopeOf(s)
           keys     == keys_for(Store, Home, "jwt-svid")
<1>1. /\ s.agent \in HonestAgents /\ s.agent \in Aid
      /\ DomainOf[Subject[s.agent]] = Home /\ Subject[s.agent] \in SpiffeId
      /\ s.receiver # Absent /\ s.message # Absent /\ s.at \in Nat /\ now \in Nat /\ s.at <= now
      /\ s.term \in Nat
  BY WorldAssumption DEF HonestInv, ShownProperly, Shown
<1>2. /\ identity.svid_type = "jwt-svid" /\ identity.members = {}
      /\ identity.subject = Subject[s.agent] /\ identity.proof = jwt
  BY DEF JwtSvid
<1>3. /\ jwt.compact /\ jwt.header = {"alg", "kid"} /\ jwt.alg = "ES256" /\ jwt.kid = "k1"
      /\ jwt.signer = Authority.jwt /\ jwt.sub = Subject[s.agent] /\ jwt.aud = <<s.receiver>>
      /\ jwt.exp = s.at + s.term /\ jwt.iat = s.at /\ jwt.nonce = s.message
      /\ jwt.jkt = KeyOf[s.agent]
  BY DEF JwtProof, Jwt
<1>4. env.sender = s.agent /\ env.pop_nonce = s.message
  BY DEF EnvelopeOf, Envelope
<1>5. store_ok(Store) /\ DOMAIN keys = {1} /\ keys[1] = JwtKey
  BY HomeBundle
<1> HIDE DEF jwt, identity, env, keys
<1>6. descriptor_ok(identity)
  BY <1>1, <1>2 DEF descriptor_ok
<1>7. jwt_claims_ok(identity, env, s.receiver, now)
  <2>1. s.term \in Nat /\ IatTolerance \in Nat /\ Absent \notin Nat
    BY <1>1, SpiffeAssumption
  <2>2. jwt.exp \in Nat /\ jwt.iat \in Nat
    BY <1>1, <1>3, <2>1
  <2>3. now < jwt.exp /\ now - jwt.iat <= IatTolerance /\ jwt.iat - now <= IatTolerance
    BY <1>1, <1>3, <2>1
  <2>4. QED
    BY <1>1, <1>2, <1>3, <1>4, <2>1, <2>2, <2>3 DEF jwt_claims_ok, Thumbprint
<1>8. JwtKey.kid = "k1" /\ JwtKey.kty = "P-256" /\ JwtKey.alg = Absent /\ JwtKey.key = Authority.jwt
  BY DEF JwtKey
<1>9. "ES256" \in AlgsOf("P-256") /\ "ES256" \in JwtSvidAlgs
  <2>1. AlgsOf("P-256") = {"ES256"}
    BY DEF AlgsOf
  <2>2. QED
    BY <2>1 DEF JwtSvidAlgs
<1>10. jwt_svid_ok(identity, env, s.receiver, keys, now)
  <2>1. named(keys, jwt.kid) = {1} /\ jwt_signature_ok(keys[1], jwt)
    BY <1>3, <1>5, <1>8, <1>9 DEF named, jwt_signature_ok
  <2>2. QED
    BY <1>2, <1>3, <1>5, <1>7, <1>9, <2>1 DEF jwt_svid_ok
<1>11. svid_ok(identity, env, s.receiver, Store, now)
  BY <1>1, <1>2, <1>5, <1>6, <1>10 DEF svid_ok, keys
<1>12. QED
  BY <1>11 DEF Accepted, verify_spiffe, Check, identity, env, jwt

-----------------------------------------------------------------------------
LEMMA HonestInit == Init => HonestInv
<1> SUFFICES ASSUME Init PROVE HonestInv
  OBVIOUS
<1>1. \E permitted \in {{Home}, {Other}} : \A c \in certs :
        \/ \E a \in DOMAIN Subject, from, until \in Nat : c = CertOf(a, from, until)
        \/ c = SubordinateCert(permitted)
  <2>1. 0 \in Nat /\ MaxTime \in Nat
    BY WorldAssumption
  <2>2. PICK delegated \in {{}, {SubordinateCert({Home})}, {SubordinateCert({Other})}} :
          certs = {CertOf(a, 0, MaxTime) : a \in DOMAIN Subject \ HonestAgents} \cup delegated
    BY DEF Init
  <2>3. \E permitted \in {{Home}, {Other}} : \A c \in delegated : c = SubordinateCert(permitted)
    BY <2>2
  <2>4. QED
    BY <2>1, <2>2, <2>3
<1>2. roots \in RootLists
  BY DEF Init, RootLists
<1>3. now \in 0 .. MaxTime /\ forged = {} /\ shown = {}
  BY WorldAssumption DEF Init
<1>4. QED
  BY <1>1, <1>2, <1>3 DEF HonestInv

LEMMA HonestCertify ==
  ASSUME HonestInv, NEW a \in HonestAgents, Certify(a)
  PROVE  HonestInv'
<1>1. /\ certs' = certs \cup {CertOf(a, now, now + Term)}
      /\ UNCHANGED <<now, forged, roots, shown>>
  BY DEF Certify
<1>2. a \in DOMAIN Subject /\ now \in Nat /\ now + Term \in Nat
  BY WorldAssumption DEF HonestInv
<1>3. PICK permitted \in {{Home}, {Other}} : \A c \in certs :
        \/ \E b \in DOMAIN Subject, from, until \in Nat : c = CertOf(b, from, until)
        \/ c = SubordinateCert(permitted)
  BY DEF HonestInv
<1>4. \A c \in certs' :
        \/ \E b \in DOMAIN Subject, from, until \in Nat : c = CertOf(b, from, until)
        \/ c = SubordinateCert(permitted)
  BY <1>1, <1>2, <1>3
<1>5. \A s \in shown' : ShownProperly(s)'
  BY <1>1 DEF HonestInv, ShownProperly
<1>6. QED
  BY <1>1, <1>4, <1>5 DEF HonestInv

LEMMA HonestRenew ==
  ASSUME HonestInv, Renew
  PROVE  HonestInv'
<1>1. Len(roots) = 1 /\ UNCHANGED <<now, certs, forged, shown>>
  BY DEF Renew
<1>2. roots = <<Root(0, 1)>>
  BY <1>1 DEF HonestInv, RootLists
<1>3. roots' = <<Root(now, MaxTime), Root(0, 1)>> \/ roots' = <<Root(0, 1), Root(now, MaxTime)>>
  <2> DEFINE first == Root(0, 1)
             new   == Root(now, MaxTime)
  <2>1. roots' = <<new>> \o roots \/ roots' = roots \o <<new>>
    BY DEF Renew
  <2>2. roots = <<first>>
    BY <1>2
  <2> HIDE DEF first, new
  <2>3. roots' = <<new, first>> \/ roots' = <<first, new>>
    BY <2>1, <2>2, TwoInARow
  <2>4. QED
    BY <2>3 DEF first, new
<1>4. roots' \in RootLists
  BY <1>3 DEF RootLists, HonestInv
<1>5. \A s \in shown' : ShownProperly(s)'
  BY <1>1 DEF HonestInv, ShownProperly
<1>6. QED
  BY <1>1, <1>4, <1>5 DEF HonestInv

LEMMA HonestForge ==
  ASSUME HonestInv, NEW k \in InsiderKeys, Forge(k)
  PROVE  HonestInv'
<1> DEFINE made == {Leaf(NameOf[k], k, Subject[a], key, 0, MaxTime) :
                      key \in ForgedKeys, a \in HonestAgents}
                   \cup {CaCert(NameOf[k], k, key, Absent, Absent, 0, MaxTime) :
                           key \in ForgedKeys \cap InsiderKeys}
<1>1. PICK cert \in made : forged' = forged \cup {cert} /\ UNCHANGED <<now, certs, roots, shown>>
  BY DEF Forge
<1>2. OfWorkload(cert) \/ cert.uris = <<>>
  <2>1. CASE \E key \in ForgedKeys, a \in HonestAgents :
               cert = Leaf(NameOf[k], k, Subject[a], key, 0, MaxTime)
    <3>1. PICK key \in ForgedKeys, a \in HonestAgents :
            cert = Leaf(NameOf[k], k, Subject[a], key, 0, MaxTime)
      BY <2>1
    <3> HIDE DEF made
    <3>2. OfWorkload(cert)
      BY <3>1 DEF Leaf, OfWorkload, Processed
    <3>3. QED
      BY <3>2
  <2>2. CASE \E key \in ForgedKeys \cap InsiderKeys :
               cert = CaCert(NameOf[k], k, key, Absent, Absent, 0, MaxTime)
    <3>1. PICK key \in ForgedKeys \cap InsiderKeys :
            cert = CaCert(NameOf[k], k, key, Absent, Absent, 0, MaxTime)
      BY <2>2
    <3> HIDE DEF made
    <3>2. cert.uris = <<>>
      BY <3>1, ForgedCaCert
    <3>3. QED
      BY <3>2
  <2>3. QED
    BY <1>1, <2>1, <2>2
<1> HIDE DEF made
<1>3. \A c \in forged' : OfWorkload(c) \/ c.uris = <<>>
  BY <1>1, <1>2 DEF HonestInv
<1>4. \A s \in shown' : ShownProperly(s)'
  BY <1>1 DEF HonestInv, ShownProperly
<1>5. QED
  BY <1>1, <1>3, <1>4 DEF HonestInv, OfWorkload

LEMMA HonestStep == HonestInv /\ [Next]_vars => HonestInv'
<1> SUFFICES ASSUME HonestInv, [Next]_vars
             PROVE  HonestInv'
  OBVIOUS
<1>1. CASE Tick
  <2>1. now' \in 0 .. MaxTime /\ now \in Nat /\ now' = now + 1
        /\ UNCHANGED <<certs, forged, roots, shown>>
    BY <1>1, WorldAssumption DEF Tick, HonestInv
  <2>2. \A s \in shown' : ShownProperly(s)'
    BY <2>1 DEF HonestInv, ShownProperly
  <2>3. QED
    BY <2>1, <2>2 DEF HonestInv
<1>2. CASE \E a \in HonestAgents : Show(a)
  <2>1. PICK a \in HonestAgents, type \in {"jwt-svid", "x509-svid"}, receiver \in Receivers,
             message \in Messages, term \in JwtTerms :
          shown' = shown \cup {[type |-> type, agent |-> a, receiver |-> receiver,
                                message |-> message, at |-> now, term |-> term]}
    BY <1>2 DEF Show
  <2>2. UNCHANGED <<now, certs, forged, roots>>
    BY <1>2 DEF Show
  <2>3. \A s \in shown' : ShownProperly(s)'
    BY <2>1, <2>2, WorldAssumption DEF HonestInv, ShownProperly
  <2>4. QED
    BY <2>2, <2>3 DEF HonestInv
<1>3. CASE UNCHANGED vars
  <2>1. \A s \in shown' : ShownProperly(s)'
    BY <1>3 DEF vars, HonestInv, ShownProperly
  <2>2. QED
    BY <1>3, <2>1 DEF vars, HonestInv
<1>4. QED
  BY <1>1, <1>2, <1>3, HonestCertify, HonestRenew, HonestForge DEF Next

(***************************************************************************)
(* No check refuses an honest workload: its JWT-SVID, and its X509-SVID    *)
(* with the intermediate's certificate or without one, are accepted as     *)
(* long as they and the authority's certificate in front last, in whatever *)
(* order a renewal left the bundle (keys_for, the path and the anchor of   *)
(* verify_spiffe, which counts a path length of 0 as room for the leaf).   *)
(***************************************************************************)
THEOREM HonestSvidIsAccepted == Spec => []HonestSvidAccepted
<1>1. HonestInv => HonestSvidAccepted
  BY X509Stands, JwtStands DEF HonestSvidAccepted
<1>2. QED
  BY HonestInit, HonestStep, <1>1, PTL DEF Spec

-----------------------------------------------------------------------------
\* What the authority signed for a workload has that workload's key.
LEMMA LeafOfAuthority ==
  ASSUME HonestInv, NEW c \in certs, NEW a \in HonestAgents, c.uris = <<Subject[a]>>
  PROVE  c.key = WorkloadKey[a]
<1>1. <<Subject[a]>> # <<>>
  OBVIOUS
<1>2. PICK permitted \in {{Home}, {Other}} : \A d \in certs :
        \/ \E b \in DOMAIN Subject, from, until \in Nat : d = CertOf(b, from, until)
        \/ d = SubordinateCert(permitted)
  BY DEF HonestInv
<1>3. c # SubordinateCert(permitted)
  <2>1. OfSubordinate(SubordinateCert(permitted), permitted)
    BY SubordinateIsWhole
  <2>2. SubordinateCert(permitted).uris = <<>>
    BY <2>1 DEF OfSubordinate
  <2>3. QED
    BY <1>1, <2>2
<1>4. PICK b \in DOMAIN Subject, from \in Nat, until \in Nat : c = CertOf(b, from, until)
  BY <1>2, <1>3
<1>5. c.key = WorkloadKey[b] /\ c.uris = <<Subject[b]>>
  BY <1>4 DEF CertOf, Leaf
<1>6. <<Subject[b]>>[1] = <<Subject[a]>>[1]
  BY <1>5
<1>7. Subject[b] = Subject[a]
  BY <1>6
<1>8. QED
  BY <1>5, <1>7, WorldAssumption

(***************************************************************************)
(* Whichever certificates there are and however they are put together, an  *)
(* insider's key does not prove an honest agent's workload: the leaf is    *)
(* signed by who certifies for the domain (HomeCertifies), and what the    *)
(* authority itself signed for that workload has the workload's key        *)
(* (leaf_ok, whose URI is the subject of the descriptor).                  *)
(***************************************************************************)
THEOREM InsidersProveNoOther == Spec => []WorkloadsAreTheirOwn
<1>1. IInv /\ HonestInv /\ CertifiedByHome => WorkloadsAreTheirOwn
  <2> SUFFICES ASSUME IInv, HonestInv, CertifiedByHome,
                      NEW a \in HonestAgents, NEW k \in InsiderKeys, NEW chain \in Chains,
                      NEW env, env = CHOOSE e \in Envelopes : TRUE,
                      NEW receiver, receiver = CHOOSE r \in Receivers : TRUE,
                      Accepted(X509Svid(Subject[a], chain, SignedAs(k, env, receiver)),
                               env, receiver, Store)
               PROVE  Entrusted /\ chain[1].signer = Subordinate
    BY DEF WorkloadsAreTheirOwn
  <2>1. DomainOf[Subject[a]] = Home /\ Subject[a] \in SpiffeId
    BY WorldAssumption
  <2>2. leaf_ok(chain[1], Subject[a]) /\ SignedAs(k, env, receiver).signer = chain[1].key
    BY X509Accepted DEF Accepted
  <2>3. chain[1].key = k /\ chain[1].uris = <<Subject[a]>>
    BY <2>2 DEF SignedAs, leaf_ok
  <2>4. chain[1].signer \in Certifiers
    BY <2>1, <2>3 DEF CertifiedByHome
  <2>5. chain[1] \in certs \cup forged
    <3>1. PICK n \in 1 .. MaxChain : chain \in [1 .. n -> certs \cup forged]
      BY DEF Chains
    <3>2. 1 \in 1 .. n
      BY SpiffeAssumption
    <3>3. QED
      BY <3>1, <3>2
  <2>6. CASE chain[1].signer = Authority.ca
    <3>1. chain[1] \in certs
      BY <2>5, <2>6, WorldAssumption DEF IInv
    <3>2. chain[1].key = WorkloadKey[a]
      BY <2>3, <3>1, LeafOfAuthority
    <3>3. QED
      BY <2>3, <3>2, WorldAssumption
  <2>7. QED
    BY <2>4, <2>6 DEF Certifiers
<1>2. Spec => []HonestInv
  BY HonestInit, HonestStep, PTL DEF Spec
<1>3. QED
  BY Invariance, HomeCertifies, <1>1, <1>2, PTL

=============================================================================
