-------------------------- MODULE DelegationProofs --------------------------
(***************************************************************************)
(* For every set of agents, vouchers, rights and bounds, and chains of any *)
(* length the verifier takes: rights come from Self (module                *)
(* DelegationWorld).                                                       *)
(*                                                                         *)
(* The first part is about the code alone: what an accepted token says of  *)
(* each token on its path.  The second shows that whatever was accepted    *)
(* there had been signed as it is, and that the tokens on the path then    *)
(* lead from a voucher of Self to the holder, right by right.  The rest is *)
(* about what reaches the verifier beside the token: deny lists, and the   *)
(* promise of RevocationPromise; their order; and the second path.  Last,  *)
(* that the code refuses no honest delegation before it expires.           *)
(***************************************************************************)
EXTENDS DelegationWorld, VerdictLemmas, FiniteSetTheorems

-----------------------------------------------------------------------------
\* verify_jws: an accepted token is signed by the AID it is checked against.
LEMMA JwsAccepted ==
  ASSUME NEW token, NEW aid, NEW typ, NEW err, NEW after,
         verify_jws(token, aid, typ, err, after) = OK,
         err.sig # OK, ValueError # OK
  PROVE  aid \in Aid /\ SignedBy(token, aid)
BY SevenChecks DEF verify_jws, Check

\* The voucher checks: a voucher of this verifier for the token's issuer.
LEMMA VoucherChecked ==
  ASSUME NEW token, NEW selfAid, NEW time
  PROVE  LET v == token.voucher
         IN  check_voucher(token, selfAid, time) = OK <=>
               /\ v # Absent
               /\ v.compact
               /\ v.iss = selfAid
               /\ verify_jws(v, v.iss, "aitp-grant+jwt", VoucherErrors, OK) = OK
               /\ check_shape(v, InvalidVoucher) = OK
               /\ v.sub = token.iss
               /\ time < v.exp /\ token.exp <= v.exp
               /\ token.scope \subseteq v.grants
BY SevenChecks DEF check_voucher, Check, OK, InvalidVoucher, Expired, ScopeExceeded,
                   parse_compact

\* A token after the first one shrinks what it holds.
LEMMA ContinuityChecked ==
  ASSUME NEW hops, NEW i
  PROVE  check_continuity(hops, i) = OK <=>
           /\ hops[i].voucher = Absent
           /\ hops[i].iss = hops[i - 1].sub
           /\ hops[i].exp <= hops[i - 1].exp
           /\ hops[i].scope \subseteq hops[i - 1].scope
BY FourChecks DEF check_continuity, Check, OK, InvalidVoucher, Expired, ScopeExceeded

\* What is checked of every token of a path, whichever way it is taken.
HopSound(hops, i, time) ==
  /\ hops[i].iss \in Aid /\ SignedBy(hops[i], hops[i].iss)
  /\ time < hops[i].exp
  /\ IF i = 1 THEN check_voucher(hops[i], Self, time) = OK
     ELSE check_continuity(hops, i) = OK

\* One turn of the loop of _verify_multihop.
LEMMA HopAccepted ==
  ASSUME NEW hops, NEW i, NEW env, NEW time, env.selfAid = Self,
         check_hop(hops, i, env, time) = OK
  PROVE  HopSound(hops, i, time)
<1> DEFINE hop == hops[i]
           last == IF i = 1 THEN check_voucher(hop, env.selfAid, time)
                   ELSE check_continuity(hops, i)
<1>1. /\ verify_jws(hop, hop.iss, "aitp-delegation+jwt", DelegationErrors, OK) = OK
      /\ Check(time < hop.exp, Expired) = OK
      /\ last = OK
  <2> HIDE DEF last
  <2>1. QED
    BY TwelveChecks DEF check_hop, last
<1>2. time < hop.exp
  BY <1>1 DEF Check, OK, Expired
<1>3. DelegationErrors.sig # OK /\ ValueError # OK
  BY DEF DelegationErrors, VoucherErrors, InvalidSignature, OK, ValueError
<1>4. hop.iss \in Aid /\ SignedBy(hop, hop.iss)
  BY <1>1, <1>3, JwsAccepted
<1>5. QED
  BY <1>1, <1>2, <1>4 DEF HopSound

\* Both ways through verify_delegation_token.
LEMMA PathAccepted ==
  ASSUME NEW token, NEW env, NEW time, env.selfAid = Self, Self # Absent,
         token.chain \in Seq(Available),
         verify_delegation_token(token, env, time) = OK
  PROVE  \A i \in DOMAIN Path(token) : HopSound(Path(token), i, time)
<1>1. verify_delegation_token(token, env, time) = OK =>
        IF token.chainForm # "absent" THEN verify_multihop(token, env, time) = OK
        ELSE verify_singlehop(token, env, time) = OK
  BY FourChecks DEF verify_delegation_token
<1>2. CASE token.chainForm = "absent"
  <2>1. /\ verify_jws(token, token.iss, "aitp-delegation+jwt", DelegationErrors, OK) = OK
        /\ Check(time < token.exp, Expired) = OK
        /\ check_voucher(token, Self, time) = OK
    BY <1>1, <1>2, NineChecks DEF verify_singlehop
  <2>2. time < token.exp
    BY <2>1 DEF Check, OK, Expired
  <2>3. DelegationErrors.sig # OK /\ ValueError # OK
    BY DEF DelegationErrors, VoucherErrors, InvalidSignature, OK, ValueError
  <2>4. token.iss \in Aid /\ SignedBy(token, token.iss)
    BY <2>1, <2>3, JwsAccepted
  <2>5. Path(token) = <<token>>
    BY <1>2 DEF Path
  <2>6. QED
    BY <2>1, <2>2, <2>4, <2>5 DEF HopSound
<1>3. CASE token.chainForm # "absent"
  <2> DEFINE hops == hops_of(token)
             checks == [i \in DOMAIN hops |-> check_hop(hops, i, env, time)]
  <2>1. verify_multihop(token, env, time) = OK
    BY <1>1, <1>3
  <2>2. FirstError(checks) = OK
    <3>1. token.chainForm # "other"
      BY <2>1 DEF verify_multihop, TypeError, OK
    <3> HIDE DEF checks
    <3>2. QED
      BY <2>1, <3>1, SevenChecks DEF verify_multihop, checks
  <2>3. hops \in Seq(Available \cup {token})
    BY DEF hops_of
  <2>4. Len(hops) \in Nat /\ DOMAIN hops = 1 .. Len(hops)
    <3> HIDE DEF hops
    <3>1. QED
      BY <2>3
  <2>5. DOMAIN checks = 1 .. Len(hops)
    BY <2>4
  <2>6. \A i \in 1 .. Len(hops) : checks[i] = OK
    <3> HIDE DEF checks, hops
    <3>1. QED
      BY <2>2, <2>4, <2>5, FirstErrorOK
  <2>7. \A i \in DOMAIN hops : check_hop(hops, i, env, time) = OK
    BY <2>4, <2>6
  <2>8. Path(token) = hops
    BY <1>3 DEF Path
  <2> HIDE DEF hops
  <2>9. QED
    BY <2>7, <2>8, HopAccepted
<1>4. QED
  BY <1>2, <1>3

-----------------------------------------------------------------------------
(***************************************************************************)
(* The path of a signed token.  A dishonest agent chooses what is on it,   *)
(* from what was signed and from what it made of that; what the verifier   *)
(* accepts of it was signed.                                               *)
(***************************************************************************)
LEMMA PathIsAvailable ==
  ASSUME TypeOK, NEW token \in signed
  PROVE  /\ Len(Path(token)) \in Nat \ {0}
         /\ DOMAIN Path(token) = 1 .. Len(Path(token))
         /\ Path(token)[Len(Path(token))] = token
         /\ \A i \in DOMAIN Path(token) : Path(token)[i] \in Available
<1>1. token \in Available /\ token.chain \in Seq(Available)
  BY DEF TypeOK, Available
<1>2. Path(token) = <<token>> \/ Path(token) = Append(token.chain, token)
  BY DEF Path, hops_of
<1> HIDE DEF Available
<1>3. CASE Path(token) = <<token>>
  BY <1>1, <1>3
<1>4. CASE Path(token) = Append(token.chain, token)
  <2> DEFINE chain == token.chain
  <2>1. chain \in Seq(Available) /\ Len(chain) \in Nat
    BY <1>1
  <2> HIDE DEF chain
  <2>2. /\ Append(chain, token) \in Seq(Available)
        /\ Len(Append(chain, token)) = Len(chain) + 1
        /\ Append(chain, token)[Len(chain) + 1] = token
    BY <1>1, <2>1
  <2>3. QED
    BY <1>4, <2>1, <2>2 DEF chain
<1>5. QED
  BY <1>2, <1>3, <1>4

LEMMA AcceptedWasSigned ==
  ASSUME TypeOK, NEW token \in Available, SignedBy(token, token.iss)
  PROVE  token \in signed
<1>1. token.signer \in Key
  BY AidAssumption DEF SignedBy
<1>2. ASSUME NEW t \in signed
      PROVE  Tampered(t).signer = NoKey
  <2>1. "signer" \in DOMAIN t
    BY DEF TypeOK, Claims, Token
  <2>2. QED
    BY <2>1 DEF Tampered
<1>3. QED
  BY <1>1, <1>2, AidAssumption DEF Available

\* A voucher that an accepted token carries is one Self issued.
LEMMA VoucherWasIssued ==
  ASSUME TypeOK, NEW token \in signed, NEW time, check_voucher(token, Self, time) = OK
  PROVE  token.voucher \in Vouchers
<1> DEFINE v == token.voucher
<1>1. /\ v # Absent /\ v.iss = Self
      /\ verify_jws(v, v.iss, "aitp-grant+jwt", VoucherErrors, OK) = OK
  BY VoucherChecked
<1>2. VoucherErrors.sig # OK /\ ValueError # OK
  BY DEF VoucherErrors, InvalidVoucher, OK, ValueError
<1>3. v.signer = KeyOf[Self]
  BY <1>1, <1>2, JwsAccepted DEF SignedBy
<1>4. v \in Vouchers \cup FakeVouchers
  BY <1>1 DEF TypeOK
<1>5. QED
  BY <1>1, <1>3, <1>4, WorldAssumption

\* What Self issues is what verify_grant_voucher accepts in time.
LEMMA VoucherIsGood ==
  ASSUME NEW v \in Vouchers
  PROVE  /\ v # Absent /\ v.iss = Self /\ v.exp \in Int
         /\ v.compact
         /\ verify_jws(v, v.iss, "aitp-grant+jwt", VoucherErrors, OK) = OK
         /\ check_shape(v, InvalidVoucher) = OK
         /\ v.ver = PROTOCOL_VERSION /\ v.grants # {}
<1>1. v # Absent /\ v.iss = Self /\ v.exp \in Int /\ verify_grant_voucher(v, v.exp - 1) = OK
  BY WorldAssumption
<1>2. /\ verify_jws(v, v.iss, "aitp-grant+jwt", VoucherErrors, OK) = OK
      /\ check_shape(v, InvalidVoucher) = OK
      /\ v.ver = PROTOCOL_VERSION /\ v.grants # {}
  BY <1>1, FiveChecks DEF verify_grant_voucher, Check, OK, InvalidVoucher
<1>3. v.compact
  BY <1>2, SevenChecks
  DEF verify_jws, parse_compact, Check, OK, VoucherErrors, InvalidVoucher
<1>4. QED
  BY <1>1, <1>2, <1>3

-----------------------------------------------------------------------------
(***************************************************************************)
(* Along an accepted path: what the last token passes on every token       *)
(* before it passed on too, and every token on it was signed by somebody   *)
(* the right had reached.  Both by the first place where it would fail.    *)
(***************************************************************************)
LEMMA ScopeShrinks ==
  ASSUME NEW hops, NEW n \in Nat \ {0}, NEW right, right \in hops[n].scope,
         \A i \in 2 .. n : hops[i].scope \subseteq hops[i - 1].scope
  PROVE  \A i \in 1 .. n : right \in hops[i].scope
<1> DEFINE T == {k \in 0 .. n - 1 : right \notin hops[n - k].scope}
<1>1. SUFFICES ASSUME T # {} PROVE FALSE
  <2>1. \A i \in 1 .. n : n - i \in 0 .. n - 1 /\ n - (n - i) = i
    OBVIOUS
  <2>2. QED
    BY <1>1, <2>1
<1>2. PICK k \in T : \A j \in T : k <= j
  <2>1. T \in SUBSET Nat
    OBVIOUS
  <2> HIDE DEF T
  <2>2. QED
    BY <1>1, <2>1, LeastNatural
<1>3. k # 0
  OBVIOUS
<1>4. k - 1 \notin T /\ k - 1 \in 0 .. n - 1
  BY <1>2, <1>3
<1>5. right \in hops[n - (k - 1)].scope
  BY <1>4
<1>6. n - (k - 1) \in 2 .. n /\ n - (k - 1) - 1 = n - k
  BY <1>2, <1>3
<1>7. right \in hops[n - k].scope
  BY <1>5, <1>6
<1>8. QED
  BY <1>7

LEMMA RightsTravel ==
  ASSUME NEW hops, NEW n \in Nat \ {0}, NEW S, hops[1].iss \in S,
         \A i \in 1 .. n : hops[i].iss \in S => hops[i].sub \in S,
         \A i \in 2 .. n : hops[i].iss = hops[i - 1].sub
  PROVE  hops[n].sub \in S
<1> DEFINE T == {i \in 1 .. n : hops[i].sub \notin S}
<1>1. SUFFICES ASSUME T # {} PROVE FALSE
  OBVIOUS
<1>2. PICK i \in T : \A j \in T : i <= j
  <2>1. T \in SUBSET Nat
    OBVIOUS
  <2> HIDE DEF T
  <2>2. QED
    BY <1>1, <2>1, LeastNatural
<1>3. i # 1
  OBVIOUS
<1>4. i - 1 \notin T /\ i - 1 \in 1 .. n /\ i \in 2 .. n
  BY <1>2, <1>3
<1>5. hops[i].iss \in S
  BY <1>4
<1>6. QED
  BY <1>5

LEMMA RightsFromType ==
  ASSUME TypeOK
  PROVE  RightsComeFromSelf
<1> SUFFICES ASSUME NEW t \in signed, verify_delegation_token(t, OpenEnv, now) = OK,
                    NEW right \in t.scope, NEW S \in SUBSET Aid,
                    ClosedUnderGrants(S, right)
             PROVE  t.sub \in S
  BY DEF RightsComeFromSelf
<1> DEFINE hops == Path(t)
           n == Len(hops)
<1>1. /\ n \in Nat \ {0} /\ DOMAIN hops = 1 .. n /\ hops[n] = t
      /\ \A i \in 1 .. n : hops[i] \in Available
  BY PathIsAvailable
<1>2. \A i \in 1 .. n : HopSound(hops, i, now)
  <2>1. OpenEnv.selfAid = Self
    BY DEF OpenEnv, Env
  <2>2. t.chain \in Seq(Available)
    BY DEF TypeOK
  <2>3. QED
    BY <1>1, <2>1, <2>2, WorldAssumption, AidAssumption, PathAccepted
<1> HIDE DEF hops, n
<1>3. \A i \in 1 .. n : hops[i] \in signed /\ now < hops[i].exp
  BY <1>1, <1>2, AcceptedWasSigned DEF HopSound
<1>4. \A i \in 2 .. n : /\ hops[i].iss = hops[i - 1].sub
                        /\ hops[i].scope \subseteq hops[i - 1].scope
  <2>1. \A i \in 2 .. n : i # 1 /\ i \in 1 .. n
    OBVIOUS
  <2>2. QED
    BY <1>2, <2>1, ContinuityChecked DEF HopSound
<1>5. \A i \in 1 .. n : right \in hops[i].scope
  BY <1>1, <1>4, ScopeShrinks
<1>6. hops[1].iss \in S
  <2>1. 1 \in 1 .. n
    BY <1>1
  <2>2. check_voucher(hops[1], Self, now) = OK
    BY <1>2, <2>1 DEF HopSound
  <2>3. hops[1].voucher \in Vouchers
    BY <1>3, <2>1, <2>2, VoucherWasIssued
  <2>4. /\ now < hops[1].voucher.exp
        /\ hops[1].voucher.sub = hops[1].iss
        /\ hops[1].scope \subseteq hops[1].voucher.grants
    BY <2>2, VoucherChecked
  <2>5. QED
    BY <1>5, <2>1, <2>3, <2>4 DEF ClosedUnderGrants
<1>7. \A i \in 1 .. n : hops[i].iss \in S => hops[i].sub \in S
  BY <1>3, <1>5 DEF ClosedUnderGrants
<1>8. hops[n].sub \in S
  BY <1>1, <1>4, <1>6, <1>7, RightsTravel
<1>9. QED
  BY <1>1, <1>8

\* The voucher at the root, for the entry point.
LEMMA VouchersFromType ==
  ASSUME TypeOK
  PROVE  VouchersStand
<1> SUFFICES ASSUME NEW t \in signed, verify_delegation_token(t, OpenEnv, now) = OK
             PROVE  verify_grant_voucher(Path(t)[1].voucher, now) = OK
  BY DEF VouchersStand
<1> DEFINE first == Path(t)[1]
           v == first.voucher
<1>1. 1 \in DOMAIN Path(t) /\ first \in Available
  BY PathIsAvailable
<1>2. HopSound(Path(t), 1, now)
  <2>1. OpenEnv.selfAid = Self
    BY DEF OpenEnv, Env
  <2>2. t.chain \in Seq(Available)
    BY DEF TypeOK
  <2>3. QED
    BY <1>1, <2>1, <2>2, WorldAssumption, AidAssumption, PathAccepted
<1>3. first \in signed /\ check_voucher(first, Self, now) = OK
  BY <1>1, <1>2, AcceptedWasSigned DEF HopSound
<1>4. v \in Vouchers
  BY <1>3, VoucherWasIssued
<1>5. v.ver = PROTOCOL_VERSION /\ v.grants # {}
  BY <1>4, VoucherIsGood
<1>6. /\ verify_jws(v, v.iss, "aitp-grant+jwt", VoucherErrors, OK) = OK
      /\ check_shape(v, InvalidVoucher) = OK
      /\ now < v.exp
  BY <1>3, VoucherChecked
<1> HIDE DEF v, first
<1>7. verify_grant_voucher(v, now) = OK
  BY <1>5, <1>6, FiveChecks DEF verify_grant_voucher, Check
<1>8. QED
  BY <1>7 DEF v, first

-----------------------------------------------------------------------------
(***************************************************************************)
(* The tokens that exist are well formed: signed by their issuer, with a   *)
(* chain made of what was there when they were signed.                     *)
(***************************************************************************)
WellFormed(t, tokens) ==
  /\ DOMAIN t = Claims
  /\ t.iss \in Aid /\ t.signer = KeyOf[t.iss]
  /\ t.voucher \in Vouchers \cup FakeVouchers \cup {Absent}
  /\ t.chain \in Seq(tokens \cup {Tampered(u) : u \in tokens})

LEMMA WellFormedStays ==
  ASSUME NEW t, NEW tokens, NEW more, tokens \subseteq more, WellFormed(t, tokens)
  PROVE  WellFormed(t, more)
<1> DEFINE old == tokens \cup {Tampered(u) : u \in tokens}
           new == more \cup {Tampered(u) : u \in more}
<1>1. old \subseteq new
  OBVIOUS
<1>2. t.chain \in Seq(old)
  BY DEF WellFormed
<1> HIDE DEF old, new
<1>3. t.chain \in Seq(new)
  BY <1>1, <1>2
<1>4. QED
  BY <1>3 DEF WellFormed, new

LEMMA TokenIsWellFormed ==
  ASSUME NEW agent \in Agents, NEW sub, NEW scope, NEW exp, NEW jti,
         NEW voucher \in Vouchers \cup FakeVouchers \cup {Absent},
         NEW chain \in Seq(Available)
  PROVE  LET token == Token(agent, sub, scope, exp, jti)
         IN  /\ WellFormed([token EXCEPT !.voucher = voucher], signed)
             /\ WellFormed(Chained(token, chain), signed)
             /\ WellFormed(Chained([token EXCEPT !.voucher = voucher], <<>>), signed)
<1>1. agent \in Aid
  BY WorldAssumption
<1>2. <<>> \in Seq(Available)
  OBVIOUS
<1>3. QED
  BY <1>1, <1>2 DEF WellFormed, Token, Chained, Claims, Available

\* What Sign adds keeps the type.
LEMMA SignKeepsType ==
  ASSUME TypeOK, NEW token, WellFormed(token, signed), Sign(token)
  PROVE  TypeOK'
<1>1. /\ signed' = signed \cup {token}
      /\ UNCHANGED <<now, revokedAt, published, call>>
  BY DEF Sign
<1>2. \A t \in signed' : WellFormed(t, signed)
  BY <1>1 DEF TypeOK, WellFormed, Available
<1>3. \A t \in signed' : WellFormed(t, signed')
  BY <1>1, <1>2, WellFormedStays
<1>4. \A t \in signed' :
        /\ DOMAIN t = Claims
        /\ t.iss \in Aid /\ t.signer = KeyOf[t.iss]
        /\ t.voucher \in Vouchers \cup FakeVouchers \cup {Absent}
        /\ t.chain \in Seq(Available')
  BY <1>3 DEF WellFormed, Available
<1>5. QED
  BY <1>1, <1>4 DEF TypeOK

LEMMA SignStep ==
  ASSUME TypeOK, NEW a \in Agents, SignFromVoucher(a) \/ SignFromToken(a) \/ SignAnything(a)
  PROVE  TypeOK'
<1>1. CASE SignFromVoucher(a)
  <2>1. PICK v \in Vouchers, sub \in Agents \ {a}, scope \in Scopes, exp \in 1 .. MaxTime,
             jti \in JtisOf[a] :
               Sign([Token(a, sub, scope, exp, jti) EXCEPT !.voucher = v])
    BY <1>1 DEF SignFromVoucher
  <2>2. <<>> \in Seq(Available)
    OBVIOUS
  <2>3. WellFormed([Token(a, sub, scope, exp, jti) EXCEPT !.voucher = v], signed)
    BY <2>2, TokenIsWellFormed
  <2>4. QED
    BY <2>1, <2>3, SignKeepsType
<1>2. CASE SignFromToken(a)
  <2>1. PICK held \in signed, sub \in Agents \ {a}, scope \in Scopes, exp \in 1 .. MaxTime,
             jti \in JtisOf[a] :
               Sign(Chained(Token(a, sub, scope, exp, jti), Path(held)))
    BY <1>2 DEF SignFromToken
  <2>2. Path(held) \in Seq(Available)
    <3>1. held \in Available /\ held.chain \in Seq(Available)
      BY DEF TypeOK, Available
    <3> HIDE DEF Available
    <3>2. QED
      BY <3>1 DEF Path, hops_of
  <2>3. QED
    BY <2>1, <2>2, TokenIsWellFormed, SignKeepsType
<1>3. CASE SignAnything(a)
  <2>1. PICK sub \in Agents \ {a}, scope \in Scopes, jti \in JtisOf[a],
             chain \in UNION {[1 .. n -> Available] : n \in 1 .. MAX_DELEGATION_HOPS - 1} :
          \/ Sign(Chained(Token(a, sub, scope, MaxTime, jti), chain))
          \/ \E v \in Vouchers \cup FakeVouchers :
               \/ Sign([Token(a, sub, scope, MaxTime, jti) EXCEPT !.voucher = v])
               \/ Sign(Chained([Token(a, sub, scope, MaxTime, jti) EXCEPT !.voucher = v], <<>>))
    BY <1>3 DEF SignAnything
  <2>2. chain \in Seq(Available)
    <3> HIDE DEF Available
    <3>1. PICK n \in 1 .. MAX_DELEGATION_HOPS - 1 : chain \in [1 .. n -> Available]
      BY <2>1
    <3>2. n \in Nat
      BY DEF MAX_DELEGATION_HOPS
    <3>3. QED
      BY <3>1, <3>2
  <2>3. QED
    BY <2>1, <2>2, TokenIsWellFormed, SignKeepsType
<1>4. QED
  BY <1>1, <1>2, <1>3

LEMMA TypeInit == Init => TypeOK
<1> SUFFICES ASSUME Init PROVE TypeOK
  OBVIOUS
<1>1. \A t \in Initial : WellFormed(t, Initial)
  <2> SUFFICES ASSUME NEW t \in Initial PROVE WellFormed(t, Initial)
    OBVIOUS
  <2> DEFINE all == Initial \cup {Tampered(u) : u \in Initial}
  <2>1. t.chain \in Seq(Initial) /\ Initial \subseteq all
    BY WorldAssumption
  <2> HIDE DEF all
  <2>2. t.chain \in Seq(all)
    BY <2>1
  <2>3. QED
    BY <2>2, WorldAssumption DEF WellFormed, all
<1>2. QED
  BY <1>1, WorldAssumption DEF Init, TypeOK, WellFormed, Available

LEMMA TypeStep == TypeOK /\ [Next]_vars => TypeOK'
<1> SUFFICES ASSUME TypeOK, [Next]_vars PROVE TypeOK'
  OBVIOUS
<1>1. CASE Tick
  <2>1. /\ now' = now + 1 /\ now < MaxTime
        /\ UNCHANGED <<signed, revokedAt, published, call>>
    BY <1>1 DEF Tick
  <2>2. now' \in 0 .. MaxTime /\ 0 .. now \subseteq 0 .. now'
    BY <2>1, WorldAssumption DEF TypeOK
  <2>3. \A s \in published' :
          /\ s.issuer \in Honest /\ s.entries \subseteq Jti
          /\ s.published_at \in 0 .. now' /\ s.expires_at = s.published_at + Lifetime
    BY <2>1, <2>2 DEF TypeOK
  <2>4. Available' = Available
    BY <2>1 DEF Available
  <2>5. QED
    BY <2>1, <2>2, <2>3, <2>4 DEF TypeOK
<1>2. ASSUME NEW a \in Agents, SignFromVoucher(a) \/ SignFromToken(a) \/ SignAnything(a)
      PROVE  TypeOK'
  BY <1>2, SignStep
<1>3. ASSUME NEW p \in Revocable, Revoke(p[1], p[2])
      PROVE  TypeOK'
  <2>1. p[1] \in Honest /\ p[2] \in Jti
    BY WorldAssumption
  <2>2. QED
    BY <1>3, <2>1 DEF Revoke, TypeOK, Available
<1>4. ASSUME NEW p \in Revocable, Publish(p[1])
      PROVE  TypeOK'
  <2>1. p[1] \in Honest
    BY WorldAssumption
  <2>2. /\ published' = published \cup {Snapshot(p[1], Revoked(p[1]))}
        /\ UNCHANGED <<now, signed, revokedAt, call>>
    BY <1>4 DEF Publish
  <2>3. LET s == Snapshot(p[1], Revoked(p[1]))
        IN  /\ s.issuer = p[1] /\ s.entries \subseteq Jti
            /\ s.published_at = now /\ s.expires_at = now + Lifetime
    BY DEF Snapshot, Revoked
  <2>4. \A s \in published' :
          /\ s.issuer \in Honest /\ s.entries \subseteq Jti
          /\ s.published_at \in 0 .. now' /\ s.expires_at = s.published_at + Lifetime
    BY <2>1, <2>2, <2>3, WorldAssumption DEF TypeOK
  <2>5. Available' = Available
    BY <2>2 DEF Available
  <2>6. QED
    BY <2>2, <2>4, <2>5 DEF TypeOK
<1>5. ASSUME NEW t \in signed, NEW c \in Contexts, NEW r \in Supplies, Verify(t, c, r)
      PROVE  TypeOK'
  BY <1>5 DEF Verify, TypeOK, Available
<1>6. CASE Return
  BY <1>6 DEF Return, TypeOK, Available
<1>7. CASE UNCHANGED vars
  BY <1>7 DEF vars, TypeOK, Available
<1>8. QED
  BY <1>1, <1>2, <1>3, <1>4, <1>5, <1>6, <1>7 DEF Next

-----------------------------------------------------------------------------
(***************************************************************************)
(* Revocation.  The first part again is about the code: an accepted token  *)
(* had its source TCT looked up on either path, and every token of a       *)
(* chain; under fail_closed that takes a deny list, which is trustworthy,  *)
(* fresh and of the right issuer.                                          *)
(***************************************************************************)
LEMMA DenyListsChecked ==
  ASSUME NEW token, NEW env, NEW time, env.selfAid = Self, Self # Absent,
         token.chain \in Seq(Available),
         verify_delegation_token(token, env, time) = OK
  PROVE  /\ check_deny_lists(env, Self, Path(token)[1].voucher.src_jti, time) = OK
         /\ token.chainForm # "absent" =>
              \A i \in DOMAIN Path(token) :
                check_deny_lists(env, Path(token)[i].iss, Path(token)[i].jti, time) = OK
<1>1. verify_delegation_token(token, env, time) = OK =>
        IF token.chainForm # "absent" THEN verify_multihop(token, env, time) = OK
        ELSE verify_singlehop(token, env, time) = OK
  BY FourChecks DEF verify_delegation_token
<1>2. 1 \in DOMAIN Path(token)
  <2> DEFINE hops == hops_of(token)
  <2>1. hops \in Seq(Available \cup {token}) /\ Len(hops) = Len(token.chain) + 1
    BY DEF hops_of
  <2>2. DOMAIN hops = 1 .. Len(hops) /\ Len(token.chain) \in Nat
    <3> HIDE DEF hops
    <3>1. QED
      BY <2>1
  <2>3. 1 \in DOMAIN hops
    <3> HIDE DEF hops
    <3>1. QED
      BY <2>1, <2>2
  <2> HIDE DEF hops
  <2>4. QED
    BY <2>3 DEF Path, hops
<1>3. Path(token)[1].voucher # Absent
  <2>1. HopSound(Path(token), 1, time)
    BY <1>2, PathAccepted
  <2>2. QED
    BY <2>1, VoucherChecked DEF HopSound
<1>4. CASE token.chainForm = "absent"
  <2>1. (IF token.voucher = Absent THEN OK
         ELSE check_source_tct_revocation(env, token.voucher.src_jti, time)) = OK
    BY <1>1, <1>4, NineChecks DEF verify_singlehop
  <2>2. Path(token)[1] = token
    BY <1>4 DEF Path
  <2>3. QED
    BY <1>3, <1>4, <2>1, <2>2 DEF check_source_tct_revocation
<1>5. CASE token.chainForm # "absent"
  <2> DEFINE hops == hops_of(token)
             source == IF hops[1].voucher = Absent THEN OK
                       ELSE check_source_tct_revocation(env, hops[1].voucher.src_jti, time)
             checks == [i \in DOMAIN hops |->
                          check_deny_lists(env, hops[i].iss, hops[i].jti, time)]
  <2>1. verify_multihop(token, env, time) = OK
    BY <1>1, <1>5
  <2>2. source = OK /\ sweep(hops, env, time) = OK
    <3>1. token.chainForm # "other"
      BY <2>1 DEF verify_multihop, TypeError, OK
    <3> HIDE DEF source, hops
    <3>2. QED
      BY <2>1, <3>1, SevenChecks DEF verify_multihop, source, hops
  <2>3. hops \in Seq(Available \cup {token})
    BY DEF hops_of
  <2>4. Len(hops) \in Nat /\ DOMAIN hops = 1 .. Len(hops)
    <3> HIDE DEF hops
    <3>1. QED
      BY <2>3
  <2>5. FirstError(checks) = OK /\ DOMAIN checks = 1 .. Len(hops)
    BY <2>2, <2>4 DEF sweep
  <2>6. \A i \in 1 .. Len(hops) : checks[i] = OK
    <3> HIDE DEF checks, hops
    <3>1. QED
      BY <2>4, <2>5, FirstErrorOK
  <2>7. \A i \in DOMAIN hops : check_deny_lists(env, hops[i].iss, hops[i].jti, time) = OK
    BY <2>4, <2>6
  <2>8. Path(token) = hops
    BY <1>5 DEF Path
  <2> HIDE DEF hops
  <2>9. QED
    BY <1>3, <2>2, <2>7, <2>8 DEF check_source_tct_revocation
<1>6. QED
  BY <1>4, <1>5

LEMMA DenyListEvidence ==
  ASSUME NEW env, NEW issuer, NEW jti, NEW time,
         policy_fail_mode(env.policy) = "fail_closed",
         check_deny_lists(env, issuer, jti, time) = OK
  PROVE  \E k \in DOMAIN env.snapshots :
           LET body == env.snapshots[k].snapshot
           IN  /\ verify_snapshot_trust(body) = OK
               /\ body.issuer = issuer
               /\ ~ snapshot_is_stale(body, policy_of(env.policy), time)
               /\ jti \notin body.entries
<1>1. fresh_bodies(env, issuer, time) # {}
  BY DEF check_deny_lists, Check, OK, SourceRevoked
<1>2. PICK body \in fresh_bodies(env, issuer, time) : jti \notin body.entries
  BY <1>1 DEF check_deny_lists, Check, OK, SourceRevoked
<1>3. QED
  BY <1>2 DEF fresh_bodies, verified_snapshot_bodies

-----------------------------------------------------------------------------
(***************************************************************************)
(* The inductive invariant for the promise: beside the types, that deny    *)
(* lists were complete when they were published, that honest agents use    *)
(* identifiers which can be revoked, and that a verdict is the one of its  *)
(* arguments and the clock, which no step changes before Return.           *)
(***************************************************************************)
DenyListsAreTruthful ==
  \A s \in published : \A j \in Jti \ s.entries :
    revokedAt[s.issuer][j] # Never => s.published_at <= revokedAt[s.issuer][j]

HonestJtis == \A t \in signed : t.iss \in Honest => t.jti \in Jti

VerdictIsCurrent ==
  ~ Idle =>
    /\ call.token \in signed /\ call.context \in Contexts /\ call.records \in Supplies
    /\ call.verdict = Recheck(call.token, call.context, call.records)

IInv == TypeOK /\ DenyListsAreTruthful /\ HonestJtis /\ VerdictIsCurrent

LEMMA InvInit == Init => IInv
BY TypeInit, WorldAssumption
DEF Init, IInv, DenyListsAreTruthful, HonestJtis, VerdictIsCurrent, Idle, NoCall

LEMMA DenyListsStep ==
  TypeOK /\ DenyListsAreTruthful /\ [Next]_vars => DenyListsAreTruthful'
<1> SUFFICES ASSUME TypeOK, DenyListsAreTruthful, [Next]_vars
             PROVE  DenyListsAreTruthful'
  OBVIOUS
<1>1. ASSUME NEW p \in Revocable, Revoke(p[1], p[2])
      PROVE  DenyListsAreTruthful'
  <2>1. p[1] \in Honest /\ p[2] \in Jti
    BY WorldAssumption
  <2> SUFFICES ASSUME NEW s \in published, NEW j \in Jti \ s.entries,
                      revokedAt'[s.issuer][j] # Never
               PROVE  s.published_at <= revokedAt'[s.issuer][j]
    BY <1>1 DEF Revoke, DenyListsAreTruthful
  <2>2. s.issuer \in Honest /\ s.published_at \in 0 .. now
    BY DEF TypeOK
  <2>3. CASE s.issuer = p[1] /\ j = p[2]
    <3>1. revokedAt'[s.issuer][j] = now
      BY <1>1, <2>1, <2>3 DEF Revoke, TypeOK
    <3>2. QED
      BY <2>2, <3>1
  <2>4. CASE ~ (s.issuer = p[1] /\ j = p[2])
    <3>1. revokedAt'[s.issuer][j] = revokedAt[s.issuer][j]
      BY <1>1, <2>1, <2>2, <2>4 DEF Revoke, TypeOK
    <3>2. QED
      BY <3>1 DEF DenyListsAreTruthful
  <2>5. QED
    BY <2>3, <2>4
<1>2. ASSUME NEW p \in Revocable, Publish(p[1])
      PROVE  DenyListsAreTruthful'
  <2>1. published' = published \cup {Snapshot(p[1], Revoked(p[1]))} /\ UNCHANGED revokedAt
    BY <1>2 DEF Publish
  <2>2. \A j \in Jti \ Snapshot(p[1], Revoked(p[1])).entries : revokedAt[p[1]][j] = Never
    BY DEF Snapshot, Revoked
  <2>3. Snapshot(p[1], Revoked(p[1])).issuer = p[1]
    BY DEF Snapshot
  <2>4. QED
    BY <2>1, <2>2, <2>3 DEF DenyListsAreTruthful
<1>3. CASE UNCHANGED <<revokedAt, published>>
  BY <1>3 DEF DenyListsAreTruthful
<1>4. CASE Tick \/ Return \/ UNCHANGED vars
  BY <1>3, <1>4 DEF Tick, Return, vars
<1>5. ASSUME NEW a \in Agents, SignFromVoucher(a) \/ SignFromToken(a) \/ SignAnything(a)
      PROVE  DenyListsAreTruthful'
  BY <1>3, <1>5 DEF SignFromVoucher, SignFromToken, SignAnything, Sign
<1>6. ASSUME NEW t, NEW c, NEW r, Verify(t, c, r)
      PROVE  DenyListsAreTruthful'
  BY <1>3, <1>6 DEF Verify
<1>7. QED
  BY <1>1, <1>2, <1>4, <1>5, <1>6 DEF Next

LEMMA HonestJtisStep ==
  TypeOK /\ HonestJtis /\ [Next]_vars => HonestJtis'
<1> SUFFICES ASSUME TypeOK, HonestJtis, [Next]_vars
             PROVE  HonestJtis'
  OBVIOUS
<1>1. ASSUME NEW token, Sign(token), token.iss \in Honest => token.jti \in Jti
      PROVE  HonestJtis'
  BY <1>1 DEF Sign, HonestJtis
<1>2. \A agent, sub, scope, exp, jti, voucher, chain :
        LET token == Token(agent, sub, scope, exp, jti)
            other == [token EXCEPT !.voucher = voucher]
        IN  /\ other.iss = agent /\ other.jti = jti
            /\ Chained(token, chain).iss = agent /\ Chained(token, chain).jti = jti
            /\ Chained(other, chain).iss = agent /\ Chained(other, chain).jti = jti
  BY DEF Token, Chained
<1>3. ASSUME NEW a \in Agents \cap Honest, SignFromVoucher(a)
      PROVE  HonestJtis'
  <2>1. PICK v \in Vouchers, sub \in Agents \ {a}, scope \in Scopes, exp \in 1 .. MaxTime,
             jti \in JtisOf[a] :
               Sign([Token(a, sub, scope, exp, jti) EXCEPT !.voucher = v])
    BY <1>3 DEF SignFromVoucher
  <2>2. jti \in Jti
    BY WorldAssumption
  <2> DEFINE token == [Token(a, sub, scope, exp, jti) EXCEPT !.voucher = v]
  <2>3. token.jti = jti
    BY <1>2
  <2> HIDE DEF token
  <2>4. QED
    BY <1>1, <2>1, <2>2, <2>3 DEF token
<1>4. ASSUME NEW a \in Agents \cap Honest, SignFromToken(a)
      PROVE  HonestJtis'
  BY <1>1, <1>2, <1>4, WorldAssumption DEF SignFromToken
<1>5. ASSUME NEW a \in Agents \ Honest, SignAnything(a)
      PROVE  HonestJtis'
  <2>1. \E t : Sign(t) /\ t.iss = a
    <3>1. PICK sub \in Agents \ {a}, scope \in Scopes, jti \in JtisOf[a],
               chain \in UNION {[1 .. n -> Available] : n \in 1 .. MAX_DELEGATION_HOPS - 1} :
            \/ Sign(Chained(Token(a, sub, scope, MaxTime, jti), chain))
            \/ \E v \in Vouchers \cup FakeVouchers :
                 \/ Sign([Token(a, sub, scope, MaxTime, jti) EXCEPT !.voucher = v])
                 \/ Sign(Chained([Token(a, sub, scope, MaxTime, jti) EXCEPT !.voucher = v], <<>>))
      BY <1>5 DEF SignAnything
    <3> DEFINE token == Token(a, sub, scope, MaxTime, jti)
    <3>2. CASE Sign(Chained(token, chain))
      BY <1>2, <3>2
    <3>3. ASSUME NEW v \in Vouchers \cup FakeVouchers, Sign([token EXCEPT !.voucher = v])
          PROVE  \E t : Sign(t) /\ t.iss = a
      <4>1. [token EXCEPT !.voucher = v].iss = a
        BY <1>2
      <4> HIDE DEF token
      <4>2. QED
        BY <3>3, <4>1
    <3>4. ASSUME NEW v \in Vouchers \cup FakeVouchers,
                 Sign(Chained([token EXCEPT !.voucher = v], <<>>))
          PROVE  \E t : Sign(t) /\ t.iss = a
      <4>1. Chained([token EXCEPT !.voucher = v], <<>>).iss = a
        BY DEF Chained, Token
      <4> HIDE DEF token
      <4>2. QED
        BY <3>4, <4>1
    <3> HIDE DEF token
    <3>5. QED
      BY <3>1, <3>2, <3>3, <3>4 DEF token
  <2>2. QED
    BY <1>1, <1>5, <2>1
<1>6. CASE UNCHANGED signed
  BY <1>6 DEF HonestJtis
<1>7. QED
  BY <1>3, <1>4, <1>5, <1>6 DEF Next, vars, Tick, Revoke, Publish, Verify, Return

LEMMA VerdictStep == VerdictIsCurrent /\ [Next]_vars => VerdictIsCurrent'
<1> SUFFICES ASSUME VerdictIsCurrent, [Next]_vars
             PROVE  VerdictIsCurrent'
  OBVIOUS
<1>1. CASE UNCHANGED call /\ Idle
  BY <1>1 DEF VerdictIsCurrent, Idle
<1>2. ASSUME NEW t \in signed, NEW c \in Contexts, NEW r \in Supplies, Verify(t, c, r)
      PROVE  VerdictIsCurrent'
  <2>1. Supplies' = Supplies
    BY <1>2 DEF Verify, Supplies, Records
  <2>2. QED
    BY <1>2, <2>1 DEF Verify, VerdictIsCurrent, Recheck
<1>3. CASE Return
  BY <1>3 DEF Return, VerdictIsCurrent, Idle
<1>4. CASE UNCHANGED vars
  BY <1>4 DEF vars, VerdictIsCurrent, Idle, Recheck, Supplies, Records
<1>5. QED
  BY <1>1, <1>2, <1>3, <1>4
  DEF Next, Tick, SignFromVoucher, SignFromToken, SignAnything, Sign, Revoke, Publish

LEMMA InvStep == IInv /\ [Next]_vars => IInv'
BY TypeStep, DenyListsStep, HonestJtisStep, VerdictStep DEF IInv

-----------------------------------------------------------------------------
(***************************************************************************)
(* From an accepted call to the horizon: what a fail-closed verifier has   *)
(* of an honest issuer is a snapshot this issuer published, which is fresh *)
(* and does not list the token.                                            *)
(***************************************************************************)
LEMMA HorizonKept ==
  ASSUME TypeOK, DenyListsAreTruthful,
         NEW context \in Contexts, NEW records \in Supplies,
         policy_fail_mode(context.policy) = "fail_closed",
         NEW issuer \in Honest, NEW jti \in Jti,
         check_deny_lists(Env(context, records), issuer, jti, now) = OK
  PROVE  \/ revokedAt[issuer][jti] = Never
         \/ now < revokedAt[issuer][jti] + Lifetime
<1> SUFFICES ASSUME revokedAt[issuer][jti] # Never
             PROVE  now < revokedAt[issuer][jti] + Lifetime
  OBVIOUS
<1> DEFINE env == Env(context, records)
<1>1. env.policy = context.policy /\ env.snapshots = records
  BY DEF Env
<1>2. PICK k \in DOMAIN records :
        LET body == records[k].snapshot
        IN  /\ verify_snapshot_trust(body) = OK
            /\ body.issuer = issuer
            /\ ~ snapshot_is_stale(body, policy_of(context.policy), now)
            /\ jti \notin body.entries
  <2> HIDE DEF env
  <2>1. QED
    BY <1>1, DenyListEvidence DEF env
<1> DEFINE body == records[k].snapshot
<1>3. records[k] \in Records
  BY DEF Supplies
<1>4. body.signer = KeyOf[issuer]
  BY <1>2, TrustedSnapshot DEF SignedBy
<1>5. body \in published
  BY <1>3, <1>4, WorldAssumption DEF Records
<1> HIDE DEF body, env
<1>6. /\ body.issuer = issuer /\ jti \notin body.entries
      /\ ~ (now >= body.expires_at)
  BY <1>2 DEF body, snapshot_is_stale
<1>7. /\ body.published_at \in 0 .. now
      /\ body.expires_at = body.published_at + Lifetime
      /\ body.published_at <= revokedAt[issuer][jti]
  BY <1>5, <1>6 DEF TypeOK, DenyListsAreTruthful
<1>8. revokedAt[issuer][jti] \in Int /\ now \in Int /\ Lifetime \in Int
  BY WorldAssumption DEF TypeOK
<1>9. QED
  BY <1>6, <1>7, <1>8

\* What an accepted token rests on can be revoked, and has been looked up.
LEMMA RestsOnChecked ==
  ASSUME TypeOK, HonestJtis, NEW token \in signed, NEW context, NEW records,
         verify_delegation_token(token, Env(context, records), now) = OK,
         NEW pair \in RestsOn(token)
  PROVE  /\ pair[1] \in Honest /\ pair[2] \in Jti
         /\ pair = <<pair[1], pair[2]>>
         /\ check_deny_lists(Env(context, records), pair[1], pair[2], now) = OK
<1> DEFINE env == Env(context, records)
           hops == Path(token)
<1>1. /\ env.selfAid = Self /\ Self # Absent /\ Self \in Honest
      /\ token.chain \in Seq(Available)
  BY WorldAssumption, AidAssumption DEF Env, TypeOK
<1>2. /\ 1 \in DOMAIN hops
      /\ \A i \in DOMAIN hops : hops[i] \in Available
  BY PathIsAvailable
<1> HIDE DEF env
<1>3. \A i \in DOMAIN hops : HopSound(hops, i, now)
  BY <1>1, PathAccepted DEF env
<1>4. \A i \in DOMAIN hops : hops[i] \in signed
  BY <1>2, <1>3, AcceptedWasSigned DEF HopSound
<1>5. /\ check_deny_lists(env, Self, hops[1].voucher.src_jti, now) = OK
      /\ token.chainForm # "absent" =>
           \A i \in DOMAIN hops : check_deny_lists(env, hops[i].iss, hops[i].jti, now) = OK
  BY <1>1, DenyListsChecked DEF env
<1>6. CASE pair = <<Self, hops[1].voucher.src_jti>>
  <2>1. check_voucher(hops[1], Self, now) = OK
    BY <1>2, <1>3 DEF HopSound
  <2>2. hops[1].voucher \in Vouchers
    BY <1>2, <1>4, <2>1, VoucherWasIssued
  <2>3. hops[1].voucher.src_jti \in Jti
    BY <2>2, WorldAssumption
  <2> HIDE DEF hops
  <2>4. QED
    BY <1>1, <1>5, <1>6, <2>3 DEF env
<1>7. CASE /\ token.chainForm # "absent"
           /\ \E i \in DOMAIN hops : hops[i].iss \in Honest /\ pair = <<hops[i].iss, hops[i].jti>>
  <2>1. PICK i \in DOMAIN hops : hops[i].iss \in Honest /\ pair = <<hops[i].iss, hops[i].jti>>
    BY <1>7
  <2>2. hops[i].jti \in Jti
    BY <1>4, <2>1 DEF HonestJtis
  <2> HIDE DEF hops
  <2>3. QED
    BY <1>5, <1>7, <2>1, <2>2 DEF env
<1>8. QED
  BY <1>6, <1>7 DEF RestsOn, ToSet

-----------------------------------------------------------------------------
(***************************************************************************)
(* The refinement: Verify is Admit when it admits, Return and the steps of *)
(* the agents admit nothing, Tick and Revoke are themselves.               *)
(***************************************************************************)
LEMMA PromiseInit == Init => Promise!Init
BY DEF Init, Promise!Init, Admitted, Accepted, Idle, NoCall

AdmittedInTime ==
  \A pair \in Admitted :
    /\ pair \in Honest \X Jti
    /\ \/ revokedAt[pair[1]][pair[2]] = Never
       \/ now < revokedAt[pair[1]][pair[2]] + Lifetime

LEMMA AdmittedFromInv == IInv => AdmittedInTime
<1> SUFFICES ASSUME IInv, NEW pair \in Admitted
             PROVE  /\ pair \in Honest \X Jti
                    /\ \/ revokedAt[pair[1]][pair[2]] = Never
                       \/ now < revokedAt[pair[1]][pair[2]] + Lifetime
  BY DEF AdmittedInTime
<1>1. /\ ~ Idle /\ call.verdict = OK
      /\ policy_fail_mode(call.context.policy) = "fail_closed"
      /\ pair \in RestsOn(call.token)
  BY DEF Admitted, Accepted
<1>2. /\ call.token \in signed /\ call.context \in Contexts /\ call.records \in Supplies
      /\ verify_delegation_token(call.token, Env(call.context, call.records), now) = OK
  BY <1>1 DEF IInv, VerdictIsCurrent, Recheck
<1>3. /\ pair[1] \in Honest /\ pair[2] \in Jti
      /\ pair = <<pair[1], pair[2]>>
      /\ check_deny_lists(Env(call.context, call.records), pair[1], pair[2], now) = OK
  BY <1>1, <1>2, RestsOnChecked DEF IInv
<1>4. \/ revokedAt[pair[1]][pair[2]] = Never
      \/ now < revokedAt[pair[1]][pair[2]] + Lifetime
  BY <1>1, <1>2, <1>3, HorizonKept DEF IInv
<1>5. QED
  BY <1>3, <1>4

LEMMA PromiseStep ==
  IInv /\ IInv' /\ [Next]_vars => [Promise!Next]_<<now, revokedAt, Admitted>>
<1> SUFFICES ASSUME IInv, IInv', [Next]_vars
             PROVE  [Promise!Next]_<<now, revokedAt, Admitted>>
  OBVIOUS
<1>1. ASSUME Idle, UNCHANGED call
      PROVE  Admitted' = {}
  BY <1>1 DEF Admitted, Accepted, Idle
<1>2. CASE Tick
  BY <1>1, <1>2 DEF Tick, Promise!Next, Promise!Tick
<1>3. ASSUME NEW p \in Revocable, Revoke(p[1], p[2])
      PROVE  Promise!Next
  <2>1. p[1] \in Honest /\ p[2] \in Jti
    BY WorldAssumption
  <2>2. QED
    BY <1>1, <1>3, <2>1 DEF Revoke, Promise!Next, Promise!Revoke
<1>4. ASSUME Idle, UNCHANGED <<now, revokedAt, call>>
      PROVE  Promise!Next
  BY <1>1, <1>4 DEF Promise!Next, Promise!Admit
<1>5. ASSUME UNCHANGED <<now, revokedAt>>
      PROVE  Promise!Next
  <2>1. \A pair \in Admitted' :
          /\ pair \in Honest \X Jti
          /\ \/ revokedAt'[pair[1]][pair[2]] = Never
             \/ now' < revokedAt'[pair[1]][pair[2]] + Lifetime
    <3>1. AdmittedInTime'
      BY AdmittedFromInv, PTL
    <3>2. QED
      BY <3>1 DEF AdmittedInTime
  <2>2. Promise!Admit(Admitted')
    BY <1>5, <2>1 DEF Promise!Admit
  <2>3. Admitted' \in SUBSET (Honest \X Jti)
    BY <2>1
  <2>4. QED
    BY <2>2, <2>3 DEF Promise!Next
<1>6. CASE UNCHANGED vars
  BY <1>6 DEF vars, Admitted, Accepted, Idle, RestsOn, Path
<1>7. ASSUME NEW a \in Agents, SignFromVoucher(a) \/ SignFromToken(a) \/ SignAnything(a)
      PROVE  Promise!Next
  BY <1>4, <1>7 DEF SignFromVoucher, SignFromToken, SignAnything, Sign
<1>8. ASSUME NEW p, Publish(p)
      PROVE  Promise!Next
  BY <1>4, <1>8 DEF Publish
<1>9. ASSUME NEW t, NEW c, NEW r, Verify(t, c, r)
      PROVE  Promise!Next
  BY <1>5, <1>9 DEF Verify
<1>10. CASE Return
  BY <1>5, <1>10 DEF Return
<1>11. QED
  BY <1>2, <1>3, <1>6, <1>7, <1>8, <1>9, <1>10 DEF Next

-----------------------------------------------------------------------------
(***************************************************************************)
(* Two ways into the verifier.  What each of them requires of a token of   *)
(* one hop, check by check; the code has the list twice.                   *)
(***************************************************************************)
LEMMA SingleHopAccepted ==
  ASSUME NEW token, NEW env, NEW time, token.chainForm = "absent"
  PROVE  verify_delegation_token(token, env, time) = OK <=>
           /\ token.compact
           /\ env.selfAid # Absent
           /\ resolve_issuer(token, env, time) = OK
           /\ verify_jws(token, token.iss, "aitp-delegation+jwt", DelegationErrors, OK) = OK
           /\ check_shape(token, InvalidSignature) = OK
           /\ token.iss # token.sub
           /\ token.aud = env.selfAid
           /\ time < token.exp
           /\ check_voucher(token, env.selfAid, time) = OK
           /\ verified_snapshot_bodies_error(env) = OK
           /\ check_deny_lists(env, env.selfAid, token.voucher.src_jti, time) = OK
<1> DEFINE source == IF token.voucher = Absent THEN OK
                     ELSE check_source_tct_revocation(env, token.voucher.src_jti, time)
<1>1. verify_delegation_token(token, env, time) = OK <=>
        /\ token.compact
        /\ env.selfAid # Absent
        /\ verify_singlehop(token, env, time) = OK
  BY FourChecks DEF verify_delegation_token, parse_compact, Check, OK, InvalidSignature
<1>2. verify_singlehop(token, env, time) = OK <=>
        /\ resolve_issuer(token, env, time) = OK
        /\ verify_jws(token, token.iss, "aitp-delegation+jwt", DelegationErrors, OK) = OK
        /\ check_shape(token, InvalidSignature) = OK
        /\ token.iss # token.sub
        /\ token.aud = env.selfAid
        /\ time < token.exp
        /\ check_voucher(token, env.selfAid, time) = OK
        /\ verified_snapshot_bodies_error(env) = OK
        /\ source = OK
  BY NineChecks DEF verify_singlehop, Check, OK, InvalidSignature, Expired
<1>3. check_voucher(token, env.selfAid, time) = OK => token.voucher # Absent
  BY DEF check_voucher, InvalidVoucher, OK
<1>4. QED
  BY <1>1, <1>2, <1>3 DEF check_source_tct_revocation

\* A token that carries an empty chain is the only one on its path.
LEMMA EmptyChainAccepted ==
  ASSUME NEW token, NEW env, NEW time, env.feature,
         token.chainForm = "list", token.chain = <<>>, token.commits = <<>>
  PROVE  verify_delegation_token(token, env, time) = OK <=>
           /\ token.compact
           /\ env.selfAid # Absent
           /\ resolve_issuer(token, env, time) = OK
           /\ verify_jws(token, token.iss, "aitp-delegation+jwt", DelegationErrors, OK) = OK
           /\ check_shape(token, InvalidSignature) = OK
           /\ token.ver = PROTOCOL_VERSION
           /\ token.iss # token.sub
           /\ token.aud = env.selfAid
           /\ token.sub \in Aid /\ token.jkt = Thumbprint(token.sub)
           /\ token.jti # Absent
           /\ time < token.exp
           /\ check_voucher(token, env.selfAid, time) = OK
           /\ verified_snapshot_bodies_error(env) = OK
           /\ check_deny_lists(env, env.selfAid, token.voucher.src_jti, time) = OK
           /\ check_deny_lists(env, token.iss, token.jti, time) = OK
<1> DEFINE hops == hops_of(token)
           hopChecks == [i \in DOMAIN hops |-> check_hop(hops, i, env, time)]
           denyChecks == [i \in DOMAIN hops |->
                            check_deny_lists(env, hops[i].iss, hops[i].jti, time)]
           source == IF hops[1].voucher = Absent THEN OK
                     ELSE check_source_tct_revocation(env, hops[1].voucher.src_jti, time)
<1>1. hops = <<token>>
  BY DEF hops_of
<1>2. hops[1] = token /\ DOMAIN hops = 1 .. 1
  BY <1>1
<1> HIDE DEF hops
<1>3. /\ FirstError(hopChecks) = OK <=> check_hop(hops, 1, env, time) = OK
      /\ FirstError(denyChecks) = OK <=> check_deny_lists(env, token.iss, token.jti, time) = OK
  <2>1. DOMAIN hopChecks = 1 .. 1 /\ DOMAIN denyChecks = 1 .. 1
    BY <1>2
  <2>2. /\ hopChecks[1] = check_hop(hops, 1, env, time)
        /\ denyChecks[1] = check_deny_lists(env, token.iss, token.jti, time)
    BY <1>2
  <2> HIDE DEF hopChecks, denyChecks
  <2>3. /\ FirstError(hopChecks) = OK <=> \A i \in 1 .. 1 : hopChecks[i] = OK
        /\ FirstError(denyChecks) = OK <=> \A i \in 1 .. 1 : denyChecks[i] = OK
    BY <2>1, FirstErrorOK
  <2>4. QED
    BY <2>2, <2>3
<1>4. check_hop(hops, 1, env, time) = OK <=>
        /\ token.compact
        /\ resolve_issuer(token, env, time) = OK
        /\ verify_jws(token, token.iss, "aitp-delegation+jwt", DelegationErrors, OK) = OK
        /\ check_shape(token, InvalidSignature) = OK
        /\ token.ver = PROTOCOL_VERSION
        /\ token.iss # token.sub
        /\ token.aud = env.selfAid
        /\ token.sub \in Aid /\ token.jkt = Thumbprint(token.sub)
        /\ token.jti # Absent
        /\ time < token.exp
        /\ check_voucher(token, env.selfAid, time) = OK
  BY <1>2, TwelveChecks
  DEF check_hop, parse_compact, Check, OK, InvalidSignature, InvalidVoucher, Expired
<1>5. hop_limit(token.chain)
  BY DEF hop_limit, MAX_DELEGATION_HOPS
<1>6. verify_multihop(token, env, time) = OK <=>
        /\ FirstError(hopChecks) = OK
        /\ verified_snapshot_bodies_error(env) = OK
        /\ source = OK
        /\ FirstError(denyChecks) = OK
  <2>1. verify_multihop(token, env, time) =
          FirstError(<< Check(hop_limit(token.chain), "DELEGATION_HOP_LIMIT_EXCEEDED"),
                        Check(token.chainForm = "list", AttributeError),
                        Check(token.commits = token.chain, "DELEGATION_CHAIN_HASH_MISMATCH"),
                        FirstError(hopChecks),
                        verified_snapshot_bodies_error(env),
                        source,
                        FirstError(denyChecks) >>)
    BY DEF verify_multihop, sweep, hops
  <2> HIDE DEF hopChecks, denyChecks, source
  <2>2. QED
    BY <2>1, <1>5, SevenChecks DEF Check
<1>7. verify_delegation_token(token, env, time) = OK <=>
        /\ token.compact
        /\ env.selfAid # Absent
        /\ verify_multihop(token, env, time) = OK
  BY FourChecks DEF verify_delegation_token, parse_compact, Check, OK, InvalidSignature
<1>8. check_voucher(token, env.selfAid, time) = OK => token.voucher # Absent
  BY DEF check_voucher, InvalidVoucher, OK
<1>9. source = IF token.voucher = Absent THEN OK
               ELSE check_source_tct_revocation(env, token.voucher.src_jti, time)
  BY <1>2
<1> HIDE DEF source, hopChecks, denyChecks
<1>10. QED
  BY <1>3, <1>4, <1>6, <1>7, <1>8, <1>9 DEF check_source_tct_revocation

\* The deny lists are looked up through fresh_bodies and the policy only.
LEMMA SameDenyLists ==
  ASSUME NEW env, NEW other, NEW time, other.policy = env.policy,
         \A i : fresh_bodies(other, i, time) = fresh_bodies(env, i, time)
  PROVE  \A i, j : check_deny_lists(other, i, j, time) = check_deny_lists(env, i, j, time)
<1> TAKE i, j
<1>1. fresh_bodies(other, i, time) = fresh_bodies(env, i, time)
  OBVIOUS
<1>2. QED
  BY <1>1 DEF check_deny_lists

LEMMA PathsAgreeFromInv == IInv => PathsAgree
<1> SUFFICES ASSUME IInv, ~ Idle, call.token.chainForm = "absent"
             PROVE  LET token == call.token
                        env   == Env([call.context EXCEPT !.feature = TRUE], call.records)
                    IN  verify_delegation_token(Chained(token, <<>>), env, now) = OK
                        <=> /\ call.verdict = OK
                            /\ token.ver = PROTOCOL_VERSION
                            /\ token.jti # Absent
                            /\ token.sub \in Aid /\ token.jkt = Thumbprint(token.sub)
                            /\ check_deny_lists(env, token.iss, token.jti, now) = OK
  BY DEF PathsAgree
<1> DEFINE token == call.token
           chained == Chained(token, <<>>)
           env == Env(call.context, call.records)
           open == Env([call.context EXCEPT !.feature = TRUE], call.records)
<1>1. /\ token \in signed /\ call.context \in Contexts
      /\ call.verdict = verify_delegation_token(token, env, now)
  BY DEF IInv, VerdictIsCurrent, Recheck
<1>2. /\ chained.chainForm = "list" /\ chained.chain = <<>> /\ chained.commits = <<>>
      /\ chained.compact = token.compact /\ chained.members = token.members
      /\ chained.typ = token.typ /\ chained.alg = token.alg
      /\ chained.signer = token.signer /\ chained.defects = token.defects
      /\ chained.ver = token.ver /\ chained.iss = token.iss /\ chained.sub = token.sub
      /\ chained.aud = token.aud /\ chained.scope = token.scope /\ chained.exp = token.exp
      /\ chained.jti = token.jti /\ chained.jkt = token.jkt /\ chained.voucher = token.voucher
  <2>1. DOMAIN token = Claims
    BY <1>1 DEF IInv, TypeOK
  <2>2. QED
    BY <2>1 DEF Chained, Claims, Token
<1>3. DOMAIN call.context = {"feature", "policy", "manifests"}
  BY <1>1, WorldAssumption
<1>4. /\ open.feature /\ open.selfAid = env.selfAid /\ open.policy = env.policy
      /\ open.manifests = env.manifests /\ open.isArray = env.isArray
      /\ open.snapshots = env.snapshots /\ env.selfAid = Self
  BY <1>3 DEF Env
<1> HIDE DEF chained, env, open
<1>5. /\ resolve_issuer(chained, open, now) = resolve_issuer(token, env, now)
      /\ verify_jws(chained, chained.iss, "aitp-delegation+jwt", DelegationErrors, OK)
           = verify_jws(token, token.iss, "aitp-delegation+jwt", DelegationErrors, OK)
      /\ check_shape(chained, InvalidSignature) = check_shape(token, InvalidSignature)
      /\ check_voucher(chained, open.selfAid, now) = check_voucher(token, env.selfAid, now)
      /\ verified_snapshot_bodies_error(open) = verified_snapshot_bodies_error(env)
      /\ \A i, j : check_deny_lists(open, i, j, now) = check_deny_lists(env, i, j, now)
  <2>1. resolve_issuer(chained, open, now) = resolve_issuer(token, env, now)
    BY <1>2, <1>4 DEF resolve_issuer
  <2>2. verify_jws(chained, chained.iss, "aitp-delegation+jwt", DelegationErrors, OK)
           = verify_jws(token, token.iss, "aitp-delegation+jwt", DelegationErrors, OK)
    BY <1>2 DEF verify_jws, parse_compact, SignedBy
  <2>3. check_shape(chained, InvalidSignature) = check_shape(token, InvalidSignature)
    BY <1>2 DEF check_shape
  <2>4. check_voucher(chained, open.selfAid, now) = check_voucher(token, env.selfAid, now)
    BY <1>2, <1>4 DEF check_voucher
  <2>5. verified_snapshot_bodies_error(open) = verified_snapshot_bodies_error(env)
    BY <1>4 DEF verified_snapshot_bodies_error
  <2>6. verified_snapshot_bodies(open) = verified_snapshot_bodies(env)
    BY <1>4 DEF verified_snapshot_bodies
  <2>7. \A i : fresh_bodies(open, i, now) = fresh_bodies(env, i, now)
    BY <1>4, <2>6 DEF fresh_bodies
  <2>8. \A i, j : check_deny_lists(open, i, j, now) = check_deny_lists(env, i, j, now)
    BY <1>4, <2>7, SameDenyLists
  <2>9. QED
    BY <2>1, <2>2, <2>3, <2>4, <2>5, <2>8
<1>6. verify_delegation_token(chained, open, now) = OK <=>
        /\ verify_delegation_token(token, env, now) = OK
        /\ token.ver = PROTOCOL_VERSION
        /\ token.jti # Absent
        /\ token.sub \in Aid /\ token.jkt = Thumbprint(token.sub)
        /\ check_deny_lists(open, token.iss, token.jti, now) = OK
  BY <1>2, <1>4, <1>5, SingleHopAccepted, EmptyChainAccepted
<1>7. QED
  BY <1>1, <1>6 DEF chained, open

-----------------------------------------------------------------------------
(***************************************************************************)
(* The order of the snapshots.  A verdict depends on the caller's array    *)
(* only through the set of its records, and SetToSeq lists a finite set    *)
(* completely.                                                             *)
(***************************************************************************)
LEMMA SetIsListed ==
  ASSUME NEW n \in Nat, NEW f, DOMAIN f = 1 .. n
  PROVE  LET listed == SetToSeq(ToSet(f))
         IN  /\ \E m \in Nat : DOMAIN listed = 1 .. m
             /\ ToSet(listed) = ToSet(f)
<1> DEFINE S == ToSet(f)
           m == Cardinality(S)
           listed == SetToSeq(S)
           g == [i \in 1 .. n |-> f[i]]
<1>1. S = {f[i] : i \in 1 .. n}
  BY DEF ToSet
<1>2. IsFiniteSet(S)
  <2>1. IsFiniteSet(1 .. n)
    BY FS_Interval
  <2>2. g \in Surjection(1 .. n, S)
    BY <1>1 DEF Surjection
  <2>3. QED
    BY <2>1, <2>2, FS_Surjection
<1> HIDE DEF g, S
<1>3. m \in Nat /\ ExistsBijection(1 .. m, S)
  BY <1>2, FS_CardinalityType
<1>4. listed \in [1 .. m -> S] /\ IsInjective(listed)
  <2>1. PICK b : b \in Bijection(1 .. m, S)
    BY <1>3 DEF ExistsBijection
  <2>2. b \in [1 .. m -> S] /\ IsInjective(b)
    BY <2>1 DEF Bijection, Injection
  <2>3. QED
    BY <2>2 DEF SetToSeq
<1> HIDE DEF listed
<1>5. Cardinality(1 .. m) = m
  BY <1>3, FS_Interval
<1>6. listed \in Surjection(1 .. m, S)
  BY <1>2, <1>4, <1>5, FS_Injection DEF Injection
<1>7. ToSet(listed) = S
  BY <1>4, <1>6 DEF ToSet, Surjection
<1>8. QED
  BY <1>3, <1>4, <1>7 DEF listed, S

\* The snapshots that verify, and whether one of the verifier's own does not,
\* are matters of the set of records.
LEMMA SameRecords ==
  ASSUME NEW context, NEW n \in Nat, NEW records, DOMAIN records = 1 .. n,
         NEW m \in Nat, NEW others, DOMAIN others = 1 .. m,
         ToSet(others) = ToSet(records)
  PROVE  LET env   == Env(context, records)
             other == Env(context, others)
         IN  /\ verified_snapshot_bodies(other) = verified_snapshot_bodies(env)
             /\ verified_snapshot_bodies_error(other) = OK
                  <=> verified_snapshot_bodies_error(env) = OK
<1> DEFINE env == Env(context, records)
           other == Env(context, others)
           checkOf(r) == IF r.label \in {Absent, Self} THEN verify_snapshot_trust(r.snapshot)
                         ELSE OK
           R == ToSet(records)
<1>1. /\ env.snapshots = records /\ other.snapshots = others
      /\ env.isArray /\ other.isArray /\ env.selfAid = Self /\ other.selfAid = Self
  BY DEF Env
<1>2. R = {records[i] : i \in 1 .. n} /\ R = {others[i] : i \in 1 .. m}
  BY DEF ToSet
<1> HIDE DEF env, other, R
<1>3. /\ verified_snapshot_bodies(env) =
           {r.snapshot : r \in {x \in R : verify_snapshot_trust(x.snapshot) = OK}}
      /\ verified_snapshot_bodies(other) =
           {r.snapshot : r \in {x \in R : verify_snapshot_trust(x.snapshot) = OK}}
  <2> DEFINE good(r) == verify_snapshot_trust(r.snapshot) = OK
  <2>1. /\ verified_snapshot_bodies(env) =
             {records[k].snapshot : k \in {i \in 1 .. n : good(records[i])}}
        /\ verified_snapshot_bodies(other) =
             {others[k].snapshot : k \in {i \in 1 .. m : good(others[i])}}
    BY <1>1 DEF verified_snapshot_bodies
  <2> HIDE DEF good
  <2>2. {records[k].snapshot : k \in {i \in 1 .. n : good(records[i])}}
          = {r.snapshot : r \in {x \in R : good(x)}}
    <3>1. ASSUME NEW s
          PROVE  (\E k \in 1 .. n : good(records[k]) /\ s = records[k].snapshot)
                   <=> \E r \in R : good(r) /\ s = r.snapshot
      BY <1>2
    <3>2. QED
      BY <3>1
  <2>3. {others[k].snapshot : k \in {i \in 1 .. m : good(others[i])}}
          = {r.snapshot : r \in {x \in R : good(x)}}
    <3>1. ASSUME NEW s
          PROVE  (\E k \in 1 .. m : good(others[k]) /\ s = others[k].snapshot)
                   <=> \E r \in R : good(r) /\ s = r.snapshot
      BY <1>2
    <3>2. QED
      BY <3>1
  <2>4. QED
    BY <2>1, <2>2, <2>3 DEF good
<1>4. verified_snapshot_bodies_error(env) = OK <=> \A r \in R : checkOf(r) = OK
  <2> DEFINE checks == [k \in DOMAIN records |-> checkOf(records[k])]
  <2>1. verified_snapshot_bodies_error(env) = FirstError(checks)
    BY <1>1 DEF verified_snapshot_bodies_error
  <2>2. DOMAIN checks = 1 .. n /\ \A k \in 1 .. n : checks[k] = checkOf(records[k])
    OBVIOUS
  <2> HIDE DEF checks, checkOf
  <2>3. FirstError(checks) = OK <=> \A k \in 1 .. n : checks[k] = OK
    BY <2>2, FirstErrorOK
  <2>4. QED
    BY <2>1, <2>2, <2>3, <1>2
<1>5. verified_snapshot_bodies_error(other) = OK <=> \A r \in R : checkOf(r) = OK
  <2> DEFINE checks == [k \in DOMAIN others |-> checkOf(others[k])]
  <2>1. verified_snapshot_bodies_error(other) = FirstError(checks)
    BY <1>1 DEF verified_snapshot_bodies_error
  <2>2. DOMAIN checks = 1 .. m /\ \A k \in 1 .. m : checks[k] = checkOf(others[k])
    OBVIOUS
  <2> HIDE DEF checks, checkOf
  <2>3. FirstError(checks) = OK <=> \A k \in 1 .. m : checks[k] = OK
    BY <2>2, FirstErrorOK
  <2>4. QED
    BY <2>1, <2>2, <2>3, <1>2
<1>6. QED
  BY <1>3, <1>4, <1>5 DEF env, other

\* Nothing else in a call looks at the snapshots.
LEMMA SnapshotsDecide ==
  ASSUME NEW token, NEW env, NEW other, NEW time,
         other.selfAid = env.selfAid, other.feature = env.feature,
         other.policy = env.policy, other.manifests = env.manifests,
         verified_snapshot_bodies(other) = verified_snapshot_bodies(env),
         verified_snapshot_bodies_error(other) = OK
           <=> verified_snapshot_bodies_error(env) = OK
  PROVE  verify_delegation_token(token, other, time) = OK
           <=> verify_delegation_token(token, env, time) = OK
<1>1. \A i, j : check_deny_lists(other, i, j, time) = check_deny_lists(env, i, j, time)
  <2>1. \A i : fresh_bodies(other, i, time) = fresh_bodies(env, i, time)
    BY DEF fresh_bodies
  <2>2. QED
    BY <2>1, SameDenyLists
<1>2. \A j : check_source_tct_revocation(other, j, time)
               = check_source_tct_revocation(env, j, time)
  BY <1>1 DEF check_source_tct_revocation
<1>3. \A t : resolve_issuer(t, other, time) = resolve_issuer(t, env, time)
  BY DEF resolve_issuer
<1>4. verify_singlehop(token, other, time) = OK <=> verify_singlehop(token, env, time) = OK
  BY <1>2, <1>3, NineChecks DEF verify_singlehop
<1>5. verify_multihop(token, other, time) = OK <=> verify_multihop(token, env, time) = OK
  <2> DEFINE hops == hops_of(token)
             hopChecks(e) == [i \in DOMAIN hops |-> check_hop(hops, i, e, time)]
             denyChecks(e) == [i \in DOMAIN hops |->
                                 check_deny_lists(e, hops[i].iss, hops[i].jti, time)]
             source(e) == IF hops[1].voucher = Absent THEN OK
                          ELSE check_source_tct_revocation(e, hops[1].voucher.src_jti, time)
  <2>1. \A i : check_hop(hops, i, other, time) = check_hop(hops, i, env, time)
    BY <1>3 DEF check_hop
  <2>2. hopChecks(other) = hopChecks(env)
    BY <2>1
  <2>3. denyChecks(other) = denyChecks(env)
    BY <1>1
  <2>4. source(other) = source(env)
    BY <1>2
  <2>5. ASSUME NEW e
        PROVE  verify_multihop(token, e, time) =
                 IF token.chainForm = "other" THEN TypeError ELSE
                 FirstError(<< Check(hop_limit(token.chain), "DELEGATION_HOP_LIMIT_EXCEEDED"),
                               Check(token.chainForm = "list", AttributeError),
                               Check(token.commits = token.chain,
                                     "DELEGATION_CHAIN_HASH_MISMATCH"),
                               FirstError(hopChecks(e)),
                               verified_snapshot_bodies_error(e),
                               source(e),
                               FirstError(denyChecks(e)) >>)
    BY DEF verify_multihop, sweep
  <2> HIDE DEF hopChecks, denyChecks, source
  <2>6. CASE token.chainForm = "other"
    BY <2>5, <2>6
  <2>7. CASE token.chainForm # "other"
    <3> DEFINE hopVerdict(e) == FirstError(hopChecks(e))
               denyVerdict(e) == FirstError(denyChecks(e))
    <3>1. hopVerdict(other) = hopVerdict(env) /\ denyVerdict(other) = denyVerdict(env)
      BY <2>2, <2>3
    <3>2. ASSUME NEW e
          PROVE  verify_multihop(token, e, time) =
                   FirstError(<< Check(hop_limit(token.chain), "DELEGATION_HOP_LIMIT_EXCEEDED"),
                                 Check(token.chainForm = "list", AttributeError),
                                 Check(token.commits = token.chain,
                                       "DELEGATION_CHAIN_HASH_MISMATCH"),
                                 hopVerdict(e),
                                 verified_snapshot_bodies_error(e),
                                 source(e),
                                 denyVerdict(e) >>)
      BY <2>5, <2>7
    <3> HIDE DEF hopVerdict, denyVerdict
    <3>3. ASSUME NEW e
          PROVE  verify_multihop(token, e, time) = OK <=>
                   /\ Check(hop_limit(token.chain), "DELEGATION_HOP_LIMIT_EXCEEDED") = OK
                   /\ Check(token.chainForm = "list", AttributeError) = OK
                   /\ Check(token.commits = token.chain, "DELEGATION_CHAIN_HASH_MISMATCH") = OK
                   /\ hopVerdict(e) = OK
                   /\ verified_snapshot_bodies_error(e) = OK
                   /\ source(e) = OK
                   /\ denyVerdict(e) = OK
      <4> DEFINE limit == Check(hop_limit(token.chain), "DELEGATION_HOP_LIMIT_EXCEEDED")
                 form == Check(token.chainForm = "list", AttributeError)
                 commits == Check(token.commits = token.chain, "DELEGATION_CHAIN_HASH_MISMATCH")
                 hopsOK == hopVerdict(e)
                 error == verified_snapshot_bodies_error(e)
                 sourceOK == source(e)
                 denyOK == denyVerdict(e)
      <4>1. verify_multihop(token, e, time) =
              FirstError(<<limit, form, commits, hopsOK, error, sourceOK, denyOK>>)
        BY <3>2
      <4> HIDE DEF limit, form, commits, hopsOK, error, sourceOK, denyOK
      <4>2. verify_multihop(token, e, time) = OK <=>
              /\ limit = OK /\ form = OK /\ commits = OK /\ hopsOK = OK
              /\ error = OK /\ sourceOK = OK /\ denyOK = OK
        BY <4>1, SevenChecks
      <4>3. QED
        BY <4>2 DEF limit, form, commits, hopsOK, error, sourceOK, denyOK
    <3>4. QED
      BY <2>4, <3>1, <3>3
  <2>8. QED
    BY <2>6, <2>7
<1>6. QED
  BY <1>4, <1>5, FourChecks DEF verify_delegation_token

LEMMA OrderFromInv == IInv => OrderIsIrrelevant
<1> SUFFICES ASSUME IInv, ~ Idle
             PROVE  call.verdict = OK <=>
                      Recheck(call.token, call.context, SetToSeq(ToSet(call.records))) = OK
  BY DEF OrderIsIrrelevant
<1> DEFINE others == SetToSeq(ToSet(call.records))
<1>1. /\ call.records \in Supplies
      /\ call.verdict = Recheck(call.token, call.context, call.records)
  BY DEF IInv, VerdictIsCurrent
<1>2. PICK n \in Nat : DOMAIN call.records = 1 .. n
  BY <1>1, WorldAssumption DEF Supplies
<1>3. /\ \E m \in Nat : DOMAIN others = 1 .. m
      /\ ToSet(others) = ToSet(call.records)
  BY <1>2, SetIsListed
<1> HIDE DEF others
<1>4. LET env   == Env(call.context, call.records)
          other == Env(call.context, others)
      IN  /\ verified_snapshot_bodies(other) = verified_snapshot_bodies(env)
          /\ verified_snapshot_bodies_error(other) = OK
               <=> verified_snapshot_bodies_error(env) = OK
  BY <1>2, <1>3, SameRecords
<1>5. /\ Env(call.context, others).selfAid = Env(call.context, call.records).selfAid
      /\ Env(call.context, others).feature = Env(call.context, call.records).feature
      /\ Env(call.context, others).policy = Env(call.context, call.records).policy
      /\ Env(call.context, others).manifests = Env(call.context, call.records).manifests
  BY DEF Env
<1>6. Recheck(call.token, call.context, others) = OK
        <=> Recheck(call.token, call.context, call.records) = OK
  BY <1>4, <1>5, SnapshotsDecide DEF Recheck
<1>7. QED
  BY <1>1, <1>6 DEF others

-----------------------------------------------------------------------------
(***************************************************************************)
(* The other direction: what an honest agent signs is accepted, as long as *)
(* it lasts, by a verifier that takes chains and does not test revocation. *)
(* First again the code, as equivalences.                                  *)
(***************************************************************************)
\* What is checked of a token at any place of a path and at any time.
Proper(hop) ==
  /\ hop.compact
  /\ verify_jws(hop, hop.iss, "aitp-delegation+jwt", DelegationErrors, OK) = OK
  /\ check_shape(hop, InvalidSignature) = OK
  /\ hop.iss # hop.sub
  /\ hop.aud = Self

\* What the multi-hop path checks besides.
Onward(hop) ==
  /\ hop.ver = PROTOCOL_VERSION
  /\ hop.sub \in Aid /\ hop.jkt = Thumbprint(hop.sub)
  /\ hop.jti # Absent

\* What depends on its place and the time.
Placed(hops, i, time) ==
  /\ \A k \in 1 .. i - 1 : hops[k].jti # hops[i].jti
  /\ time < hops[i].exp
  /\ IF i = 1 THEN check_voucher(hops[i], Self, time) = OK ELSE check_continuity(hops, i) = OK

LEMMA OpenEnvironment ==
  /\ OpenEnv.selfAid = Self /\ Self # Absent /\ OpenEnv.feature
  /\ OpenEnv.manifests = Absent /\ OpenEnv.isArray /\ OpenEnv.snapshots = <<>>
  /\ policy_fail_mode(OpenEnv.policy) # "fail_closed"
<1>1. /\ OpenEnv.selfAid = Self /\ OpenEnv.feature
      /\ OpenEnv.manifests = Absent /\ OpenEnv.isArray /\ OpenEnv.snapshots = <<>>
  BY DEF OpenEnv, Env
<1>2. OpenEnv.policy.mode = "fail_open"
  BY DEF OpenEnv, Env, NoPolicy
<1>3. policy_of(OpenEnv.policy) = OpenEnv.policy
  BY WorldAssumption DEF policy_of
<1>4. policy_fail_mode(OpenEnv.policy) = "fail_open"
  BY <1>2, <1>3 DEF policy_fail_mode, resolve_fail_mode, FAIL_MODES
<1>5. Self # Absent
  BY WorldAssumption, AidAssumption
<1>6. QED
  BY <1>1, <1>4, <1>5

\* Nothing is revoked without a snapshot, and no Manifest has to resolve.
LEMMA OpenChecks ==
  ASSUME NEW time
  PROVE  /\ verified_snapshot_bodies_error(OpenEnv) = OK
         /\ \A i, j : check_deny_lists(OpenEnv, i, j, time) = OK
         /\ \A t : resolve_issuer(t, OpenEnv, time) = OK
<1>1. FirstError(<<>>) = OK
  BY DEF FirstError
<1>2. verified_snapshot_bodies_error(OpenEnv) = OK
  <2> DEFINE own(k) == IF OpenEnv.snapshots[k].label \in {Absent, OpenEnv.selfAid}
                       THEN verify_snapshot_trust(OpenEnv.snapshots[k].snapshot)
                       ELSE OK
  <2>1. [k \in DOMAIN OpenEnv.snapshots |-> own(k)] = <<>>
    BY OpenEnvironment
  <2>2. verified_snapshot_bodies_error(OpenEnv)
          = FirstError([k \in DOMAIN OpenEnv.snapshots |-> own(k)])
    BY OpenEnvironment DEF verified_snapshot_bodies_error
  <2> HIDE DEF own
  <2>3. QED
    BY <1>1, <2>1, <2>2
<1>3. \A i : fresh_bodies(OpenEnv, i, time) = {}
  <2>1. verified_snapshot_bodies(OpenEnv) = {}
    BY OpenEnvironment DEF verified_snapshot_bodies
  <2>2. QED
    BY <2>1 DEF fresh_bodies
<1>4. \A i, j : check_deny_lists(OpenEnv, i, j, time) = OK
  BY <1>3, OpenEnvironment DEF check_deny_lists, Check
<1>5. \A t : resolve_issuer(t, OpenEnv, time) = OK
  BY OpenEnvironment DEF resolve_issuer
<1>6. QED
  BY <1>2, <1>4, <1>5

LEMMA HopInOpenEnv ==
  ASSUME NEW hops, NEW i, NEW time
  PROVE  check_hop(hops, i, OpenEnv, time) = OK <=>
           Proper(hops[i]) /\ Onward(hops[i]) /\ Placed(hops, i, time)
<1> DEFINE hop == hops[i]
           last == IF i = 1 THEN check_voucher(hop, Self, time) ELSE check_continuity(hops, i)
<1>1. resolve_issuer(hop, OpenEnv, time) = OK /\ OpenEnv.selfAid = Self
  BY OpenChecks, OpenEnvironment
<1>2. check_hop(hops, i, OpenEnv, time) = OK <=>
        /\ hop.compact
        /\ resolve_issuer(hop, OpenEnv, time) = OK
        /\ verify_jws(hop, hop.iss, "aitp-delegation+jwt", DelegationErrors, OK) = OK
        /\ check_shape(hop, InvalidSignature) = OK
        /\ hop.ver = PROTOCOL_VERSION
        /\ hop.iss # hop.sub
        /\ hop.aud = Self
        /\ hop.sub \in Aid /\ hop.jkt = Thumbprint(hop.sub)
        /\ hop.jti # Absent /\ \A k \in 1 .. i - 1 : hops[k].jti # hop.jti
        /\ time < hop.exp
        /\ last = OK
  <2> HIDE DEF last
  <2>1. check_hop(hops, i, OpenEnv, time) =
          FirstError(<<
            parse_compact(hop, InvalidSignature),
            resolve_issuer(hop, OpenEnv, time),
            verify_jws(hop, hop.iss, "aitp-delegation+jwt", DelegationErrors, OK),
            check_shape(hop, InvalidSignature),
            Check(hop.ver = PROTOCOL_VERSION, "UNKNOWN_VERSION"),
            Check(hop.iss # hop.sub, InvalidSignature),
            Check(hop.aud = Self, "DELEGATION_AUDIENCE_MISMATCH"),
            Check(hop.sub \in Aid, InvalidVoucher),
            Check(hop.sub \in Aid /\ hop.jkt = Thumbprint(hop.sub), InvalidVoucher),
            Check(hop.jti # Absent /\ \A k \in 1 .. i - 1 : hops[k].jti # hop.jti,
                  InvalidVoucher),
            Check(time < hop.exp, Expired),
            last >>)
    BY <1>1 DEF check_hop, last
  <2>2. QED
    BY <2>1, TwelveChecks DEF parse_compact, Check, OK, InvalidSignature, InvalidVoucher, Expired
<1>3. QED
  BY <1>1, <1>2 DEF Proper, Onward, Placed

\* Both paths, for tokens a chain could be continued from.
LEMMA OpenAccepted ==
  ASSUME NEW t, NEW S, t.chain \in Seq(S), Onward(t), NEW time
  PROVE  verify_delegation_token(t, OpenEnv, time) = OK <=>
           /\ t.chainForm # "absent" =>
                t.chainForm = "list" /\ hop_limit(t.chain) /\ t.commits = t.chain
           /\ \A i \in DOMAIN Path(t) :
                Proper(Path(t)[i]) /\ Onward(Path(t)[i]) /\ Placed(Path(t), i, time)
<1>1. CASE t.chainForm = "absent"
  <2>1. verify_delegation_token(t, OpenEnv, time) = OK <=>
          Proper(t) /\ time < t.exp /\ check_voucher(t, Self, time) = OK
    BY <1>1, SingleHopAccepted, OpenChecks, OpenEnvironment DEF Proper
  <2>2. Path(t) = <<t>>
    BY <1>1 DEF Path
  <2>3. DOMAIN Path(t) = {1} /\ Path(t)[1] = t
    BY <2>2
  <2>4. Placed(Path(t), 1, time) <=> time < t.exp /\ check_voucher(t, Self, time) = OK
    BY <2>3 DEF Placed
  <2>5. QED
    BY <1>1, <2>1, <2>3, <2>4
<1>2. CASE t.chainForm # "absent"
  <2> DEFINE hops == hops_of(t)
             hopChecks == [i \in DOMAIN hops |-> check_hop(hops, i, OpenEnv, time)]
             denyChecks == [i \in DOMAIN hops |->
                              check_deny_lists(OpenEnv, hops[i].iss, hops[i].jti, time)]
             source == IF hops[1].voucher = Absent THEN OK
                       ELSE check_source_tct_revocation(OpenEnv, hops[1].voucher.src_jti, time)
  <2>1. /\ hops = Append(t.chain, t) /\ Len(hops) \in Nat /\ DOMAIN hops = 1 .. Len(hops)
        /\ Len(hops) \in DOMAIN hops /\ hops[Len(hops)] = t
    <3> DEFINE chain == t.chain
    <3>1. chain \in Seq(S \cup {t}) /\ t \in S \cup {t}
      OBVIOUS
    <3> HIDE DEF chain
    <3>2. /\ Append(chain, t) \in Seq(S \cup {t})
          /\ Len(Append(chain, t)) = Len(chain) + 1 /\ Len(chain) \in Nat
          /\ Append(chain, t)[Len(chain) + 1] = t
      BY <3>1
    <3>3. QED
      BY <3>2 DEF hops_of, chain
  <2>2. Path(t) = hops
    BY <1>2 DEF Path
  <2> HIDE DEF hops
  <2>3. source = OK
    BY OpenChecks, OpenEnvironment DEF check_source_tct_revocation
  <2>4. FirstError(denyChecks) = OK
    <3>1. DOMAIN denyChecks = 1 .. Len(hops) /\ \A i \in 1 .. Len(hops) : denyChecks[i] = OK
      BY <2>1, OpenChecks
    <3> HIDE DEF denyChecks
    <3>2. QED
      BY <2>1, <3>1, FirstErrorOK
  <2>5. FirstError(hopChecks) = OK <=>
          \A i \in DOMAIN hops : check_hop(hops, i, OpenEnv, time) = OK
    <3>1. /\ DOMAIN hopChecks = 1 .. Len(hops)
          /\ \A i \in 1 .. Len(hops) : hopChecks[i] = check_hop(hops, i, OpenEnv, time)
      BY <2>1
    <3> HIDE DEF hopChecks
    <3>2. QED
      BY <2>1, <3>1, FirstErrorOK
  <2>6. verified_snapshot_bodies_error(OpenEnv) = OK
    BY OpenChecks
  <2>7. verify_multihop(t, OpenEnv, time) = OK <=>
          /\ t.chainForm = "list" /\ hop_limit(t.chain) /\ t.commits = t.chain
          /\ FirstError(hopChecks) = OK
    <3>1. CASE t.chainForm = "other"
      BY <3>1 DEF verify_multihop, TypeError, OK
    <3>2. CASE t.chainForm # "other"
      <4>1. verify_multihop(t, OpenEnv, time) =
              FirstError(<< Check(hop_limit(t.chain), "DELEGATION_HOP_LIMIT_EXCEEDED"),
                            Check(t.chainForm = "list", AttributeError),
                            Check(t.commits = t.chain, "DELEGATION_CHAIN_HASH_MISMATCH"),
                            FirstError(hopChecks),
                            verified_snapshot_bodies_error(OpenEnv),
                            source,
                            FirstError(denyChecks) >>)
        BY <3>2 DEF verify_multihop, sweep, hops
      <4> HIDE DEF hopChecks, denyChecks, source
      <4>2. QED
        BY <2>3, <2>4, <2>6, <4>1, SevenChecks DEF Check, OK, AttributeError
    <3>3. QED
      BY <3>1, <3>2
  <2> HIDE DEF hopChecks
  <2>8. verify_delegation_token(t, OpenEnv, time) = OK <=>
          t.compact /\ verify_multihop(t, OpenEnv, time) = OK
    BY <1>2, FourChecks, OpenEnvironment
    DEF verify_delegation_token, parse_compact, Check, OK, InvalidSignature
  <2>9. \A i \in DOMAIN hops :
          check_hop(hops, i, OpenEnv, time) = OK <=>
            Proper(hops[i]) /\ Onward(hops[i]) /\ Placed(hops, i, time)
    BY HopInOpenEnv
  <2>10. (\A i \in DOMAIN hops : Proper(hops[i])) => t.compact
    BY <2>1 DEF Proper
  <2>11. QED
    BY <1>2, <2>2, <2>5, <2>7, <2>8, <2>9, <2>10
<1>3. QED
  BY <1>1, <1>2

-----------------------------------------------------------------------------
(***************************************************************************)
(* The invariant behind it: every signed token could be continued from,    *)
(* and what an honest agent signed was acceptable at some time.  An        *)
(* acceptable token stays so until it expires: no token before it on the   *)
(* path, and no voucher under it, expires earlier.                         *)
(***************************************************************************)
HonestStand ==
  \A t \in signed :
    /\ Onward(t) /\ t.exp \in Int
    /\ t.iss \in Honest => \E m : verify_delegation_token(t, OpenEnv, m) = OK

LEMMA ExpiryShrinks ==
  ASSUME NEW hops, NEW n \in Nat \ {0}, NEW time \in Int, time < hops[n].exp,
         \A i \in 1 .. n : hops[i].exp \in Int,
         \A i \in 2 .. n : hops[i].exp <= hops[i - 1].exp
  PROVE  \A i \in 1 .. n : time < hops[i].exp
<1> DEFINE lives == [i \in 1 .. n |-> [scope |-> {k \in Int : k < hops[i].exp}]]
<1>1. \A i \in 1 .. n : lives[i].scope = {k \in Int : k < hops[i].exp}
  OBVIOUS
<1>2. time \in lives[n].scope
  BY <1>1
<1>3. \A i \in 2 .. n : lives[i].scope \subseteq lives[i - 1].scope
  <2> SUFFICES ASSUME NEW i \in 2 .. n PROVE lives[i].scope \subseteq lives[i - 1].scope
    OBVIOUS
  <2>1. i \in 1 .. n /\ i - 1 \in 1 .. n
    OBVIOUS
  <2> HIDE DEF lives
  <2>2. QED
    BY <1>1, <2>1
<1> HIDE DEF lives
<1>4. \A i \in 1 .. n : time \in lives[i].scope
  BY <1>2, <1>3, ScopeShrinks
<1>5. QED
  BY <1>1, <1>4

LEMMA StandsUntilExpiry ==
  ASSUME TypeOK, HonestStand, NEW t \in signed, NEW m,
         verify_delegation_token(t, OpenEnv, m) = OK,
         NEW time \in Int, time < t.exp
  PROVE  verify_delegation_token(t, OpenEnv, time) = OK
<1> DEFINE hops == Path(t)
           n == Len(hops)
<1>1. /\ n \in Nat \ {0} /\ DOMAIN hops = 1 .. n /\ hops[n] = t
      /\ \A i \in DOMAIN hops : hops[i] \in Available
  BY PathIsAvailable
<1>2. t.chain \in Seq(Available) /\ Onward(t)
  BY DEF TypeOK, HonestStand
<1>3. /\ t.chainForm # "absent" =>
           t.chainForm = "list" /\ hop_limit(t.chain) /\ t.commits = t.chain
      /\ \A i \in DOMAIN hops : Proper(hops[i]) /\ Onward(hops[i]) /\ Placed(hops, i, m)
  BY <1>2, OpenAccepted
<1> HIDE DEF hops, n
<1>4. \A i \in 1 .. n : hops[i] \in signed
  <2> SUFFICES ASSUME NEW i \in 1 .. n PROVE hops[i] \in signed
    OBVIOUS
  <2>1. DelegationErrors.sig # OK /\ ValueError # OK
    BY DEF DelegationErrors, VoucherErrors, InvalidSignature, OK, ValueError
  <2>2. verify_jws(hops[i], hops[i].iss, "aitp-delegation+jwt", DelegationErrors, OK) = OK
    BY <1>1, <1>3 DEF Proper
  <2>3. SignedBy(hops[i], hops[i].iss)
    BY <2>1, <2>2, JwsAccepted
  <2>4. QED
    BY <1>1, <2>3, AcceptedWasSigned
<1>5. \A i \in 1 .. n : hops[i].exp \in Int
  BY <1>4 DEF HonestStand
<1>6. \A i \in 2 .. n : check_continuity(hops, i) = OK
  BY <1>1, <1>3 DEF Placed
<1>7. \A i \in 1 .. n : time < hops[i].exp
  <2>1. \A i \in 2 .. n : hops[i].exp <= hops[i - 1].exp
    BY <1>6, ContinuityChecked
  <2>2. QED
    BY <1>1, <1>5, <2>1, ExpiryShrinks
<1>8. check_voucher(hops[1], Self, time) = OK
  <2>1. check_voucher(hops[1], Self, m) = OK /\ hops[1] \in signed
    BY <1>1, <1>3, <1>4 DEF Placed
  <2>2. hops[1].voucher \in Vouchers /\ hops[1].exp <= hops[1].voucher.exp
    BY <2>1, VoucherWasIssued, VoucherChecked
  <2>3. hops[1].voucher.exp \in Int /\ hops[1].exp \in Int /\ time < hops[1].exp
    BY <1>1, <1>5, <1>7, <2>2, VoucherIsGood
  <2>4. time < hops[1].voucher.exp
    BY <2>2, <2>3
  <2>5. QED
    BY <2>1, <2>4, VoucherChecked
<1>9. \A i \in DOMAIN hops : Placed(hops, i, time)
  BY <1>1, <1>3, <1>7, <1>8 DEF Placed
<1>10. QED
  BY <1>2, <1>3, <1>9, OpenAccepted DEF hops

-----------------------------------------------------------------------------
\* What an agent can sign is a proper token, and one to continue from.
Drawn(agent, sub, scope, exp, jti, voucher) ==
  [Token(agent, sub, scope, exp, jti) EXCEPT !.voucher = voucher]

Passed(agent, sub, scope, exp, jti, chain) == Chained(Token(agent, sub, scope, exp, jti), chain)

LEMMA HonestlyMade ==
  ASSUME NEW t, t.iss \in Agents, t.sub \in Agents \ {t.iss}, t.jkt = KeyOf[t.sub],
         t.jti # Absent, t.aud = Self, t.ver = PROTOCOL_VERSION,
         t.compact, t.members, t.typ = "aitp-delegation+jwt",
         t.alg = AlgOf[KeyOf[t.iss]], t.signer = KeyOf[t.iss], t.defects = {}
  PROVE  Proper(t) /\ Onward(t)
<1>1. t.iss \in Aid /\ t.sub \in Aid /\ t.iss # t.sub
  BY WorldAssumption
<1>2. PinnedAlg(t.iss, t.alg) /\ SignedBy(t, t.iss)
  BY <1>1, AidAssumption DEF PinnedAlg, SignedBy
<1>3. verify_jws(t, t.iss, "aitp-delegation+jwt", DelegationErrors, OK) = OK
  BY <1>1, <1>2, SevenChecks DEF verify_jws, parse_compact, Check
<1>4. check_shape(t, InvalidSignature) = OK
  BY TwoChecks DEF check_shape, Check
<1>5. QED
  BY <1>1, <1>3, <1>4 DEF Proper, Onward, Thumbprint

LEMMA DrawnIsProper ==
  ASSUME NEW agent \in Agents, NEW sub \in Agents \ {agent}, NEW scope, NEW exp,
         NEW jti, jti # Absent, NEW voucher,
         NEW t, t = Drawn(agent, sub, scope, exp, jti, voucher)
  PROVE  /\ t.iss = agent /\ t.scope = scope /\ t.exp = exp /\ t.voucher = voucher
         /\ t.chainForm = "absent" /\ t.chain = <<>>
         /\ Proper(t) /\ Onward(t)
         /\ LET next == Chained(t, <<>>)
            IN  next.iss = agent /\ next.exp = exp /\ Onward(next)
<1>1. /\ t.iss = agent /\ t.scope = scope /\ t.exp = exp /\ t.voucher = voucher
      /\ t.chainForm = "absent" /\ t.chain = <<>>
  BY DEF Drawn, Token
<1>2. Proper(t) /\ Onward(t)
  BY HonestlyMade DEF Drawn, Token
<1>3. /\ Chained(t, <<>>).iss = t.iss /\ Chained(t, <<>>).exp = t.exp
      /\ Chained(t, <<>>).ver = t.ver /\ Chained(t, <<>>).sub = t.sub
      /\ Chained(t, <<>>).jkt = t.jkt /\ Chained(t, <<>>).jti = t.jti
  BY DEF Drawn, Token, Chained
<1>4. QED
  BY <1>1, <1>2, <1>3 DEF Onward

LEMMA PassedIsProper ==
  ASSUME NEW agent \in Agents, NEW sub \in Agents \ {agent}, NEW scope, NEW exp,
         NEW jti, jti # Absent, NEW chain,
         NEW t, t = Passed(agent, sub, scope, exp, jti, chain)
  PROVE  /\ t.iss = agent /\ t.scope = scope /\ t.exp = exp /\ t.voucher = Absent
         /\ t.chainForm = "list" /\ t.chain = chain /\ t.commits = chain /\ t.jti = jti
         /\ Proper(t) /\ Onward(t)
<1>1. /\ t.iss = agent /\ t.scope = scope /\ t.exp = exp /\ t.voucher = Absent
      /\ t.chainForm = "list" /\ t.chain = chain /\ t.commits = chain /\ t.jti = jti
  BY DEF Passed, Token, Chained
<1>2. Proper(t) /\ Onward(t)
  BY HonestlyMade DEF Passed, Token, Chained
<1>3. QED
  BY <1>1, <1>2

\* Delegated from a voucher: acceptable just before it expires.
LEMMA FromVoucherIsAccepted ==
  ASSUME NEW a \in Agents, NEW v \in Vouchers, NEW sub \in Agents \ {a}, NEW scope,
         NEW exp \in Int, NEW jti, jti # Absent,
         v.sub = a, scope \subseteq v.grants, exp <= v.exp
  PROVE  verify_delegation_token([Token(a, sub, scope, exp, jti) EXCEPT !.voucher = v],
                                 OpenEnv, exp - 1) = OK
<1> DEFINE token == [Token(a, sub, scope, exp, jti) EXCEPT !.voucher = v]
<1>0. token = Drawn(a, sub, scope, exp, jti, v)
  BY DEF Drawn
<1> HIDE DEF token
<1>1. /\ token.iss = a /\ token.scope = scope /\ token.exp = exp /\ token.voucher = v
      /\ token.chainForm = "absent" /\ token.chain = <<>> /\ Proper(token) /\ Onward(token)
  BY <1>0, DrawnIsProper
<1>2. /\ v # Absent /\ v.iss = Self /\ v.exp \in Int /\ v.compact
      /\ verify_jws(v, v.iss, "aitp-grant+jwt", VoucherErrors, OK) = OK
      /\ check_shape(v, InvalidVoucher) = OK
  BY VoucherIsGood
<1>3. check_voucher(token, Self, exp - 1) = OK
  BY <1>1, <1>2, VoucherChecked
<1>4. Path(token) = <<token>>
  BY <1>1 DEF Path
<1>5. DOMAIN Path(token) = {1} /\ Path(token)[1] = token
  BY <1>4
<1>6. Placed(Path(token), 1, exp - 1)
  BY <1>1, <1>3, <1>5 DEF Placed
<1>7. token.chain \in Seq({})
  BY <1>1
<1>8. verify_delegation_token(token, OpenEnv, exp - 1) = OK
  BY <1>1, <1>5, <1>6, <1>7, OpenAccepted
<1>9. QED
  BY <1>8 DEF token

\* Delegated from a token that was acceptable when it was passed on.
LEMMA FromTokenIsAccepted ==
  ASSUME TypeOK, HonestStand,
         NEW a \in Agents, NEW held \in signed, NEW sub \in Agents \ {a}, NEW scope,
         NEW exp \in Int, NEW jti, jti # Absent, NEW m,
         held.sub = a, Len(Path(held)) < MAX_DELEGATION_HOPS,
         verify_delegation_token(held, OpenEnv, m) = OK,
         scope \subseteq held.scope, exp <= held.exp,
         jti \notin Jtis(ToSet(Path(held)))
  PROVE  verify_delegation_token(Chained(Token(a, sub, scope, exp, jti), Path(held)),
                                 OpenEnv, exp - 1) = OK
<1> DEFINE chain == Path(held)
           n == Len(chain)
           token == Chained(Token(a, sub, scope, exp, jti), chain)
           hops == Append(chain, token)
<1>1. /\ token.iss = a /\ token.scope = scope /\ token.exp = exp /\ token.voucher = Absent
      /\ token.chainForm = "list" /\ token.chain = chain /\ token.commits = chain
      /\ token.jti = jti /\ Proper(token) /\ Onward(token)
  <2> HIDE DEF chain
  <2>1. QED
    BY PassedIsProper DEF Passed
<1>2. /\ n \in Nat \ {0} /\ DOMAIN chain = 1 .. n /\ chain[n] = held
      /\ \A i \in DOMAIN chain : chain[i] \in Available
  BY PathIsAvailable
<1>3. chain \in Seq(Available)
  <2>1. held \in Available /\ held.chain \in Seq(Available)
    BY DEF TypeOK, Available
  <2> HIDE DEF Available
  <2>2. QED
    BY <2>1 DEF Path, hops_of
<1>4. \A i \in 1 .. n :
        Proper(chain[i]) /\ Onward(chain[i]) /\ Placed(chain, i, exp - 1)
  <2>1. held.exp \in Int /\ held.chain \in Seq(Available) /\ Onward(held)
    BY DEF HonestStand, TypeOK
  <2>2. verify_delegation_token(held, OpenEnv, exp - 1) = OK
    BY <2>1, StandsUntilExpiry
  <2> HIDE DEF chain, n
  <2>3. QED
    BY <1>2, <2>1, <2>2, OpenAccepted DEF chain
<1>5. \A i \in 1 .. n : chain[i].jti # jti
  <2>1. \A i \in 1 .. n : chain[i] \in ToSet(chain)
    BY <1>2 DEF ToSet
  <2> HIDE DEF chain, n
  <2>2. QED
    BY <2>1 DEF Jtis, chain
<1> HIDE DEF token
<1>6. /\ Len(hops) = n + 1 /\ DOMAIN hops = 1 .. n + 1 /\ hops[n + 1] = token
      /\ \A i \in 1 .. n : hops[i] = chain[i]
  <2> DEFINE S == Available \cup {token}
  <2>1. chain \in Seq(S) /\ token \in S
    BY <1>3
  <2> HIDE DEF chain, n, S
  <2>2. Len(Append(chain, token)) = Len(chain) + 1 /\ Append(chain, token) \in Seq(S)
        /\ Append(chain, token)[Len(chain) + 1] = token
        /\ \A i \in 1 .. Len(chain) : Append(chain, token)[i] = chain[i]
    BY <2>1
  <2>3. QED
    BY <1>2, <2>2 DEF n
<1>7. Path(token) = hops
  BY <1>1 DEF Path, hops_of
<1> HIDE DEF chain, hops
<1>8. \A i \in 1 .. n : Placed(hops, i, exp - 1)
  <2> SUFFICES ASSUME NEW i \in 1 .. n PROVE Placed(hops, i, exp - 1)
    OBVIOUS
  <2>1. hops[i] = chain[i] /\ \A k \in 1 .. i - 1 : hops[k] = chain[k]
    BY <1>2, <1>6
  <2>2. Placed(chain, i, exp - 1)
    BY <1>4
  <2>3. i # 1 => hops[i - 1] = chain[i - 1]
    BY <1>2, <1>6
  <2>4. check_continuity(hops, i) = check_continuity(chain, i) \/ i = 1
    BY <2>1, <2>3 DEF check_continuity
  <2>5. QED
    BY <2>1, <2>2, <2>4 DEF Placed
<1>9. Placed(hops, n + 1, exp - 1)
  <2>1. hops[n] = held /\ n + 1 # 1
    BY <1>2, <1>6
  <2>2. check_continuity(hops, n + 1) = OK
    BY <1>1, <1>2, <1>6, <2>1, ContinuityChecked
  <2>3. \A k \in 1 .. n : hops[k].jti # hops[n + 1].jti
    BY <1>1, <1>5, <1>6
  <2>4. QED
    BY <1>1, <1>2, <1>6, <2>1, <2>2, <2>3 DEF Placed
<1>10. \A i \in DOMAIN hops : Proper(hops[i]) /\ Onward(hops[i]) /\ Placed(hops, i, exp - 1)
  <2> SUFFICES ASSUME NEW i \in 1 .. n + 1
               PROVE  Proper(hops[i]) /\ Onward(hops[i]) /\ Placed(hops, i, exp - 1)
    BY <1>6
  <2>1. CASE i = n + 1
    BY <1>1, <1>6, <1>9, <2>1
  <2>2. CASE i \in 1 .. n
    BY <1>4, <1>6, <1>8, <2>2
  <2>3. QED
    BY <1>2, <2>1, <2>2
<1>11. hop_limit(token.chain)
  BY <1>1, <1>2 DEF hop_limit, MAX_DELEGATION_HOPS, n, chain
<1>12. QED
  BY <1>1, <1>3, <1>7, <1>10, <1>11, OpenAccepted DEF token, chain

-----------------------------------------------------------------------------
LEMMA StandInit == Init => HonestStand
BY WorldAssumption DEF Init, HonestStand, Onward, Thumbprint

\* What is signed stays acceptable.
LEMMA StandSign ==
  ASSUME HonestStand, NEW token, Sign(token), Onward(token), token.exp \in Int,
         token.iss \in Honest => \E m : verify_delegation_token(token, OpenEnv, m) = OK
  PROVE  HonestStand'
<1>1. signed' = signed \cup {token}
  BY DEF Sign
<1>2. \A t \in signed' :
        /\ Onward(t) /\ t.exp \in Int
        /\ t.iss \in Honest => \E m : verify_delegation_token(t, OpenEnv, m) = OK
  BY <1>1 DEF HonestStand
<1>3. QED
  BY <1>2 DEF HonestStand

LEMMA StandStep == TypeOK /\ HonestStand /\ [Next]_vars => HonestStand'
<1> SUFFICES ASSUME TypeOK, HonestStand, [Next]_vars
             PROVE  HonestStand'
  OBVIOUS
<1>1. ASSUME NEW a \in Agents \cap Honest, SignFromVoucher(a)
      PROVE  HonestStand'
  <2>1. PICK v \in Vouchers, sub \in Agents \ {a}, scope \in Scopes, exp \in 1 .. MaxTime,
             jti \in JtisOf[a] :
          /\ v.sub = a /\ scope \subseteq v.grants /\ exp <= v.exp
          /\ Sign([Token(a, sub, scope, exp, jti) EXCEPT !.voucher = v])
    BY <1>1 DEF SignFromVoucher
  <2> DEFINE token == [Token(a, sub, scope, exp, jti) EXCEPT !.voucher = v]
  <2>2. jti # Absent
    BY WorldAssumption
  <2>3. exp \in Int
    BY WorldAssumption
  <2>4. token.exp = exp /\ Onward(token)
    <3>1. token = Drawn(a, sub, scope, exp, jti, v)
      BY DEF Drawn
    <3> HIDE DEF token
    <3>2. QED
      BY <2>2, <3>1, DrawnIsProper
  <2>5. verify_delegation_token(token, OpenEnv, exp - 1) = OK
    BY <2>1, <2>2, <2>3, FromVoucherIsAccepted
  <2> HIDE DEF token
  <2>6. QED
    BY <2>1, <2>3, <2>4, <2>5, StandSign DEF token
<1>2. ASSUME NEW a \in Agents \cap Honest, SignFromToken(a)
      PROVE  HonestStand'
  <2>1. PICK held \in signed, sub \in Agents \ {a}, scope \in Scopes, exp \in 1 .. MaxTime,
             jti \in JtisOf[a] :
          /\ held.sub = a /\ Len(Path(held)) < MAX_DELEGATION_HOPS
          /\ verify_delegation_token(held, OpenEnv, now) = OK
          /\ scope \subseteq held.scope /\ exp <= held.exp
          /\ jti \notin Jtis({t \in signed : t.iss = a} \cup ToSet(Path(held)))
          /\ Sign(Chained(Token(a, sub, scope, exp, jti), Path(held)))
    BY <1>2 DEF SignFromToken
  <2> DEFINE token == Chained(Token(a, sub, scope, exp, jti), Path(held))
  <2>2. jti # Absent /\ jti \notin Jtis(ToSet(Path(held)))
    BY <2>1, WorldAssumption DEF Jtis
  <2>3. exp \in Int
    BY WorldAssumption
  <2>4. token.exp = exp /\ Onward(token)
    BY <2>2, PassedIsProper DEF Passed
  <2>5. verify_delegation_token(token, OpenEnv, exp - 1) = OK
    BY <2>1, <2>2, <2>3, FromTokenIsAccepted
  <2> HIDE DEF token
  <2>6. QED
    BY <2>1, <2>3, <2>4, <2>5, StandSign DEF token
<1>3. ASSUME NEW a \in Agents \ Honest, SignAnything(a)
      PROVE  HonestStand'
  <2>1. PICK sub \in Agents \ {a}, scope \in Scopes, jti \in JtisOf[a],
             chain \in UNION {[1 .. n -> Available] : n \in 1 .. MAX_DELEGATION_HOPS - 1} :
          \/ Sign(Chained(Token(a, sub, scope, MaxTime, jti), chain))
          \/ \E v \in Vouchers \cup FakeVouchers :
               \/ Sign([Token(a, sub, scope, MaxTime, jti) EXCEPT !.voucher = v])
               \/ Sign(Chained([Token(a, sub, scope, MaxTime, jti) EXCEPT !.voucher = v], <<>>))
    BY <1>3 DEF SignAnything
  <2> DEFINE token == Token(a, sub, scope, MaxTime, jti)
  <2>2. jti # Absent /\ MaxTime \in Int
    BY WorldAssumption
  <2>3. Chained(token, chain).iss = a /\ Chained(token, chain).exp = MaxTime
        /\ Onward(Chained(token, chain))
    BY <2>2, PassedIsProper DEF Passed
  <2>4. ASSUME NEW v
        PROVE  LET other == [token EXCEPT !.voucher = v]
               IN  /\ other.iss = a /\ other.exp = MaxTime /\ Onward(other)
                   /\ Chained(other, <<>>).iss = a /\ Chained(other, <<>>).exp = MaxTime
                   /\ Onward(Chained(other, <<>>))
    <3> DEFINE other == [token EXCEPT !.voucher = v]
    <3>1. other = Drawn(a, sub, scope, MaxTime, jti, v)
      BY DEF Drawn
    <3> HIDE DEF other
    <3>2. /\ other.iss = a /\ other.exp = MaxTime /\ Onward(other)
          /\ Chained(other, <<>>).iss = a /\ Chained(other, <<>>).exp = MaxTime
          /\ Onward(Chained(other, <<>>))
      BY <2>2, <3>1, DrawnIsProper
    <3>3. QED
      BY <3>2 DEF other
  <2>5. \E t : Sign(t) /\ t.iss = a /\ t.exp = MaxTime /\ Onward(t)
    <3>1. CASE Sign(Chained(token, chain))
      BY <2>3, <3>1
    <3>2. ASSUME NEW v, Sign([token EXCEPT !.voucher = v])
          PROVE  \E t : Sign(t) /\ t.iss = a /\ t.exp = MaxTime /\ Onward(t)
      BY <2>4, <3>2, Zenon
    <3>3. ASSUME NEW v, Sign(Chained([token EXCEPT !.voucher = v], <<>>))
          PROVE  \E t : Sign(t) /\ t.iss = a /\ t.exp = MaxTime /\ Onward(t)
      BY <2>4, <3>3, Zenon
    <3>4. QED
      BY <2>1, <3>1, <3>2, <3>3, Zenon
  <2>6. QED
    BY <2>2, <2>5, StandSign
<1>4. CASE UNCHANGED signed
  BY <1>4 DEF HonestStand
<1>5. QED
  BY <1>1, <1>2, <1>3, <1>4 DEF Next, vars, Tick, Revoke, Publish, Verify, Return

LEMMA AcceptedFromStand == TypeOK /\ HonestStand => HonestTokensAreAccepted
<1>1. TypeOK => now \in Int
  BY WorldAssumption DEF TypeOK
<1>2. QED
  BY <1>1, StandsUntilExpiry DEF HonestTokensAreAccepted, HonestStand

-----------------------------------------------------------------------------
(***************************************************************************)
(* Every token of every reachable state is signed by its issuer, and no    *)
(* chain holds anything that was not signed or made of what was signed     *)
(* (the artifacts verify_delegation_token is given).                       *)
(***************************************************************************)
THEOREM TypeCorrect == Spec => []TypeOK
<1>1. QED
  BY TypeInit, TypeStep, PTL DEF Spec

(***************************************************************************)
(* No splicing, replay or tampering by any number of dishonest agents, and *)
(* no chain of any length that is accepted, gives the holder of a token a  *)
(* right Self did not grant (verify_delegation_token, _verify_multihop).   *)
(***************************************************************************)
THEOREM RightsComeFromSelfHolds == Spec => []RightsComeFromSelf
<1>1. QED
  BY TypeInit, TypeStep, RightsFromType, PTL DEF Spec

(***************************************************************************)
(* The voucher under an accepted delegation is one verify_grant_voucher    *)
(* accepts: the copies of its checks in delegation.py drop none that       *)
(* matters for the vouchers Self issues.                                   *)
(***************************************************************************)
THEOREM VouchersStandHolds == Spec => []VouchersStand
<1>1. QED
  BY TypeInit, TypeStep, VouchersFromType, PTL DEF Spec

(***************************************************************************)
(* A fail-closed verifier keeps the promise of RevocationPromise for all   *)
(* that an accepted delegation rests on, for chains of any length: nothing *)
(* is admitted Lifetime seconds after its revocation                       *)
(* (_check_source_tct_revocation, the sweep of _verify_multihop).          *)
(***************************************************************************)
THEOREM KeepsPromiseHolds == Spec => KeepsPromise
BY InvInit, InvStep, PromiseInit, PromiseStep, PTL DEF Spec, KeepsPromise, Promise!Spec

(***************************************************************************)
(* A token of one hop gets the same answer on both entry paths, up to the  *)
(* checks that only the multi-hop path makes, for every token, caller and  *)
(* supply of snapshots (verify_delegation_token,                           *)
(* _check_source_tct_revocation: "both entry paths call this").            *)
(***************************************************************************)
THEOREM PathsAgreeHolds == Spec => []PathsAgree
<1>1. QED
  BY InvInit, InvStep, PathsAgreeFromInv, PTL DEF Spec

(***************************************************************************)
(* However many snapshots the caller supplies and however often it repeats *)
(* one, their order does not decide (_verified_snapshot_bodies,            *)
(* _revocation_index).                                                     *)
(***************************************************************************)
THEOREM OrderIsIrrelevantHolds == Spec => []OrderIsIrrelevant
<1>1. QED
  BY InvInit, InvStep, OrderFromInv, PTL DEF Spec

(***************************************************************************)
(* No check refuses an honest delegation: what an honest agent signs is    *)
(* accepted until it expires, up to the hop limit and whoever stands       *)
(* before it in the chain, also when the token it was made from could      *)
(* since be presented in another way (_verify_multihop, its attenuation    *)
(* and hop limit; the single-hop path of verify_delegation_token).         *)
(***************************************************************************)
THEOREM HonestTokensAreAcceptedHolds == Spec => []HonestTokensAreAccepted
<1>1. QED
  BY TypeInit, TypeStep, StandInit, StandStep, AcceptedFromStand, PTL DEF Spec

=============================================================================
