---------------------------- MODULE VerdictLemmas ----------------------------
(***************************************************************************)
(* What a list of checks decides (module Verdicts), for lists of any       *)
(* length: the facts every proof about a verifier rests on.  And what the  *)
(* verifiers of Tct and Revocation require to accept, which the proofs     *)
(* about several worlds share.                                             *)
(***************************************************************************)
EXTENDS Tct, TLAPS, WellFoundedInduction

(***************************************************************************)
(* A set of naturals has a least element: the first failing check exists.  *)
(***************************************************************************)
LEMMA LeastNatural ==
  ASSUME NEW T \in SUBSET Nat, T # {}
  PROVE  \E i \in T : \A j \in T : i <= j
<1> DEFINE R == OpToRel(<, Nat)
<1>1. \A x, y \in Nat : x < y => <<x, y>> \in R
  BY DEF OpToRel
<1> HIDE DEF R
<1>2. IsWellFoundedOn(R, Nat)
  BY NatLessThanWellFounded DEF R
<1>3. PICK x \in T : \A y \in T : ~ (<<y, x>> \in R)
  BY <1>2, WFMin
<1>4. \A y \in T : ~ (y < x)
  BY <1>1, <1>3, Zenon
<1>5. x \in Nat /\ \A y \in T : y \in Nat
  OBVIOUS
<1>6. \A y \in T : x <= y
  BY <1>4, <1>5
<1>7. QED
  BY <1>6

(***************************************************************************)
(* A verifier answers OK, or with the code of the first check that fails:  *)
(* one of its checks that is not OK and before which all the others are.   *)
(***************************************************************************)
LEMMA FirstErrorFails ==
  ASSUME NEW n \in Nat, NEW checks, DOMAIN checks = 1..n,
         FirstError(checks) # OK
  PROVE  \E i \in 1..n : /\ FirstError(checks) = checks[i]
                         /\ checks[i] # OK
                         /\ \A j \in 1..n : j < i => checks[j] = OK
<1> DEFINE failing == {i \in DOMAIN checks : checks[i] # OK}
           first == CHOOSE i \in failing : \A j \in failing : i <= j
<1>1. failing # {}
  BY DEF FirstError
<1>2. \E i \in failing : \A j \in failing : i <= j
  <2>1. failing \in SUBSET Nat
    OBVIOUS
  <2> HIDE DEF failing
  <2>2. QED
    BY <1>1, <2>1, LeastNatural
<1>3. first \in failing /\ \A j \in failing : first <= j
  BY <1>2
<1>4. FirstError(checks) = checks[first]
  BY <1>1 DEF FirstError
<1>5. first \in 1..n /\ checks[first] # OK
  BY <1>3
<1>6. \A j \in 1..n : checks[j] # OK => first <= j
  BY <1>3
<1> HIDE DEF first, failing
<1>7. \A j \in 1..n : j < first => checks[j] = OK
  BY <1>5, <1>6
<1>8. QED
  BY <1>4, <1>5, <1>7

(***************************************************************************)
(* A verifier accepts exactly when every one of its checks does.           *)
(***************************************************************************)
LEMMA FirstErrorOK ==
  ASSUME NEW n \in Nat, NEW checks, DOMAIN checks = 1..n
  PROVE  FirstError(checks) = OK <=> \A i \in 1..n : checks[i] = OK
<1>1. ASSUME FirstError(checks) # OK
      PROVE  ~ \A i \in 1..n : checks[i] = OK
  BY <1>1, FirstErrorFails
<1>2. ASSUME \E i \in 1..n : checks[i] # OK
      PROVE  FirstError(checks) # OK
  <2> DEFINE failing == {i \in DOMAIN checks : checks[i] # OK}
             first == CHOOSE i \in failing : \A j \in failing : i <= j
  <2>1. failing # {}
    BY <1>2
  <2>2. \E i \in failing : \A j \in failing : i <= j
    <3>1. failing \in SUBSET Nat
      OBVIOUS
    <3> HIDE DEF failing
    <3>2. QED
      BY <2>1, <3>1, LeastNatural
  <2>3. first \in failing
    BY <2>2
  <2>4. FirstError(checks) = checks[first]
    BY <2>1 DEF FirstError
  <2>5. QED
    BY <2>3, <2>4
<1>3. QED
  BY <1>1, <1>2

(***************************************************************************)
(* Whatever the answer, it is OK or one of the codes of the list.          *)
(***************************************************************************)
LEMMA FirstErrorRange ==
  ASSUME NEW n \in Nat, NEW checks, DOMAIN checks = 1..n,
         NEW Codes, OK \in Codes, \A i \in 1..n : checks[i] \in Codes
  PROVE  FirstError(checks) \in Codes
BY FirstErrorFails

(***************************************************************************)
(* A check that comes last changes no verdict but an acceptance: two lists *)
(* that agree on all checks before it, one of which has nothing against it *)
(* there, answer the same, or one accepts and the other with that check.   *)
(***************************************************************************)
LEMMA LastCheckDecides ==
  ASSUME NEW n \in Nat, NEW checks, NEW others,
         DOMAIN checks = 1..n, DOMAIN others = 1..n,
         \A i \in 1..n : i # n => checks[i] = others[i],
         n \in 1..n, others[n] = OK
  PROVE  \/ FirstError(checks) = FirstError(others)
         \/ FirstError(others) = OK /\ FirstError(checks) = checks[n]
<1>1. CASE \A i \in 1..n : i # n => others[i] = OK
  <2>1. FirstError(others) = OK
    BY <1>1, FirstErrorOK
  <2>2. CASE FirstError(checks) = OK
    BY <2>1, <2>2
  <2>3. CASE FirstError(checks) # OK
    <3>1. PICK i \in 1..n : FirstError(checks) = checks[i] /\ checks[i] # OK
      BY <2>3, FirstErrorFails
    <3>2. i = n
      BY <1>1, <3>1
    <3>3. QED
      BY <2>1, <3>1, <3>2
  <2>4. QED
    BY <2>2, <2>3
<1>2. CASE \E k \in 1..n : k # n /\ others[k] # OK
  <2>1. PICK k \in 1..n : k # n /\ others[k] # OK
    BY <1>2
  <2>2. FirstError(checks) # OK /\ FirstError(others) # OK
    BY <2>1, FirstErrorOK
  <2>3. PICK i \in 1..n : /\ FirstError(checks) = checks[i]
                          /\ checks[i] # OK
                          /\ \A j \in 1..n : j < i => checks[j] = OK
    BY <2>2, FirstErrorFails
  <2>4. PICK m \in 1..n : /\ FirstError(others) = others[m]
                          /\ others[m] # OK
                          /\ \A j \in 1..n : j < m => others[j] = OK
    BY <2>2, FirstErrorFails
  <2>5. i <= k /\ m <= k
    BY <2>1, <2>3, <2>4
  <2>6. k < n
    BY <2>1
  <2>7. i # n /\ m # n
    BY <2>5, <2>6
  <2>8. i = m
    <3>1. ~ (i < m) /\ ~ (m < i)
      BY <2>3, <2>4, <2>7
    <3>2. QED
      BY <3>1
  <2>9. QED
    BY <2>3, <2>4, <2>7, <2>8
<1>3. QED
  BY <1>1, <1>2

(***************************************************************************)
(* The same for the lengths the verifiers have: the answer is OK exactly   *)
(* when every check is, and is otherwise the code of one of them.          *)
(***************************************************************************)
LEMMA TwoChecks ==
  ASSUME NEW a, NEW b
  PROVE  FirstError(<<a, b>>) = OK <=> a = OK /\ b = OK
<1> DEFINE checks == <<a, b>>
<1>1. DOMAIN checks = 1..2
  OBVIOUS
<1>2. FirstError(checks) = OK <=> \A m \in 1..2 : checks[m] = OK
  BY <1>1, FirstErrorOK
<1>3. QED
  BY <1>2

LEMMA ThreeChecks ==
  ASSUME NEW a, NEW b, NEW c
  PROVE  FirstError(<<a, b, c>>) = OK <=> a = OK /\ b = OK /\ c = OK
<1> DEFINE checks == <<a, b, c>>
<1>1. DOMAIN checks = 1..3
  OBVIOUS
<1>2. FirstError(checks) = OK <=> \A m \in 1..3 : checks[m] = OK
  BY <1>1, FirstErrorOK
<1>3. QED
  BY <1>2

LEMMA FourChecks ==
  ASSUME NEW a, NEW b, NEW c, NEW d
  PROVE  FirstError(<<a, b, c, d>>) = OK <=>
           /\ a = OK /\ b = OK /\ c = OK /\ d = OK
<1> DEFINE checks == <<a, b, c, d>>
<1>1. DOMAIN checks = 1..4
  OBVIOUS
<1>2. FirstError(checks) = OK <=> \A m \in 1..4 : checks[m] = OK
  BY <1>1, FirstErrorOK
<1>3. QED
  BY <1>2

LEMMA FiveChecks ==
  ASSUME NEW a, NEW b, NEW c, NEW d, NEW e
  PROVE  FirstError(<<a, b, c, d, e>>) = OK <=>
           /\ a = OK /\ b = OK /\ c = OK /\ d = OK /\ e = OK
<1> DEFINE checks == <<a, b, c, d, e>>
<1>1. DOMAIN checks = 1..5
  OBVIOUS
<1>2. FirstError(checks) = OK <=> \A m \in 1..5 : checks[m] = OK
  BY <1>1, FirstErrorOK
<1>3. QED
  BY <1>2

LEMMA SixChecks ==
  ASSUME NEW a, NEW b, NEW c, NEW d, NEW e, NEW f
  PROVE  /\ FirstError(<<a, b, c, d, e, f>>) = OK <=>
                  /\ a = OK /\ b = OK /\ c = OK /\ d = OK /\ e = OK /\ f = OK
         /\ FirstError(<<a, b, c, d, e, f>>) \in {OK, a, b, c, d, e, f}
<1> DEFINE checks == <<a, b, c, d, e, f>>
<1>1. DOMAIN checks = 1..6
  OBVIOUS
<1>2. FirstError(checks) = OK <=> \A n \in 1..6 : checks[n] = OK
  BY <1>1, FirstErrorOK
<1>3. FirstError(checks) \in {OK, a, b, c, d, e, f}
  <2> DEFINE Codes == {OK, a, b, c, d, e, f}
  <2>1. OK \in Codes /\ \A n \in DOMAIN checks : checks[n] \in Codes
    OBVIOUS
  <2> HIDE DEF checks, Codes
  <2>2. FirstError(checks) \in Codes
    BY <1>1, <2>1, FirstErrorRange
  <2>3. QED
    BY <2>2 DEF Codes
<1>4. QED
  BY <1>2, <1>3

LEMMA SevenChecks ==
  ASSUME NEW a, NEW b, NEW c, NEW d, NEW e, NEW f, NEW g
  PROVE  FirstError(<<a, b, c, d, e, f, g>>) = OK <=>
           /\ a = OK /\ b = OK /\ c = OK /\ d = OK /\ e = OK /\ f = OK /\ g = OK
<1> DEFINE checks == <<a, b, c, d, e, f, g>>
<1>1. DOMAIN checks = 1..7
  OBVIOUS
<1>2. FirstError(checks) = OK <=> \A m \in 1..7 : checks[m] = OK
  BY <1>1, FirstErrorOK
<1>3. QED
  BY <1>2

LEMMA EightChecks ==
  ASSUME NEW a, NEW b, NEW c, NEW d, NEW e, NEW f, NEW g, NEW h
  PROVE  FirstError(<<a, b, c, d, e, f, g, h>>) = OK <=>
           /\ a = OK /\ b = OK /\ c = OK /\ d = OK /\ e = OK /\ f = OK /\ g = OK /\ h = OK
<1> DEFINE checks == <<a, b, c, d, e, f, g, h>>
<1>1. DOMAIN checks = 1..8
  OBVIOUS
<1>2. FirstError(checks) = OK <=> \A m \in 1..8 : checks[m] = OK
  BY <1>1, FirstErrorOK
<1>3. QED
  BY <1>2

LEMMA NineChecks ==
  ASSUME NEW a, NEW b, NEW c, NEW d, NEW e, NEW f, NEW g, NEW h, NEW i
  PROVE  /\ FirstError(<<a, b, c, d, e, f, g, h, i>>) = OK <=>
                  /\ a = OK /\ b = OK /\ c = OK /\ d = OK /\ e = OK /\ f = OK
                  /\ g = OK /\ h = OK /\ i = OK
         /\ FirstError(<<a, b, c, d, e, f, g, h, i>>) \in {OK, a, b, c, d, e, f, g, h, i}
<1> DEFINE checks == <<a, b, c, d, e, f, g, h, i>>
<1>1. DOMAIN checks = 1..9
  OBVIOUS
<1>2. FirstError(checks) = OK <=> \A n \in 1..9 : checks[n] = OK
  BY <1>1, FirstErrorOK
<1>3. FirstError(checks) \in {OK, a, b, c, d, e, f, g, h, i}
  <2> DEFINE Codes == {OK, a, b, c, d, e, f, g, h, i}
  <2>1. OK \in Codes /\ \A n \in DOMAIN checks : checks[n] \in Codes
    OBVIOUS
  <2> HIDE DEF checks, Codes
  <2>2. FirstError(checks) \in Codes
    BY <1>1, <2>1, FirstErrorRange
  <2>3. QED
    BY <2>2 DEF Codes
<1>4. QED
  BY <1>2, <1>3

LEMMA TenChecks ==
  ASSUME NEW a, NEW b, NEW c, NEW d, NEW e, NEW f, NEW g, NEW h, NEW i, NEW j
  PROVE  /\ FirstError(<<a, b, c, d, e, f, g, h, i, j>>) = OK <=>
                  /\ a = OK /\ b = OK /\ c = OK /\ d = OK /\ e = OK /\ f = OK
                  /\ g = OK /\ h = OK /\ i = OK /\ j = OK
         /\ FirstError(<<a, b, c, d, e, f, g, h, i, j>>) \in {OK, a, b, c, d, e, f, g, h, i, j}
<1> DEFINE checks == <<a, b, c, d, e, f, g, h, i, j>>
<1>1. DOMAIN checks = 1..10
  OBVIOUS
<1>2. FirstError(checks) = OK <=> \A n \in 1..10 : checks[n] = OK
  BY <1>1, FirstErrorOK
<1>3. FirstError(checks) \in {OK, a, b, c, d, e, f, g, h, i, j}
  <2> DEFINE Codes == {OK, a, b, c, d, e, f, g, h, i, j}
  <2>1. OK \in Codes /\ \A n \in DOMAIN checks : checks[n] \in Codes
    OBVIOUS
  <2> HIDE DEF checks, Codes
  <2>2. FirstError(checks) \in Codes
    BY <1>1, <2>1, FirstErrorRange
  <2>3. QED
    BY <2>2 DEF Codes
<1>4. QED
  BY <1>2, <1>3

LEMMA ElevenChecks ==
  ASSUME NEW a, NEW b, NEW c, NEW d, NEW e, NEW f, NEW g, NEW h, NEW i, NEW j, NEW k
  PROVE  FirstError(<<a, b, c, d, e, f, g, h, i, j, k>>) = OK <=>
           /\ a = OK /\ b = OK /\ c = OK /\ d = OK /\ e = OK /\ f = OK
           /\ g = OK /\ h = OK /\ i = OK /\ j = OK /\ k = OK
<1> DEFINE checks == <<a, b, c, d, e, f, g, h, i, j, k>>
<1>1. DOMAIN checks = 1..11
  OBVIOUS
<1>2. FirstError(checks) = OK <=> \A m \in 1..11 : checks[m] = OK
  BY <1>1, FirstErrorOK
<1>3. QED
  BY <1>2

LEMMA TwelveChecks ==
  ASSUME NEW a, NEW b, NEW c, NEW d, NEW e, NEW f, NEW g, NEW h, NEW i, NEW j, NEW k, NEW l
  PROVE  /\ FirstError(<<a, b, c, d, e, f, g, h, i, j, k, l>>) = OK <=>
                  /\ a = OK /\ b = OK /\ c = OK /\ d = OK /\ e = OK /\ f = OK
                  /\ g = OK /\ h = OK /\ i = OK /\ j = OK /\ k = OK /\ l = OK
         /\ FirstError(<<a, b, c, d, e, f, g, h, i, j, k, l>>) \in {OK, a, b, c, d, e, f, g, h, i, j, k, l}
<1> DEFINE checks == <<a, b, c, d, e, f, g, h, i, j, k, l>>
<1>1. DOMAIN checks = 1..12
  OBVIOUS
<1>2. FirstError(checks) = OK <=> \A n \in 1..12 : checks[n] = OK
  BY <1>1, FirstErrorOK
<1>3. FirstError(checks) \in {OK, a, b, c, d, e, f, g, h, i, j, k, l}
  <2> DEFINE Codes == {OK, a, b, c, d, e, f, g, h, i, j, k, l}
  <2>1. OK \in Codes /\ \A n \in DOMAIN checks : checks[n] \in Codes
    OBVIOUS
  <2> HIDE DEF checks, Codes
  <2>2. FirstError(checks) \in Codes
    BY <1>1, <2>1, FirstErrorRange
  <2>3. QED
    BY <2>2 DEF Codes
<1>4. QED
  BY <1>2, <1>3

-----------------------------------------------------------------------------
(***************************************************************************)
(* A trustworthy snapshot names an AID and carries its signature, over     *)
(* everything it says (verify_snapshot_trust).                             *)
(***************************************************************************)
LEMMA TrustedSnapshot ==
  ASSUME NEW snapshot, verify_snapshot_trust(snapshot) = OK
  PROVE  /\ snapshot.issuer \in Aid
         /\ SignedBy(snapshot, snapshot.issuer)
BY SixChecks DEF verify_snapshot_trust, Check, OK

\* Its answers.
LEMMA SnapshotTrustCodes ==
  ASSUME NEW snapshot
  PROVE  verify_snapshot_trust(snapshot) \in
           {OK, "REVOCATION_SNAPSHOT_INVALID", "UNKNOWN_FIELD",
            "REVOCATION_SNAPSHOT_SIGNATURE_INVALID"}
<1> DEFINE invalid == "REVOCATION_SNAPSHOT_INVALID"
           badSig == "REVOCATION_SNAPSHOT_SIGNATURE_INVALID"
           a == Check("schema" \notin snapshot.defects, invalid)
           b == Check("unknown_member" \notin snapshot.defects, "UNKNOWN_FIELD")
           c == Check(snapshot.issuer \in Aid, invalid)
           d == Check("signature_form" \notin snapshot.defects, badSig)
           e == Check("uncanonical" \notin snapshot.defects, invalid)
           f == Check(SignedBy(snapshot, snapshot.issuer), badSig)
<1>1. verify_snapshot_trust(snapshot) = FirstError(<<a, b, c, d, e, f>>)
  BY DEF verify_snapshot_trust
<1>2. /\ {a, c, e} \subseteq {OK, invalid}
      /\ b \in {OK, "UNKNOWN_FIELD"}
      /\ {d, f} \subseteq {OK, badSig}
  BY DEF Check
<1> HIDE DEF a, b, c, d, e, f
<1>3. verify_snapshot_trust(snapshot) \in {OK, a, b, c, d, e, f}
  BY <1>1, SixChecks
<1>4. QED
  BY <1>2, <1>3

\* The entry point says NotRevoked only of a token that the deny list of a
\* trustworthy and fresh snapshot of the expected issuer does not hold.
LEMMA NotRevokedEvidence ==
  ASSUME NEW snapshot, NEW issuer, NEW jti, NEW policy, NEW now,
         verify_revocation_snapshot(snapshot, issuer, jti, policy, now) = NotRevoked
  PROVE  /\ verify_snapshot_trust(snapshot) = OK
         /\ snapshot.issuer = issuer
         /\ ~ snapshot_is_stale(snapshot, policy_of(policy), now)
         /\ jti = Absent \/ jti \notin snapshot.entries
<1>1. verify_snapshot_trust(snapshot) # NotRevoked
  BY SnapshotTrustCodes DEF OK, NotRevoked
<1>2. NotRevoked # Stale /\ NotRevoked # "TCT_REVOKED"
  BY DEF NotRevoked, Stale
<1>3. QED
  BY <1>1, <1>2 DEF verify_revocation_snapshot

\* And so does a token decision, when absence is not tolerated.
LEMMA CheckedEvidence ==
  ASSUME NEW token, NEW snapshot, NEW policy, NEW now,
         policy_fail_mode(policy) = "fail_closed",
         check_revocation(token, snapshot, policy, now) = OK
  PROVE  /\ snapshot # Absent
         /\ verify_snapshot_trust(snapshot) = OK
         /\ snapshot.issuer = token.iss
         /\ ~ snapshot_is_stale(snapshot, policy_of(policy), now)
         /\ token.jti \notin snapshot.entries
<1>1. snapshot_applies(token, snapshot, policy, now)
  BY DEF check_revocation, apply_absence, Check, OK
<1>2. QED
  BY <1>1 DEF check_revocation, snapshot_applies, Check, OK

-----------------------------------------------------------------------------
(***************************************************************************)
(* The rule written twice (verify_revocation_snapshot, check_revocation):  *)
(* on a snapshot whose deny list holds strings, the decision is what the   *)
(* entry point answers, or the fail mode's where that reports a defect.    *)
(***************************************************************************)
LEMMA RuleIsOne ==
  ASSUME NEW snapshot, snapshot # Absent, Absent \notin snapshot.entries,
         NEW token, NEW policy, NEW now
  PROVE  LET entry == verify_revocation_snapshot(snapshot, token.iss, token.jti, policy, now)
         IN  check_revocation(token, snapshot, policy, now) =
               CASE entry \in {NotRevoked, Stale} -> OK
                 [] entry = "TCT_REVOKED" -> "TCT_REVOKED"
                 [] OTHER -> apply_absence(policy)
<1> DEFINE entry == verify_revocation_snapshot(snapshot, token.iss, token.jti, policy, now)
           trust == verify_snapshot_trust(snapshot)
           usable == /\ snapshot.issuer = token.iss
                     /\ ~ snapshot_is_stale(snapshot, policy_of(policy), now)
           decision == check_revocation(token, snapshot, policy, now)
<1>1. snapshot_applies(token, snapshot, policy, now) <=> trust = OK /\ usable
  BY DEF snapshot_applies
<1>2. CASE trust # OK
  <2>1. entry = trust /\ entry \notin {NotRevoked, Stale, "TCT_REVOKED"}
    BY <1>2, SnapshotTrustCodes DEF verify_revocation_snapshot, OK, NotRevoked, Stale
  <2>2. decision = apply_absence(policy)
    BY <1>1, <1>2 DEF check_revocation
  <2>3. QED
    BY <2>1, <2>2
<1>3. CASE trust = OK /\ ~ usable
  <2>1. decision = apply_absence(policy)
    BY <1>1, <1>3 DEF check_revocation
  <2>2. CASE policy_fail_mode(policy) \in {"soft_fail", "fail_open"}
    <3>1. entry = Stale
      BY <1>3, <2>2 DEF verify_revocation_snapshot
    <3>2. apply_absence(policy) = OK
      BY <2>2 DEF apply_absence, Check
    <3>3. QED
      BY <2>1, <3>1, <3>2 DEF NotRevoked, Stale
  <2>3. CASE policy_fail_mode(policy) \notin {"soft_fail", "fail_open"}
    <3>1. entry = "TCT_REVOKED"
      BY <1>3, <2>3 DEF verify_revocation_snapshot
    <3>2. apply_absence(policy) = "TCT_REVOKED"
      BY <2>3 DEF apply_absence, Check, policy_fail_mode, resolve_fail_mode, FAIL_MODES
    <3>3. QED
      BY <2>1, <3>1, <3>2 DEF NotRevoked, Stale
  <2>4. QED
    BY <2>2, <2>3
<1>4. CASE trust = OK /\ usable
  <2>1. decision = Check(token.jti \notin snapshot.entries, "TCT_REVOKED")
    BY <1>1, <1>4 DEF check_revocation
  <2>2. entry = IF token.jti \in snapshot.entries THEN "TCT_REVOKED" ELSE NotRevoked
    BY <1>4 DEF verify_revocation_snapshot
  <2>3. QED
    BY <2>1, <2>2 DEF Check, NotRevoked, Stale
<1>5. QED
  BY <1>2, <1>3, <1>4

(***************************************************************************)
(* Where a revocation comes from, when absence is tolerated: a trustworthy *)
(* snapshot of the issuer whose deny list holds the token.                 *)
(***************************************************************************)
LEMMA RevokedEvidence ==
  ASSUME NEW token, NEW snapshot, NEW policy, NEW now,
         policy_fail_mode(policy) # "fail_closed",
         check_revocation(token, snapshot, policy, now) = "TCT_REVOKED"
  PROVE  /\ snapshot # Absent
         /\ verify_snapshot_trust(snapshot) = OK
         /\ snapshot.issuer = token.iss
         /\ token.jti \in snapshot.entries
BY DEF check_revocation, apply_absence, snapshot_applies, Check, OK

LEMMA RevokedByEntryPoint ==
  ASSUME NEW snapshot, NEW issuer, NEW jti, NEW policy, NEW now,
         policy_fail_mode(policy) \in {"soft_fail", "fail_open"},
         verify_revocation_snapshot(snapshot, issuer, jti, policy, now) = "TCT_REVOKED"
  PROVE  /\ verify_snapshot_trust(snapshot) = OK
         /\ snapshot.issuer = issuer
         /\ jti \in snapshot.entries
BY SnapshotTrustCodes DEF verify_revocation_snapshot, NotRevoked, Stale, OK

-----------------------------------------------------------------------------
(***************************************************************************)
(* Only the revocation check answers TCT_REVOKED: what the others raise.   *)
(***************************************************************************)
LEMMA JwsCodes ==
  ASSUME NEW token, NEW aid, NEW typ, NEW err, NEW after
  PROVE  verify_jws(token, aid, typ, err, after) \in
           {OK, err.sig, err.alg, err.typ, after, ValueError}
<1> DEFINE checks == << parse_compact(token, err.sig),
                        Check(token.members, err.alg),
                        Check(token.typ = typ, err.typ),
                        after,
                        Check(aid \in Aid, ValueError),
                        Check(PinnedAlg(aid, token.alg), err.alg),
                        Check(SignedBy(token, aid), err.sig) >>
           Codes == {OK, err.sig, err.alg, err.typ, after, ValueError}
<1>1. DOMAIN checks = 1..7 /\ OK \in Codes
  OBVIOUS
<1>2. \A i \in 1..7 : checks[i] \in Codes
  <2>1. /\ checks[1] \in Codes /\ checks[2] \in Codes /\ checks[3] \in Codes
        /\ checks[4] \in Codes /\ checks[5] \in Codes /\ checks[6] \in Codes
        /\ checks[7] \in Codes
    BY DEF parse_compact, Check
  <2> HIDE DEF checks, Codes
  <2>2. QED
    BY <2>1
<1> HIDE DEF checks, Codes
<1>3. FirstError(checks) \in Codes
  BY <1>1, <1>2, FirstErrorRange
<1>4. QED
  BY <1>3 DEF checks, Codes, verify_jws

LEMMA TctShapeCodes ==
  ASSUME NEW token, NEW code
  PROVE  check_tct_claims_shape(token, code) \in {OK, code, "UNKNOWN_FIELD"}
<1> DEFINE checks == << Check("schema" \notin token.defects, code),
                        Check("unknown_member" \notin token.defects, "UNKNOWN_FIELD"),
                        Check("jti_form" \notin token.defects, code) >>
           Codes == {OK, code, "UNKNOWN_FIELD"}
<1>1. DOMAIN checks = 1..3
  OBVIOUS
<1>2. \A i \in 1..3 : checks[i] \in Codes
  BY DEF Check
<1> HIDE DEF checks, Codes
<1>3. FirstError(checks) \in Codes
  BY <1>1, <1>2, FirstErrorRange DEF Codes
<1>4. QED
  BY <1>3 DEF checks, Codes, check_tct_claims_shape

LEMMA PreSignatureCodes ==
  ASSUME NEW token, NEW trustStore
  PROVE  attestation_pre_signature(token, trustStore) # "TCT_REVOKED"
<1> DEFINE shape == check_tct_claims_shape(token, "TCT_SIGNATURE_INVALID")
           trusted == Check(/\ token.iss \in Aid
                            /\ KeyOf[token.iss] \in trusted_keys(trustStore),
                            "TCT_SIGNATURE_INVALID")
           checks == << shape, trusted >>
           Codes == {OK, "TCT_SIGNATURE_INVALID", "UNKNOWN_FIELD"}
<1>1. DOMAIN checks = 1..2
  OBVIOUS
<1>2. \A i \in 1..2 : checks[i] \in Codes
  BY TctShapeCodes DEF Check
<1> HIDE DEF checks, Codes
<1>3. FirstError(checks) \in Codes
  BY <1>1, <1>2, FirstErrorRange DEF Codes
<1>4. QED
  BY <1>3 DEF checks, Codes, attestation_pre_signature, OK

-----------------------------------------------------------------------------
\* verify_tct
LEMMA TctAccepted ==
  ASSUME NEW token, NEW env, NEW now
  PROVE  verify_tct(token, env, now) = OK <=>
           /\ verify_jws(token, token.iss, "aitp-tct+jwt", TctErrors,
                         check_tct_claims_shape(token, "TCT_SIGNATURE_INVALID")) = OK
           /\ token.ver = PROTOCOL_VERSION
           /\ env.audience \in {Absent, token.aud}
           /\ now < token.exp
           /\ check_grant_context(token) = OK
           /\ token.sub \in Aid
           /\ check_cnf(token, "TCT_CNF_MISMATCH") = OK
           /\ check_manifest_cap(token, env.manifestExpiresAt) = OK
           /\ check_revocation(token, env.snapshot, env.policy, now) = OK
BY NineChecks DEF verify_tct, Check, OK

\* verify_attestation
LEMMA AttestationAccepted ==
  ASSUME NEW token, NEW key, NEW trustStore, NEW waiveCap, NEW env, NEW now
  PROVE  verify_attestation(token, key, trustStore, waiveCap, env, now) = OK <=>
           /\ env.manifestExpiresAt # Absent \/ waiveCap
           /\ verify_jws(token, token.iss, "aitp-tct+jwt", TctErrors,
                         attestation_pre_signature(token, trustStore)) = OK
           /\ token.ver = PROTOCOL_VERSION
           /\ now < token.exp
           /\ token.iss = token.sub /\ token.sub = token.aud
           /\ token.grants = {ATTESTATION_MARKER}
           /\ check_cnf(token, "TCT_SIGNATURE_INVALID") = OK
           /\ key \in token.ext
           /\ check_manifest_cap(token, env.manifestExpiresAt) = OK
           /\ check_revocation(token, env.snapshot, env.policy, now) = OK
BY TenChecks DEF verify_attestation, Check, OK, ValueError

\* verify_tct_as_issuer
LEMMA ReturnedTctAccepted ==
  ASSUME NEW token, NEW selfAid, NEW source, NEW env, NEW now
  PROVE  verify_tct_as_issuer(token, selfAid, source, env, now) = OK <=>
           /\ parse_compact(token, "TCT_SIGNATURE_INVALID") = OK
           /\ token.iss = selfAid
           /\ verify_jws(token, selfAid, "aitp-tct+jwt", TctErrors,
                         check_tct_claims_shape(token, "TCT_SIGNATURE_INVALID")) = OK
           /\ token.ver = PROTOCOL_VERSION
           /\ token.aud = token.sub
           /\ now < token.exp
           /\ check_grant_context(token) = OK
           /\ token.sub \in Aid
           /\ check_cnf(token, "TCT_CNF_MISMATCH") = OK
           /\ check_presenter(token, source, now) = OK
           /\ presenter_of(token, source) = token.sub
           /\ check_revocation(token, env.snapshot, env.policy, now) = OK
BY TwelveChecks DEF verify_tct_as_issuer, Check, OK

=============================================================================
