---------------------------- MODULE MCDelegation ----------------------------
(***************************************************************************)
(* Two worlds for DelegationWorld.  In the first (Chain) B is honest and E *)
(* is not, and they build chains out of each other's tokens; nothing is    *)
(* revoked.  In the second (Deny) the tokens exist, the verifier A and B   *)
(* revoke, and C is a dishonest issuer in the middle of a chain.           *)
(***************************************************************************)
EXTENDS DelegationWorld

CONSTANTS kA, kB, kC, kD, kE

MCAid == {"A", "B", "C", "D", "E"}
MCKey == {kA, kB, kC, kD, kE}
MCKeyOf ==
  [a \in Aid |-> CASE a = "A" -> kA [] a = "B" -> kB [] a = "C" -> kC
                     [] a = "D" -> kD [] OTHER -> kE]
MCAlgOf == [k \in MCKey |-> "EdDSA"]

Voucher(sub, grants, jti) ==
  [ compact |-> TRUE, members |-> TRUE, typ |-> "aitp-grant+jwt", alg |-> "EdDSA",
    signer |-> kA, defects |-> {}, ver |-> PROTOCOL_VERSION, iss |-> "A", sub |-> sub,
    grants |-> grants, exp |-> MaxTime, src_jti |-> jti ]

\* E holds w for a shorter time than r, and makes up a voucher for longer.
ChainVouchers ==
  { Voucher("B", {"r", "w"}, "s"), Voucher("E", {"r"}, "s"),
    [Voucher("E", {"r", "w"}, "s") EXCEPT !.exp = 1] }
ChainFakes == { [Voucher("E", {"r", "w"}, "s") EXCEPT !.signer = kE] }
\* B signs before and after E; C is only delegated to.
ChainJtis ==
  [a \in Aid |-> CASE a = "B" -> {"B", "C"} [] a = "C" -> {} [] OTHER -> {a}]
ChainScopes == {{"r"}, {"r", "w"}}

\* B, which holds both rights, has delegated one of them to E.
ChainTokens ==
  { [Token("B", "E", {"r"}, MaxTime, "B") EXCEPT !.voucher = Voucher("B", {"r", "w"}, "s")] }

Context(feature, policy) == [feature |-> feature, policy |-> policy, manifests |-> Absent]

-----------------------------------------------------------------------------
DenyVouchers == { Voucher("B", {"r"}, "s"), Voucher("C", {"r"}, "s") }

One == [Token("B", "C", {"r"}, MaxTime, "b") EXCEPT !.voucher = Voucher("B", {"r"}, "s")]
Two == Chained(Token("C", "D", {"r"}, MaxTime, "c"), <<One>>)
DenyTokens == { One, Two }
DenyJtis == [a \in Aid |-> {}]
DenyRevocable == { <<"A", "s">>, <<"B", "b">> }

ManifestOf(a, expires) ==
  [ version |-> PROTOCOL_VERSION, aid |-> a, expires_at |-> expires, popSigner |-> KeyOf[a],
    signer |-> KeyOf[a], defects |-> {},
    hint |-> [type |-> "oidc", issuer |-> "idp", public_key |-> Absent] ]

\* The second caller holds Manifests, B's only for a while.
DenyContexts ==
  { Context(TRUE, Absent),
    [ feature |-> FALSE, manifests |-> <<ManifestOf("B", MaxTime), ManifestOf("C", MaxTime + 1)>>,
      policy |-> [mode |-> "soft_fail", bound |-> "seconds", max_staleness_secs |-> 0] ] }

Record(label, issuer, signer, denied) ==
  [ label |-> label,
    snapshot |-> [ issuer |-> issuer, published_at |-> 0, expires_at |-> MaxTime + 1,
                   entries |-> denied, signer |-> signer, defects |-> {} ] ]

\* C's list in a record labelled B, which denies nothing; a list in the name
\* of A that A did not sign.
DenyForgeries ==
  { Record("B", "C", kC, {}),
    Record("A", "A", NoKey, {}) }

=============================================================================
