----------------------------- MODULE Delegation -----------------------------
(***************************************************************************)
(* Grant vouchers (voucher.py) and delegation tokens (delegation.py).      *)
(*                                                                         *)
(* A, the verifier, signs a voucher that grants rights to an agent; the    *)
(* agent signs a delegation token with the voucher in it that passes some  *)
(* of them on.  With RFC-AITP-0011 enabled the receiver may delegate       *)
(* further: the outer token then carries the chain of the tokens before    *)
(* it, oldest first.  Both are compact JWSs (module Jws) with the claims   *)
(*   voucher      iss, sub, ver, grants, exp, src_jti                      *)
(*   delegation   iss, sub, aud, ver, scope, exp, jti, and                 *)
(*     jkt          the key cnf.jkt names, Absent when none                *)
(*     voucher      a voucher, Absent when there is none                   *)
(*     chainForm    "absent", "list" (of strings), "mixed" (a list with    *)
(*                  something else in it) or "other" (not a sequence)      *)
(*     chain        the sequence of tokens when it is a list               *)
(*     commits      the sequence that chain_hash is the digest of          *)
(* `env` gathers the arguments of a call besides the token:                *)
(*   selfAid, feature (is the opt-in given), policy                        *)
(*   manifests     the sequence issuer_manifests of Manifests (module      *)
(*                 Manifest), Absent when the caller passes none           *)
(*   isArray       FALSE when revocation_snapshots is no array             *)
(*   snapshots     the sequence of its records [label, snapshot]; what is  *)
(*                 no record reads as one with no label that has no schema *)
(***************************************************************************)
EXTENDS Manifest, Revocation

MAX_DELEGATION_HOPS == 3

TypeError == "TypeError"
AttributeError == "AttributeError"

InvalidSignature == "DELEGATION_INVALID_SIGNATURE"
InvalidVoucher == "DELEGATION_INVALID_VOUCHER"
Expired == "DELEGATION_EXPIRED"
ScopeExceeded == "DELEGATION_SCOPE_EXCEEDED"
SourceRevoked == "DELEGATION_SOURCE_TCT_REVOKED"

VoucherErrors == [ alg |-> "TOKEN_ALG_MISMATCH", typ |-> "TOKEN_TYP_MISMATCH",
                   sig |-> InvalidVoucher ]
DelegationErrors == [VoucherErrors EXCEPT !.sig = InvalidSignature]

check_shape(token, code) ==
  FirstError(<< Check("schema" \notin token.defects, code),
                Check("unknown_member" \notin token.defects, "UNKNOWN_FIELD") >>)

\* A voucher on its own, as the operation verify_grant_voucher checks it.
verify_grant_voucher(voucher, now) ==
  FirstError(<<
    verify_jws(voucher, voucher.iss, "aitp-grant+jwt", VoucherErrors, OK),
    check_shape(voucher, InvalidVoucher),
    Check(voucher.ver = PROTOCOL_VERSION, "UNKNOWN_VERSION"),
    Check(voucher.grants # {}, InvalidVoucher),
    Check(now < voucher.exp, Expired) >>)

(***************************************************************************)
(* The first token of a delegation draws on a voucher of the verifier      *)
(* itself.  `code` is what a token raises that has no voucher.             *)
(***************************************************************************)
\* Mutant: the token may outlive its voucher.
check_voucher_NoExpiry(token, selfAid, now) ==
  LET voucher == token.voucher
  IN IF voucher = Absent THEN InvalidVoucher ELSE
     FirstError(<<
       parse_compact(voucher, InvalidVoucher),
       Check(voucher.iss = selfAid, InvalidVoucher),
       verify_jws(voucher, voucher.iss, "aitp-grant+jwt", VoucherErrors, OK),
       check_shape(voucher, InvalidVoucher),
       Check(voucher.sub = token.iss, InvalidVoucher),
       Check(token.scope \subseteq voucher.grants, ScopeExceeded) >>)

check_voucher(token, selfAid, now) ==
  LET voucher == token.voucher
  IN IF voucher = Absent THEN InvalidVoucher ELSE
     FirstError(<<
       parse_compact(voucher, InvalidVoucher),
       Check(voucher.iss = selfAid, InvalidVoucher),
       verify_jws(voucher, voucher.iss, "aitp-grant+jwt", VoucherErrors, OK),
       check_shape(voucher, InvalidVoucher),
       Check(voucher.sub = token.iss, InvalidVoucher),
       Check(now < voucher.exp /\ token.exp <= voucher.exp, Expired),
       Check(token.scope \subseteq voucher.grants, ScopeExceeded) >>)

resolve_issuer(token, env, now) ==
  IF env.manifests = Absent THEN OK ELSE resolve_manifest(token.iss, env.manifests, now)

-----------------------------------------------------------------------------
(***************************************************************************)
(* Revocation.  The verifier's own deny list is local state: a record of   *)
(* its label, or with none, that does not verify ends the call under every *)
(* mode.  Another issuer's is discarded, and counts as absent.             *)
(***************************************************************************)
verified_snapshot_bodies_error(env) ==
  IF ~ env.isArray THEN "REVOCATION_SNAPSHOT_INVALID"
  ELSE FirstError([k \in DOMAIN env.snapshots |->
         IF env.snapshots[k].label \in {Absent, env.selfAid}
         THEN verify_snapshot_trust(env.snapshots[k].snapshot)
         ELSE OK])

\* Mutant: of several lists of an issuer the last one in the array wins.
verified_snapshot_bodies_LastWins(env) ==
  LET verified == {n \in DOMAIN env.snapshots :
                     verify_snapshot_trust(env.snapshots[n].snapshot) = OK}
  IN {env.snapshots[k].snapshot :
        k \in {n \in verified :
                 \A m \in verified : env.snapshots[m].snapshot.issuer
                                      = env.snapshots[n].snapshot.issuer => m <= n}}

verified_snapshot_bodies(env) ==
  {env.snapshots[k].snapshot :
     k \in {n \in DOMAIN env.snapshots :
              verify_snapshot_trust(env.snapshots[n].snapshot) = OK}}

\* Mutant: a stale deny list still counts.
fresh_bodies_Stale(env, issuer, now) ==
  {body \in verified_snapshot_bodies(env) : body.issuer = issuer}

fresh_bodies(env, issuer, now) ==
  {body \in verified_snapshot_bodies(env) :
     body.issuer = issuer /\ ~ snapshot_is_stale(body, policy_of(env.policy), now)}

\* The deny lists of an issuer, looked up for one jti.  Without one the fail
\* mode decides.
check_deny_lists(env, issuer, jti, now) ==
  LET applicable == fresh_bodies(env, issuer, now)
  IN  IF applicable = {}
      THEN Check(policy_fail_mode(env.policy) # "fail_closed", SourceRevoked)
      ELSE Check(\A body \in applicable : jti \notin body.entries, SourceRevoked)

check_source_tct_revocation(env, src_jti, now) ==
  check_deny_lists(env, env.selfAid, src_jti, now)

\* Mutant: the sweep stops at the tokens of the chain.
sweep_ChainOnly(hops, env, now) ==
  FirstError([i \in 1 .. Len(hops) - 1 |->
                check_deny_lists(env, hops[i].iss, hops[i].jti, now)])

sweep(hops, env, now) ==
  FirstError([i \in DOMAIN hops |->
                check_deny_lists(env, hops[i].iss, hops[i].jti, now)])

-----------------------------------------------------------------------------
(***************************************************************************)
(* Multi-hop.  The tokens are checked oldest first, each against the one   *)
(* before it, and the outer token is the last of them.                     *)
(***************************************************************************)
\* Mutant: every token is compared with the voucher, not with the last one.
check_continuity_Voucher(hops, i) ==
  LET hop == hops[i]
      root == hops[1].voucher
  IN FirstError(<< Check(hop.voucher = Absent, InvalidVoucher),
                   Check(hop.iss = hops[i - 1].sub, InvalidVoucher),
                   Check(root = Absent \/ hop.exp <= root.exp, Expired),
                   Check(root = Absent \/ hop.scope \subseteq root.grants, ScopeExceeded) >>)

check_continuity(hops, i) ==
  LET hop == hops[i]
      prev == hops[i - 1]
  IN FirstError(<< Check(hop.voucher = Absent, InvalidVoucher),
                   Check(hop.iss = prev.sub, InvalidVoucher),
                   Check(hop.exp <= prev.exp, Expired),
                   Check(hop.scope \subseteq prev.scope, ScopeExceeded) >>)

check_hop(hops, i, env, now) ==
  LET hop == hops[i]
  IN FirstError(<<
       parse_compact(hop, InvalidSignature),
       resolve_issuer(hop, env, now),
       verify_jws(hop, hop.iss, "aitp-delegation+jwt", DelegationErrors, OK),
       check_shape(hop, InvalidSignature),
       Check(hop.ver = PROTOCOL_VERSION, "UNKNOWN_VERSION"),
       Check(hop.iss # hop.sub, InvalidSignature),
       Check(hop.aud = env.selfAid, "DELEGATION_AUDIENCE_MISMATCH"),
       Check(hop.sub \in Aid, InvalidVoucher),
       Check(hop.sub \in Aid /\ hop.jkt = Thumbprint(hop.sub), InvalidVoucher),
       Check(hop.jti # Absent /\ \A k \in 1 .. i - 1 : hops[k].jti # hop.jti,
             InvalidVoucher),
       Check(now < hop.exp, Expired),
       IF i = 1 THEN check_voucher(hop, env.selfAid, now) ELSE check_continuity(hops, i) >>)

\* Mutant: a chain at the limit is too long.
hop_limit_OffByOne(chain) == Len(chain) + 2 < MAX_DELEGATION_HOPS + 1

hop_limit(chain) == Len(chain) + 2 <= MAX_DELEGATION_HOPS + 1

hops_of(token) == Append(token.chain, token)

verify_multihop(token, env, now) ==
  LET hops == hops_of(token)
  IN IF token.chainForm = "other" THEN TypeError ELSE
     FirstError(<<
       Check(hop_limit(token.chain), "DELEGATION_HOP_LIMIT_EXCEEDED"),
       Check(token.chainForm = "list", AttributeError),
       Check(token.commits = token.chain, "DELEGATION_CHAIN_HASH_MISMATCH"),
       FirstError([i \in DOMAIN hops |-> check_hop(hops, i, env, now)]),
       verified_snapshot_bodies_error(env),
       IF hops[1].voucher = Absent THEN OK
       ELSE check_source_tct_revocation(env, hops[1].voucher.src_jti, now),
       sweep(hops, env, now) >>)

\* Without a chain the token must carry the voucher itself.
verify_singlehop(token, env, now) ==
  FirstError(<<
    resolve_issuer(token, env, now),
    verify_jws(token, token.iss, "aitp-delegation+jwt", DelegationErrors, OK),
    check_shape(token, InvalidSignature),
    Check(token.iss # token.sub, InvalidSignature),
    Check(token.aud = env.selfAid, "DELEGATION_AUDIENCE_MISMATCH"),
    Check(now < token.exp, Expired),
    check_voucher(token, env.selfAid, now),
    verified_snapshot_bodies_error(env),
    IF token.voucher = Absent THEN OK
    ELSE check_source_tct_revocation(env, token.voucher.src_jti, now) >>)

verify_delegation_token(token, env, now) ==
  LET chained == token.chainForm # "absent"
  IN FirstError(<<
       parse_compact(token, InvalidSignature),
       Check(chained => env.feature, "DELEGATION_MULTIHOP_NOT_SUPPORTED"),
       Check(env.selfAid # Absent, "DELEGATION_AUDIENCE_MISMATCH"),
       IF chained THEN verify_multihop(token, env, now) ELSE verify_singlehop(token, env, now) >>)

=============================================================================
