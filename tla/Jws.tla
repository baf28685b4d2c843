-------------------------------- MODULE Jws ---------------------------------
(***************************************************************************)
(* Compact JWS verification (jws.py).  A token is a record with its header *)
(* values, its claims and the defects of its claims set:                   *)
(*   compact  FALSE when the string does not split, decode or parse        *)
(*   members  FALSE when the header is not exactly {alg, typ}              *)
(*   defects  what is wrong with the shape of the claims                   *)
(***************************************************************************)
EXTENDS Verdicts, Aids

\* The one revision this verifier implements (version.py).
PROTOCOL_VERSION == "aitp/0.3"

\* parse_aid raises a bare ValueError, which is not an AitpError: where a
\* caller does not catch it, it is the outcome of the whole call.
ValueError == "ValueError"

parse_compact(token, structuralCode) == Check(token.compact, structuralCode)

\* Header members and typ, the caller's claims check, then the algorithm the
\* issuer's AID pins and the signature.
verify_jws(token, issAid, typ, err, afterTypCheck) ==
  FirstError(<< parse_compact(token, err.sig),
                Check(token.members, err.alg),
                Check(token.typ = typ, err.typ),
                afterTypCheck,
                Check(issAid \in Aid, ValueError),
                Check(PinnedAlg(issAid, token.alg), err.alg),
                Check(SignedBy(token, issAid), err.sig) >>)

=============================================================================
