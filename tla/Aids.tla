-------------------------------- MODULE Aids --------------------------------
(***************************************************************************)
(* Agent identifiers and the keys they pin.  Cryptography is symbolic: an  *)
(* artifact carries in `signer` the key whose signature covers exactly the *)
(* artifact's other fields, or NoKey when no signature of a known key does *)
(* (a forged, corrupted or missing signature).                             *)
(***************************************************************************)
EXTENDS Verdicts

CONSTANTS
  Aid,     \* the AID strings that parse_aid accepts
  Key,     \* public keys
  KeyOf,   \* the key an AID pins; two spellings of one AID share their key
  AlgOf,   \* the JOSE algorithm of a key
  NoKey    \* the signer of an artifact nobody signed as it is

ASSUME AidAssumption ==
  /\ KeyOf \in [Aid -> Key]
  /\ AlgOf \in [Key -> {"EdDSA", "ES256"}]
  /\ NoKey \notin Key
  /\ Absent \notin Aid

\* public_key.verify_jose / verify_digest under the key of the AID
SignedBy(artifact, aid) == aid \in Aid /\ artifact.signer = KeyOf[aid]

\* The AID pins the algorithm: an `alg` header never selects one.
PinnedAlg(aid, alg) == aid \in Aid /\ alg = AlgOf[KeyOf[aid]]

\* RFC 7638 thumbprints are as distinct as the keys they are of.
Thumbprint(aid) == KeyOf[aid]

=============================================================================
