-------------------------- MODULE RevocationPromise --------------------------
(***************************************************************************)
(* What a fail-closed verifier promises the issuers, with no snapshot, no  *)
(* signature and no network: a token may be admitted until it is revoked   *)
(* and for at most Horizon seconds after, and revocation is final.         *)
(***************************************************************************)
EXTENDS Integers

CONSTANTS Honest, Jti, Never, Horizon

VARIABLES
  now,        \* the clock
  revokedAt,  \* revokedAt[issuer][jti], Never when it is not revoked
  admitted    \* what the decision in progress rests on: <<issuer, jti>> pairs

Init ==
  /\ now = 0
  /\ revokedAt = [i \in Honest |-> [j \in Jti |-> Never]]
  /\ admitted = {}

Tick ==
  /\ now' = now + 1
  /\ admitted' = {}
  /\ UNCHANGED revokedAt

Revoke(issuer, jti) ==
  /\ revokedAt[issuer][jti] = Never
  /\ revokedAt' = [revokedAt EXCEPT ![issuer][jti] = now]
  /\ admitted' = {}
  /\ UNCHANGED now

Admit(tokens) ==
  /\ \A t \in tokens : \/ revokedAt[t[1]][t[2]] = Never
                       \/ now < revokedAt[t[1]][t[2]] + Horizon
  /\ admitted' = tokens
  /\ UNCHANGED <<now, revokedAt>>

Next ==
  \/ Tick
  \/ \E i \in Honest, j \in Jti : Revoke(i, j)
  \/ \E tokens \in SUBSET (Honest \X Jti) : Admit(tokens)

Spec == Init /\ [][Next]_<<now, revokedAt, admitted>>

=============================================================================
