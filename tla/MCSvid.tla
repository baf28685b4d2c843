------------------------------- MODULE MCSvid -------------------------------
(***************************************************************************)
(* A is honest; E has a workload in A's domain, the intermediate and the   *)
(* authority of another domain, whose keys are named like those of A's.    *)
(***************************************************************************)
EXTENDS SvidWorld, TLC

CONSTANTS R, Q, m1, m2, kA, kE, wA, wE, rHome, jHome, kSub, kOther

MCAid == {"A", "E"}
MCKey == {kA, kE, wA, wE, rHome, jHome, kSub, kOther}
MCKeyOf == [a \in MCAid |-> IF a = "A" THEN kA ELSE kE]
MCAlgOf == [k \in MCKey |-> "ES256"]

MCSpiffeId == {"home/a", "home/e", "other/x"}
MCDomainOf == [id \in MCSpiffeId |-> IF id = "other/x" THEN "other" ELSE "home"]
MCSubject == [a \in MCAid |-> IF a = "A" THEN "home/a" ELSE "home/e"]
MCWorkloadKey == [a \in MCAid |-> IF a = "A" THEN wA ELSE wE]

MCAuthority == [ca |-> rHome, jwt |-> jHome]
MCNameOf ==
  [ k \in MCKey |-> CASE k = rHome -> "home" [] k = kOther -> "other"
                       [] k = kSub -> "sub" [] OTHER -> "workload" ]
MCInsiderKeys == {wE, kSub, kOther}
MCForgedKeys == {wA, wE}

MCOtherKeys ==
  << [JwtKey EXCEPT !.key = kOther],
     CaKey(CaCert("other", kOther, kOther, Absent, Absent, 0, MaxTime)) >>

Interchangeable == Permutations(Receivers) \cup Permutations(Messages)

=============================================================================
