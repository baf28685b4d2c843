------------------------------ MODULE Verdicts ------------------------------
(***************************************************************************)
(* Every verifier of the library is an ordered list of checks: the first   *)
(* one that fails raises AitpError(code) and ends the call.  A check is    *)
(* modelled by the code it would raise, or OK, and a verifier by the first *)
(* element of its list that is not OK.                                     *)
(***************************************************************************)
EXTENDS Naturals, Sequences

CONSTANT Absent   \* an argument or a member that was not supplied

OK == "OK"

Check(holds, code) == IF holds THEN OK ELSE code

FirstError(checks) ==
  LET failing == {i \in DOMAIN checks : checks[i] # OK}
  IN  IF failing = {}
      THEN OK
      ELSE checks[CHOOSE i \in failing : \A j \in failing : i <= j]

=============================================================================
