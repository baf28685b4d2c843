-------------------------------- MODULE Walk --------------------------------
(***************************************************************************)
(* What the two bounded walks over a caller's Python value share (jcs.py,  *)
(* jwk.py): a value may hold itself or hold another one twice, so it is a  *)
(* node of a heap, and the calls still to be made are a stack, each with   *)
(* the depth it is made at.  The counters belong to one call of the        *)
(* library.  `given` is [walker, heap, roots]; the roots are walked one    *)
(* after the other.                                                        *)
(***************************************************************************)
EXTENDS Verdicts, Integers, FiniteSets, SequencesExt

CONSTANT StackLimit   \* the nested calls the interpreter still allows

VARIABLES given, todo, visits, out, results

walk == <<given, todo, visits, out, results>>

ASSUME StackAssumption == StackLimit \in Nat

-----------------------------------------------------------------------------
Walking == Len(results) < Len(given.roots)

Node(n, depth) == [node |-> n, depth |-> depth]

Root == given.roots[Len(results) + 1]

Begin(g) ==
  /\ given = g
  /\ todo = <<Node(g.roots[1], 0)>>
  /\ visits = 0 /\ out = <<>> /\ results = <<>>

\* A call returns or raises, and the next one starts afresh.
End(verdict) ==
  /\ results' = Append(results, [verdict |-> verdict, out |-> out])
  /\ todo' = IF Len(results') < Len(given.roots)
             THEN <<Node(given.roots[Len(results') + 1], 0)>> ELSE <<>>
  /\ visits' = 0 /\ out' = <<>>
  /\ UNCHANGED given

-----------------------------------------------------------------------------
\* What a value comes to when nothing stops the walk: the calls that are made
\* for a node, in order, where `below` has the nodes in each node and `cap` is
\* the depth up to which they are looked into: by the levels that are left.
Unfold(below, cap) ==
  LET Calls[left \in Nat] ==
        [n \in DOMAIN below |->
           <<Node(n, cap + 1 - left)>> \o
             IF left = 0 THEN <<>>
             ELSE FlattenSeq([i \in DOMAIN below[n] |-> Calls[left - 1][below[n][i]]])]
  IN  Calls

=============================================================================
