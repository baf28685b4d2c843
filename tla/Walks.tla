------------------------------- MODULE Walks --------------------------------
(***************************************************************************)
(* One walk over a value, of either kind.  What a caller may hand over is  *)
(* a constant: Python values, JSON or not, whose dictionaries do not have  *)
(* the same name twice.  A name that is no string is Absent.               *)
(***************************************************************************)
EXTENDS Jcs, IssuerKeys

CONSTANT Givens

PythonValue(v, nodes) ==
  /\ v.kind \in {"null", "boolean", "string", "int", "float", "list", "dict", "other"}
  /\ v.kind = "list" => v.items \in Seq(nodes)
  /\ v.kind = "dict" =>
       /\ v.members \in Seq([key : DOMAIN KeyRank \cup {Absent}, node : nodes])
       /\ \A i, j \in DOMAIN v.members :
            v.members[i].key = v.members[j].key => i = j \/ v.members[i].key = Absent

IssuerKeyValue(v, nodes) ==
  /\ v.kind = "list" => v.items \in Seq(nodes)
  /\ v.kind = "jwks" => v.keys = Absent \/ v.keys \in Seq({v.keys[i] : i \in DOMAIN v.keys})

ASSUME GivensAssumption ==
  /\ \A k \in DOMAIN KeyRank : KeyRank[k] \in Int
  /\ \A k, l \in DOMAIN KeyRank : KeyRank[k] = KeyRank[l] => k = l
  /\ Absent \notin DOMAIN KeyRank
  /\ \A g \in Givens :
       /\ g.roots \in Seq(DOMAIN g.heap) /\ g.roots # <<>>
       /\ g.walker \in {"jcs", "keys"}
       /\ \A n \in DOMAIN g.heap :
            IF g.walker = "jcs" THEN PythonValue(g.heap[n], DOMAIN g.heap)
            ELSE IssuerKeyValue(g.heap[n], DOMAIN g.heap)

-----------------------------------------------------------------------------
WalkInit == \E g \in Givens : Begin(g)

WalkNext == JcsNext \/ KeysNext

\* A walk is one recursion of one thread.
WalkSpec == WalkInit /\ [][WalkNext]_walk /\ WF_walk(WalkNext)

\* The caps are met before the interpreter's stack runs out.
CapsComeFirst == \A i \in DOMAIN results : results[i].verdict # "RecursionError"

(***************************************************************************)
(* Both walks end, on a value that holds itself too, and by their own caps *)
(* and never because the interpreter's stack has run out (jcs.py and       *)
(* jwk.py: a rejection instead of a RecursionError).                       *)
(***************************************************************************)
WalksEnd == <>(~ Walking /\ CapsComeFirst)

=============================================================================
