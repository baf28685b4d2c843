-------------------------------- MODULE Jcs ---------------------------------
(***************************************************************************)
(* Canonicalization (jcs.py), one call of _serialize a step.  A value is   *)
(*   [kind: null, boolean, string, int or float, value]                    *)
(*   [kind: list, items]     nodes                                         *)
(*   [kind: dict, members]   of [key, node] in the order of insertion      *)
(*   [kind: other]           what is no JSON value                         *)
(* What is written is a sequence of tokens: how a scalar is spelled is     *)
(* left out, but an int is spelled as the double it is converted to.       *)
(***************************************************************************)
EXTENDS Walk

CONSTANTS
  KeyRank,      \* the order of the strings by UTF-16 code units
  Lone,         \* those with a surrogate that has no partner
  HugeNumber,   \* an int beyond the doubles, or a float that is not finite
  JcsDepth,     \* _MAX_DEPTH, 256
  JcsVisits     \* _MAX_NODES_VISITED, 200000

ASSUME JcsAssumption == JcsDepth \in Nat /\ JcsVisits \in Nat /\ JcsDepth + 1 < StackLimit

-----------------------------------------------------------------------------
Token(type, value) == [type |-> type, value |-> value]

Spelled(v) ==
  Token(IF v.kind \in {"int", "float"} THEN "number" ELSE v.kind, v.value)

Mark(m) == <<Token("mark", m)>>

\* Mutant: the members as they were put in.
members_AsInserted(v) == v.members

\* The members in the order of their names, no two of which are equal.
members(v) ==
  LET Before(m) == {o \in Range(v.members) : KeyRank[o.key] < KeyRank[m.key]}
  IN  [i \in DOMAIN v.members |->
         CHOOSE m \in Range(v.members) : Cardinality(Before(m)) = i - 1]

\* The values in a value, and what is written before each of them.
Inside(v) ==
  CASE v.kind = "list" -> v.items
    [] v.kind = "dict" -> [i \in DOMAIN v.members |-> members(v)[i].node]
    [] OTHER           -> <<>>

Lead(v, i) ==
  (IF i = 1 THEN <<>> ELSE Mark(",")) \o
    IF v.kind = "dict" THEN <<Token("string", members(v)[i].key)>> \o Mark(":") ELSE <<>>

\* What is left to write of a value, its parts one level further down.
Parts(v, depth) ==
  LET parts == FlattenSeq([i \in DOMAIN Inside(v) |->
                             Lead(v, i) \o <<Node(Inside(v)[i], depth + 1)>>])
  IN  CASE v.kind = "list" -> Mark("[") \o parts \o Mark("]")
        [] v.kind = "dict" -> Mark("{") \o parts \o Mark("}")
        [] OTHER           -> <<Spelled(v)>>

\* Mutant: only the nodes are counted.
over_NoDepth(depth) == visits + 1 > JcsVisits

over(depth) == visits + 1 > JcsVisits \/ depth > JcsDepth

\* Sorting the names encodes them as they were put in, which fails at the
\* first that is no string, or no text, before any of them is looked at.
refusal(v, depth) ==
  IF depth >= StackLimit THEN "RecursionError"
  ELSE IF \/ over(depth) \/ v.kind = "other"
          \/ v.kind \in {"int", "float"} /\ v.value = HugeNumber
       THEN "JcsError"
  ELSE IF /\ v.kind = "dict"
          /\ \E i \in DOMAIN v.members :
               /\ v.members[i].key = Absent
               /\ \A j \in DOMAIN v.members : j < i => v.members[j].key \notin Lone
       THEN "AttributeError"
  ELSE IF v.kind = "dict" /\ \E i \in DOMAIN v.members : v.members[i].key \in Lone
       THEN "UnicodeEncodeError"
  ELSE "none"

Serialize ==
  /\ Walking /\ todo # <<>> /\ "node" \in DOMAIN Head(todo)
  /\ LET call == Head(todo)
         v    == given.heap[call.node]
     IN  IF refusal(v, call.depth) = "none"
         THEN /\ visits' = visits + 1
              /\ todo' = Parts(v, call.depth) \o Tail(todo)
              /\ UNCHANGED <<given, out, results>>
         ELSE End(refusal(v, call.depth))

Write ==
  /\ Walking /\ todo # <<>> /\ "type" \in DOMAIN Head(todo)
  /\ out' = Append(out, Head(todo))
  /\ todo' = Tail(todo)
  /\ UNCHANGED <<given, visits, results>>

\* canonicalize encodes the text as UTF-8.
Encode ==
  /\ Walking /\ todo = <<>>
  /\ End(IF \E i \in DOMAIN out : out[i].type = "string" /\ out[i].value \in Lone
         THEN "UnicodeEncodeError" ELSE OK)

JcsNext == given.walker = "jcs" /\ (Serialize \/ Write \/ Encode)

-----------------------------------------------------------------------------
\* It is JSON, whatever its parts are.
Json(v) ==
  /\ v.kind # "other"
  /\ v.kind \in {"int", "float"} => v.value # HugeNumber
  /\ v.kind = "string" => v.value \notin Lone
  /\ v.kind = "dict" => \A i \in DOMAIN v.members : v.members[i].key \notin Lone \cup {Absent}

JcsCalls(heap, n) ==
  Unfold([m \in DOMAIN heap |-> IF Json(heap[m]) THEN Inside(heap[m]) ELSE <<>>],
         JcsDepth)[JcsDepth + 1][n]

\* All of it is JSON, and within the caps.
Legal(heap, calls) ==
  /\ Len(calls) <= JcsVisits
  /\ \A i \in DOMAIN calls : calls[i].depth <= JcsDepth /\ Json(heap[calls[i].node])

\* Two nodes of a heap that stand for the same JSON value, up to a depth.
Same(heap) ==
  LET Equal[left \in Nat] ==
        [m \in DOMAIN heap |-> [n \in DOMAIN heap |->
          LET v == heap[m]
              w == heap[n]
          IN  \/ left = 0
              \/ /\ v.kind = "list" /\ w.kind = "list" /\ Len(w.items) = Len(v.items)
                 /\ \A i \in DOMAIN v.items : Equal[left - 1][v.items[i]][w.items[i]]
              \/ /\ v.kind = "dict" /\ w.kind = "dict"
                 /\ {x.key : x \in Range(v.members)} = {x.key : x \in Range(w.members)}
                 /\ \A x \in Range(v.members), y \in Range(w.members) :
                      x.key = y.key => Equal[left - 1][x.node][y.node]
              \/ {v.kind, w.kind} \cap {"list", "dict"} = {} /\ Spelled(v) = Spelled(w)]]
  IN  Equal

(***************************************************************************)
(* jcs.py has one text for each JSON value and takes every value within    *)
(* its caps, the largest included: two values get the same text exactly    *)
(* when they are equal, however their members were put in, whichever of    *)
(* their parts are one object in memory, and whatever was canonicalized    *)
(* before.                                                                 *)
(***************************************************************************)
CanonicalForm ==
  given.walker = "jcs" =>
    /\ \A i \in DOMAIN results :
         results[i].verdict = OK <=> Legal(given.heap, JcsCalls(given.heap, given.roots[i]))
    /\ \A i, j \in DOMAIN results :
         results[i].verdict = OK /\ results[j].verdict = OK =>
           (results[i].out = results[j].out
              <=> Same(given.heap)[JcsDepth + 1][given.roots[i]][given.roots[j]])

=============================================================================
