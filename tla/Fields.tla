------------------------------- MODULE Fields -------------------------------
(***************************************************************************)
(* The shape of an artifact (fields.py).  What the gates look at is the    *)
(* form of a value: whether it is an object at all and, if so, the JSON    *)
(* type of each of its members.  Every artifact module runs the gates in   *)
(* an order of its own.                                                    *)
(***************************************************************************)
EXTENDS Verdicts

\* The types are "null", "bool", "int", "integral_float", "float", "str", "list"
\* and "dict": 5.0 is a JSON integer, and a bool is none, though Python says so.
Object(types) == [object |-> TRUE, types |-> types]

\* Mutant: 5.0 is no integer.
of_declared_type_Strict(type, admitted) == type \in admitted

\* `admitted` is the set of types a schema declares for the member.
of_declared_type(type, admitted) ==
  \/ type \in admitted
  \/ type = "integral_float" /\ "int" \in admitted

require_members(form, required, shapeCode) ==
  Check(required \subseteq DOMAIN form.types, shapeCode)

check_types(form, declared, shapeCode) ==
  Check(\A m \in DOMAIN declared \cap DOMAIN form.types :
          of_declared_type(form.types[m], declared[m]), shapeCode)

\* The code of the core rule is fixed; only a value that is no object reports
\* the caller's own.  The interior of an extensions member is never looked at.
reject_unknown_fields(form, allowed, shapeCode) ==
  IF ~ form.object THEN shapeCode
  ELSE Check(DOMAIN form.types \subseteq allowed, "UNKNOWN_FIELD")

\* `canonicalized` is how canonicalize ends: OK or the exception it raises.  Two
\* of them, wherever the value sits, become the caller's structural code; what
\* else it raises (a UnicodeEncodeError for a lone surrogate, an AttributeError
\* for a name that is no string) passes through.
canonical_bytes(canonicalized, shapeCode) ==
  IF canonicalized \in {"JcsError", "RecursionError"} THEN shapeCode ELSE canonicalized

=============================================================================
