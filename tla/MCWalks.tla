------------------------------- MODULE MCWalks -------------------------------
(***************************************************************************)
(* Values of two containers X and Y, which may hold themselves and each    *)
(* other, and a few leaves.  Two values are canonicalized one after the    *)
(* other, X and Y or one of them twice.                                    *)
(***************************************************************************)
EXTENDS Walks

\* 1 and 1.0, what cannot be written, and names that sort otherwise than by
\* code points.
MCKeyRank == [k \in {"a", "b", "lone"} |-> CASE k = "a" -> 2 [] k = "b" -> 1 [] OTHER -> 3]

Leaves ==
  [ i |-> [kind |-> "int", value |-> "one"], f |-> [kind |-> "float", value |-> "one"],
    s |-> [kind |-> "string", value |-> "a"], l |-> [kind |-> "string", value |-> "lone"],
    h |-> [kind |-> "int", value |-> "huge"], o |-> [kind |-> "other"] ]

List(items) == [kind |-> "list", items |-> items]
Dict(ms) == [kind |-> "dict", members |-> ms]
M(key, node) == [key |-> key, node |-> node]

UpToTwo(S) == {<<>>} \cup {<<x>> : x \in S} \cup {<<x, y>> : x, y \in S}

Parts2 == {"i", "f", "X", "Y"}

Containers ==
  {List(s) : s \in UpToTwo(Parts2)}
    \cup {Dict(<<M("a", x)>>) : x \in Parts2}
    \cup {Dict(<<M("a", x), M("b", y)>>) : x, y \in Parts2}
    \cup {Dict(<<M("b", x), M("a", y)>>) : x, y \in Parts2}

Odd ==
  {List(<<x>>) : x \in {"s", "l", "h", "o"}}
    \cup {Dict(<<M("lone", "i")>>)}
    \cup {Dict(<<M(Absent, "i"), M(k, "i")>>) : k \in {Absent, "a", "lone"}}

Heap(X, Y) ==
  [n \in DOMAIN Leaves \cup {"X", "Y"} |->
     CASE n = "X" -> X [] n = "Y" -> Y [] OTHER -> Leaves[n]]

JcsGivens ==
  { [walker |-> "jcs", heap |-> Heap(x, y), roots |-> <<"X", "Y">>] :
      x \in Containers, y \in Containers \cup Odd }

\* Keys: one good key of each kind, and what is malformed in one way.
Jwk(kty, crv, sizes) ==
  [ kty |-> kty, crv |-> crv, kid |-> "k", chars |-> 43, sizes |-> sizes, minimal |-> TRUE,
    key |-> kty ]
Ed == Jwk("OKP", "Ed25519", <<32>>)
Rsa == Jwk("RSA", Absent, <<2048, 33>>)

BadJwks ==
  { Absent, [Ed EXCEPT !.sizes = <<31>>], [Ed EXCEPT !.crv = "P-256"],
    [Ed EXCEPT !.kid = "no string"], [Rsa EXCEPT !.sizes = <<2047, 17>>],
    [Rsa EXCEPT !.minimal = FALSE], [Rsa EXCEPT !.chars = 44],
    [Jwk("EC", "P-256", <<32, 32>>) EXCEPT !.key = Absent] }

KeyValues ==
  {[kind |-> "jwks", keys |-> k] : k \in {Absent, <<>>, <<Rsa>>, <<Ed, Rsa>>} \cup
                                        {<<Ed, b>> : b \in BadJwks}}
    \cup {[kind |-> "string", chars |-> n, key |-> "c"] : n \in 42 .. 44}
    \cup {[kind |-> "dict", jwk |-> j] : j \in {Ed, Absent}}
    \cup {[kind |-> "none"], [kind |-> "other"]}

KeyLists == {List(s) : s \in UNION {[1 .. n -> {"X", "Y", "Z"}] : n \in 0 .. 2}}

KeyGivens ==
  { [walker |-> "keys", heap |-> [n \in {"X", "Y", "Z"} |->
       CASE n = "X" -> x [] n = "Y" -> y [] OTHER -> z], roots |-> <<"X", "Y">>] :
      x \in KeyLists, y \in KeyLists \cup KeyValues, z \in KeyValues }

MCGivens == JcsGivens \cup KeyGivens

=============================================================================
