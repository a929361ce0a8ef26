--------------------------- MODULE MCRefResolver ---------------------------
(* RefResolver for TLC: schemas of two levels over two properties.         *)
EXTENDS RefResolver

\* An object that requires its one property.
Needs(q) == Object([p \in {q} |-> Leaf], {q})

Pointing == {Ref(d) : d \in Definitions}

\* A pointer with a neighbour, an array of schemas.
Neighboured == [kind : {"ref"}, to : Definitions, beside : {{Needs(q)} : q \in PropertyNames}]
Arrays == [kind : {"array"}, beside : {{n} : n \in {Leaf} \cup Pointing}]

Simple == {Leaf, Ref(Dangling)} \cup Pointing

\* An object of one property, or of two.
Objects ==
  {Object([p \in {q} |-> n], r) :
     q \in PropertyNames, n \in Simple \cup Neighboured \cup Arrays, r \in SUBSET PropertyNames} \cup
  {Object(f, {}) : f \in [PropertyNames -> Simple]}

\* What stands in a branch: a pointer, or an object that requires something.
Branch == Simple \cup {Needs(q) : q \in PropertyNames}

Own == {NoProps} \cup {[p \in {q} |-> n] : q \in PropertyNames, n \in {Leaf} \cup Pointing}

Compositions == [kind : {"all", "any"}, branches : {<<>>} \cup (Branch \X Branch),
                 props : Own, required : {{}, PropertyNames}, beside : {{}}]

\* A composition of two keywords.
Doubles == [kind : {"all", "any"},
            branches : {<<n>> : n \in Pointing \cup Neighboured \cup {Needs(q) : q \in PropertyNames}},
            props : {NoProps}, required : {{}},
            beside : {{Leaf}} \cup {{Needs(q), n} : q \in PropertyNames, n \in Simple}]

MCRoots == Simple \cup Neighboured \cup Arrays \cup Objects \cup Compositions \cup Doubles

\* A definition is simple, or leads on.
MCBodies == {Ref(Dangling)} \cup Branch \cup
  {Object([p \in {q} |-> Ref(d)], {q}) : q \in PropertyNames, d \in Definitions} \cup
  [kind : {"all", "any"},
   branches : {<<Ref(d), Needs(CHOOSE q \in PropertyNames : TRUE)>> : d \in Definitions},
   props : {NoProps}, required : {{}}, beside : {{}}]
MCNodes == MCRoots \cup MCBodies \cup Branch

\* How deep a node is nested: a pointer with a neighbour, and an array, hold what is
\* one level deep.
MCHeight == [n \in MCNodes |-> CASE n.kind = "leaf" -> 0
                                 [] n.kind = "ref" -> IF n.beside = {} THEN 0 ELSE 2
                                 [] n.kind = "array" -> 2
                                 [] n.kind = "object" ->
                                      IF \A m \in Range(n.props) : m \in Simple THEN 1 ELSE 3
                                 [] OTHER -> 3]
=============================================================================
