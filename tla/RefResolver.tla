---------------------------- MODULE RefResolver ----------------------------
(***************************************************************************)
(* resolve_refs (ref_resolver.rs): the $ref pointers of the input schema   *)
(* of a module are replaced by what they point to, and allOf, anyOf and    *)
(* oneOf are merged, so that flags can be made from what is left.          *)
(*                                                                         *)
(* A node of a schema is a leaf, a "ref" to a definition, an "object"      *)
(* with properties, an "array" of schemas (of any keyword but those of a   *)
(* composition), or an "all" or "any" (oneOf is treated alike) with its    *)
(* branches and perhaps properties of its own.  `required` is a set: the   *)
(* order of the list shows only in help texts.                             *)
(*                                                                         *)
(* `beside` are the schemas of a node that resolve_node does not look at:  *)
(* the other keywords of a "ref", taken as schemas, which it drops; the    *)
(* alternatives of a second composition (anyOf or oneOf after allOf, oneOf *)
(* after anyOf), which it carries over as they are; the items of an        *)
(* "array", likewise.                                                      *)
(***************************************************************************)
EXTENDS Naturals, Sequences, FiniteSets, Functions

CONSTANTS
  PropertyNames, \* names of properties
  Definitions,\* names in $defs
  Dangling,   \* a name that is not in $defs
  MaxDepth,   \* the limit of the recursion
  Nodes,      \* the schemas, and the schemas in them
  Height,     \* how deep each of them is nested: a JSON value is a finite tree
  Nesting,    \* the greatest of these
  Roots,      \* the schemas to resolve
  Bodies      \* what a definition may be

Composed == {"all", "any"}

PartOf(part, node) == part \in Nodes /\ Height[part] < Height[node]

WellFormed(node) ==
  /\ node.kind \in {"leaf", "ref", "object", "array"} \cup Composed
  /\ node.kind \in {"ref", "array"} \cup Composed => \A n \in node.beside : PartOf(n, node)
  /\ node.kind = "ref" => node.to \in Definitions \cup {Dangling}
  /\ node.kind = "object" => node.beside = {}
  /\ node.kind \in {"object"} \cup Composed =>
       /\ node.required \subseteq PropertyNames /\ DOMAIN node.props \subseteq PropertyNames
       /\ \A p \in DOMAIN node.props : PartOf(node.props[p], node)
  /\ node.kind \in Composed =>
       node.branches \in Seq(Nodes) /\ \A i \in DOMAIN node.branches : PartOf(node.branches[i], node)

ASSUME RefAssumption ==
  /\ MaxDepth \in Nat /\ Nesting \in Nat /\ Dangling \notin Definitions
  /\ Roots \subseteq Nodes /\ Bodies \subseteq Nodes

ASSUME NodesAssumption ==
  \A node \in Nodes : Height[node] \in 0 .. Nesting /\ WellFormed(node)

NoProps == [p \in {} |-> p]

Leaf == [kind |-> "leaf"]
Ref(d) == [kind |-> "ref", to |-> d, beside |-> {}]
ObjectWith(props, required, beside) ==
  [kind |-> "object", props |-> props, required |-> required, beside |-> beside]
Object(props, required) == ObjectWith(props, required, {})

\* What has no properties of its own.
Bare == {"leaf", "array"}

VARIABLES
  schema,  \* the root, and the definitions in $defs
  result   \* what resolve_refs returned, or Pending

rvars == <<schema, result>>

Pending == [errors |-> {"pending"}, node |-> Leaf]

-----------------------------------------------------------------------------
(* A resolution is a node, or the errors of which the first one met is     *)
(* returned; which that is depends on the order of the keys.               *)

Found(node) == [errors |-> {}, node |-> node]
Failed(e) == [errors |-> {e}, node |-> Leaf]

PropsOf(node) == IF node.kind \in Bare THEN NoProps ELSE node.props
RequiredOf(node) == IF node.kind \in Bare THEN {} ELSE node.required

\* The properties of the branches; the last branch that has one wins.
LastWins(branches) ==
  [p \in UNION {DOMAIN PropsOf(branches[i]) : i \in DOMAIN branches} |->
     LET i == CHOOSE i \in DOMAIN branches :
                /\ p \in DOMAIN PropsOf(branches[i])
                /\ \A j \in i + 1 .. Len(branches) : p \notin DOMAIN PropsOf(branches[j])
     IN  PropsOf(branches[i])[p]]

\* The node's own properties, as they are written, fill the gaps.
FilledIn(props, own) ==
  [p \in DOMAIN props \cup DOMAIN own |-> IF p \in DOMAIN props THEN props[p] ELSE own[p]]

\* The other keywords of the node go over to the merged object as they are.
MergedObject(node, branches, required) ==
  ObjectWith(FilledIn(LastWins(branches), node.props), required, node.beside)

\* merge_allof.
MergeAllOf(node, branches) ==
  MergedObject(node, branches,
               node.required \cup UNION {RequiredOf(branches[i]) : i \in DOMAIN branches})

\* Mutant: what one branch requires is required.
RequiredByAny(branches) == UNION {RequiredOf(branches[i]) : i \in DOMAIN branches}

\* intersect_required_sets.
RequiredByAll(branches) ==
  {p \in PropertyNames : \A i \in DOMAIN branches : p \in RequiredOf(branches[i])}

\* merge_anyof, and the node's own list of what is required.
MergeAnyOf(node, branches) ==
  MergedObject(node, branches,
               node.required \cup (IF branches = <<>> THEN {} ELSE RequiredByAll(branches)))

\* The ? after the resolution of each of several parts.
Assembled(node, resolutions) ==
  LET errors == UNION {resolutions[i].errors : i \in DOMAIN resolutions}
      parts == [i \in DOMAIN resolutions |-> resolutions[i].node]
  IN  IF errors # {} THEN [errors |-> errors, node |-> Leaf]
      ELSE Found(CASE node.kind = "object" -> Object(parts, node.required)
                   [] node.kind = "all" -> MergeAllOf(node, parts)
                   [] node.kind = "any" -> MergeAnyOf(node, parts))

\* Mutant: one level too many.
TooDeepLate(depth) == depth > MaxDepth

TooDeep(depth) == depth >= MaxDepth

-----------------------------------------------------------------------------
(* resolve_node.  `visiting` is what the call stack inserts and takes out: *)
(* an error ends the whole resolution, so nobody sees what it leaves.      *)

NodeCall(node, depth, visiting) == [node |-> node, depth |-> depth, visiting |-> visiting]

NodeCalls == [node : Nodes, depth : Nat, visiting : SUBSET Definitions]

ResolveNode(defs, call) ==
  LET resolve[c \in NodeCalls] ==
        CASE c.node.kind \in Bare -> Found(c.node)
          [] c.node.kind = "ref" ->
               IF TooDeep(c.depth) THEN Failed("max_depth")
               ELSE IF c.node.to \in c.visiting THEN Failed("circular")
               ELSE IF c.node.to \notin DOMAIN defs THEN Failed("unresolvable")
               ELSE resolve[NodeCall(defs[c.node.to], c.depth + 1, c.visiting \cup {c.node.to})]
          [] c.node.kind = "object" ->
               Assembled(c.node, [p \in DOMAIN c.node.props |->
                                    resolve[NodeCall(c.node.props[p], c.depth, c.visiting)]])
          [] OTHER ->
               Assembled(c.node, [i \in DOMAIN c.node.branches |->
                                    resolve[NodeCall(c.node.branches[i], c.depth + 1, c.visiting)]])
  IN  resolve[call]

\* $defs is a key of the root like any other: when the root is neither a $ref
\* nor merged, every definition is resolved, used or not, and then taken out.
Starts(root, defs) ==
  {root} \cup IF root.kind \in {"object"} \cup Bare THEN {defs[d] : d \in DOMAIN defs} ELSE {}

\* resolve_refs.
ResolveRefs(root, defs) ==
  [errors |-> UNION {ResolveNode(defs, NodeCall(n, 0, {})).errors : n \in Starts(root, defs)},
   node |-> ResolveNode(defs, NodeCall(root, 0, {})).node]

RInit ==
  /\ schema \in [root : Roots, defs : [Definitions -> Bodies]]
  /\ result = Pending

ResolveSchema ==
  /\ result = Pending
  /\ result' = ResolveRefs(schema.root, schema.defs)
  /\ UNCHANGED schema

RNext == ResolveSchema

RSpec == RInit /\ [][RNext]_rvars

-----------------------------------------------------------------------------
(* What the resolution should be: reference definitions.                   *)

\* What a schema says, before anything is resolved: the pointers that resolve_node
\* looks at, with the number of compositions around them; whether it is plain, with
\* no pointer and no composition anywhere; whether what it carries over as it is,
\* wherever that is, is plain.
TextOfArray(items) ==
  LET plain == \A item \in items : item.plain
  IN  [pointers |-> {}, plain |-> plain, plainBeside |-> plain]

TextOfObject(props) ==
  [pointers |-> UNION {props[p].pointers : p \in DOMAIN props},
   plain |-> \A p \in DOMAIN props : props[p].plain,
   plainBeside |-> \A p \in DOMAIN props : props[p].plainBeside]

TextOfComposed(props, branches, beside) ==
  [pointers |-> UNION {{<<t[1], t[2] + 1>> : t \in branches[i].pointers} : i \in DOMAIN branches},
   plain |-> FALSE,
   plainBeside |-> /\ \A p \in DOMAIN props : props[p].plain
                   /\ \A i \in DOMAIN branches : branches[i].plainBeside
                   /\ \A n \in beside : n.plain]

Text(node) ==
  LET text[n \in Nodes] ==
        CASE n.kind = "leaf" -> [pointers |-> {}, plain |-> TRUE, plainBeside |-> TRUE]
          [] n.kind = "ref" -> [pointers |-> {<<n.to, 0>>}, plain |-> FALSE, plainBeside |-> TRUE]
          [] n.kind = "array" -> TextOfArray({text[m] : m \in n.beside})
          [] n.kind = "object" -> TextOfObject([p \in DOMAIN n.props |-> text[n.props[p]]])
          [] OTHER ->
               TextOfComposed([p \in DOMAIN n.props |-> text[n.props[p]]],
                              [i \in DOMAIN n.branches |-> text[n.branches[i]]],
                              {text[m] : m \in n.beside})
  IN  text[node]

Pointers(node) == Text(node).pointers

\* W holds every pointer met on the way, with the depth at which it is met.
MeetsAll(W, root, defs) ==
  /\ \A n \in Starts(root, defs) : Pointers(n) \subseteq W
  /\ \A t \in W : \A u \in Pointers(defs[t[1]]) : <<u[1], t[2] + 1 + u[2]>> \in W

\* No pointer is met to nothing or too deep.  One that stands beside is not met.
Fits(root, defs) ==
  \E W \in SUBSET ((DOMAIN defs) \X {k \in 0 .. MaxDepth : k < MaxDepth}) : MeetsAll(W, root, defs)

PointsTo(node) == {t[1] : t \in Pointers(node)}

\* Some definitions each of which points to one of them: a way round.
Cyclic(defs) ==
  \E C \in SUBSET DOMAIN defs : C # {} /\ \A d \in C : PointsTo(defs[d]) \cap C # {}

\* A name that is not defined can be reached: it is in whatever holds the names
\* in the schema and with a name those that its definition points to.
Reaches(d, root, defs) ==
  \A R \in SUBSET (DOMAIN defs \cup {d}) :
    (\A n \in Starts(root, defs) \cup {defs[e] : e \in R \cap DOMAIN defs} : PointsTo(n) \subseteq R)
      => d \in R

\* What a schema asks of the properties an object has, which it declares (but for
\* those declared in what stands beside), and whether it leaves a choice or has
\* something beside.
Means(accepts, declares, choice) == [accepts |-> accepts, declares |-> declares, choice |-> choice]

WithAll(required) == {S \in SUBSET PropertyNames : required \subseteq S}

\* Of a pointer that leads nowhere or too deep nothing is known.
Unknown == Means(WithAll({}), {}, TRUE)

\* A pointer and its neighbours both count.
MeaningOfRef(target, beside) ==
  Means({S \in target.accepts : \A m \in beside : S \in m.accepts},
        target.declares, target.choice \/ beside # {})

\* Of a second composition one alternative has to accept as well.
MeaningOfComposed(node, branches, beside) ==
  Means({S \in WithAll(node.required) :
           /\ IF node.kind = "all" THEN \A i \in DOMAIN branches : S \in branches[i].accepts
                                   ELSE \E i \in DOMAIN branches : S \in branches[i].accepts
           /\ beside # {} => \E m \in beside : S \in m.accepts},
        DOMAIN node.props \cup UNION {branches[i].declares : i \in DOMAIN branches},
        node.kind = "any" \/ beside # {} \/ \E i \in DOMAIN branches : branches[i].choice)

Meaning(defs, call) ==
  LET means[c \in NodeCalls] ==
        LET node == c.node
            below(n) == means[NodeCall(n, c.depth + 1, {})]
            beside == {below(n) : n \in node.beside}
        IN  CASE node.kind \in Bare -> Means(WithAll({}), {}, FALSE)
              [] node.kind = "ref" ->
                   IF c.depth >= MaxDepth \/ node.to \notin DOMAIN defs THEN Unknown
                   ELSE MeaningOfRef(below(defs[node.to]), beside)
              [] node.kind = "object" -> Means(WithAll(node.required), DOMAIN node.props, FALSE)
              [] OTHER ->
                   MeaningOfComposed(node, [i \in DOMAIN node.branches |-> below(node.branches[i])],
                                     beside)
  IN  means[call]

\* The node and what is in it, k levels down.
WithParts(S) ==
  S \cup (UNION {Range(n.props) : n \in {n \in S : n.kind = "object"}})
    \cup (UNION {n.beside : n \in {n \in S : n.kind \in {"object", "array"}}})

PartsWithin(node, k) ==
  LET parts[j \in 0 .. k] == IF j = 0 THEN {node} ELSE WithParts(parts[j - 1])
  IN  parts[k]

-----------------------------------------------------------------------------
(* Properties.                                                           *)

Done == result # Pending
Ok == Done /\ result.errors = {}

\* A schema is refused exactly for a pointer to nothing or too deep, and called
\* circular only if it is: sharing is not a cycle, and no cycle is missed
\* (ref_resolver.rs:22-31, 217-222).
RefusedExactly ==
  Done =>
    /\ Ok <=> Fits(schema.root, schema.defs)
    /\ "circular" \in result.errors => Cyclic(schema.defs)
    /\ "unresolvable" \in result.errors => Reaches(Dangling, schema.root, schema.defs)

\* An input that the schema accepts is not refused for a missing property by
\* what it was resolved to; without anyOf, and without anything beside, the two
\* agree.  Every property that is declared has its flag, but for those declared
\* beside, in a second composition or next to a pointer; and no pointer is left
\* if there was none in what is carried over as it is: the properties next to a
\* composition, a second composition, an array (ref_resolver.rs:37, 86-92, 137,
\* 180-183, 186-221, 268-272).
MergeKeepsMeaning ==
  LET meaning == Meaning(schema.defs, NodeCall(schema.root, 0, {})) IN
  Ok =>
    /\ \A S \in SUBSET PropertyNames :
         LET left == RequiredOf(result.node) \subseteq S
         IN  /\ S \in meaning.accepts => left
             /\ ~ meaning.choice => (left => S \in meaning.accepts)
    /\ DOMAIN PropsOf(result.node) = meaning.declares
    /\ (\A n \in {schema.root} \cup Range(schema.defs) : Text(n).plainBeside) =>
         \A n \in PartsWithin(result.node, (MaxDepth + 1) * (Nesting + 1)) :
           n.kind \in {"leaf", "object", "array"}

\* What the doc of resolve_refs says (ref_resolver.rs:39-43): every pointer is
\* replaced by what it points to.
AllPointersInlined ==
  Ok => \A n \in PartsWithin(result.node, (MaxDepth + 1) * (Nesting + 1)) : n.kind # "ref"
=============================================================================
