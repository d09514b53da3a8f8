------------------------------ MODULE GraphQLLimits ------------------------------
(***************************************************************************)
(* The limits of GraphQLSecurityMiddleware (src/araxys/graphql/): depth,   *)
(* breadth, cost and introspection of one parsed document.  A document has *)
(* definitions and selection sets; a selection is a field, an inline       *)
(* fragment or the spread of a fragment.  Selection sets are numbered so   *)
(* that each leads to lower ones only, 0 being none: fragments do not      *)
(* spread themselves.  Costs are in halves of a point.                     *)
(***************************************************************************)
EXTENDS Integers, Sequences, SequencesExt, FiniteSets, FiniteSetsExt

CONSTANTS
    Documents,       \* the queries that are parsed
    DepthLimit,      \* depth_limit
    BreadthLimit,    \* breadth_limit
    CostLimit,       \* cost_limit, in halves
    Introspection    \* introspection_enabled

VARIABLES
    document,   \* the query
    verdict     \* what the middleware makes of it

graphQLVars == <<document, verdict>>

-----------------------------------------------------------------------------
(* Documents *)

Selection == [kind : {"field", "inline", "spread"}, name : STRING,
              arguments : Nat, set : Nat]
Field(name, arguments, set) ==
    [kind |-> "field", name |-> name, arguments |-> arguments, set |-> set]
Inline(set) == [kind |-> "inline", name |-> "", arguments |-> 0, set |-> set]
Spread(name) == [kind |-> "spread", name |-> name, arguments |-> 0, set |-> 0]

Definition == [kind : {"operation", "fragment"}, name : STRING, set : Nat]
Operation(set) == [kind |-> "operation", name |-> "", set |-> set]
Fragment(name, set) == [kind |-> "fragment", name |-> name, set |-> set]

OfKind(doc, kind) == {i \in DOMAIN doc.definitions : doc.definitions[i].kind = kind}
Operations(doc) == OfKind(doc, "operation")
Fragments(doc) == OfKind(doc, "fragment")

\* The selection sets that a selection may lead to.
Targets(doc, s) ==
    IF s.kind = "spread"
    THEN {0} \cup {doc.definitions[i].set :
                      i \in {j \in Fragments(doc) : doc.definitions[j].name = s.name}}
    ELSE {s.set}

IsDocument(doc) ==
    /\ doc.sets \in Seq(Seq(Selection) \ {<<>>})
    /\ doc.definitions \in Seq(Definition)
    /\ \A i \in DOMAIN doc.definitions : doc.definitions[i].set \in DOMAIN doc.sets
    /\ \A n \in DOMAIN doc.sets : \A i \in DOMAIN doc.sets[n] :
           LET s == doc.sets[n][i] IN
           /\ s.kind = "spread" => s.set = 0
           /\ Targets(doc, s) \subseteq 0 .. n - 1

ASSUME GraphQLAssumption ==
    /\ \A doc \in Documents : IsDocument(doc)
    /\ {DepthLimit, BreadthLimit, CostLimit} \subseteq Nat \ {0}
    /\ Introspection \in BOOLEAN

\* What fragments.get() returns for a spread among the definitions known: the
\* last of the name.
Body(doc, known, name) ==
    LET named == {i \in known : doc.definitions[i].name = name} IN
    IF named = {} THEN 0 ELSE doc.definitions[Max(named)].set

\* The selection set below a selection, with that a spread stands for.
Below(doc, known, s) == IF s.kind = "spread" THEN Body(doc, known, s.name) ELSE s.set

-----------------------------------------------------------------------------
(* The three measures and the search for introspection *)

\* _calc_depth()
Depth(doc, set) ==
    LET depth[n \in 0 .. Len(doc.sets)] ==
            IF n = 0 THEN 0
            ELSE 1 + Max({depth[Below(doc, Fragments(doc), doc.sets[n][i])] :
                              i \in DOMAIN doc.sets[n]})
    IN depth[set]

\* _calc_breadth()
Breadth(doc, set) ==
    LET breadth[n \in 0 .. Len(doc.sets)] ==
            IF n = 0 THEN 0
            ELSE Max({Len(doc.sets[n])} \cup
                     {breadth[Below(doc, Fragments(doc), doc.sets[n][i])] :
                          i \in DOMAIN doc.sets[n]})
    IN breadth[set]

\* _field_cost() with _FIELD_NAME_WEIGHTS
FieldCost(s) ==
    CASE s.name \in {"edges", "nodes", "items", "results"} -> 10
      [] s.name \in {"node", "data"} -> 4
      [] OTHER -> 2 + s.arguments

OwnCost(s) == IF s.kind = "field" THEN FieldCost(s) ELSE 0

Total(values) ==
    LET total[k \in 0 .. Len(values)] ==
            IF k = 0 THEN 0 ELSE total[k - 1] + values[k]
    IN total[Len(values)]

\* _cost_for_selection_set(); depth_multiplier never tells, as the depth of
\* an operation is 0.
SelectionCost(doc, known, set) ==
    LET cost[n \in 0 .. Len(doc.sets)] ==
            IF n = 0 THEN 0
            ELSE Total([i \in DOMAIN doc.sets[n] |->
                            OwnCost(doc.sets[n][i])
                                + cost[Below(doc, known, doc.sets[n][i])]])
    IN cost[set]

\* calculate_cost(): an operation knows the fragments defined before it.
Cost(doc) ==
    Total([i \in DOMAIN doc.definitions |->
               IF i \in Operations(doc)
               THEN SelectionCost(doc, Fragments(doc) \intersect 1 .. i,
                                  doc.definitions[i].set)
               ELSE 0])

\* _iter_fields()
FieldNames(doc, set) ==
    LET names[n \in 0 .. Len(doc.sets)] ==
            IF n = 0 THEN {}
            ELSE UNION {names[s.set]
                            \cup (IF s.kind = "field" THEN {s.name} ELSE {}) :
                        s \in ToSet(doc.sets[n])}
    IN names[set]

\* name.startswith("__")
MetaFields == {"__schema", "__type", "__typename"}

\* The mutant looks at operations only.
Searched_Operations(doc) == Operations(doc)

\* Spreads are not followed, but the definitions of fragments are searched.
Searched(doc) == DOMAIN doc.definitions

IsIntrospection(doc) ==
    \E i \in Searched(doc) :
        FieldNames(doc, doc.definitions[i].set) \intersect MetaFields # {}

-----------------------------------------------------------------------------
(* The middleware *)

QueryDepth(doc) ==
    Max({0} \cup {Depth(doc, doc.definitions[i].set) : i \in Operations(doc)})
QueryBreadth(doc) ==
    Max({0} \cup {Breadth(doc, doc.definitions[i].set) : i \in Operations(doc)})

GraphQLInit == document \in Documents /\ verdict = "none"

\* The checks in their order; the first violation is answered with an error.
Validate ==
    /\ verdict = "none"
    /\ verdict' = IF QueryDepth(document) > DepthLimit THEN "depth"
                  ELSE IF QueryBreadth(document) > BreadthLimit THEN "breadth"
                  ELSE IF Cost(document) > CostLimit THEN "cost"
                  ELSE IF ~Introspection /\ IsIntrospection(document)
                  THEN "introspection" ELSE "passed"
    /\ UNCHANGED document

GraphQLNext == Validate

GraphQLSpec == GraphQLInit /\ [][GraphQLNext]_graphQLVars

GraphQLTypeOK ==
    /\ IsDocument(document)
    /\ verdict \in {"none", "passed", "depth", "breadth", "cost", "introspection"}

-----------------------------------------------------------------------------
(* Properties *)

\* Reference: the ways that an executor goes down from a selection set, with
\* every spread and inline fragment entered. A place is a selection set and a
\* position in it.
Places(doc) == UNION {{n} \X DOMAIN doc.sets[n] : n \in DOMAIN doc.sets}
Selected(doc, place) == doc.sets[place[1]][place[2]]

Ways(doc, set) ==
    {w \in BoundedSeq(Places(doc), set) \ {<<>>} :
        /\ w[1][1] = set
        /\ \A j \in 2 .. Len(w) :
               w[j][1] = Below(doc, Fragments(doc), Selected(doc, w[j - 1]))}

FieldWays(doc, set) == {w \in Ways(doc, set) : Selected(doc, Last(w)).kind = "field"}
Level(doc, w) == Cardinality({j \in DOMAIN w : Selected(doc, w[j]).kind = "field"})

\* A field costs as often as a way leads to it.
Charges(doc, set) ==
    UNION {{w} \X (1 .. FieldCost(Selected(doc, Last(w)))) : w \in FieldWays(doc, set)}

\* However fragments are nested and ordered, no way down an operation that
\* passes is deeper than the limit, takes a selection beyond the breadth limit
\* or meets introspection, and all fields together cost no more than the limit
\* if the fragments are defined before the operation.
PassedWithinLimits ==
    verdict = "passed" =>
        \A i \in Operations(document) :
            LET set == document.definitions[i].set IN
            /\ \A w \in FieldWays(document, set) :
                   /\ Level(document, w) <= DepthLimit
                   /\ \A j \in DOMAIN w : w[j][2] <= BreadthLimit
                   /\ ~Introspection =>
                          Selected(document, Last(w)).name \notin MetaFields
            /\ (\A f \in Fragments(document) : f < i) =>
                   Cardinality(Charges(document, set)) <= CostLimit

=============================================================================
