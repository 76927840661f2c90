------------------------------ MODULE RuleTree ------------------------------
(***************************************************************************)
(* The rule tree of logprep/framework/rule_tree: every rule of a processor *)
(* is parsed into the disjunctive normal form of its filter, and every     *)
(* segment of that form becomes a path of the tree, whose last node holds  *)
(* the rule.  Segments that begin alike share their nodes.                 *)
(*                                                                         *)
(* A filter is a record with its op.  The leaves are abstract: an event    *)
(* says of each key whether it is absent, has the value the string leaves  *)
(* of that key ask for, or another one.  Modelled as what they compute:    *)
(* the normal form, whose two passes are one function here, and the        *)
(* sorting keys, which are strings in the code.  What recurses in the code *)
(* is a function here: over the expressions, down to their parts, or over  *)
(* the nodes of the tree, down to their children.                          *)
(***************************************************************************)
EXTENDS Integers, SequencesExt

CONSTANTS
    Keys,           \* the fields of events
    Expressions,    \* the filters, with their parts and what they become
    Height,         \* bounds the depth of an expression
    Filters,        \* bound: the filters of the first rule, the second, ...
    RuleConfigs,    \* what rules do: equal filters with equal ones are equal
    TreeConfigs     \* the priority_dict and the tag_map: [rank, tags]

VARIABLES
    treeConfig,     \* the configuration of the tree
    rules,          \* the rules added so far; an index stands for the object
    tree            \* the nodes, in the order of their creation; 0 is the root

treeVars == <<treeConfig, rules, tree>>

Leaf(op, key) == [op |-> op, key |-> key]
Always == [op |-> "always"]
Negation(e) == [op |-> "not", child |-> e]
Compound(op, es) == [op |-> op, children |-> es]

IsCompound(e) == e.op \in {"and", "or"}
KeyBased(e) == e.op \in {"exists", "string"}

Events == [Keys -> {"absent", "wanted", "other"}]

\* De Morgan's law, for one negation.
Dual(op) == IF op = "and" THEN "or" ELSE "and"
Pushed(e) ==
    IF e.op = "not" /\ IsCompound(e.child)
    THEN Compound(Dual(e.child.op),
                  [i \in DOMAIN e.child.children |-> Negation(e.child.children[i])])
    ELSE e

\* Expressions are finite, and closed under what is done to filters.
Closed(e) ==
    /\ e.op \in {"always", "exists", "string", "not", "and", "or"}
    /\ KeyBased(e) => e.key \in Keys /\ Leaf("exists", e.key) \in Expressions
    /\ e.op = "not" => e.child \in Expressions /\ Height[e.child] < Height[e]
    /\ IsCompound(Pushed(e)) =>
        /\ Pushed(e).children \in Seq(Expressions) /\ Pushed(e).children # <<>>
        /\ \A i \in DOMAIN Pushed(e).children : Height[Pushed(e).children[i]] < Height[e]

ASSUME RuleTreeAssumption ==
    /\ Height \in [Expressions -> Nat]
    /\ \A e \in Expressions : Closed(e)
    /\ Filters \in Seq(SUBSET Expressions)
    /\ \A c \in TreeConfigs :
        /\ \A e \in Expressions : KeyBased(e) => c.rank[e] \in Int
        /\ \A k \in DOMAIN c.tags : c.tags[k] \in Expressions

(***************************************************************************)
(* filter_expression.py: the events an expression matches.  A missing key  *)
(* never does.                                                             *)
(***************************************************************************)
MatchedBy[e \in Expressions] ==
    CASE e.op = "always" -> Events
      [] e.op = "exists" -> {v \in Events : v[e.key] # "absent"}
      [] e.op = "string" -> {v \in Events : v[e.key] = "wanted"}
      [] e.op = "not" -> Events \ MatchedBy[e.child]
      [] e.op = "and" -> {v \in Events : \A i \in DOMAIN e.children : v \in MatchedBy[e.children[i]]}
      [] OTHER (* or *) -> {v \in Events : \E i \in DOMAIN e.children : v \in MatchedBy[e.children[i]]}

Matches(e, event) == event \in MatchedBy[e]

(***************************************************************************)
(* rule_parser.py.                                                         *)
(***************************************************************************)
\* DeMorganResolver.  A negation of anything but AND and OR is left alone,
\* the negation of a negation too.
Resolve[e \in Expressions] ==
    IF IsCompound(Pushed(e))
    THEN Compound(Pushed(e).op,
                  [i \in DOMAIN Pushed(e).children |-> Resolve[Pushed(e).children[i]]])
    ELSE e

\* What resolving leaves in rule.filter: AND and OR are changed in place.
Rewritten(f) == IF IsCompound(f) THEN Resolve[f] ELSE f

\* CnfToDnfConverter: a segment of each of the sequences, in all ways.
Distribute(D, E) ==
    FlattenSeq([i \in DOMAIN D |-> [j \in DOMAIN E |-> D[i] \o E[j]]])
Conjunction(Ds) ==
    LET upTo[i \in 0 .. Len(Ds)] == IF i = 0 THEN <<<<>>>> ELSE Distribute(upTo[i - 1], Ds[i])
    IN  upTo[Len(Ds)]

\* RuleSegmenter, of what DeMorganResolver makes of e: the disjunctive
\* normal form, a sequence of segments.
Segments[e \in Expressions] ==
    IF IsCompound(Pushed(e))
    THEN LET parts == [i \in DOMAIN Pushed(e).children |-> Segments[Pushed(e).children[i]]]
         IN  IF Pushed(e).op = "or" THEN FlattenSeq(parts) ELSE Conjunction(parts)
    ELSE <<<<e>>>>

\* The expression below the negations.
Core[e \in Expressions] == IF e.op = "not" THEN Core[e.child] ELSE e

\* Segmenter and sorter raise for a compound that is left below negations;
\* Always has no sorting key, so it can only be sorted alone.
Parses(segments) ==
    \A s \in ToSet(segments) : \A e \in ToSet(s) :
        ~ IsCompound(Core[e]) /\ (Len(s) > 1 => Core[e].op # "always")

\* RuleSorter: the priority of the field, or its representation.  The sort
\* is stable: the n-th is the one with n up to it.
SortedUpTo(s, i) ==
    LET key(j) == treeConfig.rank[Core[s[j]]]
    IN  {j \in DOMAIN s : key(j) < key(i) \/ (key(j) = key(i) /\ j <= i)}
Sorted(s) ==
    IF Len(s) <= 1 THEN s
    ELSE [n \in DOMAIN s |->
            s[CHOOSE i \in DOMAIN s : Cardinality(SortedUpTo(s, i)) = n]]

\* _add_exists_filter: before a first test of a field's value, that it exists.
WithExists(s) ==
    LET first(i) == /\ s[i].op = "string"
                    /\ Leaf("exists", s[i].key) \notin ToSet(s)
                    /\ \A j \in 1 .. i - 1 : s[j] # s[i]
    IN  FlattenSeq([i \in DOMAIN s |->
            IF first(i) THEN <<Leaf("exists", s[i].key), s[i]>> ELSE <<s[i]>>])

\* RuleTagger: in front of the segment, the last first, the tags of the
\* fields it tests or negates a test of.
TagsOf(e) ==
    LET tested == IF e.op = "not" THEN e.child ELSE e
    IN  IF KeyBased(tested) /\ tested.key \in DOMAIN treeConfig.tags
        THEN {treeConfig.tags[tested.key]} ELSE {}
WithTags(s) ==
    LET new(i) == TagsOf(s[i]) \ (ToSet(s) \cup UNION {TagsOf(s[j]) : j \in 1 .. i - 1})
    IN  FlattenSeq([i \in DOMAIN s |-> SetToSeq(new(Len(s) + 1 - i))]) \o s

ParseRule(segments) ==
    [i \in DOMAIN segments |-> WithTags(WithExists(Sorted(segments[i])))]

(***************************************************************************)
(* rule_tree.py and node.py.                                               *)
(***************************************************************************)

\* Rule.__eq__
Equal(x, y) == x.filter = y.filter /\ x.config = y.config

\* _add_parsed_rule: the next node of the path, found or created.
Descend(path, e) ==
    LET found == {n \in DOMAIN path.nodes :
                    path.nodes[n].parent = path.at /\ path.nodes[n].expression = e}
    IN  IF found # {}
        THEN [path EXCEPT !.at = CHOOSE n \in found : TRUE]
        ELSE [nodes |-> Append(path.nodes, [parent |-> path.at, expression |-> e,
                                            matching |-> <<>>]),
              at |-> Len(path.nodes) + 1]

\* Mutant: the last node gets the rule only when it has none yet.
JoinEmptyNode(nodes, n, rs) ==
    IF nodes[n].matching # <<>> THEN nodes
    ELSE [nodes EXCEPT ![n].matching = Append(@, Len(rs))]

\* The last of the rules rs joins node n, unless an equal one is there.
JoinNode(nodes, n, rs) ==
    IF \E r \in ToSet(nodes[n].matching) : Equal(rs[r], rs[Len(rs)]) THEN nodes
    ELSE [nodes EXCEPT ![n].matching = Append(@, Len(rs))]

AddSegment(nodes, s, rs) ==
    LET path[i \in 0 .. Len(s)] ==
            IF i = 0 THEN [nodes |-> nodes, at |-> 0] ELSE Descend(path[i - 1], s[i])
    IN  JoinNode(path[Len(s)].nodes, path[Len(s)].at, rs)

AddSegments(nodes, segments, rs) ==
    LET added[i \in 0 .. Len(segments)] ==
            IF i = 0 THEN nodes ELSE AddSegment(added[i - 1], segments[i], rs)
    IN  added[Len(segments)]

\* add_rule: a rule that cannot be parsed is left out, with a warning.
AddRule(filter, config) ==
    LET kept == Parses(Segments[filter])
        new == [given |-> filter, filter |-> Rewritten(filter), config |-> config,
                kept |-> kept]
    IN  /\ rules' = Append(rules, new)
        /\ tree' = IF kept THEN AddSegments(tree, ParseRule(Segments[filter]), rules')
                           ELSE tree
        /\ UNCHANGED treeConfig

TreeInit == treeConfig \in TreeConfigs /\ rules = <<>> /\ tree = <<>>

\* load_rules goes through the rules one by one.
LoadRule == \E f \in Filters[Len(rules) + 1], c \in RuleConfigs : AddRule(f, c)
Loaded == Len(rules) = Len(Filters)

\* _retrieve_matching_rules, depth first.
Retrieve(event) ==
    LET below[n \in 0 .. Len(tree)] ==
            FlattenSeq([k \in DOMAIN tree |->
                IF tree[k].parent = n /\ Matches(tree[k].expression, event)
                THEN tree[k].matching \o below[k] ELSE <<>>])
    IN  below[0]

\* Mutant: a rule once for every segment that matches.
WithDuplicates(s) == s

\* deduplicate_with_order
Deduplicate(s) ==
    FlattenSeq([i \in DOMAIN s |->
        IF \E j \in 1 .. i - 1 : s[j] = s[i] THEN <<>> ELSE <<s[i]>>])

\* get_matching_rules
MatchingRules(event) == Deduplicate(Retrieve(event))

(***************************************************************************)
(* What the tree promises, for a property of RuleProcessor.                *)
(***************************************************************************)

\* Neither Always below AND or OR, nor an AND or OR below two negations: the
\* places where an expression may be, by the negations above it (two or more
\* are 2) and whether it is part of a compound.
Places == [negations : 0 .. 2, within : BOOLEAN]
BelowNegation(p) ==
    [negations |-> IF p.negations = 2 THEN 2 ELSE p.negations + 1, within |-> p.within]
BelowCompound(p) == [negations |-> p.negations, within |-> TRUE]
PlainAt[e \in Expressions] ==
    CASE e.op = "not" -> {p \in Places : BelowNegation(p) \in PlainAt[e.child]}
      [] IsCompound(e) ->
            {p \in Places : /\ p.negations <= 1
                            /\ \A i \in DOMAIN e.children :
                                BelowCompound(p) \in PlainAt[e.children[i]]}
      [] e.op = "always" -> {p \in Places : ~ p.within}
      [] OTHER -> Places
Plain(f) == [negations |-> 0, within |-> FALSE] \in PlainAt[f]

TagsSet(event) == \A k \in DOMAIN treeConfig.tags : Matches(treeConfig.tags[k], event)

\* For every event the tree yields only rules whose filter matches ...
OnlyMatching(event) == \A r \in ToSet(MatchingRules(event)) : Matches(rules[r].given, event)

\* ... and, once the configured tags are set, each of them or its equal.
AllMatching(event) ==
    TagsSet(event) =>
        \A r \in DOMAIN rules : rules[r].kept /\ Matches(rules[r].given, event) =>
            \E m \in ToSet(MatchingRules(event)) : Equal(rules[r], rules[m])
=============================================================================
