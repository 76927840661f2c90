-------------------------- MODULE MCRuleProcessor ---------------------------
(* An instance of RuleProcessor for TLC: two fields and the field of a tag; *)
(* a first rule with a filter nested up to three deep, and a simple second. *)
EXTENDS RuleProcessor

MCKeys == {"a", "b", "t"}

A == Leaf("string", "a")
B == Leaf("string", "b")
HasA == Leaf("exists", "a")

Pairs(X, Y) == {Compound(op, <<x, y>>) : op \in {"and", "or"}, x \in X, y \in Y}
Negated(X) == {Negation(x) : x \in X}

Simple == {A, B, HasA, Always}
Literals == Simple \cup Negated({A, B})
Shallow == Pairs({B, Negation(A)}, {A, HasA, Negation(B), Always})
Deep == Pairs(Shallow \cup Negated(Shallow), {A, Negation(B)})

MCFilters == <<Literals \cup Shallow \cup Negated(Negated(Literals) \cup Shallow)
                    \cup Deep \cup Negated(Deep),
               {B, Compound("and", <<HasA, A>>), Compound("or", <<A, B>>),
                Compound("or", <<B, Negation(A)>>)}>>

\* The filters with their parts, what they are rewritten to, and the leaves
\* that are added; the depth of each.
RECURSIVE Parts(_)
Parts(e) ==
    {e} \cup CASE IsCompound(Pushed(e)) -> UNION {Parts(x) : x \in ToSet(Pushed(e).children)}
               [] e.op = "string" -> {Leaf("exists", e.key)}
               [] OTHER -> {}
         \cup IF e.op = "not" THEN Parts(e.child) ELSE {}

RECURSIVE Resolved(_)
Resolved(e) ==
    LET p == Pushed(e)
    IN  IF IsCompound(p)
        THEN Compound(p.op, [i \in DOMAIN p.children |-> Resolved(p.children[i])]) ELSE e

RECURSIVE Depth(_)
Depth(e) == CASE e.op = "not" -> 1 + Depth(e.child)
              [] IsCompound(e) -> 1 + Max({Depth(x) : x \in ToSet(e.children)})
              [] OTHER -> 0

MCExpressions ==
    {Leaf("exists", "t")} \cup
        UNION {Parts(f) \cup Parts(Resolved(f)) : f \in UNION ToSet(MCFilters)}
MCHeight == [e \in MCExpressions |-> Depth(e)]

Tests == {e \in MCExpressions : KeyBased(e)}
ByName == [e \in Tests |-> (CASE e.key = "a" -> 1 [] e.key = "b" -> 3 [] e.key = "t" -> 5)
                            + IF e.op = "exists" THEN 1 ELSE 0]
ByPriority == [e \in Tests |-> IF e.key = "b" THEN 0 ELSE 1]

MCTreeConfigs == {[rank |-> ByName, tags |-> <<>>],
                  [rank |-> ByPriority, tags |-> ("a" :> Leaf("exists", "t"))]}
=============================================================================
