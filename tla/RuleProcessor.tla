--------------------------- MODULE RuleProcessor ----------------------------
(***************************************************************************)
(* The rule loop of a processor (logprep/abc/processor.py and, the same,   *)
(* logprep/ng/abc/processor.py).  A rule changes the event it is applied   *)
(* to, so the rules that match are not the same before and after it.       *)
(***************************************************************************)
EXTENDS RuleTree

VARIABLES
    mode,           \* once, multiple (apply_multiple_times) or bypass
    phase,          \* loading, ready, applying or done
    event,          \* the event
    todo,           \* the rules still to go through
    applied         \* the rules applied to the event, in their order

runVars == <<phase, event, todo, applied>>
vars == <<treeVars, mode, runVars>>

NoEvent == [k \in Keys |-> "absent"]

Init ==
    /\ TreeInit
    /\ mode \in {"once", "multiple", "bypass"}
    /\ phase = "loading" /\ event = NoEvent /\ todo = <<>> /\ applied = <<>>

Load ==
    /\ phase = "loading" /\ ~ Loaded
    /\ LoadRule
    /\ UNCHANGED <<mode, runVars>>

LoadEnds ==
    /\ phase = "loading" /\ Loaded
    /\ phase' = "ready"
    /\ UNCHANGED <<treeVars, mode, event, todo, applied>>

\* The rules of the tree, in the order they were added.
KeptRules == FlattenSeq([r \in DOMAIN rules |-> IF rules[r].kept THEN <<r>> ELSE <<>>])

\* process: the matching rules of the event, or, past the tree, every rule.
Process(e) ==
    /\ phase \in {"ready", "done"}
    /\ phase' = "applying" /\ event' = e /\ applied' = <<>>
    /\ todo' = IF mode = "bypass" THEN KeptRules ELSE MatchingRules(e)
    /\ UNCHANGED <<treeVars, mode>>

\* What a rule can make of an event: a field set or deleted, all cleared by
\* a critical error, or no change.
Outcomes(e) ==
    {e, NoEvent} \cup {[e EXCEPT ![k] = v] : k \in Keys, v \in {"absent", "wanted"}}

\* The next rule; without the tree its filter is tested just before.
ApplyRule ==
    /\ phase = "applying" /\ todo # <<>>
    /\ todo' = Tail(todo)
    /\ IF mode = "bypass" /\ ~ Matches(rules[Head(todo)].filter, event)
       THEN UNCHANGED <<event, applied>>
       ELSE /\ event' \in Outcomes(event)
            /\ applied' = Append(applied, Head(todo))
    /\ UNCHANGED <<treeVars, mode, phase>>

\* Mutant: the rules that match again are applied again.
RemainingAgain == ToSet(MatchingRules(event))

\* The rules that match the event as it is now and have not been applied.
Remaining == ToSet(MatchingRules(event)) \ ToSet(applied)

\* The loop of _process_rule_tree_multiple_times; a set has no order.
Again ==
    /\ phase = "applying" /\ todo = <<>>
    /\ mode = "multiple" /\ Remaining # {}
    /\ todo' \in SetToSeqs(Remaining)
    /\ UNCHANGED <<treeVars, mode, phase, event, applied>>

Finish ==
    /\ phase = "applying" /\ todo = <<>>
    /\ mode = "multiple" => Remaining = {}
    /\ phase' = "done"
    /\ UNCHANGED <<treeVars, mode, event, todo, applied>>

Next == \/ Load \/ LoadEnds \/ ApplyRule \/ Again \/ Finish
        \/ \E e \in Events : Process(e)

Spec == Init /\ [][Next]_vars

(***************************************************************************)
(* Properties.                                                             *)
(***************************************************************************)

\* The loaded tree decides like the filters its rules were given: for every
\* event it yields only rules whose filter the event matches, and, once the
\* configured tags are set, every one of them or its equal; a rule is left
\* out of the tree only for an AND or OR below two negations or an Always in
\* a compound (rule_parser.py:47-134, rule_tree.py:122-222).
MatchesLikeItsFilter ==
    phase = "ready" =>
        /\ \A e \in Events : OnlyMatching(e) /\ AllMatching(e)
        /\ \A r \in DOMAIN rules : Plain(rules[r].given) => rules[r].kept

\* A rule is applied to an event at most once, however many of its segments
\* match and however often the event is matched again; and with
\* apply_multiple_times no rule is left that the processed event matches and
\* that was not applied, nor its equal (processor.py:203-226).
AppliedOnce ==
    /\ \A i, j \in DOMAIN applied : applied[i] = applied[j] => i = j
    /\ phase = "done" /\ mode = "multiple" /\ TagsSet(event) =>
        \A r \in DOMAIN rules : rules[r].kept /\ Matches(rules[r].given, event) =>
            \E i \in DOMAIN applied : Equal(rules[r], rules[applied[i]])

\* The loop over this tree keeps the promise of RuleLoop, in which the tree
\* may answer anything: it goes through no rule twice at a time, and asks the
\* tree again only for rules it has not applied (processor.py:197-226).
RuleIds == 1 .. Len(Filters)
Loop == INSTANCE RuleLoop WITH Rules <- RuleIds
ImplementsRuleLoop == Loop!Spec
=============================================================================
