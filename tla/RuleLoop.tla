------------------------------ MODULE RuleLoop ------------------------------
(***************************************************************************)
(* What the rule loop of a processor promises of any rule tree             *)
(* (logprep/abc/processor.py, logprep/ng/abc/processor.py), an abstract    *)
(* specification that RuleProcessor implements.  The tree may answer       *)
(* anything, as long as it names no rule twice: applying a rule may change *)
(* the event in any way, and with it the rules that match.                 *)
(***************************************************************************)
EXTENDS SequencesExt

CONSTANT Rules          \* the rules of the processor

VARIABLES
    mode,               \* once, multiple (apply_multiple_times) or bypass
    phase,              \* loading, ready, applying or done
    todo,               \* the rules still to go through
    applied             \* the rules applied to the event, in their order

loopVars == <<mode, phase, todo, applied>>

\* Sequences in which no rule occurs twice.
Orders == {s \in Seq(Rules) : IsInjective(s)}

Init ==
    /\ mode \in {"once", "multiple", "bypass"}
    /\ phase = "loading" /\ todo = <<>> /\ applied = <<>>

LoadEnds == phase = "loading" /\ phase' = "ready" /\ UNCHANGED <<mode, todo, applied>>

\* An event: the rules that match it, or, past the tree, all of them.
Process ==
    /\ phase \in {"ready", "done"} /\ phase' = "applying"
    /\ todo' \in Orders /\ applied' = <<>>
    /\ UNCHANGED mode

\* The next rule is applied, or, past the tree, does not match.
ApplyRule ==
    /\ phase = "applying" /\ todo # <<>>
    /\ todo' = Tail(todo)
    /\ \/ applied' = Append(applied, Head(todo))
       \/ mode = "bypass" /\ UNCHANGED applied
    /\ UNCHANGED <<mode, phase>>

\* Some rules match now that were not applied; they follow, in any order.
Again ==
    /\ phase = "applying" /\ todo = <<>> /\ mode = "multiple"
    /\ todo' \in Orders
    /\ todo' # <<>> /\ ToSet(todo') \cap ToSet(applied) = {}
    /\ UNCHANGED <<mode, phase, applied>>

Finish ==
    /\ phase = "applying" /\ todo = <<>>
    /\ phase' = "done"
    /\ UNCHANGED <<mode, todo, applied>>

Next == LoadEnds \/ Process \/ ApplyRule \/ Again \/ Finish

Spec == Init /\ [][Next]_loopVars

\* No rule is applied to an event twice, whatever the rules before it made of
\* the event and however often the tree was asked (processor.py:203-226).
EachRuleOnce == IsInjective(applied)
=============================================================================
