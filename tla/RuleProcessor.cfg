SPECIFICATION Spec
CONSTANTS
    Keys <- MCKeys
    Expressions <- MCExpressions
    Height <- MCHeight
    Filters <- MCFilters
    RuleConfigs = {c}
    TreeConfigs <- MCTreeConfigs
INVARIANTS
    MatchesLikeItsFilter
    AppliedOnce
PROPERTY
    ImplementsRuleLoop
