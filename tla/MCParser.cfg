SPECIFICATION Spec
CONSTANTS
    Inputs <- MCInputs
    MaxLength = 5
INVARIANTS
    TypeOK
    StackNeverRunsOut
    RulesAreBounded
    NoEmptyText
    RulesFitTokens
PROPERTIES
    ImplementsGrammar
