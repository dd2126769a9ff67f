SPECIFICATION Spec
CONSTANTS
    Sizes <- LP64
    PointerSize = 8
    Asked <- MCAsked
    Names <- MCNames
    MaxCalls = 3
INVARIANTS
    TypeOK
    CountsExact
    OnlyKnownFaults
    AnswersAgree
    SameTypeExact
    AliasesTransparent
    IncompleteExact
PROPERTIES
    ImplementsInterner
