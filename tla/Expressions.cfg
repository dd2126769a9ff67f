SPECIFICATION Spec
CONSTANTS
    Programs <- MCPrograms
    TypeRefs <- MCTypeRefs
    Names <- MCNames
    Declared <- MCDeclared
    Alias <- MCAlias
    Members <- MCMembers
    Converted <- MCConverted
    MaxCalls = 4
INVARIANTS
    TypeOK
    CountsExact
    OnlyKnownFaults
    PlacesExact
