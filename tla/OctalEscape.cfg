SPECIFICATION Spec
CONSTANTS
    LongMax = 99
    Dumped <- MCDumped
    Parsed <- MCParsed
    Letter <- MCLetter
    Keywords <- MCKeywords
    Typedef <- MCTypedef
INVARIANTS OctalEscapesRead
