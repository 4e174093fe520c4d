SPECIFICATION Spec
CHECK_DEADLOCK FALSE
CONSTANTS
    Wrote <- MCWrote
    Fragments <- MCFragments
    Actions <- MCActions
    Names <- MCNames
    MaxActions = 2
    MaxItems = 1
    Alphabet <- Bytes
    MaxDepth = 1
    MaxLength = 5
    MaxTokens = 5
    Operands <- MCOperands
    Infix <- MCInfix
    Levels <- MCLevels
    PolyglotLevels <- MCPolyglotLevels
    Verbatim <- MCVerbatim
    MaxOperators = 3
    MaxForms = 1
INVARIANTS
    CommandsRead
    OpaqueJudged
    GuardExact
    ParseMeasured
    RespellingJudged
