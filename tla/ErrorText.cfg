SPECIFICATION Spec
CHECK_DEADLOCK FALSE
CONSTANTS
    MaxLength = 4
    Texts <- ShortTexts
    Positions <- SomePositions
    PhraseLength = 3
    Errors <- SomeErrors
    LogicalDatabases <- Tenants
    OriginTables <- TenantTables
    Arguments <- NameArguments
INVARIANTS
    PositionsFaithful
    NamesComeBack
    NoHiddenNameLeft
PROPERTIES
    PrefixPositionsKept
    TenantsApart
