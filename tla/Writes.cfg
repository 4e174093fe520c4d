CONSTANTS
    NotSimple <- MCNotSimple
    SystemTableAllowlist <- MCAllowlist
    Requests <- WriteRequests
    NoRequest = NoRequest
SPECIFICATION Spec
INVARIANTS
    Isolation
    Screened
    SIWritesGuarded
    AccessedComplete
    RefusalRevealsNoMap
    RefusalEchoesCaller
    SuccessKeepsClause
    DynamicNeverGoError
