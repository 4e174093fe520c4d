CONSTANTS
    NotSimple <- MCNotSimple
    SystemTableAllowlist <- MCAllowlist
    Requests <- ReadAndCommandRequests
    NoRequest = NoRequest
SPECIFICATION Spec
INVARIANTS
    Isolation
    SystemTablesRefused
    ContractAcknowledged
    AccessedComplete
    SICommandsGuarded
    DatabaseCommandsIsolated
    UseAgreesWithResolution
    GrantConfined
