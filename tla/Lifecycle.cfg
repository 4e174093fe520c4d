CONSTANTS
    NotSimple <- MCNotSimple
    SystemTableAllowlist <- MCAllowlist
    Requests <- LifecycleRequests
    NoRequest = NoRequest
SPECIFICATION Spec
INVARIANTS
    TypeOK
PROPERTIES
    CallAfterClose
    ImplementsContract
