CONSTANTS
    NotSimple <- MCNotSimple
    SystemTableAllowlist <- MCAllowlist
    Requests <- LifecycleRequests
    NoRequest = NoRequest
SPECIFICATION Spec
PROPERTIES
    CloseIsNoGoError
