CONSTANTS
    NotSimple <- MCNotSimple
    SystemTableAllowlist <- MCAllowlist
    Requests <- TwinRequests
    NoRequest = NoRequest
SPECIFICATION Spec
INVARIANTS
    RewriteMapByIdentity
