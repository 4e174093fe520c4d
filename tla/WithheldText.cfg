CONSTANTS
    q1 = q1
    q2 = q2
    q3 = q3
    t1 = t1
    t2 = t2
    u1 = u1
    u2 = u2
    u3 = u3
    g1 = g1
    NoCall = NoCall
    Clients <- MCClients
    Calls <- MCCalls
    DynamicCalls <- MCDynamic
    Names <- MCNames
    Mapped <- MCMapped
    Hidden <- MCHidden
SPECIFICATION Spec
INVARIANT FailedForwardPassesThrough
