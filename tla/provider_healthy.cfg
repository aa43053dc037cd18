\* A PowerDNS server that reports no daemon type.
CONSTANTS
    KeyRefs <- MCKeyRefsDefault
    CARefs <- MCCARefsNone
    ProxyRefs <- MCProxyRefsNone
    IntervalRefs <- MCIntervals
    SecretVals <- MCSecretValsSet
    CAVals <- MCCAValsOne
    ServerVals <- MCServerValsNoDaemon
    MaxGen = 1
    MaxFaults = 0
    MaxEnvChanges = 0
SPECIFICATION Spec
INVARIANT HealthyIsAuthoritative
CHECK_DEADLOCK FALSE
