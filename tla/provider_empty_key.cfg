\* A credentials secret whose key is empty.
CONSTANTS
    KeyRefs <- MCKeyRefsDefault
    CARefs <- MCCARefsNone
    ProxyRefs <- MCProxyRefsNone
    IntervalRefs <- MCIntervals
    SecretVals <- MCSecretValsEmpty
    CAVals <- MCCAValsOne
    ServerVals <- MCServerValsUp
    MaxGen = 1
    MaxFaults = 0
    MaxEnvChanges = 0
SPECIFICATION Spec
INVARIANT EmptyKeyIsSecretNotFound
CHECK_DEADLOCK FALSE
