\* The server goes down and comes back within 4 minutes.
CONSTANTS
    KeyRefs <- MCKeyRefsDefault
    CARefs <- MCCARefsNone
    ProxyRefs <- MCProxyRefsNone
    IntervalRefs <- MCIntervals
    SecretVals <- MCSecretValsSet
    CAVals <- MCCAValsOne
    ServerVals <- MCServerValsToggle
    MaxGen = 1
    MaxFaults = 0
    MaxEnvChanges = 2
SPECIFICATION Spec
PROPERTY LastConnectionOnTransition
CHECK_DEADLOCK FALSE
