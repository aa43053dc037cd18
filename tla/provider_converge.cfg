\* One provider, changing spec and environment, one failed write. Once it is
\* deleted nothing is left to do (its name is not reused): no deadlock check.
CONSTANTS
    KeyRefs <- MCKeyRefs
    CARefs <- MCCARefs
    ProxyRefs <- MCProxyRefs
    IntervalRefs <- MCIntervals
    SecretVals <- MCSecretVals
    CAVals <- MCCAVals
    ServerVals <- MCServerVals
    MaxGen = 2
    MaxFaults = 1
    MaxEnvChanges = 1
SPECIFICATION Spec
INVARIANT TypeOK
PROPERTIES Converges HealthSpec
CHECK_DEADLOCK FALSE
