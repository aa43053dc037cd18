\* All combinations of reference, Cluster, secret, CA file and legacy client.
CONSTANTS
    ClusterRefs <- MCClusterRefs
    ClusterVals <- ClusterSpecs
    SecretVals <- MCSecretVals
    CAFileVals <- MCCAFileVals
    LegacyVals <- MCLegacyVals
SPECIFICATION Spec
INVARIANT ResolverMatchesSpec
