\* A second failed PowerDNS call in a row is not retried.
CONSTANTS
    z1 = z1  z2 = z2  c1 = c1
    Zones <- MCZonesOne
    ClusterZones <- MCClusterZonesNone
    NSVals <- MCNSVals
    AttrVals <- MCAttrVals
    NoZone = NoZone
    MaxGen = 1
    MaxFaults = 2
SPECIFICATION Spec
INVARIANT RetryScheduled
