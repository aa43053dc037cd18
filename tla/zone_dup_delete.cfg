\* Deleting the duplicate deletes the zone of the Succeeded original.
CONSTANTS
    z1 = z1  z2 = z2  c1 = c1
    Zones <- MCZonesOne
    ClusterZones <- MCClusterZonesOne
    NSVals <- MCNSValsOne
    AttrVals <- MCAttrVals
    NoZone = NoZone
    MaxGen = 1
    MaxFaults = 0
SPECIFICATION Spec
INVARIANT SucceededHasBackend
