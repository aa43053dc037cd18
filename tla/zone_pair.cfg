\* Two Zones of one FQDN in different namespaces, one controller.
CONSTANTS
    z1 = z1  z2 = z2  c1 = c1
    Zones <- MCZonesPair
    ClusterZones <- MCClusterZonesNone
    NSVals <- MCNSValsOne
    AttrVals <- MCAttrVals
    NoZone = NoZone
    MaxGen = 2
    MaxFaults = 1
SYMMETRY MCZoneSymmetry
SPECIFICATION Spec
INVARIANT BackendGuarded
PROPERTY ZoneCreatedUnderFinalizer
