\* One Zone: edits, deletion, re-creation and faults against one reconciler.
CONSTANTS
    z1 = z1  z2 = z2  c1 = c1
    Zones <- MCZonesOne
    ClusterZones <- MCClusterZonesNone
    NSVals <- MCNSVals
    AttrVals <- MCAttrVals
    NoZone = NoZone
    MaxGen = 3
    MaxFaults = 2
SPECIFICATION Spec
INVARIANTS TypeOK StatusReflectsBackend
PROPERTIES DeletionCompletes
