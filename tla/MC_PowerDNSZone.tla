--------------------------- MODULE MC_PowerDNSZone ---------------------------
(* Instances of PowerDNSZone for TLC.                                      *)
EXTENDS PowerDNSZone, TLC

CONSTANTS z1, z2, c1   \* object names, model values

\* Two Zones in different namespaces.
MCZonesPair == {z1, z2}
\* A single Zone.
MCZonesOne == {z1}
\* A ClusterZone of the same name.
MCClusterZonesOne == {c1}
MCClusterZonesNone == {}
MCNSVals == {"n1", "n2"}
MCAttrVals == {"a1", "a2"}
\* One nameserver list: specs differ in their attributes only.
MCNSValsOne == {"n1"}
\* The two Zones are interchangeable: the code compares them only by
\* identity (index lists, queue keys).
MCZoneSymmetry == Permutations(MCZonesPair)
=============================================================================
