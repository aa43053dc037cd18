-------------------------- MODULE PowerDNSZoneProofs --------------------------
(***************************************************************************)
(* Proofs about the Zone/ClusterZone reconcilers of PowerDNSZone, for all  *)
(* object sets, value sets and bounds that satisfy ConstAssumption.        *)
(***************************************************************************)
EXTENDS PowerDNSZone, TLAPS

\* The placeholder spec of an absent object is a spec.
LEMMA NoSpecType == NoSpec \in ZoneSpec
<1>1. PICK n \in NSVals : TRUE
  BY ConstAssumption
<1>2. PICK a \in AttrVals : TRUE
  BY ConstAssumption
<1>3. [ns |-> n, attrs |-> a] \in ZoneSpec
  BY <1>1, <1>2 DEF ZoneSpec
<1>4. QED
  BY <1>3 DEF NoSpec

\* Removing an object leaves its object and status fields well typed.
LEMMA RemoveType ==
    ASSUME TypeOK, NEW o \in Objects, Remove(o)
    PROVE  /\ exists' \in [Objects -> BOOLEAN]
           /\ deleting' \in [Objects -> BOOLEAN]
           /\ gen' \in [Objects -> 1..MaxGen]
           /\ spec' \in [Objects -> ZoneSpec]
           /\ syncStatus' \in [Objects -> SyncStatuses]
           /\ obsGen' \in [Objects -> 0..MaxGen]
           /\ available' \in [Objects -> Conditions]
           /\ recent' \in [Objects -> BOOLEAN]
           /\ statusZone' \in [Objects -> ZoneSpec \cup {NoZone}]
BY NoSpecType, ConstAssumption DEF TypeOK, Remove, SyncStatuses, Conditions

\* A failed call keeps the fault counter within its bound.
LEMMA FaultType ==
    ASSUME TypeOK, Fault
    PROVE  faults' \in 0..MaxFaults
BY ConstAssumption DEF TypeOK, Fault

\* The condition left after the wrapper's strip is a condition.
LEMMA StrippedType ==
    ASSUME TypeOK, NEW o \in Objects
    PROVE  Stripped(o) \in Conditions
BY DEF TypeOK, Stripped, Conditions

\* Publishing or dropping a series keeps the registry well typed.
LEMMA SeriesType ==
    ASSUME TypeOK, NEW o \in Objects, PublishSeries(o) \/ DropSeries(o)
    PROVE  series' \in [Objects -> BOOLEAN]
BY DEF TypeOK, PublishSeries, DropSeries

\* The initial state is well typed.
LEMMA TypeInit == Init => TypeOK
BY NoSpecType, ConstAssumption
DEF Init, TypeOK, SyncStatuses, Conditions, Reasons

\* Every step of Next (user, controller, time, resync) keeps the types.
LEMMA TypeStep == TypeOK /\ [Next]_vars => TypeOK'
  <2> SUFFICES ASSUME TypeOK, [Next]_vars PROVE TypeOK'
    OBVIOUS
  <2> USE ConstAssumption DEF objVars, statusVars, ctrlVars
  <2>1. ASSUME NEW o \in Objects, CreateObject(o) PROVE TypeOK'
    BY <2>1 DEF CreateObject, TypeOK
  <2>2. ASSUME NEW o \in Objects, UpdateSpec(o) PROVE TypeOK'
    BY <2>2 DEF UpdateSpec, TypeOK
  <2>3. ASSUME NEW o \in Objects, DeleteObject(o) PROVE TypeOK'
    BY <2>3, RemoveType DEF DeleteObject, TypeOK
  <2>4. ASSUME NEW o \in Objects, ReconcileGone(o) PROVE TypeOK'
    BY <2>4 DEF ReconcileGone, TypeOK
  <2>5. ASSUME NEW o \in Objects, ReconcileDeleted(o) PROVE TypeOK'
    <3> DEFINE bk == IF finalizer[o] THEN NoZone ELSE backend
    <3>0. bk \in ZoneSpec \cup {NoZone}
      BY DEF TypeOK
    <3>1. CASE finalizer[o] /\ Fault
               /\ UNCHANGED <<objVars, statusVars, backend, queue, series>>
      BY <2>5, <3>1, FaultType DEF ReconcileDeleted, TypeOK
    <3>2. CASE Fault /\ backend' = bk /\ DropSeries(o)
               /\ UNCHANGED <<objVars, statusVars, queue>>
      BY <2>5, <3>0, <3>2, FaultType, SeriesType DEF ReconcileDeleted, TypeOK
    <3>3. CASE /\ backend' = bk
               /\ finalizer' = [finalizer EXCEPT ![o] = FALSE]
               /\ metricsFinalizer' = [metricsFinalizer EXCEPT ![o] = FALSE]
               /\ DropSeries(o)
               /\ Remove(o)
               /\ UNCHANGED <<queue, faults>>
      BY <2>5, <3>0, <3>3, RemoveType, SeriesType DEF ReconcileDeleted, TypeOK
    <3>4. QED
      BY <2>5, <3>1, <3>2, <3>3 DEF ReconcileDeleted, bk
  <2>6. ASSUME NEW o \in Objects, ReconcileStartFails(o) PROVE TypeOK'
    BY <2>6, FaultType, StrippedType DEF ReconcileStartFails, TypeOK
  <2>7. ASSUME NEW o \in Objects, ReconcileBackoff(o) PROVE TypeOK'
    BY <2>7, StrippedType, SeriesType
    DEF ReconcileBackoff, PrefixWrites, Finish, TypeOK
  <2>8. ASSUME NEW o \in Objects, ReconcileDuplicated(o) PROVE TypeOK'
    <3>1. CASE /\ Fault
               /\ available' = [available EXCEPT ![o] = Stripped(o)]
               /\ UNCHANGED <<syncStatus, obsGen, recent, statusZone, queue, series>>
      BY <2>8, <3>1, FaultType, StrippedType DEF ReconcileDuplicated, TypeOK
    <3>2. CASE /\ WriteStatus(o, Stripped(o), "Failed", gen[o], "ZoneDuplicated", NoZone)
               /\ PublishSeries(o)
               /\ Finish(o, \/ PrefixChanged(o)
                            \/ StatusChanged(o, Stripped(o), "Failed", gen[o],
                                             "ZoneDuplicated", NoZone))
               /\ UNCHANGED faults
      BY <2>8, <3>2, SeriesType DEF ReconcileDuplicated, WriteStatus, Finish,
                                   SyncStatuses, Conditions, Reasons, TypeOK
    <3>3. QED
      BY <2>8, <3>1, <3>2 DEF ReconcileDuplicated
  <2>9. ASSUME NEW o \in Objects, ReconcileProceed(o) PROVE TypeOK'
    BY <2>9, StrippedType DEF ReconcileProceed, PrefixWrites, Finish, TypeOK
  <2>10. ASSUME NEW o \in Objects, ZoneExternalResourcesReconcile(o) PROVE TypeOK'
    <3> USE <2>10 DEF ZoneExternalResourcesReconcile
    <3>1. zoneRes' \in [Objects -> ZoneSpec \cup {NoZone}]
      BY DEF TypeOK
    <3>2. result' \in [Objects -> Reasons]
      BY DEF TypeOK, Reasons
    <3>3. backend' \in ZoneSpec \cup {NoZone}
      BY DEF TypeOK, ZoneSpec
    <3>4. faults' \in 0..MaxFaults
      BY FaultType DEF TypeOK
    <3>5. QED
      BY <3>1, <3>2, <3>3, <3>4 DEF TypeOK
  <2>11. ASSUME NEW o \in Objects, PatchZoneStatus(o) PROVE TypeOK'
    <3>1. /\ snapGen' \in [Objects -> 1..MaxGen]
          /\ snapSpec' \in [Objects -> ZoneSpec]
          /\ zoneRes' \in [Objects -> ZoneSpec \cup {NoZone}]
          /\ result' \in [Objects -> Reasons]
          /\ pc' \in [Objects -> {"idle", "converge", "patch"}]
      BY <2>11, NoSpecType DEF PatchZoneStatus, ClearLocals, Reasons, TypeOK
    <3>2. /\ SyncOf(result[o]) \in SyncStatuses
          /\ snapGen[o] \in 0..MaxGen
          /\ result[o] \in Conditions
      BY DEF TypeOK, SyncOf, SyncStatuses, Conditions
    <3>3. CASE Fault /\ queue' = queue \cup {o} /\ UNCHANGED <<statusVars, series>>
      BY <2>11, <3>1, <3>3, FaultType DEF PatchZoneStatus, TypeOK
    <3>4. CASE /\ WriteStatus(o, available[o], SyncOf(result[o]), snapGen[o],
                              result[o], zoneRes[o])
               /\ PublishSeries(o)
               /\ queue' = IF StatusChanged(o, available[o], SyncOf(result[o]),
                                            snapGen[o], result[o], zoneRes[o])
                           THEN queue \cup {o} ELSE queue
               /\ UNCHANGED faults
      BY <2>11, <3>1, <3>2, <3>4, SeriesType
      DEF PatchZoneStatus, WriteStatus, TypeOK, SyncOf, SyncStatuses
    <3>5. QED
      BY <2>11, <3>3, <3>4 DEF PatchZoneStatus
  <2>12. ASSUME NEW o \in Objects, Tick(o) PROVE TypeOK'
    BY <2>12 DEF Tick, TypeOK
  <2>13. ASSUME NEW o \in Objects, TimerFires(o) PROVE TypeOK'
    BY <2>13 DEF TimerFires, TypeOK
  <2>14. CASE Resync
    BY <2>14 DEF Resync, TypeOK
  <2>15. CASE UNCHANGED vars
    BY <2>15 DEF vars, objVars, statusVars, ctrlVars, TypeOK
  <2>16. QED
    BY <2>1, <2>2, <2>3, <2>4, <2>5, <2>6, <2>7, <2>8, <2>9, <2>10, <2>11,
       <2>12, <2>13, <2>14, <2>15 DEF Next, User, Controller

\* The type invariant holds in every state: every handler writes values of
\* the declared sets (generations stay in 1..MaxGen, faults in 0..MaxFaults).
THEOREM TypeCorrect == Spec => []TypeOK
BY TypeInit, TypeStep, PTL DEF Spec
-----------------------------------------------------------------------------
(* The finalizer protocol.  BackendGuarded is not inductive by itself: a   *)
(* step of ZoneExternalResourcesReconcile creates the zone, and only the   *)
(* fact that a reconcile in progress holds the finalizer of a stored       *)
(* object (added by ReconcileProceed in the same step that starts it)      *)
(* shows that the new zone is guarded.                                     *)

FinalizerInv ==
    /\ \A o \in Objects : finalizer[o] => exists[o]
    /\ \A o \in Objects : pc[o] # "idle" => finalizer[o]

\* The inductive invariant (with TypeOK) behind BackendGuarded.
GuardInv == FinalizerInv /\ BackendGuarded

\* A controller that is idle is idle for each of its keys.
LEMMA IdleSelf ==
    ASSUME NEW o \in Objects, ControllerIdle(o)
    PROVE  pc[o] = "idle"
BY DEF ControllerIdle, Kind, Objects

\* No object and no zone at the start: the guard holds trivially.
LEMMA GuardInit == Init => GuardInv
BY DEF Init, GuardInv, FinalizerInv, BackendGuarded

\* Every step keeps the finalizer protocol and the guard of the zone.
LEMMA GuardStep == TypeOK /\ GuardInv /\ [Next]_vars => GuardInv'
<1> SUFFICES ASSUME TypeOK, GuardInv, [Next]_vars PROVE GuardInv'
  OBVIOUS
<1> USE DEF GuardInv, FinalizerInv, BackendGuarded, TypeOK,
            objVars, statusVars, ctrlVars
<1>1. ASSUME NEW o \in Objects, CreateObject(o) PROVE GuardInv'
  BY <1>1 DEF CreateObject
<1>2. ASSUME NEW o \in Objects, UpdateSpec(o) PROVE GuardInv'
  BY <1>2 DEF UpdateSpec
<1>3. ASSUME NEW o \in Objects, DeleteObject(o) PROVE GuardInv'
  BY <1>3 DEF DeleteObject, Remove
<1>4. ASSUME NEW o \in Objects, ReconcileGone(o) PROVE GuardInv'
  BY <1>4 DEF ReconcileGone
<1>5. ASSUME NEW o \in Objects, ReconcileDeleted(o) PROVE GuardInv'
  <2> DEFINE bk == IF finalizer[o] THEN NoZone ELSE backend
  <2>1. pc[o] = "idle"
    BY <1>5, IdleSelf DEF ReconcileDeleted
  <2>2. CASE finalizer[o] /\ Fault /\ UNCHANGED <<objVars, statusVars, backend, queue>>
    BY <1>5, <2>2 DEF ReconcileDeleted
  <2>3. CASE Fault /\ backend' = bk /\ UNCHANGED <<objVars, statusVars, queue>>
    BY <1>5, <2>3 DEF ReconcileDeleted
  <2>4. CASE /\ backend' = bk
             /\ finalizer' = [finalizer EXCEPT ![o] = FALSE]
             /\ metricsFinalizer' = [metricsFinalizer EXCEPT ![o] = FALSE]
             /\ Remove(o)
             /\ UNCHANGED <<queue, faults>>
    BY <1>5, <2>1, <2>4 DEF ReconcileDeleted, Remove
  <2>5. QED
    BY <1>5, <2>2, <2>3, <2>4 DEF ReconcileDeleted, bk
<1>6. ASSUME NEW o \in Objects, ReconcileStartFails(o) PROVE GuardInv'
  BY <1>6 DEF ReconcileStartFails
<1>7. ASSUME NEW o \in Objects, ReconcileBackoff(o) PROVE GuardInv'
  BY <1>7 DEF ReconcileBackoff, PrefixWrites, StartGuard
<1>8. ASSUME NEW o \in Objects, ReconcileDuplicated(o) PROVE GuardInv'
  BY <1>8 DEF ReconcileDuplicated, StartGuard
<1>9. ASSUME NEW o \in Objects, ReconcileProceed(o) PROVE GuardInv'
  BY <1>9 DEF ReconcileProceed, PrefixWrites, StartGuard
<1>10. ASSUME NEW o \in Objects, ZoneExternalResourcesReconcile(o) PROVE GuardInv'
  BY <1>10 DEF ZoneExternalResourcesReconcile
<1>11. ASSUME NEW o \in Objects, PatchZoneStatus(o) PROVE GuardInv'
  BY <1>11 DEF PatchZoneStatus
<1>12. ASSUME NEW o \in Objects, Tick(o) PROVE GuardInv'
  BY <1>12 DEF Tick
<1>13. ASSUME NEW o \in Objects, TimerFires(o) PROVE GuardInv'
  BY <1>13 DEF TimerFires
<1>14. CASE Resync
  BY <1>14 DEF Resync
<1>15. CASE UNCHANGED vars
  BY <1>15 DEF vars
<1>16. QED
  BY <1>1, <1>2, <1>3, <1>4, <1>5, <1>6, <1>7, <1>8, <1>9, <1>10, <1>11,
     <1>12, <1>13, <1>14, <1>15 DEF Next, User, Controller

\* The invariant of the finalizer protocol holds in every state.
LEMMA GuardAlways == Spec => [](TypeOK /\ GuardInv)
BY TypeInit, GuardInit, TypeStep, GuardStep, PTL DEF Spec

\* No orphan zone in PowerDNS, for every instance: whenever PowerDNS holds
\* the zone, a stored object carries the resources finalizer, so the
\* deletion branch of zoneReconcile will delete it.
THEOREM BackendGuardedHolds == Spec => []BackendGuarded
<1>1. Init => TypeOK /\ GuardInv
  BY TypeInit, GuardInit
<1>2. TypeOK /\ GuardInv /\ [Next]_vars => TypeOK' /\ GuardInv'
  BY TypeStep, GuardStep
<1>3. TypeOK /\ GuardInv => BackendGuarded
  BY DEF GuardInv
<1>4. QED
  BY <1>1, <1>2, <1>3, PTL DEF Spec
-----------------------------------------------------------------------------
(* Metric parity.  MetricParity is not inductive by itself: the deletion   *)
(* branch drops the series only of an object that holds the metrics        *)
(* finalizer, and a reconcile in progress publishes one when it patches    *)
(* the status.  So the strengthening says that the metrics finalizer is    *)
(* only on stored objects, is held during every reconcile in progress      *)
(* (the wrapper adds it first) and by every object with a series.          *)

MetricsInv ==
    /\ \A o \in Objects : metricsFinalizer[o] => exists[o]
    /\ \A o \in Objects : pc[o] # "idle" => metricsFinalizer[o]
    /\ \A o \in Objects : series[o] => metricsFinalizer[o]

\* No object and no series at the start.
LEMMA MetricsInit == Init => MetricsInv
BY DEF Init, MetricsInv

\* Every step keeps the metrics finalizer ahead of the series.
LEMMA MetricsStep == TypeOK /\ MetricsInv /\ [Next]_vars => MetricsInv'
<1> SUFFICES ASSUME TypeOK, MetricsInv, [Next]_vars PROVE MetricsInv'
  OBVIOUS
<1> USE DEF MetricsInv, TypeOK, objVars, statusVars, ctrlVars
<1>1. ASSUME NEW o \in Objects, CreateObject(o) PROVE MetricsInv'
  BY <1>1 DEF CreateObject
<1>2. ASSUME NEW o \in Objects, UpdateSpec(o) PROVE MetricsInv'
  BY <1>2 DEF UpdateSpec
<1>3. ASSUME NEW o \in Objects, DeleteObject(o) PROVE MetricsInv'
  BY <1>3 DEF DeleteObject, Remove
<1>4. ASSUME NEW o \in Objects, ReconcileGone(o) PROVE MetricsInv'
  BY <1>4 DEF ReconcileGone
<1>5. ASSUME NEW o \in Objects, ReconcileDeleted(o) PROVE MetricsInv'
  <2> DEFINE bk == IF finalizer[o] THEN NoZone ELSE backend
  <2>1. pc[o] = "idle"
    BY <1>5, IdleSelf DEF ReconcileDeleted
  <2>2. CASE finalizer[o] /\ Fault
             /\ UNCHANGED <<objVars, statusVars, backend, queue, series>>
    BY <1>5, <2>2 DEF ReconcileDeleted
  <2>3. CASE Fault /\ backend' = bk /\ DropSeries(o)
             /\ UNCHANGED <<objVars, statusVars, queue>>
    BY <1>5, <2>3 DEF ReconcileDeleted, DropSeries
  <2>4. CASE /\ backend' = bk
             /\ finalizer' = [finalizer EXCEPT ![o] = FALSE]
             /\ metricsFinalizer' = [metricsFinalizer EXCEPT ![o] = FALSE]
             /\ DropSeries(o)
             /\ Remove(o)
             /\ UNCHANGED <<queue, faults>>
    BY <1>5, <2>1, <2>4 DEF ReconcileDeleted, DropSeries, Remove
  <2>5. QED
    BY <1>5, <2>2, <2>3, <2>4 DEF ReconcileDeleted, bk
<1>6. ASSUME NEW o \in Objects, ReconcileStartFails(o) PROVE MetricsInv'
  BY <1>6 DEF ReconcileStartFails, StartGuard
<1>7. ASSUME NEW o \in Objects, ReconcileBackoff(o) PROVE MetricsInv'
  BY <1>7 DEF ReconcileBackoff, PrefixWrites, PublishSeries, StartGuard
<1>8. ASSUME NEW o \in Objects, ReconcileDuplicated(o) PROVE MetricsInv'
  BY <1>8 DEF ReconcileDuplicated, PublishSeries, StartGuard
<1>9. ASSUME NEW o \in Objects, ReconcileProceed(o) PROVE MetricsInv'
  BY <1>9 DEF ReconcileProceed, PrefixWrites, StartGuard
<1>10. ASSUME NEW o \in Objects, ZoneExternalResourcesReconcile(o) PROVE MetricsInv'
  BY <1>10 DEF ZoneExternalResourcesReconcile
<1>11. ASSUME NEW o \in Objects, PatchZoneStatus(o) PROVE MetricsInv'
  BY <1>11 DEF PatchZoneStatus, PublishSeries
<1>12. ASSUME NEW o \in Objects, Tick(o) PROVE MetricsInv'
  BY <1>12 DEF Tick
<1>13. ASSUME NEW o \in Objects, TimerFires(o) PROVE MetricsInv'
  BY <1>13 DEF TimerFires
<1>14. CASE Resync
  BY <1>14 DEF Resync
<1>15. CASE UNCHANGED vars
  BY <1>15 DEF vars
<1>16. QED
  BY <1>1, <1>2, <1>3, <1>4, <1>5, <1>6, <1>7, <1>8, <1>9, <1>10, <1>11,
     <1>12, <1>13, <1>14, <1>15 DEF Next, User, Controller

\* Metric parity for every instance: the zones_status series of an object
\* the API server has dropped is never left in the registry, because
\* removeZonesMetrics runs in the deletion branch before the Update that
\* releases the metrics finalizer the wrapper added before any publication.
THEOREM MetricParityHolds == Spec => []MetricParity
<1>1. Init => TypeOK /\ MetricsInv
  BY TypeInit, MetricsInit
<1>2. TypeOK /\ MetricsInv /\ [Next]_vars => TypeOK' /\ MetricsInv'
  BY TypeStep, MetricsStep
<1>3. TypeOK /\ MetricsInv => MetricParity
  BY DEF MetricsInv, MetricParity
<1>4. QED
  BY <1>1, <1>2, <1>3, PTL DEF Spec
-----------------------------------------------------------------------------
(* Status and backend for one object.  StatusReflectsBackend concerns an  *)
(* object at rest, but the fact it rests on is made and used while a       *)
(* reconcile is in flight: the spec the reconcile read is the current one *)
(* while the generation is unchanged, a ZoneSynced result means PowerDNS   *)
(* holds that spec, and a Succeeded status of the current generation stays *)
(* true while the reconcile runs (a converged zone is not patched).  The   *)
(* last two are false for two objects of one FQDN, whose reconciles write *)
(* the same PowerDNS zone (finding 1), so the theorem is for one object.   *)

\* Facts that hold for any number of objects.
SnapInv ==
    /\ \A o \in Objects : obsGen[o] <= gen[o]
    /\ \A o \in Objects : ~exists[o] => syncStatus[o] = "none"
    /\ \A o \in Objects :
          pc[o] # "idle" =>
              /\ obsGen[o] <= snapGen[o] /\ snapGen[o] <= gen[o]
              /\ snapGen[o] = gen[o] => snapSpec[o] = spec[o]

\* Facts about the one PowerDNS zone that hold while object o alone writes
\* it: a ZoneSynced result means PowerDNS holds the spec the reconcile read,
\* and a Succeeded status of the current generation means PowerDNS holds
\* the current spec, at rest or not.
SyncedAt(o) ==
    /\ pc[o] = "patch" /\ result[o] = "ZoneSynced" => backend = snapSpec[o]
    /\ Live(o) /\ syncStatus[o] = "Succeeded" /\ obsGen[o] = gen[o]
           => backend = spec[o]

SyncedInv == \A o \in Objects : SyncedAt(o)

\* The inductive invariant behind StatusReflectsBackend for one object.
StatusInv == FinalizerInv /\ SnapInv /\ SyncedInv

\* At the start nothing is stored and no reconcile runs.
LEMMA SnapInit == Init => SnapInv
BY ConstAssumption DEF Init, SnapInv

\* Every step keeps the generations a reconcile read and wrote in order.
LEMMA SnapStep == TypeOK /\ FinalizerInv /\ SnapInv /\ [Next]_vars => SnapInv'
<1> SUFFICES ASSUME TypeOK, FinalizerInv, SnapInv, [Next]_vars PROVE SnapInv'
  OBVIOUS
<1> USE ConstAssumption DEF SnapInv, FinalizerInv, TypeOK,
                            objVars, statusVars, ctrlVars
<1>1. ASSUME NEW o \in Objects, CreateObject(o) PROVE SnapInv'
  BY <1>1 DEF CreateObject
<1>2. ASSUME NEW o \in Objects, UpdateSpec(o) PROVE SnapInv'
  BY <1>2 DEF UpdateSpec
<1>3. ASSUME NEW o \in Objects, DeleteObject(o) PROVE SnapInv'
  BY <1>3 DEF DeleteObject, Remove
<1>4. ASSUME NEW o \in Objects, ReconcileGone(o) PROVE SnapInv'
  BY <1>4 DEF ReconcileGone
<1>5. ASSUME NEW o \in Objects, ReconcileDeleted(o) PROVE SnapInv'
  <2>1. pc[o] = "idle"
    BY <1>5, IdleSelf DEF ReconcileDeleted
  <2>2. QED
    BY <1>5, <2>1 DEF ReconcileDeleted, Remove
<1>6. ASSUME NEW o \in Objects, ReconcileStartFails(o) PROVE SnapInv'
  BY <1>6 DEF ReconcileStartFails
<1>7. ASSUME NEW o \in Objects, ReconcileBackoff(o) PROVE SnapInv'
  BY <1>7 DEF ReconcileBackoff, PrefixWrites
<1>8. ASSUME NEW o \in Objects, ReconcileDuplicated(o) PROVE SnapInv'
  <2>1. pc[o] = "idle" /\ exists[o]
    BY <1>8, IdleSelf DEF ReconcileDuplicated, StartGuard
  <2>2. CASE UNCHANGED <<syncStatus, obsGen>>
    BY <1>8, <2>2 DEF ReconcileDuplicated
  <2>3. CASE WriteStatus(o, Stripped(o), "Failed", gen[o], "ZoneDuplicated", NoZone)
    BY <1>8, <2>1, <2>3 DEF ReconcileDuplicated, WriteStatus
  <2>4. QED
    BY <1>8, <2>2, <2>3 DEF ReconcileDuplicated
<1>9. ASSUME NEW o \in Objects, ReconcileProceed(o) PROVE SnapInv'
  <2>1. obsGen[o] <= gen[o]
    OBVIOUS
  <2>2. QED
    BY <1>9, <2>1 DEF ReconcileProceed, PrefixWrites
<1>10. ASSUME NEW o \in Objects, ZoneExternalResourcesReconcile(o) PROVE SnapInv'
  BY <1>10 DEF ZoneExternalResourcesReconcile
<1>11. ASSUME NEW o \in Objects, PatchZoneStatus(o) PROVE SnapInv'
  <2>1. exists[o] /\ obsGen[o] <= snapGen[o] /\ snapGen[o] <= gen[o]
    BY <1>11 DEF PatchZoneStatus
  <2>2. QED
    BY <1>11, <2>1 DEF PatchZoneStatus, WriteStatus, ClearLocals
<1>12. ASSUME NEW o \in Objects, Tick(o) PROVE SnapInv'
  BY <1>12 DEF Tick
<1>13. ASSUME NEW o \in Objects, TimerFires(o) PROVE SnapInv'
  BY <1>13 DEF TimerFires
<1>14. CASE Resync
  BY <1>14 DEF Resync
<1>15. CASE UNCHANGED vars
  BY <1>15 DEF vars
<1>16. QED
  BY <1>1, <1>2, <1>3, <1>4, <1>5, <1>6, <1>7, <1>8, <1>9, <1>10, <1>11,
     <1>12, <1>13, <1>14, <1>15 DEF Next, User, Controller

\* With one object, every step keeps PowerDNS in line with what its
\* reconcile and its status say.
LEMMA SyncedStep ==
    ASSUME NEW z \in Objects, Objects = {z},
           TypeOK, FinalizerInv, SnapInv, SyncedAt(z), [Next]_vars
    PROVE  SyncedAt(z)'
<1> USE DEF TypeOK, objVars, statusVars, ctrlVars
<1>0. /\ finalizer[z] => exists[z]
      /\ pc[z] # "idle" => finalizer[z]
      /\ obsGen[z] <= gen[z]
      /\ ~exists[z] => syncStatus[z] = "none"
      /\ pc[z] # "idle" => obsGen[z] <= snapGen[z]
      /\ pc[z] # "idle" => snapGen[z] <= gen[z]
      /\ pc[z] # "idle" => (snapGen[z] = gen[z] => snapSpec[z] = spec[z])
  BY DEF FinalizerInv, SnapInv
<1>1. ASSUME NEW o \in Objects, CreateObject(o) PROVE SyncedAt(z)'
  BY <1>0, <1>1 DEF CreateObject, SyncedAt, Live
<1>2. ASSUME NEW o \in Objects, UpdateSpec(o) PROVE SyncedAt(z)'
  BY <1>0, <1>2, ConstAssumption DEF UpdateSpec, SyncedAt, Live
<1>3. ASSUME NEW o \in Objects, DeleteObject(o) PROVE SyncedAt(z)'
  BY <1>3 DEF DeleteObject, Remove, SyncedAt, Live
<1>4. ASSUME NEW o \in Objects, ReconcileGone(o) PROVE SyncedAt(z)'
  BY <1>4 DEF ReconcileGone, SyncedAt, Live
<1>5. ASSUME NEW o \in Objects, ReconcileDeleted(o) PROVE SyncedAt(z)'
  <2>1. pc[z] = "idle" /\ deleting[z]
    BY <1>5, IdleSelf DEF ReconcileDeleted
  <2>2. QED
    BY <1>5, <2>1 DEF ReconcileDeleted, Remove, SyncedAt, Live
<1>6. ASSUME NEW o \in Objects, ReconcileStartFails(o) PROVE SyncedAt(z)'
  BY <1>6 DEF ReconcileStartFails, SyncedAt, Live
<1>7. ASSUME NEW o \in Objects, ReconcileBackoff(o) PROVE SyncedAt(z)'
  BY <1>7 DEF ReconcileBackoff, PrefixWrites, SyncedAt, Live
<1>8. ASSUME NEW o \in Objects, ReconcileDuplicated(o) PROVE SyncedAt(z)'
  <2>1. pc[z] = "idle"
    BY <1>8, IdleSelf DEF ReconcileDuplicated, StartGuard
  <2>2. CASE UNCHANGED <<syncStatus, obsGen>>
    BY <1>8, <2>1, <2>2 DEF ReconcileDuplicated, SyncedAt, Live
  <2>3. CASE WriteStatus(o, Stripped(o), "Failed", gen[o], "ZoneDuplicated", NoZone)
    BY <1>8, <2>1, <2>3 DEF ReconcileDuplicated, WriteStatus, SyncedAt, Live
  <2>4. QED
    BY <1>8, <2>2, <2>3 DEF ReconcileDuplicated
<1>9. ASSUME NEW o \in Objects, ReconcileProceed(o) PROVE SyncedAt(z)'
  BY <1>9 DEF ReconcileProceed, PrefixWrites, SyncedAt, Live
<1>10. ASSUME NEW o \in Objects, ZoneExternalResourcesReconcile(o) PROVE SyncedAt(z)'
  <2>1. o = z /\ pc[z] = "converge"
    BY <1>10 DEF ZoneExternalResourcesReconcile
  <2>2. result'[z] = "ZoneSynced" => backend' = snapSpec'[z]
    BY <1>10, <2>1 DEF ZoneExternalResourcesReconcile, ZoneSpec
  <2>3. Live(z) /\ syncStatus[z] = "Succeeded" /\ obsGen[z] = gen[z]
          => backend' = spec[z]
    <3>0. obsGen[z] \in Nat /\ snapGen[z] \in Nat /\ gen[z] \in Nat
      BY ConstAssumption
    <3>1. obsGen[z] = gen[z] => snapGen[z] = gen[z]
      BY <1>0, <2>1, <3>0
    <3>2. Live(z) /\ syncStatus[z] = "Succeeded" /\ obsGen[z] = gen[z]
            => snapSpec[z] = spec[z] /\ backend = spec[z]
      BY <1>0, <2>1, <3>1 DEF SyncedAt
    <3>3. backend = spec[z] => backend # NoZone
      BY ConstAssumption
    <3>4. QED
      BY <1>10, <2>1, <3>2, <3>3 DEF ZoneExternalResourcesReconcile, ZoneSpec
  <2>4. QED
    BY <1>10, <2>1, <2>2, <2>3 DEF ZoneExternalResourcesReconcile, SyncedAt, Live
<1>11. ASSUME NEW o \in Objects, PatchZoneStatus(o) PROVE SyncedAt(z)'
  <2> USE <1>11 DEF PatchZoneStatus
  <2>1. o = z /\ pc[z] = "patch"
    OBVIOUS
  <2>2. CASE UNCHANGED statusVars
    BY <2>1, <2>2 DEF ClearLocals, SyncedAt, Live
  <2>3. CASE WriteStatus(o, available[o], SyncOf(result[o]), snapGen[o],
                        result[o], zoneRes[o])
    <3>1. SUFFICES ASSUME Live(z)', syncStatus'[z] = "Succeeded",
                          obsGen'[z] = gen'[z]
                   PROVE  backend' = spec'[z]
      BY <2>1 DEF ClearLocals, SyncedAt
    <3>2. result[z] = "ZoneSynced" /\ snapGen[z] = gen[z]
      BY <2>1, <2>3, <3>1 DEF WriteStatus, SyncOf
    <3>3. QED
      BY <1>0, <2>1, <3>2 DEF SyncedAt
  <2>4. QED
    BY <2>2, <2>3
<1>12. ASSUME NEW o \in Objects, Tick(o) PROVE SyncedAt(z)'
  BY <1>12 DEF Tick, SyncedAt, Live
<1>13. ASSUME NEW o \in Objects, TimerFires(o) PROVE SyncedAt(z)'
  BY <1>13 DEF TimerFires, SyncedAt, Live
<1>14. CASE Resync
  BY <1>14 DEF Resync, SyncedAt, Live
<1>15. CASE UNCHANGED vars
  BY <1>15 DEF vars, SyncedAt, Live
<1>16. QED
  BY <1>1, <1>2, <1>3, <1>4, <1>5, <1>6, <1>7, <1>8, <1>9, <1>10, <1>11,
     <1>12, <1>13, <1>14, <1>15 DEF Next, User, Controller

\* At the start no reconcile runs and no status is Succeeded.
LEMMA SyncedInit == ASSUME NEW o \in Objects PROVE Init => SyncedAt(o)
BY DEF Init, SyncedAt

\* A Zone that is alone with its FQDN and reports Succeeded for its current
\* generation at rest has its spec in PowerDNS: zoneReconcile writes
\* ZoneSynced only after its create or patch calls all succeeded, records
\* the generation it read, and an edit during the reconcile leaves the
\* status one generation behind.  The hypothesis Objects = {z} is needed:
\* with a second object of the name the property fails (finding 1).
THEOREM StatusReflectsBackendHolds ==
    ASSUME NEW z \in Objects, Objects = {z}
    PROVE  Spec => []StatusReflectsBackend
<1> DEFINE IInv == TypeOK /\ GuardInv /\ SnapInv /\ SyncedAt(z)
<1>1. Init => IInv
  BY TypeInit, GuardInit, SnapInit, SyncedInit
<1>2. IInv /\ [Next]_vars => IInv'
  <2> SUFFICES ASSUME IInv, [Next]_vars PROVE IInv'
    OBVIOUS
  <2>1. TypeOK' /\ GuardInv'
    BY TypeStep, GuardStep
  <2>2. SnapInv'
    BY SnapStep DEF GuardInv
  <2>3. SyncedAt(z)'
    BY SyncedStep DEF GuardInv
  <2>4. QED
    BY <2>1, <2>2, <2>3
<1>3. IInv => StatusReflectsBackend
  BY DEF StatusReflectsBackend, SyncedAt
<1>4. QED
  BY <1>1, <1>2, <1>3, PTL DEF Spec

-----------------------------------------------------------------------------
(* The order of the finalizer Update and Zones.Add.                        *)

\* Only ZoneExternalResourcesReconcile puts a zone into PowerDNS.
LEMMA CreateStep ==
    ASSUME TypeOK, GuardInv, [Next]_vars, backend = NoZone, backend' # NoZone
    PROVE  \E o \in Objects : /\ pc[o] = "converge" /\ pc'[o] = "patch"
                             /\ exists[o] /\ finalizer[o]
<1> USE DEF objVars, statusVars, ctrlVars
<1>1. ASSUME NEW o \in Objects, ZoneExternalResourcesReconcile(o)
      PROVE  \E x \in Objects : /\ pc[x] = "converge" /\ pc'[x] = "patch"
                               /\ exists[x] /\ finalizer[x]
  <2>1. pc[o] = "converge" /\ pc'[o] = "patch"
    BY <1>1 DEF ZoneExternalResourcesReconcile, TypeOK
  <2>2. exists[o] /\ finalizer[o]
    BY <2>1 DEF GuardInv, FinalizerInv
  <2>3. QED
    BY <2>1, <2>2
<1>2. ASSUME NEW o \in Objects, ReconcileDeleted(o) PROVE FALSE
  BY <1>2 DEF ReconcileDeleted
<1>3. ASSUME NEW o \in Objects,
             \/ User(o) \/ ReconcileGone(o) \/ ReconcileStartFails(o)
             \/ ReconcileBackoff(o) \/ ReconcileDuplicated(o)
             \/ ReconcileProceed(o) \/ PatchZoneStatus(o)
             \/ Tick(o) \/ TimerFires(o)
      PROVE  FALSE
  BY <1>3 DEF User, CreateObject, UpdateSpec, DeleteObject, ReconcileGone,
              ReconcileStartFails, ReconcileBackoff, ReconcileDuplicated,
              ReconcileProceed, PatchZoneStatus, Tick, TimerFires
<1>4. ~Resync /\ ~UNCHANGED vars
  BY DEF Resync, vars
<1>5. QED
  BY <1>1, <1>2, <1>3, <1>4 DEF Next, Controller

\* The step that creates the zone in PowerDNS is a reconcile of a stored
\* object that already holds the resources finalizer: zoneReconcile's
\* Update of the finalizer comes before Zones.Add, in every instance.
THEOREM ZoneCreatedUnderFinalizerHolds == Spec => ZoneCreatedUnderFinalizer
<1>1. TypeOK /\ GuardInv /\ [Next]_vars
        => [backend = NoZone /\ backend' # NoZone =>
              \E o \in Objects : /\ pc[o] = "converge" /\ pc'[o] = "patch"
                                /\ exists[o] /\ finalizer[o]]_vars
  BY CreateStep
<1>2. QED
  BY <1>1, GuardAlways, PTL DEF Spec, ZoneCreatedUnderFinalizer
=============================================================================
