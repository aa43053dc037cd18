------------------------------ MODULE PowerDNSZone ------------------------------
(***************************************************************************)
(* The Zone and ClusterZone reconcilers of the PowerDNS operator, for the  *)
(* objects that name one FQDN.                                             *)
(*                                                                         *)
(* Zones and ClusterZones are Kubernetes objects whose name is the FQDN of *)
(* the zone they declare; they share one reconcile function, zoneReconcile *)
(* (src/unnamed/part_003), called by a thin per-kind wrapper               *)
(* (ZoneReconciler.Reconcile: Get, the metrics finalizer, the condition    *)
(* strip).  The v1alpha3 wrapper is not in the repository; its Get and     *)
(* strip follow the v1alpha2 one (src/internal/controller/pdns_metrics.go) *)
(* and its metrics finalizer the RRset wrapper (src/unnamed/part_008).     *)
(* Objects of different FQDNs never interact (the uniqueness index, the    *)
(* backend zone and the API calls are all keyed by the name), so one FQDN  *)
(* is modelled and Zones, ClusterZones are the objects carrying it.        *)
(*                                                                         *)
(* A reconcile is split in three steps at the points where other actors    *)
(* interleave: ReconcileStart* (finalizer, back-off, uniqueness check),    *)
(* ZoneExternalResourcesReconcile (the PowerDNS calls) and PatchZoneStatus *)
(* (the status write).  Per-key serialisation of controller-runtime is pc; *)
(* its work queue is queue, its RequeueAfter timers are timer.             *)
(***************************************************************************)
EXTENDS Naturals, FiniteSets

CONSTANTS
    Zones,          \* namespaced Zone objects named after the FQDN
    ClusterZones,   \* cluster-scoped ClusterZone objects of that name
    NSVals,         \* values the nameserver list of a spec can take
    AttrVals,       \* values of the other writable attributes (kind, catalog, soa_edit_api)
    NoZone,         \* PowerDNS holds no zone of that name
    MaxGen,         \* bound on metadata.generation
    MaxFaults       \* bound on failed calls (PowerDNS or API server) in a behaviour

Objects == Zones \cup ClusterZones

\* The writable content of a zone: nameservers (the NS RRset) and the
\* scalar attributes compared by zoneIsIdenticalToExternalZone.
ZoneSpec == [ns : NSVals, attrs : AttrVals]

\* A ClusterZone is cluster-scoped, so at most one carries a given name.
ASSUME ConstAssumption ==
    /\ Zones \cap ClusterZones = {}
    /\ IsFiniteSet(ClusterZones) /\ Cardinality(ClusterZones) <= 1
    /\ NSVals # {} /\ AttrVals # {}
    /\ NoZone \notin ZoneSpec
    /\ MaxGen \in Nat \ {0}
    /\ MaxFaults \in Nat

\* status.syncStatus; "none" is the nil pointer of a new object.
SyncStatuses == {"none", "Succeeded", "Failed"}
\* Reasons of the Available condition that zoneReconcile writes.
Reasons == {"ZoneSynced", "ZoneDuplicated",
            "SynchronizationFailed", "NSSynchronizationFailed"}
\* The Available condition: its reason, or "absent".
Conditions == Reasons \cup {"absent"}

VARIABLES
    exists,      \* the object is stored by the API server
    deleting,    \* metadata.deletionTimestamp is set
    finalizer,   \* the resources finalizer is on the object
    metricsFinalizer, \* the metrics finalizer is on the object
    gen,         \* metadata.generation
    spec,        \* the zone spec
    syncStatus,  \* status.syncStatus
    obsGen,      \* status.observedGeneration (0 = nil)
    available,   \* the Available condition (its reason) or "absent"
    recent,      \* that condition's LastTransitionTime is less than 30 s old
    statusZone,  \* the PowerDNS zone copied into the status (id, serial, ...)
    backend,     \* the zone PowerDNS holds under the FQDN, or NoZone
    queue,       \* keys waiting in the controller work queue
    timer,       \* keys with a pending RequeueAfter
    pc,          \* where the reconcile of each key is
    snapGen,     \* generation of the object the reconcile read
    snapSpec,    \* spec of the object the reconcile read
    zoneRes,     \* the PowerDNS zone the reconcile read (NoZone: none or error)
    result,      \* the condition reason the reconcile will write
    faults,      \* failed calls so far
    series       \* the object's zones_status series is in the metrics registry

objVars == <<exists, deleting, finalizer, metricsFinalizer, gen, spec>>
statusVars == <<syncStatus, obsGen, available, recent, statusZone>>
ctrlVars == <<queue, timer, pc, snapGen, snapSpec, zoneRes, result>>
vars == <<objVars, statusVars, backend, ctrlVars, faults, series>>

TypeOK ==
    /\ exists \in [Objects -> BOOLEAN]
    /\ deleting \in [Objects -> BOOLEAN]
    /\ finalizer \in [Objects -> BOOLEAN]
    /\ metricsFinalizer \in [Objects -> BOOLEAN]
    /\ gen \in [Objects -> 1..MaxGen]
    /\ spec \in [Objects -> ZoneSpec]
    /\ syncStatus \in [Objects -> SyncStatuses]
    /\ obsGen \in [Objects -> 0..MaxGen]
    /\ available \in [Objects -> Conditions]
    /\ recent \in [Objects -> BOOLEAN]
    /\ statusZone \in [Objects -> ZoneSpec \cup {NoZone}]
    /\ backend \in ZoneSpec \cup {NoZone}
    /\ queue \subseteq Objects
    /\ timer \subseteq Objects
    /\ pc \in [Objects -> {"idle", "converge", "patch"}]
    /\ snapGen \in [Objects -> 1..MaxGen]
    /\ snapSpec \in [Objects -> ZoneSpec]
    /\ zoneRes \in [Objects -> ZoneSpec \cup {NoZone}]
    /\ result \in [Objects -> Reasons]
    /\ faults \in 0..MaxFaults
    /\ series \in [Objects -> BOOLEAN]

-----------------------------------------------------------------------------
(* Helpers translated from the code.                                       *)

\* The spec value of an object that is not stored (never read).
NoSpec == CHOOSE s \in ZoneSpec : TRUE

\* isModified, ZoneReconciler.Reconcile.
IsModified(o) == obsGen[o] # 0 /\ obsGen[o] # gen[o]

\* isInFailedStatus, zoneReconcile.
IsInFailedStatus(o) == syncStatus[o] = "Failed"

\* The Available condition after the wrapper strips it from a modified object.
Stripped(o) == IF IsModified(o) THEN "absent" ELSE available[o]

\* zoneReconcile skips a Failed, unmodified object whose last condition
\* transition (getLastConditionTransition) is less than 30 s old; with no
\* condition that function answers "an hour ago".
InBackoff(o) ==
    /\ IsInFailedStatus(o)
    /\ ~IsModified(o)
    /\ available[o] # "absent"
    /\ recent[o]

\* The field indexers Zone.Entry.Name / ClusterZone.Entry.Name hold the
\* objects whose syncStatus is nil or Succeeded.
Indexed(o) == exists[o] /\ syncStatus[o] \in {"none", "Succeeded"}

\* The duplicate test of zoneReconcile on the two index lists.
IsDuplicated ==
    LET zs == {z \in Zones : Indexed(z)}
        cs == {c \in ClusterZones : Indexed(c)}
    IN  Cardinality(zs) > 1 \/ (zs # {} /\ cs # {})

\* meta.SetStatusCondition refreshes LastTransitionTime only when the
\* condition is new or its status (True iff ZoneSynced) flips.
Transitions(old, new) ==
    old = "absent" \/ ((old = "ZoneSynced") # (new = "ZoneSynced"))

SyncOf(reason) == IF reason = "ZoneSynced" THEN "Succeeded" ELSE "Failed"

\* A call fails: it uses up one fault of the budget.
Fault == faults < MaxFaults /\ faults' = faults + 1

\* The API server drops an object once it has no finalizer.
Remove(o) ==
    /\ exists' = [exists EXCEPT ![o] = FALSE]
    /\ deleting' = [deleting EXCEPT ![o] = FALSE]
    /\ gen' = [gen EXCEPT ![o] = 1]
    /\ spec' = [spec EXCEPT ![o] = NoSpec]
    /\ syncStatus' = [syncStatus EXCEPT ![o] = "none"]
    /\ obsGen' = [obsGen EXCEPT ![o] = 0]
    /\ available' = [available EXCEPT ![o] = "absent"]
    /\ recent' = [recent EXCEPT ![o] = FALSE]
    /\ statusZone' = [statusZone EXCEPT ![o] = NoZone]

Init ==
    /\ exists = [o \in Objects |-> FALSE]
    /\ deleting = [o \in Objects |-> FALSE]
    /\ finalizer = [o \in Objects |-> FALSE]
    /\ metricsFinalizer = [o \in Objects |-> FALSE]
    /\ gen = [o \in Objects |-> 1]
    /\ spec = [o \in Objects |-> NoSpec]
    /\ syncStatus = [o \in Objects |-> "none"]
    /\ obsGen = [o \in Objects |-> 0]
    /\ available = [o \in Objects |-> "absent"]
    /\ recent = [o \in Objects |-> FALSE]
    /\ statusZone = [o \in Objects |-> NoZone]
    /\ backend = NoZone
    /\ queue = {}
    /\ timer = {}
    /\ pc = [o \in Objects |-> "idle"]
    /\ snapGen = [o \in Objects |-> 1]
    /\ snapSpec = [o \in Objects |-> NoSpec]
    /\ zoneRes = [o \in Objects |-> NoZone]
    /\ result = [o \in Objects |-> "ZoneSynced"]
    /\ faults = 0
    /\ series = [o \in Objects |-> FALSE]

\* Status fields written by one status patch of object o, over the condition
\* old that the object holds at that moment.
WriteStatus(o, old, ss, og, av, sz) ==
    /\ syncStatus' = [syncStatus EXCEPT ![o] = ss]
    /\ obsGen' = [obsGen EXCEPT ![o] = og]
    /\ available' = [available EXCEPT ![o] = av]
    /\ recent' = [recent EXCEPT ![o] = recent[o] \/ Transitions(old, av)]
    /\ statusZone' = [statusZone EXCEPT ![o] = sz]

\* Whether that patch changes the stored object, hence fires a watch event
\* (a merge patch with no difference is empty and the object stays as is).
StatusChanged(o, old, ss, og, av, sz) ==
    \/ Transitions(old, av)
    \/ <<syncStatus[o], obsGen[o], old, statusZone[o]>> # <<ss, og, av, sz>>

\* A reconcile that returns ctrl.Result{} with no error: the key leaves the
\* queue unless a write of this reconcile fired an event for it.
Finish(o, changed) == queue' = IF changed THEN queue ELSE queue \ {o}

\* updateZonesMetrics: the object's series is (re)set in the registry.
PublishSeries(o) == series' = [series EXCEPT ![o] = TRUE]

\* The metrics branch of the deletion path: with the metrics finalizer,
\* removeZonesMetrics deletes the series (in memory, before the Update).
DropSeries(o) ==
    series' = [series EXCEPT ![o] = IF metricsFinalizer[o] THEN FALSE ELSE @]

\* Controller-runtime runs one reconcile at a time per controller (main sets
\* no MaxConcurrentReconciles): Zones and ClusterZones have one each.
Kind(o) == IF o \in Zones THEN Zones ELSE ClusterZones
ControllerIdle(o) == \A x \in Kind(o) : pc[x] = "idle"

\* The reconcile's local variables go out of scope when it returns.
ClearLocals(o) ==
    /\ snapGen' = [snapGen EXCEPT ![o] = 1]
    /\ snapSpec' = [snapSpec EXCEPT ![o] = NoSpec]
    /\ zoneRes' = [zoneRes EXCEPT ![o] = NoZone]
    /\ result' = [result EXCEPT ![o] = "ZoneSynced"]

-----------------------------------------------------------------------------
(* The user: create, edit and delete objects.  Every write of an object    *)
(* fires a watch event that puts its key in the queue.                     *)

CreateObject(o) ==
    /\ ~exists[o]
    /\ \E s \in ZoneSpec : spec' = [spec EXCEPT ![o] = s]
    /\ exists' = [exists EXCEPT ![o] = TRUE]
    /\ queue' = queue \cup {o}
    /\ UNCHANGED <<series, deleting, finalizer, metricsFinalizer, gen, statusVars,
                   backend, timer, pc, snapGen, snapSpec, zoneRes, result, faults>>

\* An edit of the spec bumps metadata.generation.
UpdateSpec(o) ==
    /\ exists[o]
    /\ gen[o] < MaxGen
    /\ \E s \in ZoneSpec \ {spec[o]} : spec' = [spec EXCEPT ![o] = s]
    /\ gen' = [gen EXCEPT ![o] = gen[o] + 1]
    /\ queue' = queue \cup {o}
    /\ UNCHANGED <<series, exists, deleting, finalizer, metricsFinalizer, statusVars,
                   backend, timer, pc, snapGen, snapSpec, zoneRes, result, faults>>

\* kubectl delete: with a finalizer (either of the two) the object only
\* gets a deletionTimestamp.
DeleteObject(o) ==
    /\ exists[o]
    /\ ~deleting[o]
    /\ \/ /\ (finalizer[o] \/ metricsFinalizer[o])
          /\ deleting' = [deleting EXCEPT ![o] = TRUE]
          /\ UNCHANGED <<exists, gen, spec, statusVars>>
       \/ /\ ~finalizer[o] /\ ~metricsFinalizer[o]
          /\ Remove(o)
    /\ queue' = queue \cup {o}
    /\ UNCHANGED <<series, finalizer, metricsFinalizer, backend, timer, pc, snapGen,
                   snapSpec, zoneRes, result, faults>>

-----------------------------------------------------------------------------
(* The controller.  ReconcileGone .. ReconcileProceed each model one run of *)
(* Reconcile up to the point where it returns or calls PowerDNS; the       *)
(* reconcile then goes on with ZoneExternalResourcesReconcile and          *)
(* PatchZoneStatus.  A returned error leaves the key in the queue.         *)

\* r.Get answers NotFound: IgnoreNotFound, nothing to do.
ReconcileGone(o) ==
    /\ ControllerIdle(o)
    /\ o \in queue
    /\ ~exists[o]
    /\ queue' = queue \ {o}
    /\ UNCHANGED <<series, objVars, statusVars, backend, timer, pc, snapGen, snapSpec,
                   zoneRes, result, faults>>

\* Bug variant: a failed Zones.Delete is logged and nil returned, so the
\* key is not retried.
ReconcileDeletedNoRetry(o) ==
    /\ ControllerIdle(o)
    /\ o \in queue
    /\ exists[o]
    /\ deleting[o]
    /\ finalizer[o] \/ metricsFinalizer[o]
    /\ \/ /\ finalizer[o]
          /\ Fault
          /\ queue' = queue \ {o}
          /\ UNCHANGED <<objVars, statusVars, backend, series>>
       \/ /\ Fault
          /\ backend' = IF finalizer[o] THEN NoZone ELSE backend
          /\ DropSeries(o)
          /\ UNCHANGED <<objVars, statusVars, queue>>
       \/ /\ backend' = IF finalizer[o] THEN NoZone ELSE backend
          /\ finalizer' = [finalizer EXCEPT ![o] = FALSE]
          /\ metricsFinalizer' = [metricsFinalizer EXCEPT ![o] = FALSE]
          /\ DropSeries(o)
          /\ Remove(o)
          /\ UNCHANGED <<queue, faults>>
    /\ UNCHANGED <<timer, pc, snapGen, snapSpec, zoneRes, result>>

\* Bug variant: the finalizers are dropped without deleting the zone.
ReconcileDeletedKeepZone(o) ==
    /\ ControllerIdle(o)
    /\ o \in queue
    /\ exists[o]
    /\ deleting[o]
    /\ finalizer[o] \/ metricsFinalizer[o]
    /\ \/ /\ Fault
          /\ DropSeries(o)
          /\ UNCHANGED <<objVars, statusVars, queue>>
       \/ /\ finalizer' = [finalizer EXCEPT ![o] = FALSE]
          /\ metricsFinalizer' = [metricsFinalizer EXCEPT ![o] = FALSE]
          /\ DropSeries(o)
          /\ Remove(o)
          /\ UNCHANGED <<queue, faults>>
    /\ UNCHANGED <<backend, timer, pc, snapGen, snapSpec, zoneRes, result>>

\* The deletion branch of zoneReconcile.  With the resources finalizer it
\* deletes the PowerDNS zone of that name (NotFound is success) and drops
\* that finalizer; with the metrics finalizer it removes the object's
\* series (removeZonesMetrics) and drops that one; one Update then stores
\* the object without them and the API server removes it.  A deleting
\* object holds one of the two (it is gone as soon as it has none).
ReconcileDeleted(o) ==
    /\ ControllerIdle(o)
    /\ o \in queue
    /\ exists[o]
    /\ deleting[o]
    /\ finalizer[o] \/ metricsFinalizer[o]
    /\ \/ /\ finalizer[o]
          /\ Fault                               \* Zones.Delete fails
          /\ UNCHANGED <<objVars, statusVars, backend, queue, series>>
       \/ /\ Fault                               \* Update fails
          /\ backend' = IF finalizer[o] THEN NoZone ELSE backend
          /\ DropSeries(o)
          /\ UNCHANGED <<objVars, statusVars, queue>>
       \/ /\ backend' = IF finalizer[o] THEN NoZone ELSE backend
          /\ finalizer' = [finalizer EXCEPT ![o] = FALSE]
          /\ metricsFinalizer' = [metricsFinalizer EXCEPT ![o] = FALSE]
          /\ DropSeries(o)
          /\ Remove(o)
          /\ UNCHANGED <<queue, faults>>         \* the delete event
    /\ UNCHANGED <<timer, pc, snapGen, snapSpec, zoneRes, result>>

\* A live object.  The wrapper first adds the metrics finalizer (Update),
\* then strips the Available condition of a modified object (status
\* patch); zoneReconcile then adds the resources finalizer (Update).
StartGuard(o) ==
    /\ ControllerIdle(o)
    /\ o \in queue
    /\ exists[o]
    /\ ~deleting[o]

\* Bug variant (as the v1alpha2 wrapper): no metrics finalizer is added.
PrefixWritesNoMetricsFinalizer(o) ==
    /\ available' = [available EXCEPT ![o] = Stripped(o)]
    /\ finalizer' = [finalizer EXCEPT ![o] = TRUE]
    /\ UNCHANGED metricsFinalizer

PrefixWrites(o) ==
    /\ metricsFinalizer' = [metricsFinalizer EXCEPT ![o] = TRUE]
    /\ available' = [available EXCEPT ![o] = Stripped(o)]
    /\ finalizer' = [finalizer EXCEPT ![o] = TRUE]

PrefixChanged(o) ==
    \/ ~metricsFinalizer[o]
    \/ IsModified(o) /\ available[o] # "absent"
    \/ ~finalizer[o]

\* One of these three writes fails: the error is returned.
ReconcileStartFails(o) ==
    /\ StartGuard(o)
    /\ Fault
    /\ \/ /\ ~metricsFinalizer[o]                \* the metrics finalizer Update fails
          /\ UNCHANGED <<metricsFinalizer, available>>
       \/ /\ IsModified(o)                       \* the strip patch fails
          /\ metricsFinalizer' = [metricsFinalizer EXCEPT ![o] = TRUE]
          /\ UNCHANGED available
       \/ /\ ~finalizer[o]                       \* the finalizer Update fails
          /\ metricsFinalizer' = [metricsFinalizer EXCEPT ![o] = TRUE]
          /\ available' = [available EXCEPT ![o] = Stripped(o)]
    /\ UNCHANGED <<series, exists, deleting, finalizer, gen, spec, syncStatus, obsGen,
                   recent, statusZone, backend, ctrlVars>>

\* A recent failure: RequeueAfter 30 s.
ReconcileBackoff(o) ==
    /\ StartGuard(o)
    /\ InBackoff(o)
    /\ PrefixWrites(o)
    /\ timer' = timer \cup {o}
    /\ Finish(o, PrefixChanged(o))
    /\ PublishSeries(o)
    /\ UNCHANGED <<exists, deleting, gen, spec, syncStatus, obsGen, recent,
                   statusZone, backend, pc, snapGen, snapSpec, zoneRes, result,
                   faults>>

\* Another object of the name is in the indexes: Failed / ZoneDuplicated.
ReconcileDuplicated(o) ==
    /\ StartGuard(o)
    /\ ~InBackoff(o)
    /\ IsDuplicated
    /\ metricsFinalizer' = [metricsFinalizer EXCEPT ![o] = TRUE]
    /\ finalizer' = [finalizer EXCEPT ![o] = TRUE]
    /\ \/ /\ Fault                               \* the status patch fails
          /\ available' = [available EXCEPT ![o] = Stripped(o)]
          /\ UNCHANGED <<syncStatus, obsGen, recent, statusZone, queue, series>>
       \/ /\ WriteStatus(o, Stripped(o), "Failed", gen[o], "ZoneDuplicated", NoZone)
          /\ PublishSeries(o)
          /\ Finish(o, \/ PrefixChanged(o)
                       \/ StatusChanged(o, Stripped(o), "Failed", gen[o],
                                        "ZoneDuplicated", NoZone))
          /\ UNCHANGED faults
    /\ UNCHANGED <<exists, deleting, gen, spec, backend, timer, pc, snapGen,
                   snapSpec, zoneRes, result>>

\* Bug variant: the zone is created before the finalizer is registered.
ReconcileProceedNoFinalizer(o) ==
    /\ StartGuard(o)
    /\ ~InBackoff(o)
    /\ ~IsDuplicated
    /\ metricsFinalizer' = [metricsFinalizer EXCEPT ![o] = TRUE]
    /\ available' = [available EXCEPT ![o] = Stripped(o)]
    /\ pc' = [pc EXCEPT ![o] = "converge"]
    /\ snapGen' = [snapGen EXCEPT ![o] = gen[o]]
    /\ snapSpec' = [snapSpec EXCEPT ![o] = spec[o]]
    /\ Finish(o, ~metricsFinalizer[o] \/ (IsModified(o) /\ available[o] # "absent"))
    /\ UNCHANGED <<series, exists, deleting, finalizer, gen, spec, syncStatus, obsGen,
                   recent, statusZone, backend, timer, zoneRes, result, faults>>

\* No duplicate: go on to PowerDNS with the object as read.
ReconcileProceed(o) ==
    /\ StartGuard(o)
    /\ ~InBackoff(o)
    /\ ~IsDuplicated
    /\ PrefixWrites(o)
    /\ pc' = [pc EXCEPT ![o] = "converge"]
    /\ snapGen' = [snapGen EXCEPT ![o] = gen[o]]
    /\ snapSpec' = [snapSpec EXCEPT ![o] = spec[o]]
    /\ Finish(o, PrefixChanged(o))
    /\ UNCHANGED <<series, exists, deleting, gen, spec, syncStatus, obsGen, recent,
                   statusZone, backend, timer, zoneRes, result, faults>>

\* Bug variant: the error returned by zoneExternalResourcesReconcile is not
\* turned into SynchronizationFailed, leaving its empty reason.
ZoneExternalResourcesReconcileNoOverride(o) ==
    /\ pc[o] = "converge"
    /\ pc' = [pc EXCEPT ![o] = "patch"]
    /\ \/ /\ Fault                               \* Zones.Get fails
          /\ zoneRes' = [zoneRes EXCEPT ![o] = NoZone]
          /\ result' = [result EXCEPT ![o] = "SynchronizationFailed"]
          /\ UNCHANGED backend
       \/ /\ backend = NoZone
          /\ zoneRes' = [zoneRes EXCEPT ![o] = NoZone]
          /\ \/ /\ Fault                         \* Zones.Add fails
                /\ result' = [result EXCEPT ![o] = "SynchronizationFailed"]
                /\ UNCHANGED backend
             \/ /\ backend' = snapSpec[o]
                /\ result' = [result EXCEPT ![o] = "ZoneSynced"]
                /\ UNCHANGED faults
       \/ /\ backend # NoZone
          /\ zoneRes' = [zoneRes EXCEPT ![o] = backend]
          /\ \/ /\ Fault                         \* Records.Get fails
                /\ result' = [result EXCEPT ![o] = ""]
                /\ UNCHANGED backend
             \/ \E nsFails, zoneFails \in BOOLEAN :
                  LET want == snapSpec[o]
                      failures == (IF nsFails THEN 1 ELSE 0)
                                    + (IF zoneFails THEN 1 ELSE 0)
                  IN  /\ nsFails => backend.ns # want.ns
                      /\ zoneFails => backend.attrs # want.attrs
                      /\ faults + failures <= MaxFaults
                      /\ faults' = faults + failures
                      /\ backend' = [ns |-> IF nsFails THEN backend.ns ELSE want.ns,
                                     attrs |-> IF zoneFails THEN backend.attrs
                                                            ELSE want.attrs]
                      /\ result' = [result EXCEPT ![o] =
                                      IF zoneFails THEN "SynchronizationFailed"
                                      ELSE IF nsFails THEN "NSSynchronizationFailed"
                                      ELSE "ZoneSynced"]
    /\ UNCHANGED <<series, objVars, statusVars, queue, timer, snapGen, snapSpec>>

\* getZoneExternalResources, then zoneExternalResourcesReconcile: create the
\* zone when absent; else read its NS RRset and patch the NS RRset, then the
\* zone, where they differ.  A failed patch does not stop the next one; the
\* zone patch's failure reason overrides the NS one.
ZoneExternalResourcesReconcile(o) ==
    /\ pc[o] = "converge"
    /\ pc' = [pc EXCEPT ![o] = "patch"]
    /\ \/ /\ Fault                               \* Zones.Get fails
          /\ zoneRes' = [zoneRes EXCEPT ![o] = NoZone]
          /\ result' = [result EXCEPT ![o] = "SynchronizationFailed"]
          /\ UNCHANGED backend
       \/ /\ backend = NoZone
          /\ zoneRes' = [zoneRes EXCEPT ![o] = NoZone]
          /\ \/ /\ Fault                         \* Zones.Add fails
                /\ result' = [result EXCEPT ![o] = "SynchronizationFailed"]
                /\ UNCHANGED backend
             \/ /\ backend' = snapSpec[o]
                /\ result' = [result EXCEPT ![o] = "ZoneSynced"]
                /\ UNCHANGED faults
       \/ /\ backend # NoZone
          /\ zoneRes' = [zoneRes EXCEPT ![o] = backend]
          /\ \/ /\ Fault                         \* Records.Get fails
                /\ result' = [result EXCEPT ![o] = "SynchronizationFailed"]
                /\ UNCHANGED backend
             \/ \E nsFails, zoneFails \in BOOLEAN :
                  LET want == snapSpec[o]
                      failures == (IF nsFails THEN 1 ELSE 0)
                                    + (IF zoneFails THEN 1 ELSE 0)
                  IN  /\ nsFails => backend.ns # want.ns
                      /\ zoneFails => backend.attrs # want.attrs
                      /\ faults + failures <= MaxFaults
                      /\ faults' = faults + failures
                      /\ backend' = [ns |-> IF nsFails THEN backend.ns ELSE want.ns,
                                     attrs |-> IF zoneFails THEN backend.attrs
                                                            ELSE want.attrs]
                      /\ result' = [result EXCEPT ![o] =
                                      IF zoneFails THEN "SynchronizationFailed"
                                      ELSE IF nsFails THEN "NSSynchronizationFailed"
                                      ELSE "ZoneSynced"]
    /\ UNCHANGED <<series, objVars, statusVars, queue, timer, snapGen, snapSpec>>

\* Bug variant: observedGeneration taken from the object as it is at patch
\* time instead of the object the reconcile read.
PatchZoneStatusCurrentGen(o) ==
    /\ pc[o] = "patch"
    /\ pc' = [pc EXCEPT ![o] = "idle"]
    /\ LET ss == SyncOf(result[o])
           og == gen[o]
       IN  \/ /\ Fault
              /\ queue' = queue \cup {o}
              /\ UNCHANGED <<statusVars, series>>
           \/ /\ WriteStatus(o, available[o], ss, og, result[o], zoneRes[o])
              /\ PublishSeries(o)
              /\ queue' = IF StatusChanged(o, available[o], ss, og, result[o], zoneRes[o])
                          THEN queue \cup {o} ELSE queue
              /\ UNCHANGED faults
    /\ ClearLocals(o)
    /\ UNCHANGED <<objVars, backend, timer>>

\* patchZoneStatus: syncStatus, observedGeneration of the object as read,
\* the condition, and the zone read from PowerDNS.  Both a conflict
\* (Requeue) and another error requeue the key.
PatchZoneStatus(o) ==
    /\ pc[o] = "patch"
    /\ pc' = [pc EXCEPT ![o] = "idle"]
    /\ LET ss == SyncOf(result[o])
           og == snapGen[o]
       IN  \/ /\ Fault
              /\ queue' = queue \cup {o}
              /\ UNCHANGED <<statusVars, series>>
           \/ /\ WriteStatus(o, available[o], ss, og, result[o], zoneRes[o])
              /\ PublishSeries(o)
              /\ queue' = IF StatusChanged(o, available[o], ss, og, result[o], zoneRes[o])
                          THEN queue \cup {o} ELSE queue
              /\ UNCHANGED faults
    /\ ClearLocals(o)
    /\ UNCHANGED <<objVars, backend, timer>>

-----------------------------------------------------------------------------
(* Time and the work queue's own sources of requeues.                      *)

\* 30 s pass since the last condition transition of o.
Tick(o) ==
    /\ recent[o]
    /\ recent' = [recent EXCEPT ![o] = FALSE]
    /\ UNCHANGED <<series, objVars, syncStatus, obsGen, available, statusZone, backend,
                   ctrlVars, faults>>

\* A RequeueAfter delay ends.
TimerFires(o) ==
    /\ o \in timer
    /\ timer' = timer \ {o}
    /\ queue' = queue \cup {o}
    /\ UNCHANGED <<series, objVars, statusVars, backend, pc, snapGen, snapSpec,
                   zoneRes, result, faults>>

\* The informer's periodic resync (10 h by default) enqueues every object.
Resync ==
    /\ ~({o \in Objects : exists[o]} \subseteq queue)
    /\ queue' = queue \cup {o \in Objects : exists[o]}
    /\ UNCHANGED <<series, objVars, statusVars, backend, timer, pc, snapGen, snapSpec,
                   zoneRes, result, faults>>

User(o) == CreateObject(o) \/ UpdateSpec(o) \/ DeleteObject(o)

Controller(o) ==
    \/ ReconcileGone(o)
    \/ ReconcileDeleted(o)
    \/ ReconcileStartFails(o)
    \/ ReconcileBackoff(o)
    \/ ReconcileDuplicated(o)
    \/ ReconcileProceed(o)
    \/ ZoneExternalResourcesReconcile(o)
    \/ PatchZoneStatus(o)

Next ==
    \/ \E o \in Objects : User(o) \/ Controller(o) \/ Tick(o) \/ TimerFires(o)
    \/ Resync

\* The work queue is FIFO, so a key waiting behind others of its controller
\* is served eventually (strong fairness); delays end; the user and the
\* 10 h resync are not relied upon.
Fairness ==
    \A o \in Objects :
        /\ SF_vars(Controller(o))
        /\ WF_vars(Tick(o))
        /\ WF_vars(TimerFires(o))

Spec == Init /\ [][Next]_vars /\ Fairness

-----------------------------------------------------------------------------
(* Properties.                                                             *)

Live(o) == exists[o] /\ ~deleting[o]

\* No orphan zone in PowerDNS: whenever PowerDNS holds the zone, some stored
\* object carries the resources finalizer, so its deletion will run
\* deleteZoneExternalResources (finalizer added before Zones.Add, dropped
\* only after Zones.Delete).
BackendGuarded ==
    backend # NoZone => \E o \in Objects : exists[o] /\ finalizer[o]

\* The step that creates the zone in PowerDNS is a reconcile of a stored
\* object that already holds the resources finalizer (zoneReconcile adds it
\* with Update before zoneExternalResourcesReconcile calls Zones.Add).
ZoneCreatedUnderFinalizer ==
    [][backend = NoZone /\ backend' # NoZone =>
         \E o \in Objects : /\ pc[o] = "converge" /\ pc'[o] = "patch"
                           /\ exists[o] /\ finalizer[o]]_vars

\* An object at rest that reports Succeeded for its current generation has
\* its spec in PowerDNS (zoneReconcile reports ZoneSynced only when every
\* create/patch call of that reconcile succeeded).
StatusReflectsBackend ==
    \A o \in Objects :
        (Live(o) /\ pc[o] = "idle" /\ syncStatus[o] = "Succeeded"
                 /\ obsGen[o] = gen[o])
            => backend = spec[o]

\* Spec: of several Zones/ClusterZones with one FQDN, one is reconciled and
\* the others stay Failed until it is deleted (the index check of
\* zoneReconcile).  At most one live object is Succeeded.
UniqueSucceeded ==
    \A o1, o2 \in Objects :
        (o1 # o2 /\ Live(o1) /\ Live(o2)) =>
            ~(syncStatus[o1] = "Succeeded" /\ syncStatus[o2] = "Succeeded")

\* Spec: deleting a duplicate leaves the original Succeeded with its zone
\* in PowerDNS.  A live Succeeded object at rest has a zone in PowerDNS.
SucceededHasBackend ==
    \A o \in Objects :
        (Live(o) /\ pc[o] = "idle" /\ syncStatus[o] = "Succeeded")
            => backend # NoZone

\* Spec: a zone whose PowerDNS calls failed is retried (every 30 s at
\* least).  A live, Failed object at rest with a synchronisation-failure
\* reason is waiting in the queue or on a RequeueAfter.
RetryScheduled ==
    \A o \in Objects :
        (Live(o) /\ pc[o] = "idle" /\ syncStatus[o] = "Failed"
                 /\ available[o] \in {"SynchronizationFailed", "NSSynchronizationFailed"})
            => o \in queue \cup timer

\* Deleting an object ends with it gone: the deletion branch retries
\* Zones.Delete and the finalizer Update until both succeed.
DeletionCompletes ==
    \A o \in Objects : deleting[o] ~> ~exists[o]

\* spec.md 8, metric parity: deleting a resource removes its series.  No
\* zones_status series is left in the registry for an object the API
\* server has dropped: every reconcile that publishes one
\* (updateZonesMetrics) runs after the wrapper registered the metrics
\* finalizer, and the deletion branch removes the series
\* (removeZonesMetrics) before the Update that lets the object go, even
\* when a Zones.Delete or an Update fails in between.
MetricParity == \A o \in Objects : series[o] => exists[o]
=============================================================================
