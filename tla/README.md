# TLA+ models of the PowerDNS operator

This directory holds TLA+ models of the PowerDNS operator's controllers, TLC
configurations that model-check them, and TLAPS proofs of their main
invariants. Sources are under `src/`. The behaviour the operator promises is
described in `spec.md`.

## The system

The operator is a set of Kubernetes controllers built on controller-runtime.
They keep a PowerDNS authoritative server in line with custom resources.

| Part | Source | State it changes |
|---|---|---|
| Zone / ClusterZone reconcilers | `src/unnamed/part_003` (`zoneReconcile` and helpers); the v1alpha3 wrappers are not in the repository (`pdns_metrics.go` holds the v1alpha2 `ZoneReconciler`) | the zone in PowerDNS; the object's two finalizers and status |
| RRset / ClusterRRset reconcilers | `src/unnamed/part_008`, `rrsetReconcile` in `part_003` | the RRsets in PowerDNS; the owner reference, finalizers and status |
| PDNSProvider reconciler | `src/internal/controller/pdns_client.go` | the provider's finalizer and connection status |
| Cluster reconciler (v1alpha2) | `src/unnamed/part_007` | the same, for the older Cluster kind |
| Client resolution | `src/unnamed/part_006`, `part_005` | none (reads the provider and its secret) |
| Metrics | call sites in `part_003`; the v1alpha3 `updateZonesMetrics`/`removeZonesMetrics` are not in the repository | Prometheus series per object |
| Entry point | `src/unnamed/part_000` (`main`) | registers the controllers, one worker each, default resync |

How the parts interact:

- An RRset names its parent Zone or ClusterZone and waits for it.
- A Zone owns its RRsets (`Owns`), so an RRset change requeues the zone.
- All objects of one FQDN share a single PowerDNS zone, named by that FQDN.
- A field index holds the names of objects whose `syncStatus` is nil or
  Succeeded. It is meant to let only one object per name reach PowerDNS.

The behaviours that make the system hard:

- **Concurrent controllers.** The Zone and ClusterZone controllers run at the
  same time. Within one controller, keys are handled one at a time (no
  `MaxConcurrentReconciles` is set).
- **Reconcile failures.** A reconcile can fail between any two of its API or
  PowerDNS calls: the status patches, the finalizer `Update`, and
  `Zones.Get/Add/Change/Delete` and `Records.Get/Change`.
- **Requeues come only from three sources.** A watch event when an object
  really changes (an empty merge patch fires none), a returned error, or a
  `RequeueAfter`.
- **Time-based back-off.** A Failed object is skipped while its last condition
  transition is less than 30 s old, and `meta.SetStatusCondition` moves that
  time only when the condition's status flips.

## Modules

**`PowerDNSZone`** models the Zone and ClusterZone reconcilers for the objects
of one FQDN. Objects of different names never touch the same index entry or
PowerDNS zone.

- **Constants.**
  - `Zones` and `ClusterZones` are the objects.
  - `NSVals` and `AttrVals` are spec values: the NS list, and the other
    attributes that `zoneIsIdenticalToExternalZone` compares.
  - `MaxGen` bounds generations. `MaxFaults` bounds failed calls.
- **State.**
  - Per object: `exists`, `deleting`, `finalizer` (resources),
    `metricsFinalizer`, `gen`, `spec`, and the
    status fields `syncStatus`, `obsGen`, `available` (the condition's reason),
    `recent` (transition younger than 30 s) and `statusZone` (the PowerDNS
    fields copied into the status).
  - `backend` is the zone PowerDNS holds.
  - `series[o]`: the object has a `zones_status` series in the registry.
  - `queue` and `timer` are the work queue and the pending `RequeueAfter`s.
  - Per object, the reconcile in progress: `pc` and the locals `snapGen`,
    `snapSpec`, `zoneRes` and `result`.
- **Actions.** A reconcile is cut at the calls after which other actors can
  act:
  - `ReconcileGone`: the Get answers NotFound.
  - `ReconcileDeleted`: the whole deletion branch (`part_003:47-75`):
    `Zones.Delete` under the resources finalizer, `removeZonesMetrics` under
    the metrics finalizer, then one `Update` without both. `Zones.Delete`
    and the `Update` can fail.
  - `ReconcileStartFails`: one of the three writes before the live path
    fails: the wrapper's metrics finalizer `Update`, its condition strip, or
    `zoneReconcile`'s resources finalizer `Update`.
  - `ReconcileBackoff`, `ReconcileDuplicated` and `ReconcileProceed`: the three
    ways the live path goes on, each with the finalizer and strip writes that
    precede it. The first two, and a successful `PatchZoneStatus`, publish the
    object's series (`updateZonesMetrics` at `part_003:88`, `134`, `187`).
  - `ZoneExternalResourcesReconcile`: the Get, then Add, or Records.Get and the
    NS and zone patches, each of which can fail.
  - `PatchZoneStatus`: `patchZoneStatus` and the returns that follow it.
  - The user creates, edits and deletes objects. `Tick` ages a condition past
    30 s. `TimerFires` ends a `RequeueAfter`. `Resync` is the informer's
    periodic resync.
- **Queue rules.** Every write that changes an object puts its key back in the
  queue. A failed call leaves the key in the queue, which is the error requeue.
- **Fairness.** Each key's controller steps are strongly fair: the work queue
  is FIFO, so a key waiting behind others of its controller is served. `Tick`
  and `TimerFires` are weakly fair. The user and the 10 h resync are not
  relied on.

- **The wrapper and the metrics.** The v1alpha3 `ZoneReconciler` and
  `ClusterZoneReconciler` that call `zoneReconcile` with a `GenericZone` are
  not in the repository.
  - Their Get, `isModified` and condition strip follow the v1alpha2
    `ZoneReconciler.Reconcile` (`pdns_metrics.go:129-156`).
  - Their metrics finalizer follows spec.md 3 ("added on first
    observation") and the v1alpha3 RRset wrapper (`part_008:79-91`). It is
    added first, before the strip, and its failed `Update` returns an error.
  - Only whether a series exists is modelled, not its labels: the
    v1alpha3 bodies of `updateZonesMetrics` and `removeZonesMetrics` are not
    in the repository either. `pdns_metrics.go:44-58` holds the v1alpha2
    ones, which `part_003` cannot call.
- **Atomic steps.** `ZoneExternalResourcesReconcile` is one step. Another
  controller's PowerDNS calls cannot fall between its Get and its Add or
  patches, so a 409 from `Zones.Add` on a zone created in between is not
  modelled. Such a 409 ends in a SynchronizationFailed status.
  `BackendGuarded` and `MetricParity` hold whichever call wins.
  `StatusReflectsBackend` is checked and proved for one object, where no
  other controller calls PowerDNS.

**`PowerDNSProvider`** models the PDNSProvider reconciler
(`pdns_client.go` 185-438) for one provider.

- **Constants.** These are the spec fields that decide behaviour:
  - `KeyRefs`: the credential key name.
  - `CARefs`: the CA bundle kind, or none.
  - `ProxyRefs`: the proxy URL, as nil, empty, valid or invalid.
  - `IntervalRefs`: the check interval.

  The environment is drawn from three sets:
  - `SecretVals`: the credentials secret, with found and per-key state absent, empty or set.
  - `CAVals`: the CA bundle, as not found, no key, bad PEM or ok.
  - `ServerVals`: what PowerDNS answers, as down, no daemon type, authoritative or recursor.

  `MaxGen`, `MaxFaults` and `MaxEnvChanges` are the bounds.
- **One read of the environment.** The secret, the CA bundle and the server
  are read in one step. A change between those three reads is not modelled.
- **Pure functions.** `GetAPIKeyFromSecret`, `GetCABundleData` and
  `CheckPowerDNSConnection` are operators, combined by `Outcome` into the
  status, reason and daemon type of one probe.
- **State.** The provider (`exists`, `deleting`, `finalizer`, `gen`, `spec`),
  the environment, and the status fields (`connStatus`, `reason`,
  `daemonType`, `obsGen`, and `lastConn`, the age of `LastConnectionTime`:
  now, recent (< 4 min) or old). The queue and the `RequeueAfter` timer are
  booleans, since there is one key. `pc`, `snapGen`, `apiKey` and `result`
  are the locals of the reconcile in progress.
- **Actions.**
  - `ReconcileGone`, `ReconcileDeleted` and `ReconcileFinalizerFails` are
    Reconcile's early paths.
  - `ReconcilePDNSProvider` reads the secret, the CA bundle and the server.
    It cuts the reconcile at the status patch.
  - `UpdatePDNSProviderStatus` is the patch. It writes the status first and
    only then tests for a transition, as the code does. If it fails, the key
    is requeued. If it succeeds, the returned `RequeueAfter` arms the timer.
  - `EnvChange` changes the secret, CA bundle or server. Secrets are not
    watched, so this fires no event. `Tick`, `TimerFires` and `Resync`
    stand for time passing, the delayed requeue and the resync.
- **Fairness.** `WF(Controller)`: the single worker serves a queued key.
  `WF(TimerFires)`: a `RequeueAfter` delay ends. The user, the environment and
  the 10 h resync are not relied on.

**`ProviderHealth`** is the abstract specification of what the provider
reconciler promises (spec.md 4.1). There is no finalizer, queue or timer. A
live provider is probed: `probe` holds the outcome of its spec against the
environment and the generation read. The probe is reported in the status or
lost; a provider being deleted is removed once nothing is pending. Its
fairness is on `Probe`, `Report \/ Lose` and `Remove`.
`PowerDNSProvider` instantiates it as `Health` with the mapping
`probe <- IF pc = "patch" THEN [out |-> result.out, gen |-> snapGen] ELSE NoProbe`:
a probe exists exactly between the read of the environment and the status
patch. `HealthSpec == Health!Spec` is checked as a PROPERTY. Both levels use
the same `Outcome`, so the refinement checks how a probe reaches the status
(which generation, at most one probe per patch), not `Outcome` itself.

**`PowerDNSClient`** models the v1alpha2 resolver `GetPowerDNSClient`
(`pdns_client.go` 30-149) and the Cluster accessors. It is a pure function
of its inputs, so its variables are chosen in `Init` and never change. It is
checked against `Reference`, the resolver that spec.md 4.5 and 9 describe.
Only the tests (`part_002`, `pdns_client_test.go`) call this resolver. The
running reconcilers get their client through `GetPDNSClient` (`part_006`),
which is not modelled.

The `MC_*` modules give the constants their values for TLC: object names as
model values, small value sets, and a symmetry over two Zones. The proofs are
in `PowerDNSZoneProofs`, `PowerDNSProviderProofs` and `PowerDNSClientProofs`.

## Runs

| Run | Instance | Checks | Result |
|---|---|---|---|
| `zone_single` | 1 Zone, 2 NS × 2 attr values, `MaxGen`=3, `MaxFaults`=2 | `TypeOK`, `StatusReflectsBackend`, `DeletionCompletes` | pass (≈74k states) |
| `zone_multi` | Zone + ClusterZone, 1 NS × 2 attrs, `MaxGen`=1, `MaxFaults`=1 | `BackendGuarded`, `MetricParity` | pass (≈730k states) |
| `zone_pair` | 2 Zones with symmetry, `MaxGen`=2, `MaxFaults`=1 | `BackendGuarded`, `ZoneCreatedUnderFinalizer` | pass (≈1.0M states) |
| `zone_unique` | Zone + ClusterZone, no faults | `UniqueSucceeded` | violation: finding 1 |
| `zone_dup_delete` | Zone + ClusterZone, no faults | `SucceededHasBackend` | violation: finding 2 |
| `zone_retry` | 1 Zone, `MaxFaults`=2 | `RetryScheduled` | violation: finding 3 |
| `provider_converge` | default/custom key, no/Secret CA bundle, nil/invalid proxy, 3 secrets, 2 CA bundles, all 4 server answers, `MaxGen`=2, `MaxFaults`=1, `MaxEnvChanges`=1 | `TypeOK`, `Converges`, `HealthSpec` | pass |
| `provider_lastconn` | server toggling down/up twice | `LastConnectionOnTransition` | violation: finding 4 |
| `provider_healthy` | server reporting no daemon type | `HealthyIsAuthoritative` | violation: finding 5 |
| `provider_empty_key` | secret with an empty key | `EmptyKeyIsSecretNotFound` | violation: finding 6 |
| `client_resolve` | every combination of reference, Cluster, secret, CA file, legacy client | `ResolverMatchesSpec` | pass |

What the passing properties say:

- **`StatusReflectsBackend`.** A live object at rest that reports Succeeded
  for its current generation has its spec in PowerDNS. It covers edits racing
  a reconcile (`observedGeneration` must be the generation read) and partial
  NS/zone patch failures.
- **`BackendGuarded`.** While PowerDNS holds the zone, some stored object
  carries the resources finalizer. Without it, the zone is orphaned.
- **`ZoneCreatedUnderFinalizer`** (action property). The step that creates
  the zone is a reconcile of a stored object that already holds its own
  finalizer: the `Update` precedes `Zones.Add` (`part_003:41`).
- **`DeletionCompletes`.** Every deletion ends with the object gone, despite
  failures of `Zones.Delete` and of the finalizer `Update`. This includes an
  object deleted after the metrics finalizer was added but before the
  resources finalizer was.
- **`MetricParity`** (spec.md 8, "metric parity"). No `zones_status` series
  is left for an object the API server has dropped. It covers:
  - a reconcile that began before a deletion and publishes the series at its
    end (`part_003:187`);
  - a `Zones.Delete` or `Update` failure in the deletion branch after
    `removeZonesMetrics` ran.
- **`Converges`.** Once the user and the environment stop changing, the
  provider is gone or its status shows, for the current generation, the
  outcome of its current spec against the current secret, CA bundle and
  server. It holds only because every successful reconcile returns a
  `RequeueAfter`: changes to secrets and the server fire no event.
- **`HealthSpec`.** Every behaviour of the reconciler, with its finalizer,
  failed writes, edits racing a reconcile and the timer, is a behaviour of
  `ProviderHealth`. The status records the generation the probe read, never
  one read later. A status patch reports at most one probe.
- **`ResolverMatchesSpec`.** `GetPowerDNSClient` returns what spec.md
  describes for every input of the instance.

Why these bounds are enough:

- Two fault slots let a failure follow a failure.
- Three generations let an edit land while a reconcile is in flight, and then
  again.
- Two attribute values make every patch observable.
- `zone_multi` and `zone_pair` cover both duplicate rules of `zoneReconcile`:
  `len(zones) > 1`, and Zone together with ClusterZone.
- `provider_converge` reaches every outcome of each probe input (missing secret, empty key, bad or missing CA, invalid proxy, each server answer), one
  environment change after the provider settles, and one failed write.
- All actions fire across the passing runs.
- Each passing property has a mutant in `PROJECT.json` that TLC catches. The
  mutants are:
  - a PowerDNS error left without its SynchronizationFailed reason;
  - `observedGeneration` taken at patch time, in the zone reconciler and in the provider reconciler;
  - no retry after a failed delete;
  - a finalizer dropped without deleting the zone;
  - a zone created before its finalizer;
  - a wrapper that never adds the metrics finalizer (as the v1alpha2 one);
  - a provider reconcile that returns no `RequeueAfter`;
  - a connection check that accepts any daemon type;
  - an empty API key that is accepted.

## Findings

1. **Duplicates end up Succeeded** (`part_003:113`).
   - The index leaves out Failed objects. After the 30 s back-off, a duplicate
     sees only the original, passes the check, and overwrites the shared
     PowerDNS zone with its own spec. It then reports Succeeded.
   - `spec.md` says the others stay Failed.
2. **Deleting a duplicate deletes the original's zone** (`part_003:52`).
   - The duplicate got the finalizer before the check. Its deletion deletes
     the PowerDNS zone by name, and the original stays Succeeded with no zone.
3. **A repeated failure is not retried** (`part_003:189`).
   - The second identical failure patches nothing, so no event fires. The
     return value asks for no requeue, so only the 10 h resync retries.
   - `spec.md` promises a retry at least every 30 s.
4. **`LastConnectionTime` is not refreshed on a transition** (`pdns_client.go:390`).
   - The new status is stored before the test at 400-403 compares it with the
     new status, so the test sees no change.
   - After Connected, Failed, Connected within 4 minutes, the time stays old.
5. **A server with no daemon type is Connected** (`pdns_client.go:332`).
   - Only a non-nil daemon type other than authoritative is rejected.
   - `IsConnectionHealthy` checks only the status, against spec.md 3 and 4.1.
6. **An empty API key is reported as a connection failure** (`pdns_client.go:283`).
   - spec.md 4.1 says SecretNotFound. The v1alpha2 `getAPIKey` rejects an
     empty key.

An instance of `PowerDNSProvider` with `IntervalRefs = {"0s"}` (`MCIntervalsZero`)
also violates `Converges`. `RequeueAfter: 0` means no requeue, so a Connected
provider is never rechecked. The CRD does not forbid `0s`, and spec.md does
not say what it means, so this is noted rather than run.

## Proofs

The proofs are checked by `tlapm` for every value of the constants that
satisfies the modules' assumptions.

**`PowerDNSZoneProofs`** assumes `ConstAssumption`:
- `Zones` and `ClusterZones` are disjoint;
- there is at most one ClusterZone;
- the value sets are non-empty;
- `MaxGen` ≥ 1 and `MaxFaults` ∈ Nat.

- **`TypeCorrect`: `Spec => []TypeOK`.** The proof has one step per action,
  using the lemmas `RemoveType`, `FaultType`, `StrippedType` and `SeriesType`.
- **`BackendGuardedHolds`: `Spec => []BackendGuarded`.**
  - `BackendGuarded` alone is not inductive. The step of
    `ZoneExternalResourcesReconcile` that creates the zone preserves it only
    because a reconcile in progress holds the finalizer of a stored object.
  - The inductive invariant is `TypeOK /\ GuardInv`, with
    `GuardInv == FinalizerInv /\ BackendGuarded`.
  - `FinalizerInv` says a finalizer implies the object is stored, and a
    reconcile in progress implies its object has the finalizer.
  - TLC checked it as an invariant of `zone_multi` before it was proved.
- **`MetricParityHolds`: `Spec => []MetricParity`.**
  - `MetricParity` alone is not inductive. `PatchZoneStatus` publishes a
    series, and the deletion branch drops it only under the metrics
    finalizer.
  - The inductive invariant is `TypeOK /\ MetricsInv`. `MetricsInv` says:
    - the metrics finalizer is only on stored objects;
    - every reconcile in progress holds it, because the wrapper adds it
      first;
    - every object with a series holds it.
  - TLC checked `MetricsInv` as an invariant of `zone_multi` and
    `zone_pair` before it was proved.
- **`ZoneCreatedUnderFinalizerHolds`: `Spec => ZoneCreatedUnderFinalizer`.**
  This is an action property. The lemma `CreateStep` shows that only
  `ZoneExternalResourcesReconcile` can take the backend from `NoZone` to a
  zone. `FinalizerInv` then gives that the creating object is stored and
  holds its finalizer. `GuardAlways` (`Spec => [](TypeOK /\ GuardInv)`)
  carries the invariant, and PTL turns the one-step fact into `[][...]_vars`.
- **`StatusReflectsBackendHolds`**, under the hypothesis `Objects = {z}`:
  `Spec => []StatusReflectsBackend`.
  - The hypothesis is the instance `zone_single` checks. With two objects
    of one FQDN the property is false (finding 1), so the theorem is not
    stated for more.
  - The property speaks of an object at rest, but what it rests on is
    established and used while a reconcile is in flight. The inductive
    invariant is `TypeOK /\ GuardInv /\ SnapInv /\ SyncedAt(z)`.
  - `SnapInv` holds for any number of objects (proved by `SnapStep`). It says:
    - `obsGen <= gen`;
    - an object that is not stored has no status;
    - during a reconcile, `obsGen <= snapGen <= gen`, and the spec read is
      the current spec while the generation is unchanged.
  - `SyncedAt(z)` (proved by `SyncedStep`) says two things:
    - At the status patch, a `ZoneSynced` result means PowerDNS holds the
      spec that was read.
    - A live object with a Succeeded status for its current generation has
      its spec in PowerDNS, at rest or not. This is the key strengthening:
      in that state `ZoneExternalResourcesReconcile` finds nothing to patch.
      A failed status patch leaves the old status, and it is still true.
  - TLC checked `TypeOK /\ StatusInv` on the `zone_single` instance (104k
    states) and `SnapInv` on `zone_multi` (1.7M states) before the proof.

**`PowerDNSClientProofs`** assumes `ClientAssumption`, which admits every
input kind the resolver distinguishes.

- **`ResolverCorrect`: `Spec => []ResolverMatchesSpec`.**
  - The proof splits on three cases: a named reference that fails, one that
    resolves, and no reference. `getClusterClient` returns `Error` exactly
    when the reference's failure condition holds.
  - The first attempt failed for a real reason: `Reference` was a CASE with
    overlapping guards. In TLA+ that picks any true arm; only TLC reads arms
    left to right. Its arms are now disjoint.

**`PowerDNSProviderProofs`** assumes `ProviderAssumption` (the value sets are
within their kinds and non-empty, `MaxGen` ≥ 1, the other bounds are in Nat)
and `KeyRefAssumption` (a named key is a string other than `apiKey`).

- **`TypeCorrect`: `Spec => []TypeOK`.**
  - `TypeOK` is split into four parts: object, environment, status and
    control. Each step proves each part it can change.
  - The lemmas `APIKeyType`, `OutcomeType` and `NoResultType` type the
    probe functions. `BoundsNat` isolates the numeric part of the assumption.
- **`HealthRefinement`: `Spec => HealthSafety`**, the safety part of
  `ProviderHealth` (`Health!Init /\ [][Health!Next]_Health!vars`).
  - `Init` maps to `Health!Init`.
  - Every step maps to one of:
    - `Create`, `Edit`, `Delete`, `Remove`, `EnvChange`, `Probe`, `Report` or `Lose`;
    - a stutter of the abstract variables.
  - The inductive invariant is `TypeOK /\ RefInv`. `RefInv` says:
    - a stored provider has a generation in `1..MaxGen`;
    - a finalizer implies the provider is stored;
    - a reconcile at the status patch implies the finalizer is held and a generation was read.
  - The invariant is needed for two steps:
    - A reconcile at the patch (`probe # NoProbe`) blocks the abstract
      `Remove`. The finalizer keeps the provider stored until the patch is done.
    - The probe's generation must be a real one.

What stays with TLC:

- Liveness: `DeletionCompletes`, `Converges`, and the fairness part of
  `HealthSpec`. The provers do not handle ENABLED or fairness.
- The violated properties.
- `StatusReflectsBackend` for several objects of one FQDN. It is false
  there (finding 1); only the one-object case is a theorem.

## Not modelled

- **RRset and ClusterRRset reconcilers** (`part_008`, `rrsetReconcile`), with
  the `rrsets_status` gauge.
  - They are not modelled. They would be composed with `PowerDNSZone`
    through the parent's status and deletion.
  - Their hazards are listed in `PROJECT.json`:
    - the finalizer is removed without cleanup when the parent is gone (`part_008:121`);
    - a Failed RRset is not requeued (`part_003:252`).
- **Cluster reconciler** (`part_007`). It is the v1alpha2 twin of the
  PDNSProvider reconciler, whose status logic `PowerDNSProvider` checks.
- **Provider-reference resolution** (`part_005`, `part_006`). Only the v1alpha2
  chain is in `PowerDNSClient`.
- **Informer cache lag.** The duplicate index reads the stored objects. A
  lagging cache (`part_003:98`) is not modelled.
- **Left out for good.**
  - CRD schemas and samples.
  - Flag parsing, TLS, health probes, webhooks and leader election, which are process setup.
  - Tests and e2e scripts.
