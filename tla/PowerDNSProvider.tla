---------------------------- MODULE PowerDNSProvider ----------------------------
(***************************************************************************)
(* The PDNSProvider reconciler (PDNSProviderReconciler,                    *)
(* src/internal/controller/pdns_client.go) for one provider.  Providers    *)
(* are cluster-scoped and each reconcile touches only its own object, so   *)
(* one suffices; its name is not reused once it is removed.                *)
(*                                                                         *)
(* A reconcile is cut at the status patch: Reconcile* (Get, finalizer,     *)
(* then getAPIKeyFromSecret / checkPowerDNSConnection, which read the      *)
(* environment) and UpdatePDNSProviderStatus.  The environment is the      *)
(* credentials secret, the CA bundle objects and the PowerDNS server; it   *)
(* changes without any watch event (the controller watches only its own    *)
(* kind), so only RequeueAfter brings the provider back.                   *)
(***************************************************************************)
EXTENDS Naturals

CONSTANTS
    KeyRefs,       \* spec.credentials.secretRef.key: "nil" or a key name
    CARefs,        \* spec.tls.caBundleRef: "none", or its kind pointer ("nil", "Secret", "ConfigMap")
    ProxyRefs,     \* spec.proxy: "nil", "empty" (""), "valid" or "invalid" (url.Parse fails)
    IntervalRefs,  \* spec.interval: "nil" or a duration ("0s", "1m")
    SecretVals,    \* states of the credentials secret: found, and its data
    CAVals,        \* states of the ConfigMap and Secret that may hold the CA bundle
    ServerVals,    \* the PowerDNS server: "down", or the daemonType it reports ("nil" if none)
    MaxGen,        \* bound on metadata.generation
    MaxFaults,     \* bound on failed API-server writes
    MaxEnvChanges  \* bound on changes of the environment

\* A key of the secret's data: missing, empty or holding a key.
KeyStates == {"absent", "empty", "set"}
KeyNames == {"apiKey"} \cup (KeyRefs \ {"nil"})
CAKinds == {"ConfigMap", "Secret"}
\* An object the CA bundle is read from: missing, without the key, with a
\* key that is not PEM, or with a usable bundle.
CAStates == {"notfound", "nokey", "badpem", "ok"}

ProviderSpec == [key : KeyRefs, ca : CARefs, proxy : ProxyRefs,
                 interval : IntervalRefs]

\* A key named in spec.credentials.secretRef.key is a string other than the
\* default "apiKey", which "nil" (the field unset) stands for.
ASSUME KeyRefAssumption == KeyRefs \subseteq {"nil"} \cup (STRING \ {"apiKey"})

ASSUME ProviderAssumption ==
    /\ CARefs \subseteq {"none", "nil", "Secret", "ConfigMap"}
    /\ ProxyRefs \subseteq {"nil", "empty", "valid", "invalid"}
    /\ IntervalRefs # {} /\ KeyRefs # {} /\ CARefs # {} /\ ProxyRefs # {}
    /\ SecretVals \subseteq [found : BOOLEAN, data : [KeyNames -> KeyStates]]
    /\ CAVals \subseteq [CAKinds -> CAStates]
    /\ ServerVals \subseteq {"down", "nil", "authoritative", "recursor"}
    /\ SecretVals # {} /\ CAVals # {} /\ ServerVals # {}
    /\ MaxGen \in Nat \ {0} /\ MaxFaults \in Nat /\ MaxEnvChanges \in Nat

-----------------------------------------------------------------------------
(* Accessors of api/v1alpha3/pdnsprovider_types.go.                        *)

GetCredentialsSecretKey(s) == IF s.key = "nil" THEN "apiKey" ELSE s.key

GetCABundleRefKind(s) == IF s.ca \in {"none", "nil"} THEN "ConfigMap" ELSE s.ca

GetInterval(s) == IF s.interval = "nil" THEN "5m" ELSE s.interval

-----------------------------------------------------------------------------
(* The probe, as a function of the spec and the environment.  "error"      *)
(* stands for a returned error.                                            *)

\* getAPIKeyFromSecret: the key's value, which may be empty.
GetAPIKeyFromSecret(s, sec) ==
    IF ~sec.found \/ sec.data[GetCredentialsSecretKey(s)] = "absent"
    THEN "error" ELSE sec.data[GetCredentialsSecretKey(s)]

\* getCABundleData reads the object of the referenced kind.
GetCABundleData(s, ca) ==
    IF ca[GetCABundleRefKind(s)] \in {"notfound", "nokey"} THEN "error"
    ELSE ca[GetCABundleRefKind(s)]

\* Bug variant: the daemon type is not checked.
CheckPowerDNSConnectionAnyDaemon(s, key, ca, srv) ==
    IF s.ca # "none" /\ GetCABundleData(s, ca) # "ok" THEN "error"
    ELSE IF s.proxy = "invalid" THEN "error"
    ELSE IF srv = "down" \/ key = "empty" THEN "error"
    ELSE srv

\* checkPowerDNSConnection: CA bundle (which must parse as PEM), proxy URL,
\* Servers.Get (PowerDNS refuses an empty API key), then the daemon type,
\* of which only a reported non-authoritative one is refused.
CheckPowerDNSConnection(s, key, ca, srv) ==
    IF s.ca # "none" /\ GetCABundleData(s, ca) # "ok" THEN "error"
    ELSE IF s.proxy = "invalid" THEN "error"
    ELSE IF srv = "down" \/ key = "empty" THEN "error"
    ELSE IF srv = "recursor" THEN "error"
    ELSE srv

\* reconcilePDNSProvider: what the status will say; daemon "none" stands
\* for a nil serverInfo.
Outcome(s, e) ==
    LET key == GetAPIKeyFromSecret(s, e[1])
        srv == CheckPowerDNSConnection(s, key, e[2], e[3])
    IN  IF key = "error"
        THEN [status |-> "Failed", reason |-> "SecretNotFound", daemon |-> "none"]
        ELSE IF srv = "error"
        THEN [status |-> "Failed", reason |-> "ConnectionFailed", daemon |-> "none"]
        ELSE [status |-> "Connected", reason |-> "Connected", daemon |-> srv]

Outcomes == [status : {"Connected", "Failed"},
             reason : {"Connected", "ConnectionFailed", "SecretNotFound"},
             daemon : {"none", "nil", "authoritative"}]

-----------------------------------------------------------------------------

VARIABLES
    exists, deleting, finalizer, gen, spec,   \* the object
    secret, caObj, server, envChanges,        \* the environment
    connStatus,  \* status.connectionStatus ("nil": unset)
    reason,      \* reason of the Ready condition ("nil": no condition)
    daemonType,  \* status.daemonType
    obsGen,      \* status.observedGeneration (0: unset)
    lastConn,    \* status.lastConnectionTime: "nil", "now", "recent" (< 4 min), "old"
    queue,       \* the key is in the work queue
    timer,       \* a RequeueAfter is pending
    pc,          \* "idle", or "patch": the reconcile is about to patch the status
    snapGen,     \* generation of the object the reconcile read
    apiKey,      \* the key the reconcile read ("error" when none)
    result,      \* the outcome it will write, and whether it asks for RequeueAfter
    faults       \* failed writes so far

objVars == <<exists, deleting, finalizer, gen, spec>>
envVars == <<secret, caObj, server, envChanges>>
statusVars == <<connStatus, reason, daemonType, obsGen, lastConn>>
ctrlVars == <<queue, timer, pc, snapGen, apiKey, result>>
vars == <<objVars, envVars, statusVars, ctrlVars, faults>>

NoSpec == CHOOSE s \in ProviderSpec : TRUE
NoResult == [out |-> [status |-> "Failed", reason |-> "SecretNotFound",
                      daemon |-> "none"], requeue |-> FALSE]

TypeOK ==
    /\ exists \in BOOLEAN /\ deleting \in BOOLEAN /\ finalizer \in BOOLEAN
    /\ gen \in 0..MaxGen /\ spec \in ProviderSpec
    /\ secret \in SecretVals /\ caObj \in CAVals /\ server \in ServerVals
    /\ envChanges \in 0..MaxEnvChanges
    /\ connStatus \in {"nil", "Connected", "Failed"}
    /\ reason \in {"nil", "Connected", "ConnectionFailed", "SecretNotFound"}
    /\ daemonType \in {"nil", "authoritative"}
    /\ obsGen \in 0..MaxGen
    /\ lastConn \in {"nil", "now", "recent", "old"}
    /\ queue \in BOOLEAN /\ timer \in BOOLEAN
    /\ pc \in {"idle", "patch"}
    /\ snapGen \in 0..MaxGen
    /\ apiKey \in {"error", "empty", "set"}
    /\ result \in [out : Outcomes, requeue : BOOLEAN]
    /\ faults \in 0..MaxFaults

Fault == faults < MaxFaults /\ faults' = faults + 1

Init ==
    /\ exists = FALSE /\ deleting = FALSE /\ finalizer = FALSE
    /\ gen = 0 /\ spec = NoSpec
    /\ secret \in SecretVals /\ caObj \in CAVals /\ server \in ServerVals
    /\ envChanges = 0
    /\ connStatus = "nil" /\ reason = "nil" /\ daemonType = "nil"
    /\ obsGen = 0 /\ lastConn = "nil"
    /\ queue = FALSE /\ timer = FALSE
    /\ pc = "idle" /\ snapGen = 0 /\ apiKey = "error" /\ result = NoResult
    /\ faults = 0

\* The API server drops the object, and its status with it.
Remove ==
    /\ exists' = FALSE /\ deleting' = FALSE /\ finalizer' = FALSE
    /\ connStatus' = "nil" /\ reason' = "nil" /\ daemonType' = "nil"
    /\ obsGen' = 0 /\ lastConn' = "nil"

-----------------------------------------------------------------------------
(* The user and the environment.  Writes of the object fire a watch event. *)

CreateProvider ==
    /\ gen = 0
    /\ exists' = TRUE /\ gen' = 1
    /\ spec' \in ProviderSpec
    /\ queue' = TRUE
    /\ UNCHANGED <<deleting, finalizer, envVars, statusVars, timer, pc, snapGen,
                   apiKey, result, faults>>

UpdateSpec ==
    /\ exists /\ gen < MaxGen
    /\ spec' \in ProviderSpec \ {spec}
    /\ gen' = gen + 1
    /\ queue' = TRUE
    /\ UNCHANGED <<exists, deleting, finalizer, envVars, statusVars, timer, pc,
                   snapGen, apiKey, result, faults>>

DeleteProvider ==
    /\ exists /\ ~deleting
    /\ \/ finalizer /\ deleting' = TRUE
          /\ UNCHANGED <<exists, finalizer, statusVars>>
       \/ ~finalizer /\ Remove
    /\ queue' = TRUE
    /\ UNCHANGED <<gen, spec, envVars, timer, pc, snapGen, apiKey, result, faults>>

\* The secret, a CA object or the server changes; nothing is notified.
EnvChange ==
    /\ envChanges < MaxEnvChanges
    /\ envChanges' = envChanges + 1
    /\ \/ secret' \in SecretVals \ {secret} /\ UNCHANGED <<caObj, server>>
       \/ caObj' \in CAVals \ {caObj} /\ UNCHANGED <<secret, server>>
       \/ server' \in ServerVals \ {server} /\ UNCHANGED <<secret, caObj>>
    /\ UNCHANGED <<objVars, statusVars, ctrlVars, faults>>

-----------------------------------------------------------------------------
(* PDNSProviderReconciler.Reconcile.  Taking the key from the queue clears  *)
(* queue; an event during the reconcile, or a returned error, sets it.      *)

ReconcileStart == pc = "idle" /\ queue /\ queue' = FALSE

\* r.Get answers NotFound.
ReconcileGone ==
    /\ ReconcileStart
    /\ ~exists
    /\ UNCHANGED <<objVars, envVars, statusVars, timer, pc, snapGen, apiKey,
                   result, faults>>

\* Deleted: remove the finalizer (Update) and return; the object goes.
ReconcileDeleted ==
    /\ pc = "idle" /\ queue
    /\ exists /\ deleting
    /\ \/ Fault /\ UNCHANGED <<objVars, statusVars, queue>>
       \/ Remove /\ UNCHANGED <<gen, spec, queue, faults>>   \* the delete event
    /\ UNCHANGED <<envVars, timer, pc, snapGen, apiKey, result>>

\* The Update that adds the finalizer fails: the error is returned.
ReconcileFinalizerFails ==
    /\ pc = "idle" /\ queue
    /\ exists /\ ~deleting /\ ~finalizer
    /\ Fault
    /\ UNCHANGED <<objVars, envVars, statusVars, ctrlVars>>

\* Bug variant: success returns ctrl.Result{} with no RequeueAfter.
ReconcilePDNSProviderNoInterval ==
    /\ pc = "idle" /\ queue
    /\ exists /\ ~deleting
    /\ finalizer' = TRUE
    /\ queue' = ~finalizer
    /\ LET out == Outcome(spec, <<secret, caObj, server>>)
       IN  result' = [out |-> out, requeue |-> out.status = "Failed"]
    /\ apiKey' = GetAPIKeyFromSecret(spec, secret)
    /\ snapGen' = gen
    /\ pc' = "patch"
    /\ UNCHANGED <<exists, deleting, gen, spec, envVars, statusVars, timer, faults>>

\* The finalizer is in place: reconcilePDNSProvider reads the secret and
\* probes the server.  Its return, RequeueAfter 30 s on failure and
\* GetInterval() on success, is a requeue unless the duration is 0.
ReconcilePDNSProvider ==
    /\ pc = "idle" /\ queue
    /\ exists /\ ~deleting
    /\ finalizer' = TRUE
    /\ queue' = ~finalizer                \* the Update of a new finalizer
    /\ LET out == Outcome(spec, <<secret, caObj, server>>)
       IN  result' = [out |-> out,
                      requeue |-> out.status = "Failed" \/ GetInterval(spec) # "0s"]
    /\ apiKey' = GetAPIKeyFromSecret(spec, secret)
    /\ snapGen' = gen
    /\ pc' = "patch"
    /\ UNCHANGED <<exists, deleting, gen, spec, envVars, statusVars, timer, faults>>

\* Bug variant: observedGeneration taken from the object as it is at patch
\* time rather than as the reconcile read it.
UpdatePDNSProviderStatusCurrentGen ==
    /\ pc = "patch"
    /\ LET out == result.out
           info == out.daemon # "none"
           dt == IF info THEN out.daemon ELSE daemonType
           lc == IF info /\ lastConn \in {"nil", "old"} THEN "now" ELSE lastConn
       IN  \/ Fault /\ UNCHANGED <<statusVars, queue>>
           \/ /\ connStatus' = out.status /\ reason' = out.reason
              /\ daemonType' = dt /\ obsGen' = gen /\ lastConn' = lc
              /\ queue' = (queue \/ <<out.status, out.reason, dt, gen, lc>>
                                      # statusVars)
              /\ UNCHANGED faults
    /\ timer' = (timer \/ result.requeue)
    /\ pc' = "idle" /\ snapGen' = 0 /\ apiKey' = "error" /\ result' = NoResult
    /\ UNCHANGED <<objVars, envVars>>

\* updatePDNSProviderStatus.  ConnectionStatus is assigned before the test
\* of whether it changed, so LastConnectionTime moves only when unset or
\* older than 4 minutes.  A failed patch is only logged.  A patch that
\* changes the object fires an event.
UpdatePDNSProviderStatus ==
    /\ pc = "patch"
    /\ LET out == result.out
           info == out.daemon # "none"
           dt == IF info THEN out.daemon ELSE daemonType
           lc == IF info /\ lastConn \in {"nil", "old"} THEN "now" ELSE lastConn
       IN  \/ Fault /\ UNCHANGED <<statusVars, queue>>
           \/ /\ connStatus' = out.status /\ reason' = out.reason
              /\ daemonType' = dt /\ obsGen' = snapGen /\ lastConn' = lc
              /\ queue' = (queue \/ <<out.status, out.reason, dt, snapGen, lc>>
                                      # statusVars)
              /\ UNCHANGED faults
    /\ timer' = (timer \/ result.requeue)
    /\ pc' = "idle" /\ snapGen' = 0 /\ apiKey' = "error" /\ result' = NoResult
    /\ UNCHANGED <<objVars, envVars>>

-----------------------------------------------------------------------------

\* Time passes: LastConnectionTime ages past the 4-minute mark.
Tick ==
    /\ lastConn \in {"now", "recent"}
    /\ lastConn' = IF lastConn = "now" THEN "recent" ELSE "old"
    /\ UNCHANGED <<objVars, envVars, connStatus, reason, daemonType, obsGen,
                   ctrlVars, faults>>

TimerFires ==
    /\ timer
    /\ timer' = FALSE /\ queue' = TRUE
    /\ UNCHANGED <<objVars, envVars, statusVars, pc, snapGen, apiKey, result,
                   faults>>

\* The informer's 10 h resync.
Resync ==
    /\ exists /\ ~queue
    /\ queue' = TRUE
    /\ UNCHANGED <<objVars, envVars, statusVars, timer, pc, snapGen, apiKey,
                   result, faults>>

Controller ==
    \/ ReconcileGone \/ ReconcileDeleted \/ ReconcileFinalizerFails
    \/ ReconcilePDNSProvider \/ UpdatePDNSProviderStatus

Next ==
    \/ CreateProvider \/ UpdateSpec \/ DeleteProvider \/ EnvChange
    \/ Controller \/ Tick \/ TimerFires \/ Resync

\* One worker serves the queue; RequeueAfter delays end.  The user, the
\* environment, time and the 10 h resync are not relied upon.
Spec == Init /\ [][Next]_vars /\ WF_vars(Controller) /\ WF_vars(TimerFires)

-----------------------------------------------------------------------------
(* Properties.                                                             *)

\* Once the user and the environment stop changing, the provider is either
\* gone or its status reports, for the current generation, the outcome of
\* probing its current spec against the current environment.  It rests on
\* reconcilePDNSProvider always returning a RequeueAfter, since changes of
\* the secret or the server fire no event.
Settled ==
    exists =>
        /\ ~deleting
        /\ obsGen = gen
        /\ <<connStatus, reason>>
              = << Outcome(spec, <<secret, caObj, server>>).status,
                   Outcome(spec, <<secret, caObj, server>>).reason >>

Converges == <>[]Settled

\* The detailed reconciler implements ProviderHealth: a probe happens when
\* reconcilePDNSProvider reads the environment, and is reported or lost by
\* the status patch.
NoProbe == [out |-> NoResult.out, gen |-> 0]

Health == INSTANCE ProviderHealth WITH
    Specs <- ProviderSpec, Envs <- SecretVals \X CAVals \X ServerVals,
    env <- <<secret, caObj, server>>,
    probe <- IF pc = "patch" THEN [out |-> result.out, gen |-> snapGen] ELSE NoProbe

HealthSpec == Health!Spec

\* spec.md 3: a provider is healthy (IsConnectionHealthy) only when it is
\* Connected and PowerDNS reported daemon type authoritative.
IsConnectionHealthy == connStatus = "Connected"

HealthyIsAuthoritative == IsConnectionHealthy => daemonType = "authoritative"

\* pdns_client.go:399 and spec.md 4.1: LastConnectionTime is refreshed when
\* the connection status changes.
LastConnectionOnTransition ==
    [][connStatus # "Connected" /\ connStatus' = "Connected" => lastConn' = "now"]_vars

\* spec.md 4.1: an empty key in the secret is reported as SecretNotFound.
EmptyKeyIsSecretNotFound ==
    pc = "patch" /\ apiKey = "empty" => result.out.reason = "SecretNotFound"

================================================================================
