----------------------------- MODULE PowerDNSClient -----------------------------
(***************************************************************************)
(* The provider-client resolver of the v1alpha2 API, GetPowerDNSClient     *)
(* (src/internal/controller/pdns_client.go lines 30-149): a reference to a *)
(* Cluster, the Cluster, its API secret and CA file, and the process-wide  *)
(* legacy client give a client or an error.  The resolver keeps no state; *)
(* its inputs are the variables, chosen once, and each state is one call.  *)
(* Resolve is checked against Reference, the resolver spec.md 4.5 and 9    *)
(* describe.                                                               *)
(***************************************************************************)
EXTENDS Naturals

CONSTANTS
    ClusterRefs,   \* the zone's clusterRef: "nil", "" or the Cluster's name
    ClusterVals,   \* states of that Cluster object (timeout 0: apiTimeout unset,
                   \* which the CRD's minimum of 1 tells apart from a value)
    SecretVals,    \* states of the Cluster's API secret
    CAFileVals,    \* the file at spec.apiCAPath: "missing", "badpem" or "ok"
    LegacyVals     \* the legacy client: which of its Records and Zones are set

KeyStates == {"absent", "empty", "set"}

ClusterSpecs ==
    [found : BOOLEAN, secretName : {"", "s"}, vhost : {"nil", "v"},
     timeout : {0, 30}, insecure : {"nil", "true", "false"},
     caPath : {"nil", "", "file"}, proxy : {"nil", "", "valid", "invalid"}]

ASSUME ClientAssumption ==
    /\ ClusterRefs \subseteq {"nil", "", "c"}
    /\ ClusterVals \subseteq ClusterSpecs
    /\ SecretVals \subseteq [found : BOOLEAN, apiKey : KeyStates]
    /\ CAFileVals \subseteq {"missing", "badpem", "ok"}
    /\ LegacyVals \subseteq [records : BOOLEAN, zones : BOOLEAN]

VARIABLES clusterRef, cluster, secret, caFile, legacy

vars == <<clusterRef, cluster, secret, caFile, legacy>>

\* Cluster accessors, api/v1alpha2/cluster_types.go.
GetApiVhost(c) == IF c.vhost = "nil" THEN "localhost" ELSE c.vhost
GetApiTimeout(c) == IF c.timeout = 0 THEN 10 ELSE c.timeout
GetApiInsecure(c) == IF c.insecure = "nil" THEN FALSE ELSE c.insecure = "true"

\* A client bound to a Cluster: vhost, timeout (s) and TLS verification.
ClusterClient(c) ==
    [kind |-> "cluster", vhost |-> GetApiVhost(c), timeout |-> GetApiTimeout(c),
     insecure |-> GetApiInsecure(c)]
LegacyClient == [kind |-> "legacy", vhost |-> "", timeout |-> 0, insecure |-> FALSE]
Error == [kind |-> "error", vhost |-> "", timeout |-> 0, insecure |-> FALSE]

isValidClient(l) == l.records /\ l.zones

\* Bug variant: an empty apiKey is accepted.
getAPIKeyAcceptEmpty(c, sec) ==
    IF c.secretName = "" \/ ~sec.found \/ sec.apiKey = "absent" THEN "error"
    ELSE "key"

\* getAPIKey: the secret must name a secret holding a non-empty apiKey.
getAPIKey(c, sec) ==
    IF c.secretName = "" \/ ~sec.found \/ sec.apiKey # "set" THEN "error"
    ELSE "key"

\* createHTTPClient: the CA file when a path is set, then the proxy URL.
createHTTPClient(c, ca) ==
    IF c.caPath = "file" /\ ca # "ok" THEN "error"
    ELSE IF c.proxy = "invalid" THEN "error"
    ELSE "http"

\* getClusterClient (its checks of an empty name and API URL cannot fail:
\* the name is non-empty here and the CRD requires an http(s) URL).
getClusterClient(c, sec, ca) ==
    IF ~c.found \/ getAPIKey(c, sec) = "error" \/ createHTTPClient(c, ca) = "error"
    THEN Error ELSE ClusterClient(c)

GetPowerDNSClient(ref, c, sec, ca, l) ==
    IF ref \notin {"nil", ""} THEN getClusterClient(c, sec, ca)
    ELSE IF isValidClient(l) THEN LegacyClient
    ELSE Error

Resolve == GetPowerDNSClient(clusterRef, cluster, secret, caFile, legacy)

Init ==
    /\ clusterRef \in ClusterRefs /\ cluster \in ClusterVals
    /\ secret \in SecretVals /\ caFile \in CAFileVals /\ legacy \in LegacyVals

Next == UNCHANGED vars

Spec == Init /\ [][Next]_vars

-----------------------------------------------------------------------------

\* spec.md 4.5 and 9: a non-empty reference is resolved, failing when the
\* resource is absent, its key is missing or empty, the CA bundle is
\* missing or not PEM, or the proxy URL does not parse; the client takes
\* the defaults vhost "localhost", timeout 10 s and TLS verification on.
\* Without a reference the legacy client is used if and only if it has both
\* capability sets.
Reference ==
    LET c == cluster
        fails == \/ ~c.found
                 \/ c.secretName = "" \/ ~secret.found
                 \/ secret.apiKey \in {"absent", "empty"}
                 \/ c.caPath = "file" /\ caFile \in {"missing", "badpem"}
                 \/ c.proxy = "invalid"
    IN  CASE clusterRef \notin {"nil", ""} /\ fails -> Error
          [] clusterRef \notin {"nil", ""} /\ ~fails ->
               [kind |-> "cluster",
                vhost |-> IF c.vhost = "nil" THEN "localhost" ELSE c.vhost,
                timeout |-> IF c.timeout = 0 THEN 10 ELSE c.timeout,
                insecure |-> c.insecure = "true"]
          [] clusterRef \in {"nil", ""} /\ legacy.records /\ legacy.zones ->
               LegacyClient
          [] OTHER -> Error

ResolverMatchesSpec == Resolve = Reference

================================================================================
