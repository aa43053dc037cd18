------------------------- MODULE PowerDNSClientProofs -------------------------
(***************************************************************************)
(* The v1alpha2 resolver GetPowerDNSClient returns what spec.md 4.5 and 9  *)
(* describe, for every input that ClientAssumption admits: every kind of  *)
(* Cluster reference, Cluster spec, API secret, CA file and legacy client. *)
(***************************************************************************)
EXTENDS PowerDNSClient, TLAPS

\* The resolver and the reference agree on each input.
LEMMA ResolveInit == Init => ResolverMatchesSpec
<1> SUFFICES ASSUME Init PROVE Resolve = Reference
  BY DEF ResolverMatchesSpec
<1>1. /\ clusterRef \in {"nil", "", "c"}
      /\ cluster \in ClusterSpecs
      /\ secret \in [found : BOOLEAN, apiKey : KeyStates]
      /\ caFile \in {"missing", "badpem", "ok"}
      /\ legacy \in [records : BOOLEAN, zones : BOOLEAN]
  BY ClientAssumption DEF Init
<1> DEFINE c == cluster
           fails == \/ ~c.found
                    \/ c.secretName = "" \/ ~secret.found
                    \/ secret.apiKey \in {"absent", "empty"}
                    \/ c.caPath = "file" /\ caFile \in {"missing", "badpem"}
                    \/ c.proxy = "invalid"
<1>2. (getClusterClient(c, secret, caFile) = Error) <=> fails
  <2>1. getAPIKey(c, secret) = "error"
           <=> (c.secretName = "" \/ ~secret.found
                \/ secret.apiKey \in {"absent", "empty"})
    BY <1>1 DEF getAPIKey, KeyStates
  <2>2. createHTTPClient(c, caFile) = "error"
           <=> \/ c.caPath = "file" /\ caFile \in {"missing", "badpem"}
               \/ c.proxy = "invalid"
    BY <1>1 DEF createHTTPClient
  <2>3. ClusterClient(c) # Error
    BY DEF ClusterClient, Error
  <2>4. QED
    BY <2>1, <2>2, <2>3 DEF getClusterClient
<1>3. ClusterClient(c)
        = [kind |-> "cluster",
           vhost |-> IF c.vhost = "nil" THEN "localhost" ELSE c.vhost,
           timeout |-> IF c.timeout = 0 THEN 10 ELSE c.timeout,
           insecure |-> c.insecure = "true"]
  BY DEF ClusterClient, GetApiVhost, GetApiTimeout, GetApiInsecure
<1>4. CASE clusterRef \notin {"nil", ""} /\ fails
  <2>1. Reference = Error
    BY <1>4 DEF Reference, fails, c
  <2>2. Resolve = Error
    BY <1>2, <1>4 DEF Resolve, GetPowerDNSClient
  <2>3. QED
    BY <2>1, <2>2
<1>5. CASE clusterRef \notin {"nil", ""} /\ ~fails
  <2>1. Reference = ClusterClient(c)
    BY <1>3, <1>5 DEF Reference, fails, c
  <2>2. Resolve = ClusterClient(c)
    BY <1>2, <1>5 DEF Resolve, GetPowerDNSClient, getClusterClient
  <2>3. QED
    BY <2>1, <2>2
<1>6. CASE clusterRef \in {"nil", ""}
  <2>1. Reference = IF legacy.records /\ legacy.zones THEN LegacyClient ELSE Error
    BY <1>6 DEF Reference
  <2>2. Resolve = IF legacy.records /\ legacy.zones THEN LegacyClient ELSE Error
    BY <1>6 DEF Resolve, GetPowerDNSClient, isValidClient
  <2>3. QED
    BY <2>1, <2>2
<1>7. QED
  BY <1>4, <1>5, <1>6

\* The resolver keeps no state: a step changes none of its inputs.
LEMMA ResolveStep == ResolverMatchesSpec /\ [Next]_vars => ResolverMatchesSpec'
BY DEF ResolverMatchesSpec, Resolve, Reference, Next, vars

\* GetPowerDNSClient fails exactly when spec.md says it must (absent
\* Cluster, missing or empty apiKey, missing or non-PEM CA file, proxy URL
\* that does not parse), returns a client with the Cluster's settings and
\* their defaults otherwise, and falls back to the legacy client only when
\* no Cluster is named and both its capability sets are present.
THEOREM ResolverCorrect == Spec => []ResolverMatchesSpec
BY ResolveInit, ResolveStep, PTL DEF Spec
================================================================================
