--------------------------- MODULE MC_PowerDNSProvider ---------------------------
(* Small instances of PowerDNSProvider for TLC.                            *)
EXTENDS PowerDNSProvider

MCKeyRefs == {"nil", "token"}
MCCARefs == {"none", "Secret"}
MCProxyRefs == {"nil", "invalid"}
MCIntervals == {"1m"}
MCIntervalsZero == {"0s"}
\* The secret: missing; default key set; default key empty, custom key set.
MCSecretVals ==
    {[found |-> FALSE, data |-> [k \in KeyNames |-> "absent"]],
     [found |-> TRUE, data |-> [k \in KeyNames |-> IF k = "apiKey" THEN "set" ELSE "absent"]],
     [found |-> TRUE, data |-> [k \in KeyNames |-> IF k = "apiKey" THEN "empty" ELSE "set"]]}
\* A usable bundle in the ConfigMap only, or a bad one there and a usable
\* one in the Secret.
MCCAVals ==
    {[k \in CAKinds |-> IF k = "ConfigMap" THEN "ok" ELSE "notfound"],
     [k \in CAKinds |-> IF k = "ConfigMap" THEN "badpem" ELSE "ok"]}
MCServerVals == {"down", "nil", "authoritative", "recursor"}
MCServerValsUp == {"authoritative"}
MCServerValsToggle == {"down", "authoritative"}
MCServerValsNoDaemon == {"nil"}
\* Instances with one credentials set-up and no TLS or proxy options.
MCKeyRefsDefault == {"nil"}
MCCARefsNone == {"none"}
MCProxyRefsNone == {"nil"}
MCSecretValsSet == {[found |-> TRUE, data |-> [k \in KeyNames |-> "set"]]}
MCSecretValsEmpty == {[found |-> TRUE, data |-> [k \in KeyNames |-> "empty"]]}
MCCAValsOne == {[k \in CAKinds |-> "ok"]}
================================================================================
