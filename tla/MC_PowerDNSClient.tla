---------------------------- MODULE MC_PowerDNSClient ----------------------------
(* Every input of the resolver over small value sets.                      *)
EXTENDS PowerDNSClient

MCClusterRefs == {"nil", "", "c"}
MCSecretVals == [found : BOOLEAN, apiKey : KeyStates]
MCCAFileVals == {"missing", "badpem", "ok"}
MCLegacyVals == [records : BOOLEAN, zones : BOOLEAN]
================================================================================
