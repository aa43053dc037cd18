----------------------------- MODULE ProviderHealth -----------------------------
(***************************************************************************)
(* What the PDNSProvider reconciler promises of one provider (spec.md      *)
(* 4.1), with no finalizer, work queue or timer: the provider is probed   *)
(* (its spec against the environment: credentials secret, CA bundle,      *)
(* PowerDNS server) and the probe's outcome is reported in the status      *)
(* together with the generation the probe read, or lost.  A live provider *)
(* is probed again and again; a provider being deleted is eventually      *)
(* removed.  Outcome is a parameter: the detailed module supplies the     *)
(* outcome the code computes.                                              *)
(***************************************************************************)
EXTENDS Naturals

CONSTANTS
    Specs,          \* values a provider spec can take
    Envs,           \* states of the environment the probe reads
    Outcome(_, _),  \* the outcome of probing a spec against an environment
    NoProbe,        \* no probe awaits its report
    MaxGen          \* bound on metadata.generation

VARIABLES
    exists,      \* the provider is stored
    deleting,    \* its deletionTimestamp is set
    gen,         \* metadata.generation (0: never created)
    spec,        \* its spec
    env,         \* the environment
    connStatus,  \* status.connectionStatus ("nil" when unset)
    reason,      \* the Ready condition's reason ("nil" when absent)
    daemonType,  \* status.daemonType
    obsGen,      \* status.observedGeneration (0 when unset)
    probe        \* a probe's outcome and the generation it read, not yet reported

vars == <<exists, deleting, gen, spec, env, connStatus, reason, daemonType,
          obsGen, probe>>

StatusCleared ==
    /\ connStatus' = "nil"
    /\ reason' = "nil"
    /\ daemonType' = "nil"
    /\ obsGen' = 0

Init ==
    /\ exists = FALSE /\ deleting = FALSE /\ gen = 0
    /\ spec \in Specs
    /\ env \in Envs
    /\ connStatus = "nil" /\ reason = "nil" /\ daemonType = "nil" /\ obsGen = 0
    /\ probe = NoProbe

Create ==
    /\ gen = 0
    /\ exists' = TRUE /\ gen' = 1
    /\ spec' \in Specs
    /\ UNCHANGED <<deleting, env, connStatus, reason, daemonType, obsGen, probe>>

Edit ==
    /\ exists /\ gen < MaxGen
    /\ spec' \in Specs \ {spec}
    /\ gen' = gen + 1
    /\ UNCHANGED <<exists, deleting, env, connStatus, reason, daemonType, obsGen,
                   probe>>

Removed ==
    /\ exists' = FALSE /\ deleting' = FALSE
    /\ StatusCleared
    /\ UNCHANGED <<gen, spec, env, probe>>

\* A delete request marks the provider, or removes it while nothing of it
\* is pending.
Delete ==
    /\ exists /\ ~deleting
    /\ \/ /\ deleting' = TRUE
          /\ UNCHANGED <<exists, gen, spec, env, connStatus, reason, daemonType,
                         obsGen, probe>>
       \/ probe = NoProbe /\ Removed

Remove == deleting /\ probe = NoProbe /\ Removed

EnvChange ==
    /\ env' \in Envs \ {env}
    /\ UNCHANGED <<exists, deleting, gen, spec, connStatus, reason, daemonType,
                   obsGen, probe>>

Probe ==
    /\ exists /\ ~deleting /\ probe = NoProbe
    /\ probe' = [out |-> Outcome(spec, env), gen |-> gen]
    /\ UNCHANGED <<exists, deleting, gen, spec, env, connStatus, reason,
                   daemonType, obsGen>>

\* The status is the probe's outcome; server information is kept when the
\* probe brought none.
Report ==
    /\ probe # NoProbe
    /\ connStatus' = probe.out.status
    /\ reason' = probe.out.reason
    /\ daemonType' = IF probe.out.daemon = "none" THEN daemonType
                     ELSE probe.out.daemon
    /\ obsGen' = probe.gen
    /\ probe' = NoProbe
    /\ UNCHANGED <<exists, deleting, gen, spec, env>>

Lose ==
    /\ probe # NoProbe
    /\ probe' = NoProbe
    /\ UNCHANGED <<exists, deleting, gen, spec, env, connStatus, reason,
                   daemonType, obsGen>>

Next ==
    \/ Create \/ Edit \/ Delete \/ Remove \/ EnvChange
    \/ Probe \/ Report \/ Lose

Spec ==
    /\ Init /\ [][Next]_vars
    /\ WF_vars(Probe) /\ WF_vars(Report \/ Lose) /\ WF_vars(Remove)

================================================================================
