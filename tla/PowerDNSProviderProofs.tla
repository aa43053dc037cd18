------------------------ MODULE PowerDNSProviderProofs ------------------------
(***************************************************************************)
(* Proofs about the PDNSProvider reconciler of PowerDNSProvider, for all   *)
(* value sets and bounds that satisfy ProviderAssumption: type             *)
(* correctness, and that every behaviour is one of the abstract            *)
(* ProviderHealth specification (its safety part; its fairness is left to *)
(* TLC).                                                                   *)
(***************************************************************************)
EXTENDS PowerDNSProvider, TLAPS

\* The placeholder spec of a provider not yet created is a spec.
LEMMA NoSpecType == NoSpec \in ProviderSpec
<1>1. PICK k \in KeyRefs : TRUE
  BY ProviderAssumption
<1>2. PICK c \in CARefs : TRUE
  BY ProviderAssumption
<1>3. PICK p \in ProxyRefs : TRUE
  BY ProviderAssumption
<1>4. PICK i \in IntervalRefs : TRUE
  BY ProviderAssumption
<1>5. [key |-> k, ca |-> c, proxy |-> p, interval |-> i] \in ProviderSpec
  BY <1>1, <1>2, <1>3, <1>4 DEF ProviderSpec
<1>6. QED
  BY <1>5 DEF NoSpec

\* getAPIKeyFromSecret returns an error or the state of a key that exists.
LEMMA APIKeyType ==
    ASSUME NEW s \in ProviderSpec, NEW sec \in SecretVals
    PROVE  GetAPIKeyFromSecret(s, sec) \in {"error", "empty", "set"}
<1>1. GetCredentialsSecretKey(s) \in KeyNames
  BY DEF GetCredentialsSecretKey, KeyNames, ProviderSpec
<1>2. sec.data \in [KeyNames -> KeyStates]
  BY ProviderAssumption
<1>3. QED
  BY <1>1, <1>2 DEF GetAPIKeyFromSecret, KeyStates

\* The outcome of a probe is one the status can hold: a server that is
\* down or a recursor gives an error, so a Connected outcome carries the
\* daemon type nil or authoritative.
LEMMA OutcomeType ==
    ASSUME NEW s \in ProviderSpec, NEW e \in SecretVals \X CAVals \X ServerVals
    PROVE  Outcome(s, e) \in Outcomes
<1>1. e[3] \in {"down", "nil", "authoritative", "recursor"}
  BY ProviderAssumption
<1>2. CheckPowerDNSConnection(s, GetAPIKeyFromSecret(s, e[1]), e[2], e[3])
        \in {"error", "nil", "authoritative"}
  BY <1>1 DEF CheckPowerDNSConnection
<1>3. QED
  BY <1>2 DEF Outcome, Outcomes

\* The reset value of the reconcile's result is well typed.
LEMMA NoResultType == NoResult \in [out : Outcomes, requeue : BOOLEAN]
BY DEF NoResult, Outcomes

\* The bounds are natural numbers.
LEMMA BoundsNat == MaxGen \in Nat \ {0} /\ MaxFaults \in Nat /\ MaxEnvChanges \in Nat
BY ProviderAssumption

\* A failed write keeps the fault counter within its bound.
LEMMA FaultType ==
    ASSUME TypeOK, Fault
    PROVE  faults' \in 0..MaxFaults
BY BoundsNat DEF TypeOK, Fault

\* The initial state is well typed.
LEMMA TypeInit == Init => TypeOK
<1> SUFFICES ASSUME Init PROVE TypeOK
  OBVIOUS
<1>1. spec \in ProviderSpec /\ result \in [out : Outcomes, requeue : BOOLEAN]
  BY NoSpecType, NoResultType DEF Init
<1>2. /\ gen \in 0..MaxGen /\ obsGen \in 0..MaxGen /\ snapGen \in 0..MaxGen
      /\ envChanges \in 0..MaxEnvChanges /\ faults \in 0..MaxFaults
  BY BoundsNat DEF Init
<1>3. QED
  BY <1>1, <1>2 DEF Init, TypeOK

\* TypeOK in four parts: the object, the environment, the status and the
\* controller's state.
ObjOK ==
    /\ exists \in BOOLEAN /\ deleting \in BOOLEAN /\ finalizer \in BOOLEAN
    /\ gen \in 0..MaxGen /\ spec \in ProviderSpec
EnvOK ==
    /\ secret \in SecretVals /\ caObj \in CAVals /\ server \in ServerVals
    /\ envChanges \in 0..MaxEnvChanges
StatusOK ==
    /\ connStatus \in {"nil", "Connected", "Failed"}
    /\ reason \in {"nil", "Connected", "ConnectionFailed", "SecretNotFound"}
    /\ daemonType \in {"nil", "authoritative"}
    /\ obsGen \in 0..MaxGen
    /\ lastConn \in {"nil", "now", "recent", "old"}
CtrlOK ==
    /\ queue \in BOOLEAN /\ timer \in BOOLEAN
    /\ pc \in {"idle", "patch"}
    /\ snapGen \in 0..MaxGen
    /\ apiKey \in {"error", "empty", "set"}
    /\ result \in [out : Outcomes, requeue : BOOLEAN]
    /\ faults \in 0..MaxFaults

LEMMA TypeOKParts == TypeOK <=> ObjOK /\ EnvOK /\ StatusOK /\ CtrlOK
BY Zenon DEF TypeOK, ObjOK, EnvOK, StatusOK, CtrlOK

\* A part whose variables a step leaves alone stays well typed.
LEMMA KeptParts ==
    /\ ObjOK /\ UNCHANGED objVars => ObjOK'
    /\ EnvOK /\ UNCHANGED envVars => EnvOK'
    /\ StatusOK /\ UNCHANGED statusVars => StatusOK'
BY DEF ObjOK, EnvOK, StatusOK, objVars, envVars, statusVars

\* The status the API server clears when it drops the object is well typed.
LEMMA RemoveType == Remove => StatusOK'
BY BoundsNat DEF Remove, StatusOK

\* Every step of Next keeps the types.
LEMMA TypeStep == TypeOK /\ [Next]_vars => TypeOK'
<1> SUFFICES ASSUME TypeOK, [Next]_vars PROVE ObjOK' /\ EnvOK' /\ StatusOK' /\ CtrlOK'
  BY Zenon DEF TypeOK, ObjOK, EnvOK, StatusOK, CtrlOK
<1>0. ObjOK /\ EnvOK /\ StatusOK /\ CtrlOK
  BY TypeOKParts
<1> USE <1>0, BoundsNat, KeptParts
<1>1. CASE CreateProvider
  <2>1. ObjOK'
    BY <1>1 DEF CreateProvider, ObjOK
  <2>2. CtrlOK'
    BY <1>1 DEF CreateProvider, CtrlOK
  <2>3. QED
    BY <1>1, <2>1, <2>2 DEF CreateProvider
<1>2. CASE UpdateSpec
  <2>1. ObjOK'
    BY <1>2 DEF UpdateSpec, ObjOK
  <2>2. CtrlOK'
    BY <1>2 DEF UpdateSpec, CtrlOK
  <2>3. QED
    BY <1>2, <2>1, <2>2 DEF UpdateSpec
<1>3. CASE DeleteProvider
  <2>1. ObjOK' /\ StatusOK'
    BY <1>3, RemoveType DEF DeleteProvider, Remove, ObjOK
  <2>2. CtrlOK'
    BY <1>3 DEF DeleteProvider, CtrlOK
  <2>3. QED
    BY <1>3, <2>1, <2>2 DEF DeleteProvider
<1>4. CASE EnvChange
  <2>1. EnvOK'
    BY <1>4 DEF EnvChange, EnvOK
  <2>2. CtrlOK'
    BY <1>4 DEF EnvChange, CtrlOK, ctrlVars
  <2>3. QED
    BY <1>4, <2>1, <2>2 DEF EnvChange
<1>5. CASE ReconcileGone
  <2>1. CtrlOK'
    BY <1>5 DEF ReconcileGone, ReconcileStart, CtrlOK
  <2>2. QED
    BY <1>5, <2>1 DEF ReconcileGone
<1>6. CASE ReconcileDeleted
  <2>1. CtrlOK'
    BY <1>6, FaultType, TypeOKParts DEF ReconcileDeleted, CtrlOK
  <2>2. ObjOK' /\ StatusOK'
    BY <1>6, RemoveType DEF ReconcileDeleted, Remove, ObjOK
  <2>3. QED
    BY <1>6, <2>1, <2>2 DEF ReconcileDeleted
<1>7. CASE ReconcileFinalizerFails
  <2>1. CtrlOK'
    BY <1>7, FaultType, TypeOKParts DEF ReconcileFinalizerFails, CtrlOK, ctrlVars
  <2>2. QED
    BY <1>7, <2>1 DEF ReconcileFinalizerFails
<1>8. CASE ReconcilePDNSProvider
  <2>1. Outcome(spec, <<secret, caObj, server>>) \in Outcomes
    BY OutcomeType DEF ObjOK, EnvOK
  <2>2. GetAPIKeyFromSecret(spec, secret) \in {"error", "empty", "set"}
    BY APIKeyType DEF ObjOK, EnvOK
  <2>3. ObjOK'
    BY <1>8 DEF ReconcilePDNSProvider, ObjOK
  <2>4. CtrlOK'
    BY <1>8, <2>1, <2>2 DEF ReconcilePDNSProvider, CtrlOK, ObjOK
  <2>5. QED
    BY <1>8, <2>3, <2>4 DEF ReconcilePDNSProvider
<1>9. CASE UpdatePDNSProviderStatus
  <2>1. result.out.daemon \in {"none", "nil", "authoritative"}
    BY DEF CtrlOK, Outcomes
  <2>2. result.out \in Outcomes
    BY DEF CtrlOK
  <2>3. StatusOK'
    BY <1>9, <2>1, <2>2 DEF UpdatePDNSProviderStatus, StatusOK, CtrlOK, Outcomes
  <2>4. faults' \in 0..MaxFaults
    BY <1>9, FaultType, TypeOKParts DEF UpdatePDNSProviderStatus, CtrlOK
  <2>5. queue' \in BOOLEAN /\ timer' \in BOOLEAN
    BY <1>9 DEF UpdatePDNSProviderStatus, CtrlOK
  <2>6. CtrlOK'
    BY <1>9, <2>4, <2>5, NoResultType DEF UpdatePDNSProviderStatus, CtrlOK
  <2>7. QED
    BY <1>9, <2>3, <2>6 DEF UpdatePDNSProviderStatus
<1>10. CASE Tick
  <2>1. StatusOK'
    BY <1>10 DEF Tick, StatusOK
  <2>2. CtrlOK'
    BY <1>10 DEF Tick, CtrlOK, ctrlVars
  <2>3. QED
    BY <1>10, <2>1, <2>2 DEF Tick
<1>11. CASE TimerFires
  <2>1. CtrlOK'
    BY <1>11 DEF TimerFires, CtrlOK
  <2>2. QED
    BY <1>11, <2>1 DEF TimerFires
<1>12. CASE Resync
  <2>1. CtrlOK'
    BY <1>12 DEF Resync, CtrlOK
  <2>2. QED
    BY <1>12, <2>1 DEF Resync
<1>13. CASE UNCHANGED vars
  BY <1>13 DEF vars, ObjOK, EnvOK, StatusOK, CtrlOK, objVars, envVars,
     statusVars, ctrlVars
<1>14. QED
  BY <1>1, <1>2, <1>3, <1>4, <1>5, <1>6, <1>7, <1>8, <1>9, <1>10, <1>11,
     <1>12, <1>13 DEF Next, Controller

\* Every reachable state of the provider model is well typed: in particular
\* the status holds only a daemon type checkPowerDNSConnection let through.
THEOREM TypeCorrect == Spec => []TypeOK
BY TypeInit, TypeStep, PTL DEF Spec


-----------------------------------------------------------------------------
(* Refinement of ProviderHealth.  A reconcile between reading the          *)
(* environment and patching the status is the abstract probe in flight.   *)
(* That step is a step of the abstract Report or Lose only if a reconcile *)
(* in flight belongs to a stored provider with a non-zero generation      *)
(* (so its probe differs from NoProbe) and a deletion without finalizer    *)
(* (an abstract Delete that removes) never races it: RefInv says so.       *)

RefInv ==
    /\ exists => gen \in 1..MaxGen
    /\ finalizer => exists
    /\ pc = "patch" => finalizer /\ snapGen \in 1..MaxGen

\* The safety part of ProviderHealth under the refinement mapping.
HealthSafety == Health!Init /\ [][Health!Next]_Health!vars

LEMMA RefInvInit == Init => RefInv
BY DEF Init, RefInv

LEMMA RefInvStep == TypeOK /\ RefInv /\ [Next]_vars => RefInv'
<1> SUFFICES ASSUME TypeOK, RefInv, [Next]_vars PROVE RefInv'
  OBVIOUS
<1> USE BoundsNat DEF objVars, envVars, statusVars, ctrlVars
<1>1. CASE CreateProvider
  BY <1>1 DEF CreateProvider, RefInv, TypeOK
<1>2. CASE UpdateSpec
  BY <1>2 DEF UpdateSpec, RefInv, TypeOK
<1>3. CASE DeleteProvider
  <2>1. CASE finalizer /\ deleting' = TRUE /\ UNCHANGED <<exists, finalizer, statusVars>>
    BY <1>3, <2>1 DEF DeleteProvider, RefInv
  <2>2. CASE ~finalizer /\ Remove
    <3>1. pc' # "patch"
      BY <1>3, <2>2 DEF DeleteProvider, RefInv
    <3>2. QED
      BY <2>2, <3>1 DEF Remove, RefInv
  <2>3. QED
    BY <1>3, <2>1, <2>2 DEF DeleteProvider
<1>4. CASE EnvChange
  BY <1>4 DEF EnvChange, RefInv
<1>5. CASE ReconcileGone
  BY <1>5 DEF ReconcileGone, ReconcileStart, RefInv
<1>6. CASE ReconcileDeleted
  BY <1>6 DEF ReconcileDeleted, Remove, RefInv
<1>7. CASE ReconcileFinalizerFails
  BY <1>7 DEF ReconcileFinalizerFails, RefInv
<1>8. CASE ReconcilePDNSProvider
  BY <1>8 DEF ReconcilePDNSProvider, RefInv
<1>9. CASE UpdatePDNSProviderStatus
  BY <1>9 DEF UpdatePDNSProviderStatus, RefInv
<1>10. CASE Tick
  BY <1>10 DEF Tick, RefInv
<1>11. CASE TimerFires
  BY <1>11 DEF TimerFires, RefInv
<1>12. CASE Resync
  BY <1>12 DEF Resync, RefInv
<1>13. CASE UNCHANGED vars
  BY <1>13 DEF vars, RefInv
<1>14. QED
  BY <1>1, <1>2, <1>3, <1>4, <1>5, <1>6, <1>7, <1>8, <1>9, <1>10, <1>11,
     <1>12, <1>13 DEF Next, Controller

\* The initial states map to initial states of ProviderHealth.
LEMMA RefineInit == Init => Health!Init
<1> SUFFICES ASSUME Init PROVE Health!Init
  OBVIOUS
<1>1. spec \in ProviderSpec
  BY NoSpecType DEF Init
<1>2. <<secret, caObj, server>> \in SecretVals \X CAVals \X ServerVals
  BY DEF Init
<1>3. QED
  BY <1>1, <1>2 DEF Init, Health!Init

\* Every step maps to a step of ProviderHealth or to a stutter: the user's
\* and the environment's steps to the same abstract steps, the read of the
\* environment to Probe, the status patch to Report (or to Lose when it
\* fails), removal to Remove, and the queue, timer and clock to nothing.
LEMMA RefineStep ==
    TypeOK /\ RefInv /\ [Next]_vars => [Health!Next]_Health!vars
<1> SUFFICES ASSUME TypeOK, RefInv, [Next]_vars PROVE [Health!Next]_Health!vars
  OBVIOUS
<1> USE DEF objVars, envVars, statusVars, ctrlVars
<1>1. CASE CreateProvider
  <2>1. Health!Create
    BY <1>1 DEF CreateProvider, Health!Create
  <2>2. QED
    BY <2>1 DEF Health!Next
<1>2. CASE UpdateSpec
  <2>1. Health!Edit
    BY <1>2 DEF UpdateSpec, Health!Edit
  <2>2. QED
    BY <2>1 DEF Health!Next
<1>3. CASE DeleteProvider
  <2>1. CASE finalizer /\ deleting' = TRUE /\ UNCHANGED <<exists, finalizer, statusVars>>
    <3>1. Health!Delete
      BY <1>3, <2>1 DEF DeleteProvider, Health!Delete
    <3>2. QED
      BY <3>1 DEF Health!Next
  <2>2. CASE ~finalizer /\ Remove
    <3>1. pc # "patch"
      BY <2>2 DEF RefInv
    <3>2. Health!Removed
      BY <1>3, <2>2, <3>1 DEF DeleteProvider, Remove, Health!Removed,
         Health!StatusCleared
    <3>3. Health!Delete
      BY <1>3, <3>1, <3>2 DEF DeleteProvider, Health!Delete
    <3>4. QED
      BY <3>3 DEF Health!Next
  <2>3. QED
    BY <1>3, <2>1, <2>2 DEF DeleteProvider
<1>4. CASE EnvChange
  <2>1. <<secret', caObj', server'>> \in (SecretVals \X CAVals \X ServerVals)
                                          \ {<<secret, caObj, server>>}
    <3>1. CASE secret' \in SecretVals \ {secret} /\ UNCHANGED <<caObj, server>>
      BY <3>1 DEF TypeOK
    <3>2. CASE caObj' \in CAVals \ {caObj} /\ UNCHANGED <<secret, server>>
      BY <3>2 DEF TypeOK
    <3>3. CASE server' \in ServerVals \ {server} /\ UNCHANGED <<secret, caObj>>
      BY <3>3 DEF TypeOK
    <3>4. QED
      BY <1>4, <3>1, <3>2, <3>3 DEF EnvChange
  <2>2. Health!EnvChange
    BY <1>4, <2>1 DEF EnvChange, Health!EnvChange
  <2>3. QED
    BY <2>2 DEF Health!Next
<1>5. CASE ReconcileGone
  BY <1>5 DEF ReconcileGone, Health!vars
<1>6. CASE ReconcileDeleted
  <2>1. CASE Fault /\ UNCHANGED <<objVars, statusVars, queue>>
    BY <1>6, <2>1 DEF ReconcileDeleted, Health!vars
  <2>2. CASE Remove /\ UNCHANGED <<gen, spec, queue, faults>>
    <3>1. Health!Remove
      BY <1>6, <2>2 DEF ReconcileDeleted, Remove, Health!Remove, Health!Removed,
         Health!StatusCleared
    <3>2. QED
      BY <3>1 DEF Health!Next
  <2>3. QED
    BY <1>6, <2>1, <2>2 DEF ReconcileDeleted
<1>7. CASE ReconcileFinalizerFails
  BY <1>7 DEF ReconcileFinalizerFails, Health!vars
<1>8. CASE ReconcilePDNSProvider
  <2>1. Health!Probe
    BY <1>8 DEF ReconcilePDNSProvider, Health!Probe
  <2>2. QED
    BY <2>1 DEF Health!Next
<1>9. CASE UpdatePDNSProviderStatus
  <2>1. [out |-> result.out, gen |-> snapGen] # NoProbe
    BY <1>9 DEF UpdatePDNSProviderStatus, RefInv, NoProbe
  <2>2. CASE Fault /\ UNCHANGED <<statusVars, queue>>
    <3>1. Health!Lose
      BY <1>9, <2>1, <2>2 DEF UpdatePDNSProviderStatus, Health!Lose
    <3>2. QED
      BY <3>1 DEF Health!Next
  <2>3. CASE ~(Fault /\ UNCHANGED <<statusVars, queue>>)
    <3>1. Health!Report
      BY <1>9, <2>1, <2>3 DEF UpdatePDNSProviderStatus, Health!Report
    <3>2. QED
      BY <3>1 DEF Health!Next
  <2>4. QED
    BY <2>2, <2>3
<1>10. CASE Tick
  BY <1>10 DEF Tick, Health!vars
<1>11. CASE TimerFires
  BY <1>11 DEF TimerFires, Health!vars
<1>12. CASE Resync
  BY <1>12 DEF Resync, Health!vars
<1>13. CASE UNCHANGED vars
  BY <1>13 DEF vars, Health!vars
<1>14. QED
  BY <1>1, <1>2, <1>3, <1>4, <1>5, <1>6, <1>7, <1>8, <1>9, <1>10, <1>11,
     <1>12, <1>13 DEF Next, Controller

\* The PDNSProvider reconciler implements the safety part of ProviderHealth
\* for every value of the constants: its status only ever reports the
\* outcome of a probe of some spec the provider had against the environment
\* of that moment, together with the generation that probe read, and is
\* cleared only when the provider is removed.
THEOREM HealthRefinement == Spec => HealthSafety
<1>1. Init => TypeOK /\ RefInv
  BY TypeInit, RefInvInit
<1>2. TypeOK /\ RefInv /\ [Next]_vars => TypeOK' /\ RefInv'
  BY TypeStep, RefInvStep
<1>3. TypeOK /\ RefInv /\ [Next]_vars => [Health!Next]_Health!vars
  BY RefineStep
<1>4. QED
  BY <1>1, <1>2, <1>3, RefineInit, PTL DEF Spec, HealthSafety

================================================================================
