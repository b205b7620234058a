------------------------------ MODULE MCTimers ------------------------------
(***************************************************************************)
(* The two parts whose waits only a timer ends: the loop of the            *)
(* transcription worker and the engraving worker of the browser.  They     *)
(* share nothing: each behaviour is one of a single part, under the        *)
(* fairness of that part, and the other stays where it begins.             *)
(***************************************************************************)
EXTENDS WorkerRuntime, Engraving

VARIABLE part  \* the part that runs

timersVars == <<part, runtimeVars, engravingVars>>

TimersInit == part \in {"runtime", "engraving"} /\ RuntimeInit /\ EngravingInit

TimersNext ==
    \/ part = "runtime" /\ RuntimeNext /\ UNCHANGED <<part, engravingVars>>
    \/ part = "engraving" /\ EngravingNext /\ UNCHANGED <<part, runtimeVars>>

TimersSpec ==
    /\ TimersInit /\ [][TimersNext]_timersVars
    /\ part = "runtime" => RuntimeFairness
    /\ part = "engraving" => EngravingFairness

\* Every variable of both parts stays in its type.
TimersTypeOK == RuntimeTypeOK /\ EngravingTypeOK

\* Whatever the health file says is true, of the job and of the loop
\* (worker-health.ts, worker-runtime.ts:88).
HealthFileTruthful == SnapshotTruthful /\ HealthyMeansProgress

\* What is waited for ends: a signalled worker returns, and every request
\* to the engraving worker is answered or rejected.
WaitsEnd == ShutdownEnds /\ RequestsSettle
=============================================================================
