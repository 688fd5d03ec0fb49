--------------------------- MODULE OrchestratorProofs ---------------------------
(***************************************************************************)
(* What holds of the orchestrator process for every set of hosts and every *)
(* miss threshold.                                                         *)
(***************************************************************************)
EXTENDS Orchestrator, SchedulerProofs

\* What the monitor does to the registry Scheduler.tla allows, and the rest of
\* the process is the scheduler.
LEMMA OrchStepIsSchedulerStep ==
  ASSUME OrchTypeOK, [OrchNext]_orchVars
  PROVE  [Next]_vars
<1>1. CASE UNCHANGED orchVars
  BY <1>1 DEF orchVars
<1>2. CASE Environment
  BY <1>2 DEF Environment
<1>3. CASE SchedulerRuns
  BY <1>3 DEF SchedulerRuns, Next, Handlers
<1>4. CASE StartRound \/ EndRound \/ Fence \/ \E h \in Hosts : HeartbeatMissed(h)
  BY <1>4 DEF StartRound, EndRound, Fence, HeartbeatMissed
<1>5. ASSUME NEW h \in Hosts, NEW cpu \in CPULevels, NEW warm \in BOOLEAN,
             HeartbeatAnswered(h, cpu, warm)
      PROVE  Next
  BY <1>5 DEF HeartbeatAnswered, Next, HostRegistry
<1>6. CASE MarkUnhealthy
  <2>1. cur \in Hosts
    BY <1>6 DEF MarkUnhealthy, UpdateHostHealth, Registered
  <2> QED
    BY <1>6, <2>1 DEF MarkUnhealthy, Next, HostRegistry
<1> QED
  BY <1>1, <1>2, <1>3, <1>4, <1>5, <1>6 DEF OrchNext, Monitor

\* What each step leaves of the registry.
LEMMA RegistryEffect ==
  ASSUME OrchTypeOK, [OrchNext]_orchVars
  PROVE  /\ Registered' = Registered
         /\ \/ info' = info
            \/ \E h \in Hosts, cpu \in CPULevels, warm \in BOOLEAN :
                 HeartbeatAnswered(h, cpu, warm)
            \/ MarkUnhealthy
<1>1. SchedulerRuns => info' = info
  BY DEF SchedulerRuns, Tick, Dispatch, Pop, DropExpired, StillLive, Requeue,
         PickHost, AssignHost, StartPlacement, SubmitCreate, Enqueue, Placement,
         AgentReplies, AgentFails, StoreVsock, MarkRunning, MarkFailed, PlacerStep
<1>2. \/ info' = info
      \/ \E h \in Hosts, cpu \in CPULevels, warm \in BOOLEAN :
           HeartbeatAnswered(h, cpu, warm)
      \/ MarkUnhealthy
  BY <1>1 DEF OrchNext, Monitor, Environment, StartRound, EndRound, Fence,
              HeartbeatMissed, orchVars, vars
<1>3. CASE info' = info
  BY <1>2, <1>3 DEF Registered
<1>4. ASSUME NEW h \in Hosts, NEW cpu \in CPULevels, NEW warm \in BOOLEAN,
             HeartbeatAnswered(h, cpu, warm)
      PROVE  Registered' = Registered
  BY <1>4 DEF HeartbeatAnswered, RecordHeartbeat, Registered, OrchTypeOK, TypeOK
<1>5. CASE MarkUnhealthy
  BY <1>5 DEF MarkUnhealthy, UpdateHostHealth, Registered, OrchTypeOK, TypeOK,
              HostInfo
<1> QED
  BY <1>2, <1>3, <1>4, <1>5

\* The monitor's own variables.
MonitorTyped ==
  /\ mpc \in MonitorPCs
  /\ todo \subseteq Registered
  /\ mpc \in {"mark", "fence"} <=> cur # NoHost
  /\ cur # NoHost => cur \in todo
  /\ misses \in [Hosts -> 0..MissThreshold]
  /\ responsive \subseteq Hosts

\* Type correctness of the orchestrator is inductive.
LEMMA OrchTypeStep == OrchTypeOK /\ [OrchNext]_orchVars => OrchTypeOK'
<1> SUFFICES ASSUME OrchTypeOK, [OrchNext]_orchVars PROVE OrchTypeOK'
  OBVIOUS
<1>0. MonitorTyped /\ (TypeOK' /\ MonitorTyped' => OrchTypeOK')
  BY DEF OrchTypeOK, MonitorTyped
<1>1. TypeOK'
  BY OrchStepIsSchedulerStep, TypeStep DEF OrchTypeOK
<1>2. Registered' = Registered /\ Registered \subseteq Hosts
  BY RegistryEffect DEF Registered
<1> USE <1>0, <1>2, NoHostAssumption, MissThresholdAssumption
    DEF MonitorTyped, MonitorPCs, monitorVars
<1>3. ASSUME UNCHANGED orchVars \/ SchedulerRuns PROVE MonitorTyped'
  BY <1>3 DEF orchVars, SchedulerRuns
<1>4. ASSUME Environment PROVE MonitorTyped'
  BY <1>4 DEF Environment
<1>5. ASSUME StartRound \/ EndRound PROVE MonitorTyped'
  BY <1>5 DEF StartRound, EndRound
<1>6. ASSUME NEW h \in Hosts, NEW cpu \in CPULevels, NEW warm \in BOOLEAN,
             HeartbeatAnswered(h, cpu, warm)
      PROVE  MonitorTyped'
  <2>1. misses' \in [Hosts -> 0..MissThreshold]
    BY <1>6 DEF HeartbeatAnswered, RecordSuccess
  <2> QED
    BY <1>6, <2>1 DEF HeartbeatAnswered
<1>7. ASSUME NEW h \in Hosts, HeartbeatMissed(h) PROVE MonitorTyped'
  <2>1. misses' \in [Hosts -> 0..MissThreshold]
    BY <1>7 DEF HeartbeatMissed, RecordMiss
  <2> QED
    BY <1>7, <2>1 DEF HeartbeatMissed
<1>8. ASSUME MarkUnhealthy \/ Fence PROVE MonitorTyped'
  BY <1>8 DEF MarkUnhealthy, Fence
<1> QED
  BY <1>1, <1>3, <1>4, <1>5, <1>6, <1>7, <1>8 DEF OrchNext, Monitor

\* The orchestrator starts well typed.
LEMMA OrchTypeInit == OrchInit => OrchTypeOK
BY TypeInit, NoHostAssumption, MissThresholdAssumption
DEF OrchInit, OrchTypeOK, MonitorPCs

\* Type correctness of the orchestrator.
THEOREM OrchTypeCorrect == OrchSpec => []OrchTypeOK
BY OrchTypeInit, OrchTypeStep, PTL DEF OrchSpec

\* The orchestrator is a scheduler with a particular monitor: the theorems on
\* Scheduler.tla hold in it.
THEOREM OrchImplementsScheduler == OrchSpec => RefinesScheduler
<1>1. OrchInit => Init
  BY DEF OrchInit
<1>2. OrchTypeOK /\ [OrchNext]_orchVars => [Next]_vars
  BY OrchStepIsSchedulerStep
<1> QED
  BY <1>1, <1>2, OrchTypeCorrect, PTL DEF OrchSpec, Spec, RefinesScheduler

\* Whatever the monitor marks and fences, no request is lost or has two owners,
\* and none goes to an unhealthy host while a healthy one is registered.
THEOREM OrchKeepsRequests ==
  OrchSpec => []OneOwner /\ HealthyFirst /\ ImplementsLifecycle
BY OrchImplementsScheduler, RequestsHaveOneOwner, HealthyHostFirst,
   SchedulerImplementsLifecycle DEF RefinesScheduler

\* The monitor marks a host with its misses at the threshold.
HealthInv ==
  /\ HealthFollowsMisses
  /\ mpc = "mark" => misses[cur] = MissThreshold

\* No step of the monitor, the hosts or the scheduler breaks HealthInv.
LEMMA HealthInvStep ==
  OrchTypeOK /\ HealthInv /\ [OrchNext]_orchVars => HealthInv'
<1> SUFFICES ASSUME OrchTypeOK, HealthInv, [OrchNext]_orchVars PROVE HealthInv'
  OBVIOUS
<1>1. Registered' = Registered /\ Registered \subseteq Hosts
  BY RegistryEffect DEF Registered
<1> USE <1>1, NoHostAssumption, MissThresholdAssumption
    DEF HealthInv, HealthFollowsMisses
<1>2. CASE UNCHANGED <<info, monitorVars>>
  BY <1>2 DEF monitorVars
<1>3. CASE StartRound \/ EndRound
  BY <1>3 DEF StartRound, EndRound, vars
<1>4. ASSUME NEW h \in Hosts, NEW cpu \in CPULevels, NEW warm \in BOOLEAN,
             HeartbeatAnswered(h, cpu, warm)
      PROVE  HealthInv'
  BY <1>4 DEF HeartbeatAnswered, RecordSuccess, RecordHeartbeat, OrchTypeOK, TypeOK
<1>5. ASSUME NEW h \in Hosts, HeartbeatMissed(h) PROVE HealthInv'
  <2>1. info' = info /\ mpc = "poll" /\ mpc' # "fence" /\ misses[h] \in 0..MissThreshold
    BY <1>5 DEF HeartbeatMissed, vars, OrchTypeOK
  <2>2. /\ misses'[h] = IF misses[h] < MissThreshold THEN misses[h] + 1 ELSE misses[h]
        /\ \A k \in Hosts \ {h} : misses'[k] = misses[k]
    BY <1>5 DEF HeartbeatMissed, RecordMiss, OrchTypeOK
  <2>3. CASE misses[h] + 1 >= MissThreshold
    <3>1. mpc' = "mark" /\ cur' = h /\ misses'[h] = MissThreshold
      BY <1>5, <2>1, <2>2, <2>3 DEF HeartbeatMissed, ThresholdReached
    <3> QED
      BY <2>1, <2>2, <3>1
  <2>4. CASE ~(misses[h] + 1 >= MissThreshold)
    <3>1. mpc' = "poll" /\ misses'[h] < MissThreshold /\ misses[h] < MissThreshold
      BY <1>5, <2>1, <2>2, <2>4 DEF HeartbeatMissed, ThresholdReached
    <3> QED
      BY <2>1, <2>2, <3>1
  <2> QED
    BY <2>3, <2>4
<1>6. CASE MarkUnhealthy
  BY <1>6 DEF MarkUnhealthy, UpdateHostHealth, OrchTypeOK, TypeOK, HostInfo
<1>7. CASE Fence
  BY <1>7 DEF Fence, vars
<1> QED
  BY <1>2, <1>3, <1>4, <1>5, <1>6, <1>7, RegistryEffect
  DEF OrchNext, Monitor, Environment, SchedulerRuns, orchVars, vars

\* Whatever the monitor, the fence and late answers interleave, HealthInv holds.
THEOREM HealthInvariant == OrchSpec => []HealthInv
<1>1. OrchInit => HealthInv
  BY MissThresholdAssumption, NoHostAssumption
  DEF OrchInit, Init, HealthInv, HealthFollowsMisses,
      Registered, Unregistered, NewlyRegistered
<1> QED
  BY <1>1, HealthInvStep, OrchTypeCorrect, PTL DEF OrchSpec

\* A host is unhealthy in the registry exactly when it missed MissThreshold
\* heartbeats in a row.
THEOREM HealthIsCounted == OrchSpec => []HealthFollowsMisses
<1>1. HealthInv => HealthFollowsMisses
  BY DEF HealthInv
<1> QED
  BY <1>1, HealthInvariant, PTL
===============================================================================
