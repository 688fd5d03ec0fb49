---------------------------- MODULE ApiServerProofs ----------------------------
(***************************************************************************)
(* What holds of the API process for every number of request goroutines,   *)
(* sandboxes and hosts, and every limit.                                   *)
(***************************************************************************)
EXTENDS ApiServer, SchedulerProofs, FiniteSetTheorems

\* A step of the API process is, for the scheduler, one of its own steps or
\* none at all.
LEMMA ApiStepIsSchedulerStep ==
  ASSUME ApiTypeOK, [ApiNext]_apiVars
  PROVE  [Next]_vars
<1> USE DEF ApiTypeOK
<1>1. CASE UNCHANGED apiVars
  BY <1>1 DEF apiVars
<1>2. CASE SchedulerRuns
  BY <1>2 DEF SchedulerRuns, Next
<1>3. ASSUME NEW s \in Sandboxes, PlacementRuns(s) \/ AgentStep(s)
      PROVE  [Next]_vars
  BY <1>3 DEF PlacementRuns, AgentStep, Next, Placement
<1>4. ASSUME NEW c \in Callers, NEW s \in Sandboxes, Submit(c, s) PROVE Next
  BY <1>4 DEF Submit, Next, Handlers
<1>5. ASSUME NEW c \in Callers, NEW t \in Timeouts, SubmitEnqueue(c, t)
      PROVE  Next
  <2>1. sb[c] \in Sandboxes /\ Enqueue(sb[c], t)
    BY <1>5 DEF SubmitEnqueue
  <2> QED
    BY <2>1 DEF Next, Handlers
<1>6. ASSUME NEW c \in Callers, MarkDraining(c) PROVE Next
  <2>1. /\ sb[c] \in Sandboxes /\ seen[c].state \in States
        /\ TerminateTransition(sb[c], seen[c].state)
    BY <1>6 DEF MarkDraining
  <2> QED
    BY <2>1 DEF Next, Handlers
<1>7. ASSUME NEW c \in Callers,
             \/ Admit(c) \/ Refuse(c)
             \/ \E s \in Sandboxes : SubmitError(c, s) \/ Delete(c, s)
             \/ KillArrives(c) \/ KillLost(c) \/ Release(c) \/ Released(c)
      PROVE  UNCHANGED vars
  BY <1>7 DEF Admit, Refuse, SubmitError, Delete, KillArrives, KillLost,
              Release, Released
<1> QED
  BY <1>1, <1>2, <1>3, <1>4, <1>5, <1>6, <1>7 DEF ApiNext, HandlerStep

\* The typing of what the API process adds.
HandlersTyped ==
  /\ hpc \in [Callers -> HandlerPCs]
  /\ sb \in [Callers -> Sandboxes \cup {NoSandbox}]
  /\ seen \in [Callers -> Record]
  /\ \A c \in Callers :
       /\ sb[c] = NoSandbox <=> hpc[c] \in {"idle", "refused", "admitted"}
       /\ hpc[c] \in {"telling", "told"} => seen[c].state \in States

CallsTyped ==
  /\ QuotaTypeOK
  /\ \A c \in Callers :
       /\ qpc[c] = "over" <=> hpc[c] = "refused"
       /\ qpc[c] = "positive" <=> hpc[c] = "releasing"

AgentsTyped ==
  /\ Agent!TypeOK
  /\ lost \subseteq Sandboxes
  /\ freed \in [Sandboxes -> 0..2]
  /\ kept \in 0..Limit

\* Type correctness of the API process is inductive.
LEMMA ApiTypeStep == ApiTypeOK /\ [ApiNext]_apiVars => ApiTypeOK'
<1> SUFFICES ASSUME ApiTypeOK, [ApiNext]_apiVars PROVE ApiTypeOK'
  OBVIOUS
<1>0. /\ HandlersTyped /\ CallsTyped /\ AgentsTyped
      /\ TypeOK' /\ HandlersTyped' /\ CallsTyped' /\ AgentsTyped' => ApiTypeOK'
  BY DEF ApiTypeOK, HandlersTyped, CallsTyped, AgentsTyped
<1>t. TypeOK'
  BY ApiStepIsSchedulerStep, TypeStep DEF ApiTypeOK
<1>a. Absent \in Record
  BY DEF Absent, Record
<1> USE <1>0, <1>t, <1>a, NoSandboxAssumption
    DEF handlerVars, agentVars, quotaVars, historyVars
<1> DEFINE Typed == HandlersTyped' /\ CallsTyped' /\ AgentsTyped'
<1>1. CASE UNCHANGED <<quotaVars, handlerVars, agentVars, historyVars>>
  BY <1>1 DEF HandlersTyped, CallsTyped, AgentsTyped, QuotaTypeOK, Agent!TypeOK
<1>2. ASSUME NEW s \in Sandboxes, AgentStep(s) PROVE Typed
  <2>1. vm' \in [Sandboxes -> Agent!VMStates]
    BY <1>2 DEF AgentStep, Agent!PlaceArrives, Agent!Boots, Agent!BootFails,
                Agent!Ends, Agent!Goes, Agent!VMStates, AgentsTyped, Agent!TypeOK
  <2>2. UNCHANGED <<quotaVars, handlerVars, lost, historyVars>>
    BY <1>2 DEF AgentStep
  <2> QED
    BY <2>1, <2>2
    DEF HandlersTyped, CallsTyped, AgentsTyped, QuotaTypeOK, Agent!TypeOK
<1>3. ASSUME NEW c \in Callers, HandlerStep(c) \/ Admit(c)
             \/ \E s \in Sandboxes : Delete(c, s)
      PROVE  HandlersTyped'
  <2>1. ASSUME Answers(c) PROVE HandlersTyped'
    BY <2>1 DEF Answers, GoesTo, HandlersTyped, HandlerPCs
  <2>2. ASSUME NEW to \in HandlerPCs, GoesTo(c, to), UNCHANGED <<sb, seen>>,
               sb[c] = NoSandbox <=> to \in {"idle", "refused", "admitted"},
               to \in {"telling", "told"} => seen[c].state \in States
        PROVE  HandlersTyped'
    BY <2>2 DEF GoesTo, HandlersTyped, HandlerPCs
  <2>3. CASE Admit(c)
    BY <2>2, <2>3 DEF Admit, At, HandlersTyped, HandlerPCs
  <2>4. ASSUME NEW s \in Sandboxes, Submit(c, s) PROVE HandlersTyped'
    BY <2>4 DEF Submit, GoesTo, HandlersTyped, HandlerPCs
  <2>5. ASSUME NEW s \in Sandboxes, Delete(c, s) PROVE HandlersTyped'
    <3>1. records[s] \in Record /\ records[s].state \in States
      BY <2>5 DEF ApiTypeOK, TypeOK, Delete, Exists, Record
    <3>2. \E to \in {"accepted", "telling", "told"} : GoesTo(c, to)
      BY <2>5 DEF Delete
    <3> QED
      BY <2>5, <3>1, <3>2 DEF Delete, GoesTo, HandlersTyped, HandlerPCs
  <2>6. CASE KillArrives(c) \/ KillLost(c)
    BY <2>2, <2>6 DEF KillArrives, KillLost, At, HandlersTyped, HandlerPCs
  <2>7. CASE MarkDraining(c)
    BY <2>1, <2>2, <2>7 DEF MarkDraining, HandlersTyped, HandlerPCs
  <2>8. CASE Release(c)
    BY <2>1, <2>2, <2>8 DEF Release, HandlersTyped, HandlerPCs
  <2> QED
    BY <1>3, <2>1, <2>3, <2>4, <2>5, <2>6, <2>7, <2>8
    DEF HandlerStep, Refuse, SubmitError, SubmitEnqueue, Released
<1>4. ASSUME NEW c \in Callers, HandlerStep(c) \/ Admit(c)
             \/ \E s \in Sandboxes : Delete(c, s)
      PROVE  CallsTyped'
  <2> USE DEF CallsTyped, QuotaTypeOK, QuotaPCs
  <2>1. CASE Admit(c)
    BY <2>1 DEF Admit, At, AcquireAdd, GoesTo, HandlersTyped
  <2>2. CASE Refuse(c)
    BY <2>2 DEF Refuse, AcquireRollback, Answers, GoesTo, HandlersTyped
  <2>3. CASE Release(c)
    BY <2>3 DEF Release, ReleaseLoad, Answers, GoesTo, HandlersTyped
  <2>4. CASE Released(c)
    BY <2>4 DEF Released, ReleaseDec, Answers, GoesTo, HandlersTyped
  <2>5. ASSUME UNCHANGED quotaVars, NEW to, GoesTo(c, to),
               to \notin {"refused", "releasing"},
               hpc[c] \notin {"refused", "releasing"}
        PROVE  CallsTyped'
    BY <2>5 DEF GoesTo, HandlersTyped
  <2>6. ASSUME NEW s \in Sandboxes,
               Submit(c, s) \/ SubmitError(c, s) \/ Delete(c, s)
        PROVE  CallsTyped'
    <3>1. \E to \in {"created", "idle", "accepted", "telling", "told"} :
            GoesTo(c, to)
      BY <2>6 DEF Submit, SubmitError, Delete, Answers
    <3> QED
      BY <2>5, <2>6, <3>1 DEF Submit, SubmitError, Delete
  <2>7. CASE \/ \E t \in Timeouts : SubmitEnqueue(c, t)
             \/ KillArrives(c) \/ KillLost(c) \/ MarkDraining(c)
    <3>1. \E to \in {"idle", "accepted", "told"} : GoesTo(c, to)
      BY <2>7 DEF SubmitEnqueue, KillArrives, KillLost, MarkDraining, Answers
    <3> QED
      BY <2>5, <2>7, <3>1
      DEF SubmitEnqueue, KillArrives, KillLost, MarkDraining, At
  <2> QED
    BY <1>4, <2>1, <2>2, <2>3, <2>4, <2>6, <2>7 DEF HandlerStep
<1>5. ASSUME NEW c \in Callers, HandlerStep(c) \/ Admit(c)
             \/ \E s \in Sandboxes : Delete(c, s)
      PROVE  AgentsTyped'
  <2> USE DEF AgentsTyped
  <2>1. CASE KillArrives(c)
    <3>1. vm' \in [Sandboxes -> Agent!VMStates]
      BY <2>1 DEF KillArrives, Agent!Ends, Agent!Goes, Agent!VMStates, Agent!TypeOK
    <3> QED
      BY <2>1, <3>1 DEF KillArrives, Agent!TypeOK
  <2>2. CASE KillLost(c)
    BY <2>2 DEF KillLost, At, HandlersTyped, Agent!TypeOK
  <2>3. CASE Release(c)
    <3>1. \A i \in 0..2 : (IF i < 2 THEN i + 1 ELSE i) \in 0..2
      OBVIOUS
    <3>2. sb[c] \in Sandboxes => freed[sb[c]] \in 0..2
      OBVIOUS
    <3>3. freed' \in [Sandboxes -> 0..2]
      BY <2>3, <3>1, <3>2 DEF Release
    <3> QED
      BY <2>3, <3>3 DEF Release, Agent!TypeOK
  <2>s. ASSUME NEW s \in Sandboxes, SubmitError(c, s) PROVE AgentsTyped'
    <3>1. kept' \in 0..Limit
      BY <2>s, LimitAssumption DEF SubmitError
    <3> QED
      BY <2>s, <3>1 DEF SubmitError, Agent!TypeOK
  <2>4. CASE UNCHANGED <<agentVars, historyVars>>
    BY <2>4 DEF Agent!TypeOK
  <2> QED
    BY <1>5, <2>1, <2>2, <2>3, <2>s, <2>4
    DEF HandlerStep, Admit, Delete, Refuse, Submit, SubmitEnqueue,
        MarkDraining, Released
<1> QED
  BY <1>1, <1>2, <1>3, <1>4, <1>5
  DEF ApiNext, SchedulerRuns, PlacementRuns, apiVars

\* The API process starts well typed.
LEMMA ApiTypeInit == ApiInit => ApiTypeOK
<1>1. Absent \in Record
  BY DEF Absent, Record
<1> QED
  BY <1>1, TypeInit, NoSandboxAssumption, LimitAssumption
  DEF ApiInit, ApiTypeOK, QuotaInit, QuotaTypeOK, QuotaPCs, HandlerPCs,
      Agent!Init, Agent!TypeOK, Agent!VMStates

\* Type correctness of the API process: handlers, quota calls, scheduler.
THEOREM ApiTypeCorrect == ApiSpec => []ApiTypeOK
BY ApiTypeInit, ApiTypeStep, PTL DEF ApiSpec

\* The API process is a scheduler with particular clients and agents, so the
\* theorems on Scheduler.tla hold in it.
THEOREM ApiImplementsScheduler == ApiSpec => RefinesScheduler
<1>1. ApiInit => Init
  BY DEF ApiInit
<1>2. ApiTypeOK /\ [ApiNext]_apiVars => [Next]_vars
  BY ApiStepIsSchedulerStep
<1> QED
  BY <1>1, <1>2, ApiTypeCorrect, PTL DEF ApiSpec, Spec, RefinesScheduler

\* The records under the handlers, their RPCs and the agents move along
\* state.go's table, from Create to a final state.
THEOREM ApiImplementsLifecycle == ApiSpec => ImplementsLifecycle
BY ApiImplementsScheduler, SchedulerImplementsLifecycle DEF RefinesScheduler

\* And with them: no accepted request is lost or has two owners, a kill goes
\* where the placement went, and an exec finds the host of a running record.
THEOREM ApiKeepsRequests ==
  ApiSpec => [](OneOwner /\ PlacementTracksState /\ KillReachesHost /\ RunningIsReachable)
BY ApiImplementsScheduler, RequestsHaveOneOwner, PlacementsFindTheirRecord,
   KillsGoToTheirHost, RunningSandboxesAreReachable, PTL DEF RefinesScheduler

-------------------------------------------------------------------------------
(* A sandbox that reads draining has no VM.                                *)

\* Where the VM of s can be, by what the scheduler knows of s.
VMTracksPlacement(s) ==
  /\ placer[s] = "none" => vm[s] = "none"
  /\ placer[s] \in {"booted", "stored"} => vm[s] \in {"up", "dead"}
  /\ records[s].state \in {"running", "draining"} => vm[s] \in {"up", "dead"}
  /\ records[s].state = "draining" /\ s \notin lost => vm[s] = "dead"

\* What a handler that saw s running knows while it kills and after.
KillerKnows(c) ==
  hpc[c] \in {"telling", "told"} /\ seen[c].state = "running" =>
    /\ vm[sb[c]] \in {"up", "dead"}
    /\ seen[c].host = calledHost[sb[c]]
    /\ placer[sb[c]] # "none"
    /\ hpc[c] = "told" /\ sb[c] \notin lost => vm[sb[c]] = "dead"

HostsKnown ==
  /\ target # NoHost => target \in Registered
  /\ \A s \in Sandboxes : placer[s] # "none" => calledHost[s] \in Registered

DeadInv ==
  /\ HostsKnown
  /\ \A s \in Sandboxes : VMTracksPlacement(s)
  /\ \A c \in Callers : KillerKnows(c)

\* What a step of the dispatch loop can do to what VMTracksPlacement reads.
LEMMA DispatchEffect ==
  ASSUME SchedulerInv, Dispatch, NEW z \in Sandboxes
  PROVE  /\ records'[z].state \in {"running", "draining"}
              => records'[z].state = records[z].state
         /\ placer'[z] # placer[z] => placer'[z] = "calling"
         /\ \/ calledHost'[z] = calledHost[z]
            \/ placer[z] = "none" /\ target # NoHost /\ calledHost'[z] = target
         /\ placer[z] # "none" => placer'[z] # "none"
         /\ placer'[z] # "none" /\ placer[z] = "none"
              => target # NoHost /\ calledHost'[z] = target
         /\ info' = info
         /\ target' # target => target' = NoHost \/ target' \in Registered
<1>0. TypeOK /\ RecordsOK
  BY InvBySandbox DEF TypeOK, RecordsOK
<1> USE <1>0, NoHostAssumption, NoSandboxAssumption, HeldIsQueued
    DEF TypeOK, RoundEnds, placerVars, queueVars
<1>1. CASE UNCHANGED <<records, placerVars>>
  <2>1. info' = info
    BY <1>1 DEF Dispatch, Pop, DropExpired, StillLive, Requeue, PickHost,
                AssignHost, StartPlacement
  <2>2. target' # target => target' = NoHost \/ target' \in Registered
    BY <1>1 DEF Dispatch, Pop, DropExpired, StillLive, Requeue, PickHost,
                AssignHost, StartPlacement, BestHosts
  <2> QED
    BY <1>1, <2>1, <2>2
<1>2. CASE DropExpired
  <2>1. item \in Sandboxes /\ records'[item].state \in {records[item].state, "failed"}
        /\ OthersSame(item)
    BY <1>2, TransitionEffect DEF DropExpired, States
  <2> QED
    BY <1>2, <2>1 DEF DropExpired, OthersSame
<1>3. CASE AssignHost
  <2>1. /\ item \in Sandboxes /\ target \in Hosts
        /\ records'[item].state = records[item].state /\ OthersSame(item)
    BY <1>3, SetHostIDEffect DEF AssignHost
  <2> QED
    BY <1>3, <2>1 DEF AssignHost, OthersSame
<1>4. CASE StartPlacement
  <2>1. /\ item \in Sandboxes /\ target \in Hosts
        /\ records[item].state = "queued"
        /\ records'[item].state \in {records[item].state, "provisioning"}
        /\ OthersSame(item)
    BY <1>4, TransitionEffect DEF StartPlacement, States
  <2>2. placer[item] = "none"
    BY <2>1, InvBySandbox DEF SandboxInv, Tracked, PlacerPCs
  <2> QED
    BY <1>4, <2>1, <2>2 DEF StartPlacement, OthersSame
<1> QED
  BY <1>1, <1>2, <1>3, <1>4 DEF Dispatch, Pop, StillLive, Requeue, PickHost

\* The scheduler's steps keep DeadInv.
LEMMA SchedulerRunsKeep ==
  ASSUME SchedulerInv, ApiTypeOK, DeadInv, SchedulerRuns
  PROVE  DeadInv'
<1> USE DEF DeadInv, HostsKnown, VMTracksPlacement, KillerKnows,
            quotaVars, handlerVars, agentVars, ApiTypeOK, TypeOK
<1>1. CASE Tick
  BY <1>1 DEF SchedulerRuns, Tick, dispatchVars, placerVars, Registered
<1>2. CASE Dispatch
  <2>0. \A z \in Sandboxes :
          /\ records'[z].state \in {"running", "draining"}
               => records'[z].state = records[z].state
          /\ placer'[z] # placer[z] => placer'[z] = "calling"
          /\ placer[z] # "none" =>
               placer'[z] # "none" /\ calledHost'[z] = calledHost[z]
          /\ placer'[z] # "none" /\ placer[z] = "none"
               => target # NoHost /\ calledHost'[z] = target
    BY <1>2, DispatchEffect
  <2>1. HostsKnown'
    <3>1. info' = info /\ (target' # target => target' = NoHost \/ target' \in Registered)
      <4>1. CASE Sandboxes = {}
        BY <1>2, <4>1, NoSandboxAssumption DEF Dispatch, Pop, DropExpired,
          StillLive, Requeue, PickHost, AssignHost, StartPlacement, RoundEnds, BestHosts
      <4>2. CASE Sandboxes # {}
        BY <1>2, <4>2, DispatchEffect
      <4> QED
        BY <4>1, <4>2
    <3>2. Registered' = Registered
      BY <3>1 DEF Registered
    <3> QED
      BY <2>0, <3>1, <3>2
  <2>2. ASSUME NEW s \in Sandboxes PROVE VMTracksPlacement(s)'
    <3>1. vm' = vm /\ lost' = lost
      BY DEF SchedulerRuns
    <3> QED
      BY <2>0, <3>1
  <2>3. ASSUME NEW c \in Callers PROVE KillerKnows(c)'
    BY <1>2, <2>3, DispatchEffect, NoSandboxAssumption DEF SchedulerRuns
  <2> QED
    BY <2>1, <2>2, <2>3
<1> QED
  BY <1>1, <1>2 DEF SchedulerRuns

\* The placement goroutines' steps keep DeadInv: an answer of 200 means the VM
\* came up.
LEMMA PlacementRunsKeep ==
  ASSUME SchedulerInv, ApiTypeOK, DeadInv, NEW s \in Sandboxes, PlacementRuns(s)
  PROVE  DeadInv'
<1>0. /\ RecordsOK /\ SandboxInv(s)
      /\ UNCHANGED <<info, queueVars, dispatchVars, calledHost>>
      /\ UNCHANGED <<quotaVars, handlerVars, agentVars, historyVars>>
  <2>1. UNCHANGED <<info, queueVars, dispatchVars, calledHost>>
    BY DEF PlacementRuns, AgentReplies, AgentFails, StoreVsock, MarkRunning,
           MarkFailed, PlacerStep
  <2> QED
    BY <2>1, InvBySandbox DEF RecordsOK, TypeOK, ApiTypeOK, PlacementRuns
<1>1. /\ \A z \in Sandboxes \ {s} :
            records'[z] = records[z] /\ placer'[z] = placer[z]
      /\ placer[s] # "none" /\ placer'[s] # "none"
      /\ placer'[s] \in {"booted", "stored"} =>
            placer[s] = "booted" \/ vm[s] \in {"up", "dead"}
      /\ records'[s].state = "running" =>
            records[s].state = "running" \/ placer[s] = "stored"
      /\ records'[s].state = "draining" => records[s].state = "draining"
  <2> USE <1>0 DEF PlacerStep, ApiTypeOK, TypeOK, PlacerPCs, OthersSame
  <2>1. CASE AgentReplies(s) /\ vm[s] \in {"up", "dead"}
    BY <2>1 DEF AgentReplies
  <2>2. CASE AgentFails(s)
    BY <2>2 DEF AgentFails
  <2>3. CASE StoreVsock(s)
    BY <2>3, SetVsockCIDEffect DEF StoreVsock
  <2>4. CASE MarkRunning(s)
    BY <2>4, TransitionEffect DEF MarkRunning, States
  <2>5. CASE MarkFailed(s)
    BY <2>5, TransitionEffect DEF MarkFailed, States
  <2> QED
    BY <2>1, <2>2, <2>3, <2>4, <2>5 DEF PlacementRuns
<1>2. HostsKnown'
  BY <1>0, <1>1 DEF DeadInv, HostsKnown, dispatchVars, Registered
<1>3. ASSUME NEW z \in Sandboxes PROVE VMTracksPlacement(z)'
  <2>1. /\ VMTracksPlacement(z) /\ VMTracksPlacement(s)
        /\ vm' = vm /\ lost' = lost
    BY <1>0 DEF DeadInv, agentVars
  <2>2. CASE z = s
    BY <1>1, <2>1, <2>2 DEF VMTracksPlacement
  <2>3. CASE z # s
    BY <1>1, <2>1, <2>3 DEF VMTracksPlacement
  <2> QED
    BY <2>2, <2>3
<1>4. ASSUME NEW c \in Callers PROVE KillerKnows(c)'
  BY <1>0, <1>1, NoSandboxAssumption
  DEF DeadInv, KillerKnows, handlerVars, agentVars, ApiTypeOK
<1> QED
  BY <1>2, <1>3, <1>4 DEF DeadInv

\* The agents' steps keep DeadInv: a VM that is up can only end.
LEMMA AgentStepsKeep ==
  ASSUME SchedulerInv, ApiTypeOK, DeadInv, NEW s \in Sandboxes, AgentStep(s)
  PROVE  DeadInv'
<1>1. /\ vm \in [Sandboxes -> Agent!VMStates]
      /\ UNCHANGED <<vars, handlerVars, lost>>
      /\ vm[s] \in {"up", "dead"} => vm'[s] \in {vm[s], "dead"}
      /\ vm[s] = "none" /\ vm'[s] # "none" => placer[s] # "none"
      /\ \A z \in Sandboxes \ {s} : vm'[z] = vm[z]
  BY DEF AgentStep, Agent!PlaceArrives, Agent!Boots, Agent!BootFails,
         Agent!Ends, Agent!Goes, ApiTypeOK, Agent!TypeOK
<1>2. UNCHANGED <<records, info, target, placer, calledHost>>
  BY <1>1 DEF vars, dispatchVars, placerVars
<1>3. ASSUME NEW z \in Sandboxes PROVE VMTracksPlacement(z)'
  <2>1. vm[z] \in {"up", "dead"} => vm'[z] \in {vm[z], "dead"}
    BY <1>1
  <2>2. placer[z] = "none" => vm'[z] = "none"
    <3>1. placer[z] = "none" => vm[z] = "none"
      BY DEF DeadInv, VMTracksPlacement
    <3>2. CASE z = s
      BY <1>1, <3>1, <3>2
    <3>3. CASE z # s
      BY <1>1, <3>1, <3>3
    <3> QED
      BY <3>2, <3>3
  <2> QED
    BY <1>1, <1>2, <2>1, <2>2 DEF DeadInv, VMTracksPlacement
<1>4. ASSUME NEW c \in Callers PROVE KillerKnows(c)'
  <2>1. hpc[c] \in {"telling", "told"} => sb[c] \in Sandboxes
    BY DEF ApiTypeOK
  <2>2. sb[c] \in Sandboxes /\ vm[sb[c]] \in {"up", "dead"}
          => vm'[sb[c]] \in {vm[sb[c]], "dead"}
    BY <1>1
  <2> QED
    BY <1>1, <1>2, <2>1, <2>2 DEF DeadInv, KillerKnows, handlerVars
<1> QED
  BY <1>2, <1>3, <1>4 DEF DeadInv, HostsKnown, Registered

\* The handlers' steps keep DeadInv: Terminate kills before it records.
LEMMA HandlerStepsKeep ==
  ASSUME SchedulerInv, ApiTypeOK, DeadInv, NEW c \in Callers,
         HandlerStep(c) \/ Admit(c) \/ \E s \in Sandboxes : Delete(c, s)
  PROVE  DeadInv'
<1>0. /\ RecordsOK /\ TypeOK
      /\ hpc[c] \in {"telling", "told"} => sb[c] \in Sandboxes
      /\ \A d \in Callers : KillerKnows(d)
      /\ \A z \in Sandboxes : VMTracksPlacement(z)
  BY DEF ApiTypeOK, TypeOK, RecordsOK, DeadInv
\* Neither the scheduler nor the agents notice.
<1>1. ASSUME UNCHANGED <<records, info, target, placer, calledHost, vm, lost>>,
             KillerKnows(c)',
             \A d \in Callers \ {c} : hpc'[d] = hpc[d] /\ sb'[d] = sb[d]
                                     /\ seen'[d] = seen[d]
      PROVE  DeadInv'
  <2>1. ASSUME NEW d \in Callers PROVE KillerKnows(d)'
    <3>1. CASE d = c
      BY <1>1, <3>1
    <3>2. CASE d # c
      BY <1>0, <1>1, <3>2 DEF KillerKnows
    <3> QED
      BY <3>1, <3>2
  <2>2. ASSUME NEW z \in Sandboxes PROVE VMTracksPlacement(z)'
    BY <1>0, <1>1 DEF VMTracksPlacement
  <2> QED
    BY <1>1, <2>1, <2>2 DEF DeadInv, HostsKnown, Registered
<1>2. ASSUME NEW to \in {"idle", "refused", "admitted", "accepted", "releasing",
                         "created"}, GoesTo(c, to)
      PROVE  KillerKnows(c)' /\ \A d \in Callers \ {c} : hpc'[d] = hpc[d]
  BY <1>2 DEF GoesTo, KillerKnows, ApiTypeOK
<1>3. CASE \/ Admit(c) \/ Refuse(c) \/ \E s \in Sandboxes : SubmitError(c, s)
           \/ \E t \in Timeouts : SubmitEnqueue(c, t)
           \/ Release(c) \/ Released(c)
  <2>1. UNCHANGED <<records, info, target, placer, calledHost, vm, lost>>
    BY <1>3 DEF Admit, Refuse, SubmitError, SubmitEnqueue, Enqueue, Release,
                Released, vars, dispatchVars, placerVars, agentVars
  <2>2. \E to \in {"idle", "refused", "admitted", "releasing"} : GoesTo(c, to)
    BY <1>3 DEF Admit, Refuse, SubmitError, SubmitEnqueue, Release, Released,
                Answers
  <2>3. \A d \in Callers \ {c} : sb'[d] = sb[d] /\ seen'[d] = seen[d]
    BY <1>3 DEF Admit, At, Refuse, SubmitError, SubmitEnqueue, Release,
                Released, Answers, ApiTypeOK
  <2> QED
    BY <1>1, <1>2, <2>1, <2>2, <2>3
<1>4. ASSUME NEW s \in Sandboxes, Submit(c, s) PROVE DeadInv'
  <2>1. /\ records'[s].state = "queued" /\ OthersSame(s)
        /\ UNCHANGED <<info, target, placer, calledHost, vm, lost, seen>>
    BY <1>0, <1>4, CreateEffect
    DEF Submit, SubmitCreate, Fresh, dispatchVars, placerVars, agentVars
  <2>2. ASSUME NEW z \in Sandboxes PROVE VMTracksPlacement(z)'
    BY <1>0, <2>1 DEF VMTracksPlacement, OthersSame
  <2>3. ASSUME NEW d \in Callers PROVE KillerKnows(d)'
    BY <1>0, <1>4, <2>1 DEF Submit, GoesTo, KillerKnows, ApiTypeOK
  <2> QED
    BY <2>1, <2>2, <2>3 DEF DeadInv, HostsKnown, Registered
<1>5. ASSUME NEW s \in Sandboxes, Delete(c, s) PROVE DeadInv'
  <2>1. /\ UNCHANGED <<records, info, target, placer, calledHost, vm, lost>>
        /\ sb'[c] = s /\ seen'[c] = records[s]
        /\ \A d \in Callers \ {c} : hpc'[d] = hpc[d] /\ sb'[d] = sb[d]
                                    /\ seen'[d] = seen[d]
    BY <1>5 DEF Delete, GoesTo, vars, dispatchVars, placerVars, agentVars, ApiTypeOK
  <2>2. ASSUME records[s].state = "running"
        PROVE  /\ placer[s] # "none" /\ records[s].host = calledHost[s]
               /\ vm[s] \in {"up", "dead"}
               /\ hpc'[c] = "telling"
    <3>1. SandboxInv(s)
      BY InvBySandbox
    <3>2. placer[s] # "none" /\ records[s].host = calledHost[s]
      BY <2>2, <3>1 DEF SandboxInv, Tracked, HostKept
    <3>3. records[s].host \in Registered
      BY <3>2 DEF DeadInv, HostsKnown
    <3>4. ~IsTerminal("running")
      BY DEF IsTerminal, validTransitions
    <3>5. hpc'[c] = "telling"
      BY <1>5, <2>2, <3>3, <3>4 DEF Delete, GoesTo, ApiTypeOK
    <3> QED
      BY <1>0, <2>2, <3>2, <3>5 DEF VMTracksPlacement
  <2>3. KillerKnows(c)'
    BY <2>1, <2>2 DEF KillerKnows
  <2> QED
    BY <1>1, <2>1, <2>3
<1>6. CASE KillArrives(c) \/ KillLost(c)
  <2>1. /\ UNCHANGED <<records, info, target, placer, calledHost, sb, seen>>
        /\ hpc[c] = "telling" /\ hpc' = [hpc EXCEPT ![c] = "told"]
    BY <1>6 DEF KillArrives, KillLost, At, GoesTo, vars, dispatchVars, placerVars
  <2>2. sb[c] \in Sandboxes
    BY <1>0, <2>1
  <2>3. /\ \A z \in Sandboxes : /\ vm[z] \in {"up", "dead"} =>
                                     vm'[z] \in {vm[z], "dead"}
                                /\ vm[z] = "none" => vm'[z] = "none"
        /\ lost \subseteq lost'
    BY <1>6, <2>2
    DEF KillArrives, KillLost, Agent!Ends, Agent!Goes, ApiTypeOK, Agent!TypeOK
  <2>4. ASSUME NEW z \in Sandboxes PROVE VMTracksPlacement(z)'
    BY <1>0, <2>1, <2>3 DEF VMTracksPlacement
  <2>5. ASSUME NEW d \in Callers PROVE KillerKnows(d)'
    <3>1. CASE d # c
      <4>1. hpc[d] \in {"telling", "told"} => sb[d] \in Sandboxes
        BY DEF ApiTypeOK
      <4> QED
        BY <1>0, <2>1, <2>3, <3>1, <4>1 DEF KillerKnows, ApiTypeOK
    <3>2. CASE d = c
      <4>1. KillerKnows(c)
        BY <1>0
      <4>2. CASE KillLost(c)
        BY <2>1, <2>2, <2>3, <3>2, <4>1, <4>2 DEF KillerKnows, KillLost
      <4>3. CASE KillArrives(c)
        <5>1. vm[sb[c]] = "up" /\ seen[c].host = calledHost[sb[c]]
                => vm'[sb[c]] = "dead"
          BY <2>2, <4>3 DEF KillArrives, Agent!Ends, Agent!Goes, ApiTypeOK,
                            Agent!TypeOK
        <5> QED
          BY <2>1, <2>2, <2>3, <3>2, <4>1, <5>1 DEF KillerKnows
      <4> QED
        BY <1>6, <4>2, <4>3
    <3> QED
      BY <3>1, <3>2
  <2> QED
    BY <2>1, <2>4, <2>5 DEF DeadInv, HostsKnown, Registered
<1>7. CASE MarkDraining(c)
  <2>1. /\ sb[c] \in Sandboxes /\ seen[c].state \in States
        /\ hpc[c] = "told"
        /\ UNCHANGED <<info, target, placer, calledHost, vm, lost>>
        /\ Transition(sb[c], seen[c].state, "draining")
    BY <1>7 DEF MarkDraining, TerminateTransition, dispatchVars, placerVars,
                agentVars, ApiTypeOK
  <2>2. /\ OthersSame(sb[c])
        /\ \/ records'[sb[c]].state = records[sb[c]].state
           \/ seen[c].state = "running" /\ records'[sb[c]].state = "draining"
    BY <1>0, <2>1, TransitionEffect
    DEF TransitionOK, validTransitions, States
  <2>3. ASSUME NEW z \in Sandboxes PROVE VMTracksPlacement(z)'
    <3>1. VMTracksPlacement(z) /\ KillerKnows(c)
      BY <1>0
    <3>2. CASE z = sb[c]
      BY <2>1, <2>2, <3>1, <3>2 DEF VMTracksPlacement, KillerKnows
    <3>3. CASE z # sb[c]
      BY <2>1, <2>2, <3>1, <3>3 DEF VMTracksPlacement, OthersSame
    <3> QED
      BY <3>2, <3>3
  <2>4. ASSUME NEW d \in Callers PROVE KillerKnows(d)'
    <3>1. \E to \in {"accepted", "idle"} : GoesTo(c, to)
      BY <1>7 DEF MarkDraining, Answers
    <3>2. \A e \in Callers \ {c} : sb'[e] = sb[e] /\ seen'[e] = seen[e]
      BY <1>7 DEF MarkDraining, Answers, ApiTypeOK
    <3>3. CASE d = c
      BY <1>2, <3>1, <3>3
    <3>4. CASE d # c
      BY <1>0, <1>2, <2>1, <3>1, <3>2, <3>4 DEF KillerKnows
    <3> QED
      BY <3>3, <3>4
  <2> QED
    BY <2>1, <2>3, <2>4 DEF DeadInv, HostsKnown, Registered
<1> QED
  BY <1>3, <1>4, <1>5, <1>6, <1>7 DEF HandlerStep

\* Whatever handlers, placements and VMs do meanwhile, a sandbox whose kill RPC
\* was not lost reads draining only once its VM is out.
THEOREM DrainedVMIsDead == ApiSpec => []DrainingIsDead
<1>1. ApiInit => DeadInv
  <2> SUFFICES ASSUME ApiInit PROVE DeadInv
    OBVIOUS
  <2> QED
    BY DEF ApiInit, Init, StoreInit, Absent, Agent!Init, DeadInv, HostsKnown,
           VMTracksPlacement, KillerKnows
<1>2. SchedulerInv /\ ApiTypeOK /\ DeadInv /\ [ApiNext]_apiVars => DeadInv'
  <2> SUFFICES ASSUME SchedulerInv, ApiTypeOK, DeadInv, [ApiNext]_apiVars
               PROVE  DeadInv'
    OBVIOUS
  <2>1. CASE UNCHANGED apiVars
    BY <2>1 DEF apiVars, vars, dispatchVars, placerVars, handlerVars, agentVars,
                DeadInv, HostsKnown, VMTracksPlacement, KillerKnows, Registered
  <2> QED
    BY <2>1, SchedulerRunsKeep, PlacementRunsKeep, AgentStepsKeep,
       HandlerStepsKeep DEF ApiNext
<1>3. DeadInv => DrainingIsDead
  BY DEF DeadInv, VMTracksPlacement, DrainingIsDead
<1>4. ApiSpec => []SchedulerInv
  BY ApiImplementsScheduler, SchedulerInvariant, PTL DEF RefinesScheduler
<1> QED
  BY <1>1, <1>2, <1>3, <1>4, ApiTypeCorrect, PTL DEF ApiSpec

-------------------------------------------------------------------------------
(* A killed sandbox gives back one slot.                                   *)

\* Slots are given back, or about to be, once for a draining record and not at
\* all for one that is alive.
SettledOnce(s) ==
  records[s].state # "failed" =>
    IF records[s].state = "draining"
    THEN \/ freed[s] = 1 /\ Accepting(s) = {}
         \/ freed[s] = 0 /\ \E c \in Callers : Accepting(s) = {c}
    ELSE freed[s] = 0 /\ Accepting(s) = {}

\* How the dispatch loop and the placement goroutines move a state.
LEMMA StateMoves ==
  ASSUME SchedulerInv, NEW z \in Sandboxes,
         Dispatch \/ \E s \in Sandboxes : Placement(s)
  PROVE  \/ records'[z].state = records[z].state
         \/ /\ records[z].state = "queued"
            /\ records'[z].state \in {"provisioning", "failed"}
         \/ /\ records[z].state = "provisioning"
            /\ records'[z].state \in {"running", "failed"}
<1>0. TypeOK /\ RecordsOK
  BY InvBySandbox DEF TypeOK, RecordsOK
<1> USE <1>0 DEF OthersSame
<1>1. CASE DropExpired
  <2>1. item \in Sandboxes /\ records[item].state = "queued"
    BY <1>1, HeldIsQueued, NoSandboxAssumption DEF DropExpired, TypeOK
  <2> QED
    BY <1>1, <2>1, TransitionEffect DEF DropExpired, States
<1>2. CASE AssignHost
  <2>1. item \in Sandboxes /\ target \in Hosts
    BY <1>2, NoSandboxAssumption, NoHostAssumption DEF AssignHost, TypeOK
  <2> QED
    BY <1>2, <2>1, SetHostIDEffect DEF AssignHost
<1>3. CASE StartPlacement
  <2>1. item \in Sandboxes /\ records[item].state = "queued"
    BY <1>3, HeldIsQueued, NoSandboxAssumption DEF StartPlacement, TypeOK
  <2> QED
    BY <1>3, <2>1, TransitionEffect DEF StartPlacement, States
<1>4. ASSUME NEW s \in Sandboxes, Placement(s)
      PROVE  \/ records'[z].state = records[z].state
             \/ /\ records[z].state = "provisioning"
                /\ records'[z].state \in {"running", "failed"}
  <2>1. placer[s] \in {"calling", "booted", "stored", "errored"}
          => records[s].state = "provisioning"
    BY InvBySandbox DEF SandboxInv, Tracked
  <2>2. CASE AgentReplies(s) \/ AgentFails(s)
    BY <2>2 DEF AgentReplies, AgentFails
  <2>3. CASE StoreVsock(s)
    BY <2>3, SetVsockCIDEffect DEF StoreVsock
  <2>4. CASE MarkRunning(s)
    BY <2>1, <2>4, TransitionEffect DEF MarkRunning, PlacerStep, States
  <2>5. CASE MarkFailed(s)
    BY <2>1, <2>5, TransitionEffect DEF MarkFailed, PlacerStep, States
  <2> QED
    BY <1>4, <2>2, <2>3, <2>4, <2>5 DEF Placement
<1>5. CASE UNCHANGED records
  BY <1>5
<1> QED
  BY <1>1, <1>2, <1>3, <1>4, <1>5
  DEF Dispatch, Pop, StillLive, Requeue, PickHost

\* The steps that are no handler's touch neither handlers nor slots.
QuietStep ==
  \/ UNCHANGED apiVars
  \/ SchedulerRuns
  \/ \E s \in Sandboxes : PlacementRuns(s) \/ AgentStep(s)

LEMMA QuietEffect ==
  ASSUME SchedulerInv, QuietStep, NEW z \in Sandboxes
  PROVE  /\ UNCHANGED <<hpc, sb, count, freed, kept>>
         /\ \/ records'[z].state = records[z].state
            \/ /\ records[z].state = "queued"
               /\ records'[z].state \in {"provisioning", "failed"}
            \/ /\ records[z].state = "provisioning"
               /\ records'[z].state \in {"running", "failed"}
<1>1. UNCHANGED <<hpc, sb, count, freed, kept>>
  BY DEF QuietStep, SchedulerRuns, PlacementRuns, AgentStep, apiVars, quotaVars,
         handlerVars, historyVars
<1>2. \/ records' = records
      \/ Dispatch \/ \E s \in Sandboxes : Placement(s)
  BY DEF QuietStep, SchedulerRuns, Tick, PlacementRuns, AgentStep, apiVars, vars,
         Placement
<1> QED
  BY <1>1, <1>2, StateMoves

\* A handler that moves between places other than "accepted" settles nothing.
LEMMA AcceptingSame ==
  ASSUME ApiTypeOK, NEW c \in Callers, NEW z \in Sandboxes,
         \A d \in Callers \ {c} : hpc'[d] = hpc[d] /\ sb'[d] = sb[d],
         ~(hpc[c] = "accepted" /\ sb[c] = z), ~(hpc'[c] = "accepted" /\ sb'[c] = z)
  PROVE  Accepting(z)' = Accepting(z)
  BY DEF Accepting

HandlerRuns(c) ==
  Admit(c) \/ (\E s \in Sandboxes : Delete(c, s)) \/ HandlerStep(c)

\* A handler moves its own variables only.
LEMMA OthersStay ==
  ASSUME ApiTypeOK, NEW c \in Callers, HandlerRuns(c), NEW d \in Callers \ {c}
  PROVE  hpc'[d] = hpc[d] /\ sb'[d] = sb[d]
  BY DEF HandlerRuns, HandlerStep, Admit, Delete, Refuse, Submit, SubmitError,
         SubmitEnqueue, KillArrives, KillLost, MarkDraining, Release, Released,
         At, GoesTo, Answers, ApiTypeOK

\* The steps of a handler that neither accept a DELETE nor act on one.
Unaccepting(c) ==
  \/ Admit(c) \/ Refuse(c)
  \/ \E s \in Sandboxes : SubmitError(c, s)
  \/ \E t \in Timeouts : SubmitEnqueue(c, t)
  \/ KillArrives(c) \/ KillLost(c) \/ Released(c)

LEMMA UnacceptingEffect ==
  ASSUME ApiTypeOK, NEW c \in Callers, Unaccepting(c)
  PROVE  /\ records' = records /\ freed' = freed
         /\ hpc[c] # "accepted" /\ hpc'[c] # "accepted"
  BY DEF Unaccepting, Admit, Refuse, SubmitError, SubmitEnqueue, KillArrives, KillLost,
         Released, Enqueue, At, GoesTo, Answers, vars, historyVars, ApiTypeOK

\* What MarkDraining does: the transition of a record that runs, or an error.
LEMMA MarkDrainingEffect ==
  ASSUME ApiTypeOK, SchedulerInv, NEW c \in Callers, MarkDraining(c)
  PROVE  /\ sb[c] \in Sandboxes /\ hpc[c] = "told" /\ freed' = freed
         /\ \A z \in Sandboxes \ {sb[c]} : records'[z] = records[z]
         /\ \/ /\ records[sb[c]].state = "running"
               /\ records'[sb[c]].state = "draining"
               /\ hpc'[c] = "accepted" /\ sb'[c] = sb[c]
            \/ /\ records'[sb[c]].state = records[sb[c]].state
               /\ hpc'[c] = "idle" /\ sb'[c] = NoSandbox
<1>1. /\ sb[c] \in Sandboxes /\ seen[c].state \in States /\ hpc[c] = "told"
      /\ Transition(sb[c], seen[c].state, "draining") /\ freed' = freed
  BY DEF MarkDraining, TerminateTransition, historyVars, ApiTypeOK
<1>2. RecordsOK
  BY DEF ApiTypeOK, TypeOK, RecordsOK
<1>3. CASE TransitionOK(sb[c], seen[c].state, "draining")
  <2>1. records[sb[c]].state = "running" /\ records'[sb[c]].state = "draining"
        /\ OthersSame(sb[c])
    BY <1>1, <1>2, <1>3, TransitionEffect DEF TransitionOK, validTransitions, States
  <2>2. hpc'[c] = "accepted" /\ sb'[c] = sb[c]
    BY <1>3 DEF MarkDraining, GoesTo, ApiTypeOK
  <2> QED
    BY <1>1, <2>1, <2>2 DEF OthersSame
<1>4. CASE ~TransitionOK(sb[c], seen[c].state, "draining")
  <2>1. records'[sb[c]].state = records[sb[c]].state /\ OthersSame(sb[c])
    BY <1>1, <1>2, <1>4, TransitionEffect DEF States
  <2>2. hpc'[c] = "idle" /\ sb'[c] = NoSandbox
    BY <1>4 DEF MarkDraining, Answers, GoesTo, ApiTypeOK
  <2> QED
    BY <1>1, <2>1, <2>2 DEF OthersSame
<1> QED
  BY <1>3, <1>4

\* A DELETE is accepted at once only for a record that failed.
LEMMA DeleteEffect ==
  ASSUME ApiTypeOK, SchedulerInv, NEW c \in Callers, NEW s \in Sandboxes, Delete(c, s)
  PROVE  /\ records' = records /\ freed' = freed
         /\ hpc[c] = "idle" /\ sb'[c] = s /\ Exists(s)
         /\ hpc'[c] \in {"accepted", "telling", "told"}
         /\ hpc'[c] = "accepted" => records[s].state = "failed"
<1>1. /\ records' = records /\ freed' = freed /\ hpc[c] = "idle" /\ sb'[c] = s /\ Exists(s)
  BY DEF Delete, vars, historyVars, ApiTypeOK
<1>2. records[s].state # "terminated"
  BY InvBySandbox DEF SandboxInv, Tracked, TypeOK, PlacerPCs
<1>3. CASE IsTerminal(records[s].state)
  <2>1. GoesTo(c, "accepted")
    BY <1>3 DEF Delete
  <2>2. records[s].state \in States
    BY <1>1 DEF ApiTypeOK, TypeOK, Record, Exists
  <2>3. records[s].state = "failed"
    BY <1>2, <1>3, <2>2 DEF IsTerminal, validTransitions, States
  <2> QED
    BY <1>1, <2>1, <2>3 DEF GoesTo, ApiTypeOK
<1>4. CASE ~IsTerminal(records[s].state)
  <2>1. \E to \in {"telling", "told"} : GoesTo(c, to)
    BY <1>4 DEF Delete
  <2> QED
    BY <1>1, <2>1 DEF GoesTo, ApiTypeOK
<1> QED
  BY <1>3, <1>4

LEMMA ReleaseEffect ==
  ASSUME ApiTypeOK, NEW c \in Callers, Release(c)
  PROVE  /\ sb[c] \in Sandboxes /\ c \in Accepting(sb[c])
         /\ records' = records /\ count' = count /\ kept' = kept
         /\ \A z \in Sandboxes \ {sb[c]} : freed'[z] = freed[z]
         /\ freed'[sb[c]] > 0
         /\ freed[sb[c]] = 0 => freed'[sb[c]] = 1
         /\ IF count > 0 THEN GoesTo(c, "releasing") ELSE GoesTo(c, "idle")
         /\ sb'[c] \in {sb[c], NoSandbox}
<1>1. sb[c] \in Sandboxes /\ c \in Accepting(sb[c])
  BY DEF Release, Accepting, ApiTypeOK
<1>2. freed' = [freed EXCEPT ![sb[c]] = IF @ < 2 THEN @ + 1 ELSE @] /\ freed[sb[c]] \in 0..2
  BY <1>1 DEF Release, ApiTypeOK
<1>3. freed'[sb[c]] = IF freed[sb[c]] < 2 THEN freed[sb[c]] + 1 ELSE freed[sb[c]]
  BY <1>1, <1>2 DEF ApiTypeOK
<1> QED
  BY <1>1, <1>2, <1>3
  DEF Release, ReleaseLoad, vars, ApiTypeOK, Answers

\* No step of a handler settles a sandbox twice, or one that is alive.
LEMMA HandlersSettle ==
  ASSUME ApiTypeOK, SchedulerInv, NEW c \in Callers, HandlerRuns(c),
         NEW z \in Sandboxes, SettledOnce(z)
  PROVE  SettledOnce(z)'
<1>0. \A d \in Callers \ {c} : hpc'[d] = hpc[d] /\ sb'[d] = sb[d]
  BY OthersStay
<1>1. CASE Unaccepting(c)
  <2>1. Accepting(z)' = Accepting(z)
    BY <1>0, <1>1, UnacceptingEffect, AcceptingSame
  <2> QED
    BY <1>1, <2>1, UnacceptingEffect DEF SettledOnce
<1>2. ASSUME NEW s \in Sandboxes, Submit(c, s) PROVE SettledOnce(z)'
  <2>1. /\ records[s].state = "absent" /\ records'[s].state = "queued"
        /\ freed' = freed /\ OthersSame(s)
    BY <1>2, CreateEffect
    DEF Submit, SubmitCreate, historyVars, Exists, Fresh, RecordsOK, ApiTypeOK, TypeOK
  <2>2. hpc[c] # "accepted" /\ hpc'[c] # "accepted"
    BY <1>2 DEF Submit, GoesTo, ApiTypeOK
  <2>3. Accepting(z)' = Accepting(z)
    BY <1>0, <2>2, AcceptingSame
  <2> QED
    BY <2>1, <2>3 DEF SettledOnce, OthersSame
<1>3. ASSUME NEW s \in Sandboxes, Delete(c, s) PROVE SettledOnce(z)'
  <2>1. CASE records[z].state = "failed"
    BY <1>3, <2>1, DeleteEffect DEF SettledOnce
  <2>2. CASE records[z].state # "failed"
    <3>1. Accepting(z)' = Accepting(z)
      BY <1>0, <1>3, <2>2, DeleteEffect, AcceptingSame
    <3> QED
      BY <1>3, <3>1, DeleteEffect DEF SettledOnce
  <2> QED
    BY <2>1, <2>2
<1>4. CASE MarkDraining(c)
  <2>1. CASE z # sb[c] \/ hpc'[c] = "idle"
    <3>1. Accepting(z)' = Accepting(z)
      BY <1>0, <1>4, <2>1, MarkDrainingEffect, AcceptingSame, NoSandboxAssumption
    <3> QED
      BY <1>4, <2>1, <3>1, MarkDrainingEffect DEF SettledOnce
  <2>2. CASE z = sb[c] /\ hpc'[c] # "idle"
    <3>1. /\ records[z].state = "running" /\ records'[z].state = "draining"
          /\ hpc'[c] = "accepted" /\ sb'[c] = z /\ freed' = freed
      BY <1>4, <2>2, MarkDrainingEffect
    <3>2. freed[z] = 0 /\ Accepting(z) = {}
      BY <3>1 DEF SettledOnce
    <3>3. Accepting(z)' = {c}
      BY <1>0, <3>1, <3>2 DEF Accepting
    <3> QED
      BY <3>1, <3>2, <3>3 DEF SettledOnce
  <2> QED
    BY <2>1, <2>2
<1>5. CASE Release(c)
  <2>0. hpc'[c] # "accepted"
    BY <1>5, ReleaseEffect DEF GoesTo, ApiTypeOK
  <2>1. CASE z # sb[c]
    <3>1. Accepting(z)' = Accepting(z)
      BY <1>0, <2>0, <2>1, AcceptingSame
    <3> QED
      BY <1>5, <2>1, <3>1, ReleaseEffect DEF SettledOnce
  <2>2. CASE z = sb[c] /\ records[z].state # "failed"
    <3>1. /\ records[z].state = "draining" /\ freed[z] = 0 /\ Accepting(z) = {c}
      BY <1>5, <2>2, ReleaseEffect DEF SettledOnce
    <3>2. Accepting(z)' = {}
      BY <1>0, <2>0, <3>1 DEF Accepting
    <3> QED
      BY <1>5, <2>2, <3>1, <3>2, ReleaseEffect DEF SettledOnce
  <2>3. CASE records[z].state = "failed"
    BY <1>5, <2>3, ReleaseEffect DEF SettledOnce
  <2> QED
    BY <2>1, <2>2, <2>3
<1> QED
  BY <1>1, <1>2, <1>3, <1>4, <1>5 DEF HandlerRuns, HandlerStep, Unaccepting

AllSettled == \A s \in Sandboxes : SettledOnce(s)

\* Every step of the API process keeps the slots settled.
LEMMA SettledStep ==
  ASSUME ApiTypeOK, SchedulerInv, AllSettled, [ApiNext]_apiVars
  PROVE  AllSettled'
<1> SUFFICES ASSUME NEW z \in Sandboxes PROVE SettledOnce(z)'
  BY DEF AllSettled
<1>1. SettledOnce(z)
  BY DEF AllSettled
<1>2. CASE QuietStep
  <2>1. Accepting(z)' = Accepting(z)
    BY <1>2, QuietEffect DEF Accepting
  <2> QED
    BY <1>1, <1>2, <2>1, QuietEffect DEF SettledOnce
<1>3. ASSUME NEW c \in Callers, HandlerRuns(c) PROVE SettledOnce(z)'
  BY <1>1, <1>3, HandlersSettle
<1> QED
  BY <1>2, <1>3 DEF ApiNext, QuietStep, HandlerRuns

LEMMA SettledInit == ApiInit => AllSettled
  BY DEF ApiInit, Init, StoreInit, Absent, AllSettled, SettledOnce, Accepting

LEMMA SchedulerInvInApi == ApiSpec => []SchedulerInv
  BY ApiImplementsScheduler, SchedulerInvariant, PTL DEF RefinesScheduler

THEOREM SlotsAreSettled == ApiSpec => []AllSettled
  BY SettledInit, SettledStep, ApiTypeCorrect, SchedulerInvInApi, PTL DEF ApiSpec

\* However DELETEs of one sandbox overlap with each other and its placement,
\* quota.Release is called once for a killed sandbox and never for a live one.
THEOREM KillsReleaseOnce == ApiSpec => []KillReleasesOnce
<1>1. ApiTypeOK /\ AllSettled => KillReleasesOnce
  <2> SUFFICES ASSUME ApiTypeOK, AllSettled, NEW s \in Sandboxes, records[s].state # "failed"
               PROVE  freed[s] + Cardinality(Accepting(s))
                        = IF records[s].state = "draining" THEN 1 ELSE 0
    BY DEF KillReleasesOnce
  <2>1. SettledOnce(s)
    BY DEF AllSettled
  <2>2. CASE Accepting(s) = {}
    <3>1. Cardinality(Accepting(s)) = 0
      BY <2>2, FS_EmptySet
    <3>2. \A c \in Callers : Accepting(s) # {c}
      BY <2>2
    <3> QED
      BY <2>1, <3>1, <3>2 DEF SettledOnce
  <2>3. CASE \E c \in Callers : Accepting(s) = {c}
    <3>1. Cardinality(Accepting(s)) = 1
      BY <2>3, FS_Singleton
    <3>2. Accepting(s) # {}
      BY <2>3
    <3> QED
      BY <2>1, <3>1, <3>2 DEF SettledOnce
  <2> QED
    BY <2>1, <2>2, <2>3 DEF SettledOnce
<1> QED
  BY <1>1, ApiTypeCorrect, SlotsAreSettled, PTL

-------------------------------------------------------------------------------
(* The limit.                                                              *)

\* The sandboxes whose slot was not given back, and the requests that have one
\* on their way in or out.
Held     == {s \in Sandboxes : Exists(s) /\ freed[s] = 0}
Counted  == {"admitted", "refused", "releasing"}
Entitled == {"admitted", "releasing"}

\* Granted slots never exceed the limit; refusals are counted until undone.
SlotInv ==
  NoFailedKill =>
    /\ count = Cardinality(Held) + Cardinality(InCall(Counted)) + kept
    /\ Cardinality(Held) + Cardinality(InCall(Entitled)) + kept <= Limit

LEMMA CallsFinite ==
  ASSUME NEW pcs
  PROVE  IsFiniteSet(InCall(pcs)) /\ Cardinality(InCall(pcs)) \in Nat
<1>1. InCall(pcs) \in SUBSET Callers
  BY DEF InCall
<1> QED
  BY <1>1, FiniteAssumption, FS_Subset, FS_CardinalityType

LEMMA HeldFinite == IsFiniteSet(Held) /\ Cardinality(Held) \in Nat
<1>1. Held \in SUBSET Sandboxes
  BY DEF Held
<1> QED
  BY <1>1, FiniteAssumption, FS_Subset, FS_CardinalityType

\* One handler enters a class of places, leaves it, or neither.
LEMMA CallMoves ==
  ASSUME ApiTypeOK, NEW c \in Callers, NEW to, GoesTo(c, to), NEW pcs
  PROVE  Cardinality(InCall(pcs)') =
           Cardinality(InCall(pcs)) + (IF to \in pcs THEN 1 ELSE 0)
                                    - (IF hpc[c] \in pcs THEN 1 ELSE 0)
<1>1. /\ hpc'[c] = to /\ \A d \in Callers \ {c} : hpc'[d] = hpc[d]
      /\ IsFiniteSet(InCall(pcs)) /\ Cardinality(InCall(pcs)) \in Nat
  BY CallsFinite DEF GoesTo, ApiTypeOK
<1>2. CASE to \in pcs
  <2>1. InCall(pcs)' = InCall(pcs) \cup {c}
    BY <1>1, <1>2 DEF InCall
  <2>2. c \in InCall(pcs) <=> hpc[c] \in pcs
    BY DEF InCall
  <2>3. Cardinality(InCall(pcs)') = IF c \in InCall(pcs) THEN Cardinality(InCall(pcs))
                                    ELSE Cardinality(InCall(pcs)) + 1
    BY <1>1, <2>1, FS_AddElement
  <2> QED
    BY <1>1, <1>2, <2>2, <2>3
<1>3. CASE to \notin pcs
  <2>1. InCall(pcs)' = InCall(pcs) \ {c}
    BY <1>1, <1>3 DEF InCall
  <2>2. c \in InCall(pcs) <=> hpc[c] \in pcs
    BY DEF InCall
  <2>3. Cardinality(InCall(pcs)') = IF c \in InCall(pcs) THEN Cardinality(InCall(pcs)) - 1
                                    ELSE Cardinality(InCall(pcs))
    BY <1>1, <2>1, FS_RemoveElement
  <2> QED
    BY <1>1, <1>3, <2>2, <2>3
<1> QED
  BY <1>2, <1>3

\* The two classes, for the moves that matter to them.
LEMMA TwoClasses ==
  ASSUME ApiTypeOK, NEW c \in Callers, NEW to, GoesTo(c, to)
  PROVE  /\ Cardinality(InCall(Counted)) \in Nat
         /\ Cardinality(InCall(Entitled)) \in Nat
         /\ Cardinality(InCall(Counted)') =
              Cardinality(InCall(Counted)) + (IF to \in Counted THEN 1 ELSE 0)
                                           - (IF hpc[c] \in Counted THEN 1 ELSE 0)
         /\ Cardinality(InCall(Entitled)') =
              Cardinality(InCall(Entitled)) + (IF to \in Entitled THEN 1 ELSE 0)
                                            - (IF hpc[c] \in Entitled THEN 1 ELSE 0)
  BY CallsFinite, CallMoves

\* A handler that is entitled to a slot is one of them.
LEMMA EntitledIsOne ==
  ASSUME NEW c \in Callers, hpc[c] \in Entitled
  PROVE  Cardinality(InCall(Entitled)) >= 1
<1>1. {c} \in SUBSET InCall(Entitled)
  BY DEF InCall
<1>2. Cardinality({c}) = 1
  BY FS_Singleton
<1> QED
  BY <1>1, <1>2, CallsFinite, FS_Subset

\* Once somebody deletes a failed sandbox, somebody did.
LEMMA NoFailedKillBefore ==
  ASSUME ApiTypeOK, SchedulerInv, [ApiNext]_apiVars, NoFailedKill'
  PROVE  NoFailedKill
<1> SUFFICES ASSUME NEW s \in Sandboxes, records[s].state = "failed"
             PROVE  freed[s] = 0 /\ Accepting(s) = {}
  BY DEF NoFailedKill
<1>1. records'[s].state = "failed" => freed'[s] = 0 /\ Accepting(s)' = {}
  BY DEF NoFailedKill
<1>2. CASE QuietStep
  BY <1>1, <1>2, QuietEffect DEF Accepting
<1>3. ASSUME NEW c \in Callers, HandlerRuns(c)
      PROVE  freed[s] = 0 /\ Accepting(s) = {}
  <2>0. \A d \in Callers \ {c} : hpc'[d] = hpc[d] /\ sb'[d] = sb[d]
    BY <1>3, OthersStay
  <2>1. CASE Unaccepting(c)
    <3>1. Accepting(s)' = Accepting(s)
      BY <2>0, <2>1, UnacceptingEffect, AcceptingSame
    <3> QED
      BY <1>1, <2>1, <3>1, UnacceptingEffect
  <2>2. ASSUME NEW z \in Sandboxes, Submit(c, z)
        PROVE  freed[s] = 0 /\ Accepting(s) = {}
    <3>1. /\ records[z].state = "absent" /\ freed' = freed /\ OthersSame(z)
      BY <2>2, CreateEffect
      DEF Submit, SubmitCreate, historyVars, Exists, RecordsOK, ApiTypeOK, TypeOK
    <3>2. hpc[c] # "accepted" /\ hpc'[c] # "accepted"
      BY <2>2 DEF Submit, GoesTo, ApiTypeOK
    <3>3. Accepting(s)' = Accepting(s)
      BY <2>0, <3>2, AcceptingSame
    <3> QED
      BY <1>1, <3>1, <3>3 DEF OthersSame
  <2>3. ASSUME NEW z \in Sandboxes, Delete(c, z)
        PROVE  freed[s] = 0 /\ Accepting(s) = {}
    <3>1. Accepting(s) \subseteq Accepting(s)'
      BY <2>0, <2>3, DeleteEffect DEF Accepting
    <3> QED
      BY <1>1, <2>3, <3>1, DeleteEffect
  <2>4. CASE MarkDraining(c)
    <3>1. records'[s].state = "failed" /\ freed' = freed
      BY <2>4, MarkDrainingEffect
    <3>2. Accepting(s) \subseteq Accepting(s)'
      BY <2>0, <2>4, MarkDrainingEffect DEF Accepting
    <3> QED
      BY <1>1, <3>1, <3>2
  <2>5. CASE Release(c)
    <3>1. s # sb[c]
      BY <1>1, <2>5, ReleaseEffect
    <3>2. Accepting(s) \subseteq Accepting(s)'
      BY <2>0, <2>5, <3>1, ReleaseEffect DEF Accepting
    <3> QED
      BY <1>1, <2>5, <3>1, <3>2, ReleaseEffect
  <2> QED
    BY <1>3, <2>1, <2>2, <2>3, <2>4, <2>5 DEF HandlerRuns, HandlerStep, Unaccepting
<1> QED
  BY <1>2, <1>3 DEF ApiNext, QuietStep, HandlerRuns

\* Records stay and Release is the one that marks them: no other step than
\* Submit and Release changes what is held.
LEMMA HeldSame ==
  ASSUME freed' = freed, \A z \in Sandboxes : Exists(z)' = Exists(z)
  PROVE  Held' = Held
  BY DEF Held

\* A step of a handler that leaves the records, or their number, alone.
LEMMA UnacceptingCounts ==
  ASSUME ApiTypeOK, NEW c \in Callers, Unaccepting(c), NoFailedKill, SlotInv
  PROVE  SlotInv'
<1> DEFINE h == Cardinality(Held)
           a == Cardinality(InCall(Counted))
           b == Cardinality(InCall(Entitled))
<1>1. /\ h \in Nat /\ count \in Int /\ kept \in 0..Limit /\ Limit \in Nat
      /\ count = h + a + kept /\ h + b + kept <= Limit
  BY HeldFinite, LimitAssumption DEF ApiTypeOK, QuotaTypeOK, SlotInv
<1>2. Held' = Held
  BY UnacceptingEffect, HeldSame DEF Exists
<1> SUFFICES /\ count' = h + Cardinality(InCall(Counted)') + kept'
             /\ h + Cardinality(InCall(Entitled)') + kept' <= Limit
  BY <1>2 DEF SlotInv
<1> USE DEF Counted, Entitled
<1>3. CASE Admit(c) /\ Granted
  <2>1. /\ hpc[c] = "idle" /\ GoesTo(c, "admitted") /\ kept' = kept
        /\ count' = count + 1 /\ count + 1 <= Limit
    BY <1>3 DEF Admit, At, AcquireAdd, Granted, historyVars
  <2>2. a \in Nat /\ b \in Nat
        /\ Cardinality(InCall(Counted)') = a + 1 /\ Cardinality(InCall(Entitled)') = b + 1
    BY <2>1, TwoClasses
  <2>3. b <= a
    <3>1. InCall(Entitled) \in SUBSET InCall(Counted)
      BY DEF InCall
    <3> QED
      BY <3>1, CallsFinite, FS_Subset
  <2> HIDE DEF h, a, b
  <2> QED
    BY <1>1, <2>1, <2>2, <2>3
<1>4. CASE Admit(c) /\ ~Granted
  <2>1. /\ hpc[c] = "idle" /\ GoesTo(c, "refused") /\ kept' = kept /\ count' = count + 1
    BY <1>4 DEF Admit, At, AcquireAdd, historyVars
  <2>2. a \in Nat /\ b \in Nat
        /\ Cardinality(InCall(Counted)') = a + 1 /\ Cardinality(InCall(Entitled)') = b
    BY <2>1, TwoClasses
  <2> HIDE DEF h, a, b
  <2> QED
    BY <1>1, <2>1, <2>2
<1>5. CASE Refuse(c)
  <2>1. /\ hpc[c] = "refused" /\ GoesTo(c, "idle") /\ kept' = kept /\ count' = count - 1
    BY <1>5 DEF Refuse, AcquireRollback, Answers, historyVars
  <2>2. a \in Nat /\ b \in Nat
        /\ Cardinality(InCall(Counted)') = a - 1 /\ Cardinality(InCall(Entitled)') = b
    BY <2>1, TwoClasses
  <2> HIDE DEF h, a, b
  <2> QED
    BY <1>1, <2>1, <2>2
<1>6. ASSUME NEW s \in Sandboxes, SubmitError(c, s)
      PROVE  /\ count' = h + Cardinality(InCall(Counted)') + kept'
             /\ h + Cardinality(InCall(Entitled)') + kept' <= Limit
  <2>1. /\ hpc[c] = "admitted" /\ GoesTo(c, "idle") /\ count' = count
        /\ kept' = IF kept < Limit THEN kept + 1 ELSE kept
    BY <1>6 DEF SubmitError, Answers, quotaVars
  <2>2. a \in Nat /\ b \in Nat
        /\ Cardinality(InCall(Counted)') = a - 1 /\ Cardinality(InCall(Entitled)') = b - 1
    BY <2>1, TwoClasses
  <2>3. b >= 1
    BY <2>1, EntitledIsOne
  <2> HIDE DEF h, a, b
  <2> QED
    BY <1>1, <2>1, <2>2, <2>3
<1>7. ASSUME count' = count, kept' = kept, NEW to, GoesTo(c, to),
             hpc[c] \notin Counted, to \notin Counted
      PROVE  /\ count' = h + Cardinality(InCall(Counted)') + kept'
             /\ h + Cardinality(InCall(Entitled)') + kept' <= Limit
  <2>1. a \in Nat /\ b \in Nat
        /\ Cardinality(InCall(Counted)') = a /\ Cardinality(InCall(Entitled)') = b
    BY <1>7, TwoClasses
  <2> HIDE DEF h, a, b
  <2> QED
    BY <1>1, <1>7, <2>1
<1>8. CASE \/ \E t \in Timeouts : SubmitEnqueue(c, t)
           \/ KillArrives(c) \/ KillLost(c)
  <2>1. count' = count /\ kept' = kept /\ hpc[c] \in {"created", "telling"}
    BY <1>8 DEF SubmitEnqueue, KillArrives, KillLost, At, quotaVars, historyVars
  <2>2. \E to \in {"idle", "told"} : GoesTo(c, to)
    BY <1>8 DEF SubmitEnqueue, KillArrives, KillLost, Answers
  <2> QED
    BY <1>7, <2>1, <2>2
<1>9. CASE Released(c)
  <2>1. /\ hpc[c] = "releasing" /\ GoesTo(c, "idle") /\ kept' = kept /\ count' = count - 1
    BY <1>9 DEF Released, ReleaseDec, Answers, historyVars
  <2>2. a \in Nat /\ b \in Nat
        /\ Cardinality(InCall(Counted)') = a - 1 /\ Cardinality(InCall(Entitled)') = b - 1
    BY <2>1, TwoClasses
  <2> HIDE DEF h, a, b
  <2> QED
    BY <1>1, <2>1, <2>2
<1> QED
  BY <1>3, <1>4, <1>5, <1>6, <1>8, <1>9 DEF Unaccepting

\* The steps of a handler that make a record, accept a DELETE or act on one.
LEMMA AcceptingCounts ==
  ASSUME ApiTypeOK, SchedulerInv, AllSettled, NEW c \in Callers, NoFailedKill, SlotInv,
         \/ \E s \in Sandboxes : Submit(c, s) \/ Delete(c, s)
         \/ MarkDraining(c) \/ Release(c)
  PROVE  SlotInv'
<1> DEFINE h == Cardinality(Held)
           a == Cardinality(InCall(Counted))
           b == Cardinality(InCall(Entitled))
<1>1. /\ h \in Nat /\ count \in Int /\ kept \in 0..Limit /\ Limit \in Nat
      /\ count = h + a + kept /\ h + b + kept <= Limit
  BY HeldFinite, LimitAssumption DEF ApiTypeOK, QuotaTypeOK, SlotInv
<1> USE DEF Counted, Entitled
<1>2. ASSUME NEW s \in Sandboxes, Submit(c, s) PROVE SlotInv'
  <2>1. /\ hpc[c] = "admitted" /\ GoesTo(c, "created") /\ count' = count /\ kept' = kept
        /\ freed' = freed /\ records[s].state = "absent" /\ records'[s].state = "queued"
        /\ OthersSame(s)
    BY <1>2, CreateEffect
    DEF Submit, SubmitCreate, quotaVars, historyVars, Exists, Fresh, RecordsOK, ApiTypeOK,
        TypeOK
  <2>2. a \in Nat /\ b \in Nat
        /\ Cardinality(InCall(Counted)') = a - 1 /\ Cardinality(InCall(Entitled)') = b - 1
    BY <2>1, TwoClasses
  <2>3. freed[s] = 0
    BY <2>1 DEF AllSettled, SettledOnce
  <2>4. Held' = Held \cup {s} /\ s \notin Held
    BY <2>1, <2>3 DEF Held, Exists, OthersSame
  <2>5. Cardinality(Held') = h + 1
    BY <2>4, HeldFinite, FS_AddElement
  <2>6. /\ count' = Cardinality(Held') + Cardinality(InCall(Counted)') + kept'
        /\ Cardinality(Held') + Cardinality(InCall(Entitled)') + kept' <= Limit
    <3> HIDE DEF h, a, b
    <3> QED
      BY <1>1, <2>1, <2>2, <2>5
  <2> QED
    BY <2>6 DEF SlotInv
<1>3. ASSUME count' = count, kept' = kept, freed' = freed, NEW to, GoesTo(c, to),
             hpc[c] \notin Counted, to \notin Counted,
             \A z \in Sandboxes : Exists(z)' = Exists(z)
      PROVE  SlotInv'
  <2>1. a \in Nat /\ b \in Nat /\ Held' = Held
        /\ Cardinality(InCall(Counted)') = a /\ Cardinality(InCall(Entitled)') = b
    BY <1>3, TwoClasses, HeldSame
  <2> QED
    BY <1>1, <1>3, <2>1 DEF SlotInv
<1>4. ASSUME NEW s \in Sandboxes, Delete(c, s) PROVE SlotInv'
  <2>1. count' = count /\ kept' = kept /\ freed' = freed /\ records' = records
        /\ hpc[c] = "idle"
    BY <1>4 DEF Delete, vars, quotaVars, historyVars
  <2>2. \E to \in {"accepted", "telling", "told"} : GoesTo(c, to)
    BY <1>4 DEF Delete
  <2> QED
    BY <1>3, <2>1, <2>2 DEF Exists
<1>5. CASE MarkDraining(c)
  <2>1. count' = count /\ kept' = kept /\ freed' = freed /\ hpc[c] = "told"
    BY <1>5 DEF MarkDraining, quotaVars, historyVars
  <2>2. \E to \in {"accepted", "idle"} : GoesTo(c, to)
    BY <1>5 DEF MarkDraining, Answers
  <2>3. \A z \in Sandboxes : Exists(z)' = Exists(z)
    BY <1>5, MarkDrainingEffect DEF Exists
  <2> QED
    BY <1>3, <2>1, <2>2, <2>3
<1>6. CASE Release(c)
  <2>1. /\ sb[c] \in Sandboxes /\ c \in Accepting(sb[c]) /\ hpc[c] = "accepted"
        /\ records' = records /\ count' = count /\ kept' = kept
    BY <1>6, ReleaseEffect DEF Accepting
  <2>2. /\ records[sb[c]].state = "draining" /\ freed[sb[c]] = 0
    BY <2>1 DEF AllSettled, SettledOnce, NoFailedKill
  <2>3. Held' = Held \ {sb[c]} /\ sb[c] \in Held
    BY <1>6, <2>1, <2>2, ReleaseEffect DEF Held, Exists
  <2>4. Cardinality(Held') = h - 1
    BY <2>3, HeldFinite, FS_RemoveElement
  <2>5. h >= 1
    <3>1. Cardinality(Held') \in Nat
      <4>1. IsFiniteSet(Held')
        BY <2>3, HeldFinite, FS_RemoveElement
      <4> QED
        BY <4>1, FS_CardinalityType
    <3> QED
      BY <1>1, <2>4, <3>1
  <2>6. a \in Nat
    BY CallsFinite
  <2>7. GoesTo(c, "releasing")
    <3>1. count > 0
      <4> HIDE DEF h, a, b
      <4> QED
        BY <1>1, <2>5, <2>6
    <3> QED
      BY <1>6, <3>1, ReleaseEffect
  <2>8. b \in Nat /\ Cardinality(InCall(Counted)') = a + 1
        /\ Cardinality(InCall(Entitled)') = b + 1
    BY <2>1, <2>7, TwoClasses
  <2>9. /\ count' = Cardinality(Held') + Cardinality(InCall(Counted)') + kept'
        /\ Cardinality(Held') + Cardinality(InCall(Entitled)') + kept' <= Limit
    <3> HIDE DEF h, a, b
    <3> QED
      BY <1>1, <2>1, <2>4, <2>6, <2>8
  <2> QED
    BY <2>9 DEF SlotInv
<1> QED
  BY <1>2, <1>4, <1>5, <1>6

LEMMA SlotStep ==
  ASSUME ApiTypeOK, SchedulerInv, AllSettled, SlotInv, [ApiNext]_apiVars
  PROVE  SlotInv'
<1> SUFFICES ASSUME NoFailedKill' PROVE SlotInv'
  BY DEF SlotInv
<1>1. NoFailedKill
  BY NoFailedKillBefore
<1>2. CASE QuietStep
  <2>1. UNCHANGED <<hpc, count, freed, kept>>
    <3>1. CASE Sandboxes = {}
      BY <1>2 DEF QuietStep, SchedulerRuns, PlacementRuns, AgentStep, apiVars,
                  quotaVars, handlerVars, historyVars
    <3>2. CASE Sandboxes # {}
      BY <1>2, <3>2, QuietEffect
    <3> QED
      BY <3>1, <3>2
  <2>2. \A z \in Sandboxes : Exists(z)' = Exists(z)
    BY <1>2, QuietEffect DEF Exists
  <2>3. Held' = Held
    BY <2>1, <2>2, HeldSame
  <2>4. \A pcs : InCall(pcs)' = InCall(pcs)
    BY <2>1 DEF InCall
  <2> QED
    BY <1>1, <2>1, <2>3, <2>4 DEF SlotInv
<1>3. ASSUME NEW c \in Callers, HandlerRuns(c) PROVE SlotInv'
  BY <1>1, <1>3, UnacceptingCounts, AcceptingCounts
  DEF HandlerRuns, HandlerStep, Unaccepting
<1> QED
  BY <1>2, <1>3 DEF ApiNext, QuietStep, HandlerRuns

LEMMA SlotInit == ApiInit => SlotInv
<1> SUFFICES ASSUME ApiInit PROVE SlotInv
  OBVIOUS
<1>1. Held = {} /\ \A pcs : "idle" \notin pcs => InCall(pcs) = {}
  BY DEF ApiInit, Init, StoreInit, Absent, Exists, Held, InCall
<1>2. "idle" \notin Counted /\ "idle" \notin Entitled
  BY DEF Counted, Entitled
<1>3. count = 0 /\ kept = 0
  BY DEF ApiInit, QuotaInit
<1> QED
  BY <1>1, <1>2, <1>3, FS_EmptySet, LimitAssumption DEF SlotInv

THEOREM SlotInvariant == ApiSpec => []SlotInv
  BY SlotInit, SlotStep, ApiTypeCorrect, SchedulerInvInApi, SlotsAreSettled, PTL DEF ApiSpec

\* The quota counter is the slots held, the calls under way and the slots that
\* failed Submits kept, in every overlap of the halves of Acquire and Release.
THEOREM EverySlotIsAccounted == ApiSpec => []SlotsAccounted
<1>1. SlotInv => SlotsAccounted
  BY DEF SlotInv, SlotsAccounted, Held, Counted
<1> QED
  BY <1>1, SlotInvariant, PTL

\* A tenant that deletes no failed sandbox has at most Limit of them alive.
THEOREM LimitIsKept == ApiSpec => []LimitKept
<1>1. ApiTypeOK /\ AllSettled /\ SlotInv => LimitKept
  <2> SUFFICES ASSUME ApiTypeOK, AllSettled, SlotInv, NoFailedKill
               PROVE  Cardinality(Live) <= Limit
    BY DEF LimitKept
  <2>1. Live \in SUBSET Held
    BY DEF Live, Held, Exists, AllSettled, SettledOnce
  <2>2. Cardinality(Live) <= Cardinality(Held) /\ Cardinality(Live) \in Nat
    BY <2>1, HeldFinite, FS_Subset, FS_CardinalityType
  <2>3. Cardinality(InCall(Entitled)) \in Nat
    BY CallsFinite
  <2>4. Cardinality(Held) + Cardinality(InCall(Entitled)) + kept <= Limit
    BY DEF SlotInv
  <2> QED
    BY <2>2, <2>3, <2>4, HeldFinite, LimitAssumption DEF ApiTypeOK
<1> QED
  BY <1>1, ApiTypeCorrect, SlotsAreSettled, SlotInvariant, PTL

\* The counter goes below zero only for a tenant that deletes failed sandboxes,
\* although each Release loads it before it decrements it (quota.go:50-56).
THEOREM CounterIsNeverNegative == ApiSpec => [](NoFailedKill => NeverNegative)
<1>1. ApiTypeOK /\ SlotInv => (NoFailedKill => NeverNegative)
  <2> SUFFICES ASSUME ApiTypeOK, SlotInv, NoFailedKill PROVE count >= 0
    BY DEF NeverNegative
  <2>1. count = Cardinality(Held) + Cardinality(InCall(Counted)) + kept
    BY DEF SlotInv
  <2>2. Cardinality(InCall(Counted)) \in Nat /\ kept \in Nat
    BY CallsFinite, LimitAssumption DEF ApiTypeOK
  <2> QED
    BY <2>1, <2>2, HeldFinite
<1> QED
  BY <1>1, ApiTypeCorrect, SlotInvariant, PTL
===============================================================================
