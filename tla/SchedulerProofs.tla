---------------------------- MODULE SchedulerProofs ----------------------------
(***************************************************************************)
(* What holds of Scheduler.tla for every set of sandboxes, hosts, timeouts *)
(* and load levels.                                                        *)
(***************************************************************************)
EXTENDS Scheduler, TLAPS

-------------------------------------------------------------------------------
(* What each operation of the record store does to the records.            *)

RecordsOK == records \in [Sandboxes -> Record]

\* Every field but those of s, as Store's operations leave them.
OthersSame(s) == \A t \in Sandboxes \ {s} : records'[t] = records[t]

\* Store.Create: the new record is queued, without a host or an endpoint.
LEMMA CreateEffect ==
  ASSUME RecordsOK, NEW s \in Sandboxes, ~Exists(s), Create(s)
  PROVE  RecordsOK' /\ OthersSame(s) /\ records'[s] = Fresh
BY DEF RecordsOK, Record, Exists, Create, Fresh, States, OthersSame

\* Store.Transition moves nothing but the state, and that only when the
\* expectation and the table allow it.
LEMMA TransitionEffect ==
  ASSUME RecordsOK, NEW s \in Sandboxes, NEW from \in States, NEW to \in States,
         Transition(s, from, to)
  PROVE  /\ RecordsOK'
         /\ OthersSame(s)
         /\ records'[s].host = records[s].host
         /\ records'[s].vsock = records[s].vsock
         /\ TransitionOK(s, from, to) => records'[s].state = to
         /\ ~TransitionOK(s, from, to) => records'[s].state = records[s].state
<1>1. CASE TransitionOK(s, from, to)
  <2>1. records' = [records EXCEPT ![s].state = to]
    BY <1>1 DEF Transition
  <2>2. records'[s] = [state |-> to, host |-> records[s].host,
                       vsock |-> records[s].vsock]
    BY <2>1 DEF RecordsOK, Record
  <2> QED
    BY <1>1, <2>1, <2>2 DEF RecordsOK, Record, OthersSame
<1>2. CASE ~TransitionOK(s, from, to)
  BY <1>2 DEF Transition, RecordsOK, OthersSame
<1> QED
  BY <1>1, <1>2

\* Store.SetHostID moves nothing but the host.
LEMMA SetHostIDEffect ==
  ASSUME RecordsOK, NEW s \in Sandboxes, NEW h \in Hosts, SetHostID(s, h)
  PROVE  /\ RecordsOK'
         /\ OthersSame(s)
         /\ Exists(s) => records'[s].host = h
         /\ ~Exists(s) => records' = records
         /\ records'[s].state = records[s].state
         /\ records'[s].vsock = records[s].vsock
<1>1. CASE Exists(s)
  <2>1. records'[s] = [state |-> records[s].state, host |-> h,
                       vsock |-> records[s].vsock]
    BY <1>1 DEF SetHostID, RecordsOK, Record
  <2> QED
    BY <1>1, <2>1 DEF SetHostID, RecordsOK, Record, OthersSame
<1>2. CASE ~Exists(s)
  BY <1>2 DEF SetHostID, RecordsOK, OthersSame
<1> QED
  BY <1>1, <1>2

\* Store.SetVsockCID moves nothing but the endpoint.
LEMMA SetVsockCIDEffect ==
  ASSUME RecordsOK, NEW s \in Sandboxes, SetVsockCID(s)
  PROVE  /\ RecordsOK'
         /\ OthersSame(s)
         /\ Exists(s) => records'[s].vsock = TRUE
         /\ ~Exists(s) => records' = records
         /\ records'[s].state = records[s].state
         /\ records'[s].host = records[s].host
<1>1. CASE Exists(s)
  <2>1. records'[s] = [state |-> records[s].state, host |-> records[s].host,
                       vsock |-> TRUE]
    BY <1>1 DEF SetVsockCID, RecordsOK, Record
  <2> QED
    BY <1>1, <2>1 DEF SetVsockCID, RecordsOK, Record, OthersSame
<1>2. CASE ~Exists(s)
  BY <1>2 DEF SetVsockCID, RecordsOK, OthersSame
<1> QED
  BY <1>1, <1>2

-------------------------------------------------------------------------------
(* Types.                                                                  *)

\* The initial state is well typed.
LEMMA TypeInit == Init => TypeOK
<1>1. {Unregistered, NewlyRegistered} \subseteq HostInfo
  BY CPULevelsAssumption DEF Unregistered, NewlyRegistered, HostInfo
<1>2. Init => info \in [Hosts -> HostInfo]
  BY <1>1 DEF Init
<1> QED
  BY <1>2, NoHostAssumption, NoSandboxAssumption
  DEF Init, StoreInit, Absent, TypeOK, Record, DispatchPCs, PlacerPCs

\* The typing of everything but the records.
OthersTyped ==
  /\ info \in [Hosts -> HostInfo]
  /\ submitting \subseteq Sandboxes
  /\ queue \in [Sandboxes -> Nat]
  /\ left \in [Sandboxes -> Nat \cup {-1}]
  /\ dpc \in DispatchPCs
  /\ item \in Sandboxes \cup {NoSandbox}
  /\ dpc = "wait" <=> item = NoSandbox
  /\ target \in Hosts \cup {NoHost}
  /\ dpc \in {"picked", "assigned"} <=> target # NoHost
  /\ placer \in [Sandboxes -> PlacerPCs]
  /\ calledHost \in [Sandboxes -> Hosts \cup {NoHost}]

\* Every step of the scheduler, its clients or its monitor keeps every part
\* of its state in its type; in particular no heap count goes below zero and
\* no deadline is counted below "passed".
LEMMA TypeStep == TypeOK /\ [Next]_vars => TypeOK'
<1> SUFFICES ASSUME TypeOK, [Next]_vars PROVE TypeOK'
  OBVIOUS
<1>0. /\ RecordsOK /\ OthersTyped
      /\ RecordsOK' /\ OthersTyped' => TypeOK'
  BY DEF TypeOK, RecordsOK, OthersTyped
<1> USE <1>0, NoHostAssumption, NoSandboxAssumption
    DEF OthersTyped, queueVars, dispatchVars, placerVars
<1>1. CASE Tick
  <2>1. left' \in [Sandboxes -> Nat \cup {-1}]
    BY <1>1 DEF Tick
  <2> QED
    BY <1>1, <2>1 DEF Tick, RecordsOK
<1>2. CASE HostRegistry
  <2>1. ASSUME NEW h \in Hosts, RegisterHost(h) PROVE TypeOK'
    <3>1. info' \in [Hosts -> HostInfo]
      BY <2>1, CPULevelsAssumption DEF RegisterHost, HostInfo, NewlyRegistered
    <3> QED
      BY <2>1, <3>1 DEF RegisterHost, RecordsOK
  <2>2. ASSUME NEW h \in Hosts, NEW b \in BOOLEAN, UpdateHostHealth(h, b)
        PROVE TypeOK'
    <3>1. info' \in [Hosts -> HostInfo]
      BY <2>2 DEF UpdateHostHealth, HostInfo
    <3> QED
      BY <2>2, <3>1 DEF UpdateHostHealth, RecordsOK
  <2>3. ASSUME NEW h \in Hosts, NEW c \in CPULevels, NEW w \in BOOLEAN,
               RecordHeartbeat(h, c, w)
        PROVE TypeOK'
    <3>1. info' \in [Hosts -> HostInfo]
      BY <2>3 DEF RecordHeartbeat, HostInfo
    <3> QED
      BY <2>3, <3>1 DEF RecordHeartbeat, RecordsOK
  <2> QED
    BY <1>2, <2>1, <2>2, <2>3 DEF HostRegistry
<1>3. CASE Dispatch
  <2> USE DEF DispatchPCs, RoundEnds
  <2>1. ASSUME NEW s \in Sandboxes, Pop(s) PROVE TypeOK'
    <3>1. queue' \in [Sandboxes -> Nat]
      BY <2>1 DEF Pop, First
    <3> QED
      BY <2>1, <3>1 DEF Pop, RecordsOK
  <2>2. CASE DropExpired
    <3>1. item \in Sandboxes
      BY <2>2 DEF DropExpired
    <3>2. RecordsOK'
      BY <2>2, <3>1, TransitionEffect DEF DropExpired, States
    <3> QED
      BY <2>2, <3>2 DEF DropExpired
  <2>3. CASE StillLive
    BY <2>3 DEF StillLive, RecordsOK
  <2>4. CASE Requeue
    <3>1. queue' \in [Sandboxes -> Nat]
      BY <2>4 DEF Requeue, Push
    <3> QED
      BY <2>4, <3>1 DEF Requeue, RecordsOK
  <2>5. ASSUME NEW h \in Hosts, PickHost(h) PROVE TypeOK'
    BY <2>5 DEF PickHost, RecordsOK
  <2>6. CASE AssignHost
    <3>1. item \in Sandboxes /\ target \in Hosts
      BY <2>6 DEF AssignHost
    <3>2. RecordsOK'
      BY <2>6, <3>1, SetHostIDEffect DEF AssignHost
    <3> QED
      BY <2>6, <3>2 DEF AssignHost
  <2>7. CASE StartPlacement
    <3>1. item \in Sandboxes /\ target \in Hosts
      BY <2>7 DEF StartPlacement
    <3>2. RecordsOK'
      BY <2>7, <3>1, TransitionEffect DEF StartPlacement, States
    <3>3. /\ placer' \in [Sandboxes -> PlacerPCs]
          /\ calledHost' \in [Sandboxes -> Hosts \cup {NoHost}]
      BY <2>7, <3>1 DEF StartPlacement, PlacerPCs
    <3> QED
      BY <2>7, <3>2, <3>3 DEF StartPlacement
  <2> QED
    BY <1>3, <2>1, <2>2, <2>3, <2>4, <2>5, <2>6, <2>7 DEF Dispatch
<1>4. ASSUME NEW s \in Sandboxes, Handlers(s) PROVE TypeOK'
  <2>1. CASE SubmitCreate(s)
    <3>1. RecordsOK'
      BY <2>1, CreateEffect DEF SubmitCreate
    <3> QED
      BY <2>1, <3>1 DEF SubmitCreate
  <2>2. ASSUME NEW t \in Timeouts, Enqueue(s, t) PROVE TypeOK'
    <3>1. queue' \in [Sandboxes -> Nat]
      BY <2>2 DEF Enqueue, Push
    <3>2. left' \in [Sandboxes -> Nat \cup {-1}]
      BY <2>2, TimeoutsAssumption DEF Enqueue
    <3> QED
      BY <2>2, <3>1, <3>2 DEF Enqueue, RecordsOK
  <2>3. ASSUME NEW seen \in States, TerminateTransition(s, seen) PROVE TypeOK'
    <3>1. RecordsOK'
      BY <2>3, TransitionEffect DEF TerminateTransition, States
    <3> QED
      BY <2>3, <3>1 DEF TerminateTransition
  <2> QED
    BY <1>4, <2>1, <2>2, <2>3 DEF Handlers
<1>5. ASSUME NEW s \in Sandboxes, Placement(s) PROVE TypeOK'
  <2>1. RecordsOK'
    BY <1>5, TransitionEffect, SetVsockCIDEffect
    DEF Placement, AgentReplies, AgentFails, StoreVsock, MarkRunning,
        MarkFailed, States, RecordsOK
  <2>2. \E from, to \in PlacerPCs : PlacerStep(s, from, to)
    BY <1>5 DEF Placement, AgentReplies, AgentFails, StoreVsock, MarkRunning,
                MarkFailed, PlacerPCs
  <2> QED
    BY <2>1, <2>2 DEF PlacerStep
<1>6. CASE UNCHANGED vars
  BY <1>6 DEF vars, RecordsOK
<1> QED
  BY <1>1, <1>2, <1>3, <1>4, <1>5, <1>6 DEF Next

\* Type correctness of the scheduler.
THEOREM TypeCorrect == Spec => []TypeOK
<1>1. Init => TypeOK
  BY TypeInit
<1>2. TypeOK /\ [Next]_vars => TypeOK'
  BY TypeStep
<1> QED
  BY <1>1, <1>2, PTL DEF Spec

-------------------------------------------------------------------------------
(* The inductive invariant, one lemma per part.                            *)

\* No step loses a request, or gives it a second owner.
LEMMA OneOwnerStep == SchedulerInv /\ [Next]_vars => OneOwner'
<1> SUFFICES ASSUME SchedulerInv, [Next]_vars, NEW z \in Sandboxes
             PROVE  Owners(z)' = IF records'[z].state = "queued" THEN 1 ELSE 0
  BY DEF OneOwner
<1>0. /\ TypeOK /\ RecordsOK
      /\ queue[z] \in Nat
      /\ Owners(z) = IF records[z].state = "queued" THEN 1 ELSE 0
      /\ item \in Sandboxes => records[item].state = "queued"
  <2>1. \A s \in Sandboxes : Owners(s) \in Nat /\ (item = s => Owners(s) > 0)
    BY DEF SchedulerInv, TypeOK, Owners
  <2> QED
    BY <2>1 DEF SchedulerInv, TypeOK, RecordsOK, OneOwner
<1> USE <1>0, NoSandboxAssumption DEF queueVars, dispatchVars, placerVars, Owners
<1>1. CASE Tick
  BY <1>1 DEF Tick
<1>2. CASE HostRegistry
  BY <1>2 DEF HostRegistry, RegisterHost, UpdateHostHealth, RecordHeartbeat
<1>3. CASE Dispatch
  <2> USE DEF TypeOK, RoundEnds
  <2>1. ASSUME NEW s \in Sandboxes, Pop(s)
        PROVE  Owners(z)' = IF records'[z].state = "queued" THEN 1 ELSE 0
    BY <2>1 DEF Pop, First
  <2>2. CASE DropExpired
    <3>1. item \in Sandboxes /\ TransitionOK(item, "queued", "failed")
      BY <2>2 DEF DropExpired, TransitionOK, Exists, validTransitions
    <3>2. records'[item].state = "failed" /\ OthersSame(item)
      BY <2>2, <3>1, TransitionEffect DEF DropExpired, States
    <3> QED
      BY <2>2, <3>1, <3>2 DEF DropExpired, OthersSame
  <2>3. CASE StillLive
    BY <2>3 DEF StillLive
  <2>4. CASE Requeue
    BY <2>4 DEF Requeue, Push
  <2>5. ASSUME NEW h \in Hosts, PickHost(h)
        PROVE  Owners(z)' = IF records'[z].state = "queued" THEN 1 ELSE 0
    BY <2>5 DEF PickHost
  <2>6. CASE AssignHost
    <3>1. item \in Sandboxes /\ target \in Hosts
      BY <2>6 DEF AssignHost
    <3>2. records'[item].state = records[item].state /\ OthersSame(item)
      BY <2>6, <3>1, SetHostIDEffect DEF AssignHost
    <3> QED
      BY <2>6, <3>1, <3>2 DEF AssignHost, OthersSame
  <2>7. CASE StartPlacement
    <3>1. item \in Sandboxes /\ TransitionOK(item, "queued", "provisioning")
      BY <2>7 DEF StartPlacement, TransitionOK, Exists, validTransitions
    <3>2. records'[item].state = "provisioning" /\ OthersSame(item)
      BY <2>7, <3>1, TransitionEffect DEF StartPlacement, States
    <3> QED
      BY <2>7, <3>1, <3>2 DEF StartPlacement, OthersSame
  <2> QED
    BY <1>3, <2>1, <2>2, <2>3, <2>4, <2>5, <2>6, <2>7 DEF Dispatch
<1>4. ASSUME NEW s \in Sandboxes, Handlers(s)
      PROVE  Owners(z)' = IF records'[z].state = "queued" THEN 1 ELSE 0
  <2>1. CASE SubmitCreate(s)
    <3>1. records'[s].state = "queued" /\ OthersSame(s)
      BY <2>1, CreateEffect DEF SubmitCreate, Fresh
    <3> QED
      BY <2>1, <3>1 DEF SubmitCreate, OthersSame, Exists
  <2>2. ASSUME NEW t \in Timeouts, Enqueue(s, t)
        PROVE  Owners(z)' = IF records'[z].state = "queued" THEN 1 ELSE 0
    BY <2>2 DEF Enqueue, Push, TypeOK
  <2>3. ASSUME NEW seen \in States, TerminateTransition(s, seen)
        PROVE  Owners(z)' = IF records'[z].state = "queued" THEN 1 ELSE 0
    <3>1. /\ OthersSame(s)
          /\ records'[s].state = "queued" <=> records[s].state = "queued"
      BY <2>3, TransitionEffect
      DEF TerminateTransition, TransitionOK, validTransitions, States
    <3> QED
      BY <2>3, <3>1 DEF TerminateTransition, OthersSame
  <2> QED
    BY <1>4, <2>1, <2>2, <2>3 DEF Handlers
<1>5. ASSUME NEW s \in Sandboxes, Placement(s)
      PROVE  Owners(z)' = IF records'[z].state = "queued" THEN 1 ELSE 0
  <2>1. /\ records'[s].state = "queued" <=> records[s].state = "queued"
        /\ \A t \in Sandboxes \ {s} : records'[t] = records[t]
    <3>1. CASE AgentReplies(s) \/ AgentFails(s)
      BY <3>1 DEF AgentReplies, AgentFails
    <3>2. CASE StoreVsock(s)
      BY <3>2, SetVsockCIDEffect DEF StoreVsock, OthersSame
    <3>3. CASE MarkRunning(s)
      BY <3>3, TransitionEffect
      DEF MarkRunning, TransitionOK, OthersSame, States
    <3>4. CASE MarkFailed(s)
      BY <3>4, TransitionEffect
      DEF MarkFailed, TransitionOK, OthersSame, States
    <3> QED
      BY <1>5, <3>1, <3>2, <3>3, <3>4 DEF Placement
  <2>2. UNCHANGED <<queue, submitting, item>>
    BY <1>5 DEF Placement, PlacerStep, AgentReplies, AgentFails, StoreVsock,
                MarkRunning, MarkFailed
  <2> QED
    BY <2>1, <2>2
<1>6. CASE UNCHANGED vars
  BY <1>6 DEF vars
<1> QED
  BY <1>1, <1>2, <1>3, <1>4, <1>5, <1>6 DEF Next

\* What PlacementTracksState, KillReachesHost, RunningIsReachable and
\* NoEarlyExpiry say of one sandbox.
Tracked(s) ==
  /\ records[s].state = "provisioning"
       <=> placer[s] \in {"calling", "booted", "stored", "errored"}
  /\ placer[s] = "none" <=> calledHost[s] = NoHost
  /\ placer[s] = "none" => records[s].state \in {"absent", "queued", "failed"}
  /\ placer[s] = "done" => records[s].state \in {"running", "draining", "failed"}

HostKept(s) ==
  /\ placer[s] # "none" => records[s].host = calledHost[s]
  /\ item = s /\ dpc = "assigned" => records[s].host = target
  /\ placer[s] = "none" /\ ~(item = s /\ dpc = "assigned")
       => records[s].host = NoHost

Reachable(s) ==
  /\ placer[s] = "stored" => records[s].vsock
  /\ records[s].state \in {"running", "draining"} =>
       records[s].host \in Hosts /\ records[s].vsock

ExpiredOnTime(s) ==
  records[s].state = "failed" /\ placer[s] = "none" => left[s] < 0

SandboxInv(s) == Tracked(s) /\ HostKept(s) /\ Reachable(s) /\ ExpiredOnTime(s)

\* The invariant read one sandbox at a time.
LEMMA InvBySandbox ==
  SchedulerInv <=> TypeOK /\ OneOwner /\ \A s \in Sandboxes : SandboxInv(s)
BY DEF SchedulerInv, PlacementTracksState, KillReachesHost, RunningIsReachable,
       NoEarlyExpiry, SandboxInv, Tracked, HostKept, Reachable, ExpiredOnTime

\* The dispatch loop only ever holds a queued sandbox.
LEMMA HeldIsQueued ==
  SchedulerInv /\ item \in Sandboxes => records[item].state = "queued"
BY DEF SchedulerInv, TypeOK, OneOwner, Owners

\* No step of the dispatch loop breaks what is known of a sandbox.
LEMMA DispatchKeeps ==
  ASSUME SchedulerInv, Dispatch, NEW z \in Sandboxes
  PROVE  SandboxInv(z)'
<1>0. TypeOK /\ RecordsOK /\ SandboxInv(z)
  BY InvBySandbox DEF TypeOK, RecordsOK
<1> USE <1>0, HeldIsQueued, NoHostAssumption, NoSandboxAssumption
    DEF queueVars, placerVars, TypeOK, RoundEnds,
        SandboxInv, Tracked, HostKept, Reachable, ExpiredOnTime
<1>1. ASSUME NEW s \in Sandboxes, Pop(s) PROVE SandboxInv(z)'
  BY <1>1 DEF Pop
<1>2. CASE DropExpired
  <2>1. item \in Sandboxes /\ TransitionOK(item, "queued", "failed")
    BY <1>2 DEF DropExpired, TransitionOK, Exists, validTransitions
  <2>2. /\ records'[item].state = "failed" /\ OthersSame(item)
        /\ records'[item].host = records[item].host
    BY <1>2, <2>1, TransitionEffect DEF DropExpired, States
  <2>3. left[item] < 0 /\ placer[item] = "none"
    <3>1. SandboxInv(item)
      BY <2>1, InvBySandbox
    <3> QED
      BY <1>2, <2>1, <3>1 DEF DropExpired, PastDeadline, PlacerPCs
  <2> QED
    BY <1>2, <2>1, <2>2, <2>3 DEF DropExpired, OthersSame
<1>3. CASE StillLive
  BY <1>3 DEF StillLive
<1>4. CASE Requeue
  BY <1>4 DEF Requeue
<1>5. ASSUME NEW h \in Hosts, PickHost(h) PROVE SandboxInv(z)'
  BY <1>5 DEF PickHost
<1>6. CASE AssignHost
  <2>1. item \in Sandboxes /\ target \in Hosts
    BY <1>6 DEF AssignHost
  <2>2. SandboxInv(item)
    BY <2>1, InvBySandbox
  <2>3. /\ records'[item].state = "queued"
        /\ records'[item].host = target
        /\ OthersSame(item)
    BY <1>6, <2>1, SetHostIDEffect DEF AssignHost, Exists
  <2> QED
    BY <1>6, <2>1, <2>2, <2>3 DEF AssignHost, OthersSame, PlacerPCs
<1>7. CASE StartPlacement
  <2>1. /\ item \in Sandboxes /\ target \in Hosts
        /\ TransitionOK(item, "queued", "provisioning")
    BY <1>7 DEF StartPlacement, TransitionOK, Exists, validTransitions
  <2>2. SandboxInv(item)
    BY <2>1, InvBySandbox
  <2>3. /\ records'[item].state = "provisioning"
        /\ records'[item].host = records[item].host
        /\ OthersSame(item)
    BY <1>7, <2>1, TransitionEffect DEF StartPlacement, States
  <2>4. /\ placer' = [placer EXCEPT ![item] = "calling"]
        /\ calledHost' = [calledHost EXCEPT ![item] = target]
    BY <1>7, <2>1 DEF StartPlacement
  <2>5. records[item].host = target
    BY <1>7, <2>1, <2>2 DEF StartPlacement
  <2>6. CASE z = item
    BY <1>7, <2>1, <2>3, <2>4, <2>5, <2>6 DEF StartPlacement
  <2>7. CASE z # item
    BY <1>7, <2>1, <2>3, <2>4, <2>7 DEF StartPlacement, OthersSame
  <2> QED
    BY <2>6, <2>7
<1> QED
  BY <1>1, <1>2, <1>3, <1>4, <1>5, <1>6, <1>7 DEF Dispatch

\* Nor does a handler that submits or terminates, however stale the state it
\* read.
LEMMA HandlersKeep ==
  ASSUME SchedulerInv, NEW s \in Sandboxes, Handlers(s), NEW z \in Sandboxes
  PROVE  SandboxInv(z)'
<1>0. TypeOK /\ RecordsOK /\ SandboxInv(z) /\ SandboxInv(s)
  BY InvBySandbox DEF TypeOK, RecordsOK
<1> USE <1>0, NoHostAssumption, NoSandboxAssumption
    DEF queueVars, dispatchVars, placerVars, TypeOK,
        SandboxInv, Tracked, HostKept, Reachable, ExpiredOnTime
<1>1. CASE SubmitCreate(s)
  <2>1. records'[s] = Fresh /\ OthersSame(s) /\ records[s].state = "absent"
    BY <1>1, CreateEffect DEF SubmitCreate, Exists
  <2>2. placer[s] = "none"
    BY <2>1 DEF PlacerPCs
  <2>3. item # s
    BY <2>1, HeldIsQueued
  <2> QED
    BY <1>1, <2>1, <2>2, <2>3 DEF SubmitCreate, OthersSame, Fresh
<1>2. ASSUME NEW t \in Timeouts, Enqueue(s, t) PROVE SandboxInv(z)'
  <2>1. records[s].state = "queued"
    BY <1>2 DEF Enqueue, SchedulerInv, OneOwner, Owners
  <2> QED
    BY <1>2, <2>1 DEF Enqueue, Push
<1>3. ASSUME NEW seen \in States, TerminateTransition(s, seen)
      PROVE  SandboxInv(z)'
  <2>1. /\ OthersSame(s)
        /\ records'[s].host = records[s].host
        /\ records'[s].vsock = records[s].vsock
        /\ \/ records'[s].state = records[s].state
           \/ records[s].state = "running" /\ records'[s].state = "draining"
    BY <1>3, TransitionEffect
    DEF TerminateTransition, TransitionOK, validTransitions, States
  <2> QED
    BY <1>3, <2>1 DEF TerminateTransition, OthersSame, PlacerPCs
<1> QED
  BY <1>1, <1>2, <1>3 DEF Handlers

\* Nor does a placement goroutine.
LEMMA PlacementKeeps ==
  ASSUME SchedulerInv, NEW s \in Sandboxes, Placement(s), NEW z \in Sandboxes
  PROVE  SandboxInv(z)'
<1>0. TypeOK /\ RecordsOK /\ SandboxInv(z) /\ SandboxInv(s)
  BY InvBySandbox DEF TypeOK, RecordsOK
<1> USE <1>0, NoHostAssumption, NoSandboxAssumption
    DEF queueVars, dispatchVars, TypeOK, PlacerStep, PlacerPCs,
        SandboxInv, Tracked, HostKept, Reachable, ExpiredOnTime
<1>1. CASE AgentReplies(s) \/ AgentFails(s)
  BY <1>1 DEF AgentReplies, AgentFails
<1>2. CASE StoreVsock(s)
  <2>1. /\ OthersSame(s) /\ records'[s].vsock = TRUE
        /\ records'[s].state = records[s].state
        /\ records'[s].host = records[s].host
    BY <1>2, SetVsockCIDEffect DEF StoreVsock, Exists
  <2> QED
    BY <1>2, <2>1 DEF StoreVsock, OthersSame
<1>3. CASE MarkRunning(s)
  <2>1. TransitionOK(s, "provisioning", "running")
    BY <1>3 DEF MarkRunning, TransitionOK, Exists, validTransitions
  <2>2. /\ OthersSame(s) /\ records'[s].state = "running"
        /\ records'[s].host = records[s].host
        /\ records'[s].vsock = records[s].vsock
    BY <1>3, <2>1, TransitionEffect DEF MarkRunning, States
  <2>3. records[s].host \in Hosts /\ records[s].vsock
    BY <1>3 DEF MarkRunning
  <2> QED
    BY <1>3, <2>2, <2>3 DEF MarkRunning, OthersSame
<1>4. CASE MarkFailed(s)
  <2>1. TransitionOK(s, "provisioning", "failed")
    BY <1>4 DEF MarkFailed, TransitionOK, Exists, validTransitions
  <2>2. /\ OthersSame(s) /\ records'[s].state = "failed"
        /\ records'[s].host = records[s].host
        /\ records'[s].vsock = records[s].vsock
    BY <1>4, <2>1, TransitionEffect DEF MarkFailed, States
  <2> QED
    BY <1>4, <2>2 DEF MarkFailed, OthersSame
<1> QED
  BY <1>1, <1>2, <1>3, <1>4 DEF Placement

\* The invariant is inductive.
LEMMA InvStep == SchedulerInv /\ [Next]_vars => SchedulerInv'
<1> SUFFICES ASSUME SchedulerInv, [Next]_vars PROVE SchedulerInv'
  OBVIOUS
<1>1. TypeOK'
  BY TypeStep DEF SchedulerInv
<1>2. OneOwner'
  BY OneOwnerStep
<1>3. ASSUME NEW z \in Sandboxes PROVE SandboxInv(z)'
  <2>0. TypeOK /\ SandboxInv(z)
    BY InvBySandbox
  <2> USE DEF queueVars, dispatchVars, placerVars,
              SandboxInv, Tracked, HostKept, Reachable, ExpiredOnTime
  <2>1. CASE Tick
    BY <2>0, <2>1 DEF Tick, TypeOK
  <2>2. CASE HostRegistry
    BY <2>0, <2>2
    DEF HostRegistry, RegisterHost, UpdateHostHealth, RecordHeartbeat
  <2>3. CASE UNCHANGED vars
    BY <2>0, <2>3 DEF vars
  <2> QED
    BY <2>1, <2>2, <2>3, DispatchKeeps, HandlersKeep, PlacementKeeps DEF Next
<1> QED
  BY <1>1, <1>2, <1>3 DEF SchedulerInv, PlacementTracksState, KillReachesHost,
       RunningIsReachable, NoEarlyExpiry, SandboxInv, Tracked, HostKept,
       Reachable, ExpiredOnTime

\* It holds of the empty store and the idle scheduler.
LEMMA InvInit == Init => SchedulerInv
  BY TypeInit, NoSandboxAssumption, NoHostAssumption
  DEF Init, StoreInit, Absent, SchedulerInv, OneOwner, Owners,
      PlacementTracksState, KillReachesHost, RunningIsReachable, NoEarlyExpiry

\* The invariant of the scheduler: no request is lost or dispatched twice, a
\* provisioning sandbox has its goroutine, records name the host that was
\* called, running sandboxes are reachable, nothing expires early.
THEOREM SchedulerInvariant == Spec => []SchedulerInv
<1>1. SchedulerInv /\ [Next]_vars => SchedulerInv'
  BY InvStep
<1> QED
  BY InvInit, <1>1, PTL DEF Spec

\* Enqueue, the heap, the loop's hand and Requeue pass a queued sandbox on
\* without ever dropping or doubling it.
THEOREM RequestsHaveOneOwner == Spec => []OneOwner
<1>1. SchedulerInv => OneOwner
  BY DEF SchedulerInv
<1> QED
  BY <1>1, SchedulerInvariant, PTL

\* A placement goroutine finds its record provisioning, so none of the
\* Transitions whose error it drops can fail.
THEOREM PlacementsFindTheirRecord == Spec => []PlacementTracksState
<1>1. SchedulerInv => PlacementTracksState
  BY DEF SchedulerInv
<1> QED
  BY <1>1, SchedulerInvariant, PTL

\* Terminate sends its kill to the host that PlaceSandbox was sent to.
THEOREM KillsGoToTheirHost == Spec => []KillReachesHost
<1>1. SchedulerInv => KillReachesHost
  BY DEF SchedulerInv
<1> QED
  BY <1>1, SchedulerInvariant, PTL

\* handleExec finds the host and the CID in every running record.
THEOREM RunningSandboxesAreReachable == Spec => []RunningIsReachable
<1>1. SchedulerInv => RunningIsReachable
  BY DEF SchedulerInv
<1> QED
  BY <1>1, SchedulerInvariant, PTL

\* dispatchPending fails a request for its age only after its deadline.
THEOREM NothingExpiresEarly == Spec => []NoEarlyExpiry
<1>1. SchedulerInv => NoEarlyExpiry
  BY DEF SchedulerInv
<1> QED
  BY <1>1, SchedulerInvariant, PTL

-------------------------------------------------------------------------------
(* Host choice.                                                            *)

\* A healthy host scores above zero and an unhealthy one below, whatever CPU
\* usage they report.
LEMMA ScoreSign ==
  ASSUME NEW i \in HostInfo
  PROVE  /\ i.healthy => Score(i) \in Int /\ Score(i) >= 2500
         /\ ~i.healthy => Score(i) = -10000
<1>1. CPUFit(i.cpu) \in Int /\ CPUFit(i.cpu) >= 0
  <2>1. i.cpu \in Nat
    BY CPULevelsAssumption DEF HostInfo
  <2> QED
    BY <2>1 DEF CPUFit
<1>2. CASE i.healthy
  <2>1. Score(i) = 40 * CPUFit(i.cpu) + (IF i.warm THEN 3500 ELSE 0) + 2500
    BY <1>2 DEF Score
  <2> QED
    BY <1>1, <1>2, <2>1
<1>3. CASE ~i.healthy
  BY <1>3 DEF Score
<1> QED
  BY <1>2, <1>3

\* bestHost never prefers an unhealthy host to a healthy one.
THEOREM HealthyHostFirst == Spec => HealthyFirst
<1>1. ASSUME TypeOK, NEW h \in Hosts, PickHost(h),
             NEW k \in Registered, info[k].healthy
      PROVE  info[h].healthy
  <2>1. info[h] \in HostInfo /\ info[k] \in HostInfo
    BY <1>1 DEF TypeOK, Registered
  <2>2. Score(info[k]) <= Score(info[h])
    BY <1>1 DEF PickHost, BestHosts
  <2>3. Score(info[k]) >= 2500
    BY <1>1, <2>1, ScoreSign
  <2> QED
    BY <2>1, <2>2, <2>3, ScoreSign
<1>2. TypeOK /\ [Next]_vars =>
        [\A h \in Hosts : PickHost(h) /\ (\E k \in Registered : info[k].healthy)
            => info[h].healthy]_vars
  BY <1>1
<1> QED
  BY <1>2, TypeCorrect, PTL DEF Spec, HealthyFirst

-------------------------------------------------------------------------------
(* The scheduler implements SandboxLifecycle.                              *)


\* A step that moves only the state of s, and leaves what counts as its host,
\* moves the abstract phase of s alone.
LEMMA MoveRefines ==
  ASSUME RecordsOK, NEW s \in Sandboxes, OthersSame(s), RecordsOK',
         homeBar'[s] = homeBar[s]
  PROVE  /\ phaseBar[s] = records[s].state
         /\ phaseBar' = [phaseBar EXCEPT ![s] = records'[s].state]
         /\ homeBar' = homeBar
BY DEF RecordsOK, OthersSame, phaseBar, homeBar

\* Each step of the dispatch loop is one of the lifecycle, or invisible.
LEMMA DispatchRefines ==
  ASSUME SchedulerInv, Dispatch
  PROVE  [Lifecycle!Next]_(Lifecycle!vars)
<1>0. TypeOK /\ RecordsOK
  BY InvBySandbox DEF TypeOK, RecordsOK
<1> USE <1>0, NoHostAssumption, NoSandboxAssumption
    DEF TypeOK, RoundEnds, placerVars, queueVars
<1>1. CASE UNCHANGED records
  BY <1>1 DEF Lifecycle!vars, phaseBar, homeBar
<1>2. CASE DropExpired
  <2>1. item \in Sandboxes /\ TransitionOK(item, "queued", "failed")
    BY <1>2, HeldIsQueued DEF DropExpired, TransitionOK, Exists, validTransitions
  <2>2. /\ records'[item].state = "failed" /\ OthersSame(item) /\ RecordsOK'
        /\ records'[item].host = records[item].host
    BY <1>2, <2>1, TransitionEffect DEF DropExpired, States
  <2>3. records[item].state = "queued" /\ records[item].host = NoHost
    <3>1. SandboxInv(item) /\ records[item].state = "queued"
      BY <2>1, InvBySandbox, HeldIsQueued
    <3> QED
      BY <1>2, <2>1, <3>1 DEF DropExpired, SandboxInv, HostKept, Tracked, PlacerPCs
  <2>4. homeBar'[item] = homeBar[item]
    BY <2>1, <2>2, <2>3 DEF homeBar
  <2>5. Lifecycle!Expire(item)
    BY <2>1, <2>2, <2>3, <2>4, MoveRefines DEF Lifecycle!Expire, Lifecycle!Goes
  <2> QED
    BY <2>1, <2>5 DEF Lifecycle!Next
<1>3. CASE AssignHost
  <2>1. item \in Sandboxes /\ target \in Hosts
    BY <1>3 DEF AssignHost
  <2>2. /\ records[item].state = "queued" /\ records'[item].state = "queued"
        /\ OthersSame(item) /\ RecordsOK'
    BY <1>3, <2>1, HeldIsQueued, SetHostIDEffect DEF AssignHost, Exists
  <2> QED
    BY <2>1, <2>2 DEF Lifecycle!vars, phaseBar, homeBar, OthersSame
<1>4. CASE StartPlacement
  <2>1. /\ item \in Sandboxes /\ target \in Hosts /\ dpc = "assigned"
        /\ TransitionOK(item, "queued", "provisioning")
    BY <1>4, HeldIsQueued DEF StartPlacement, TransitionOK, Exists, validTransitions
  <2>2. /\ records[item].state = "queued"
        /\ records'[item].state = "provisioning" /\ OthersSame(item)
        /\ records'[item].host = records[item].host
    BY <1>4, <2>1, TransitionEffect DEF StartPlacement, States, TransitionOK
  <2>3. records[item].host = target
    BY <2>1, InvBySandbox DEF SandboxInv, HostKept
  <2>4. /\ phaseBar[item] = "queued"
        /\ phaseBar' = [phaseBar EXCEPT ![item] = "provisioning"]
        /\ homeBar' = [homeBar EXCEPT ![item] = target]
    BY <2>1, <2>2, <2>3 DEF phaseBar, homeBar, OthersSame
  <2>5. Lifecycle!Assign(item, target)
    BY <2>1, <2>4 DEF Lifecycle!Assign, Lifecycle!Goes
  <2> QED
    BY <2>1, <2>5 DEF Lifecycle!Next
<1> QED
  BY <1>1, <1>2, <1>3, <1>4 DEF Dispatch, Pop, StillLive, Requeue, PickHost

\* Each step of a handler is one of the lifecycle, or invisible.
LEMMA HandlersRefine ==
  ASSUME SchedulerInv, NEW s \in Sandboxes, Handlers(s)
  PROVE  [Lifecycle!Next]_(Lifecycle!vars)
<1>0. TypeOK /\ RecordsOK /\ SandboxInv(s)
  BY InvBySandbox DEF TypeOK, RecordsOK
<1> USE <1>0, NoHostAssumption, NoSandboxAssumption
<1>1. CASE SubmitCreate(s)
  <2>1. /\ records'[s] = Fresh /\ OthersSame(s) /\ RecordsOK'
        /\ records[s].state = "absent"
    BY <1>1, CreateEffect DEF SubmitCreate, Exists
  <2>2. placer[s] = "none" /\ item # s
    BY <2>1, HeldIsQueued DEF SandboxInv, Tracked, TypeOK, PlacerPCs
  <2>3. records[s].host = NoHost
    BY <2>2 DEF SandboxInv, HostKept
  <2>4. homeBar'[s] = homeBar[s]
    BY <2>1, <2>3 DEF homeBar, Fresh
  <2>5. Lifecycle!Admit(s)
    BY <2>1, <2>4, MoveRefines DEF Lifecycle!Admit, Lifecycle!Goes, Fresh
  <2> QED
    BY <2>5 DEF Lifecycle!Next
<1>2. ASSUME NEW t \in Timeouts, Enqueue(s, t)
      PROVE  [Lifecycle!Next]_(Lifecycle!vars)
  BY <1>2 DEF Enqueue, Lifecycle!vars, phaseBar, homeBar
<1>3. ASSUME NEW seen \in States, TerminateTransition(s, seen)
      PROVE  [Lifecycle!Next]_(Lifecycle!vars)
  <2>1. CASE TransitionOK(s, seen, "draining")
    <3>1. /\ records[s].state = "running" /\ records'[s].state = "draining"
          /\ records'[s].host = records[s].host /\ OthersSame(s) /\ RecordsOK'
      BY <1>3, <2>1, TransitionEffect
      DEF TerminateTransition, TransitionOK, validTransitions, States
    <3>2. homeBar'[s] = homeBar[s]
      BY <3>1 DEF homeBar
    <3>3. Lifecycle!Drain(s)
      BY <3>1, <3>2, MoveRefines DEF Lifecycle!Drain, Lifecycle!Goes
    <3> QED
      BY <3>3 DEF Lifecycle!Next
  <2>2. CASE ~TransitionOK(s, seen, "draining")
    BY <1>3, <2>2 DEF TerminateTransition, Transition, Lifecycle!vars,
                      phaseBar, homeBar
  <2> QED
    BY <2>1, <2>2
<1> QED
  BY <1>1, <1>2, <1>3 DEF Handlers

\* Each step of a placement goroutine is one of the lifecycle, or invisible.
LEMMA PlacementRefines ==
  ASSUME SchedulerInv, NEW s \in Sandboxes, Placement(s)
  PROVE  [Lifecycle!Next]_(Lifecycle!vars)
<1>0. TypeOK /\ RecordsOK /\ SandboxInv(s)
  BY InvBySandbox DEF TypeOK, RecordsOK
<1> USE <1>0 DEF PlacerStep, SandboxInv, Tracked
<1>1. CASE AgentReplies(s) \/ AgentFails(s)
  BY <1>1 DEF AgentReplies, AgentFails, Lifecycle!vars, phaseBar, homeBar
<1>2. CASE StoreVsock(s)
  <2>1. /\ OthersSame(s) /\ RecordsOK'
        /\ records'[s].state = records[s].state
        /\ records'[s].host = records[s].host
    BY <1>2, SetVsockCIDEffect DEF StoreVsock
  <2> QED
    BY <2>1 DEF Lifecycle!vars, phaseBar, homeBar, OthersSame
<1>3. CASE MarkRunning(s)
  <2>1. TransitionOK(s, "provisioning", "running")
    BY <1>3 DEF MarkRunning, TransitionOK, Exists, validTransitions
  <2>2. /\ OthersSame(s) /\ RecordsOK' /\ records[s].state = "provisioning"
        /\ records'[s].state = "running" /\ records'[s].host = records[s].host
    BY <1>3, <2>1, TransitionEffect DEF MarkRunning, States, TransitionOK
  <2>3. homeBar'[s] = homeBar[s]
    BY <2>2 DEF homeBar
  <2>4. Lifecycle!ComeUp(s)
    BY <2>2, <2>3, MoveRefines DEF Lifecycle!ComeUp, Lifecycle!Goes
  <2> QED
    BY <2>4 DEF Lifecycle!Next
<1>4. CASE MarkFailed(s)
  <2>1. TransitionOK(s, "provisioning", "failed")
    BY <1>4 DEF MarkFailed, TransitionOK, Exists, validTransitions
  <2>2. /\ OthersSame(s) /\ RecordsOK' /\ records[s].state = "provisioning"
        /\ records'[s].state = "failed" /\ records'[s].host = records[s].host
    BY <1>4, <2>1, TransitionEffect DEF MarkFailed, States, TransitionOK
  <2>3. homeBar'[s] = homeBar[s]
    BY <2>2 DEF homeBar
  <2>4. Lifecycle!FailToBoot(s)
    BY <2>2, <2>3, MoveRefines DEF Lifecycle!FailToBoot, Lifecycle!Goes
  <2> QED
    BY <2>4 DEF Lifecycle!Next
<1> QED
  BY <1>1, <1>2, <1>3, <1>4 DEF Placement

\* Each step of the scheduler is one of the lifecycle, or invisible.
LEMMA LifecycleStep ==
  ASSUME SchedulerInv, [Next]_vars
  PROVE  [Lifecycle!Next]_(Lifecycle!vars)
<1>1. CASE Tick \/ HostRegistry \/ UNCHANGED vars
  BY <1>1 DEF Tick, HostRegistry, RegisterHost, UpdateHostHealth,
              RecordHeartbeat, vars, Lifecycle!vars, phaseBar, homeBar
<1> QED
  BY <1>1, DispatchRefines, HandlersRefine, PlacementRefines DEF Next

\* The scheduler, with whatever handlers and monitor around it, keeps the
\* lifecycle's promise for every sandbox.
THEOREM SchedulerImplementsLifecycle == Spec => ImplementsLifecycle
<1>1. Init => Lifecycle!Init
  BY DEF Init, StoreInit, Absent, Lifecycle!Init, phaseBar, homeBar
<1>2. SchedulerInv /\ [Next]_vars => [Lifecycle!Next]_(Lifecycle!vars)
  BY LifecycleStep
<1> QED
  BY <1>1, <1>2, SchedulerInvariant, PTL DEF Spec, ImplementsLifecycle, Lifecycle!Spec
===============================================================================
