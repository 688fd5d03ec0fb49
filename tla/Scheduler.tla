------------------------------- MODULE Scheduler -------------------------------
(***************************************************************************)
(* The scheduler of cmd/api (its copy in cmd/orchestrator is line for line *)
(* the same dispatcher): the host registry, the deadline-ordered queue of  *)
(* pending requests, the one dispatch loop, and the goroutine it starts    *)
(* for every placement.  Everything between two lock acquisitions, store   *)
(* calls or RPCs is one action, so every interleaving of the dispatch      *)
(* loop, the placement goroutines, the handlers that submit and terminate, *)
(* and the heartbeat monitor that edits the host registry is a behaviour.  *)
(***************************************************************************)
EXTENDS SandboxStore, Integers

CONSTANTS
  NoSandbox,   \* the dispatch loop holds no item
  Timeouts,    \* the timeout_ms values clients send, in clock ticks
  CPULevels    \* the CPUUsagePct values heartbeats report

ASSUME NoSandboxAssumption == NoSandbox \notin Sandboxes
ASSUME TimeoutsAssumption  == Timeouts \subseteq Nat \ {0}
ASSUME CPULevelsAssumption == CPULevels \subseteq Nat /\ 0 \in CPULevels

VARIABLES
  info,        \* Scheduler.hosts: what the scheduler knows of each host
  submitting,  \* handlers inside Submit, between store.Create and Enqueue
  queue,       \* queue[s]: how many pending items of s the heap holds
  left,        \* left[s]: pendingItem.deadline - time.Now(), -1 once it passed
  dpc,         \* where dispatchPending is
  item,        \* the item it popped
  target,      \* the host it chose
  placer,      \* placer[s]: where the placement goroutine of s is
  calledHost   \* calledHost[s]: the host that goroutine captured

dispatchVars  == <<dpc, item, target>>
placerVars    == <<placer, calledHost>>
queueVars     == <<submitting, queue, left>>
vars == <<records, info, queueVars, dispatchVars, placerVars>>

DispatchPCs == {"wait", "popped", "live", "picked", "assigned"}
PlacerPCs   == {"none", "calling", "booted", "stored", "errored", "done"}

HostInfo == [registered : BOOLEAN, healthy : BOOLEAN,
             cpu : CPULevels, warm : BOOLEAN]

Unregistered == [registered |-> FALSE, healthy |-> FALSE, cpu |-> 0, warm |-> FALSE]
NewlyRegistered ==
  [registered |-> TRUE, healthy |-> TRUE, cpu |-> 0, warm |-> FALSE]

\* main registers the hosts its configuration lists before it starts the loop.

Init ==
  /\ StoreInit
  /\ info \in [Hosts -> {Unregistered, NewlyRegistered}]
  /\ submitting = {}
  /\ queue = [s \in Sandboxes |-> 0]
  /\ left = [s \in Sandboxes |-> 0]
  /\ dpc = "wait" /\ item = NoSandbox /\ target = NoHost
  /\ placer = [s \in Sandboxes |-> "none"]
  /\ calledHost = [s \in Sandboxes |-> NoHost]

-------------------------------------------------------------------------------
(* The host registry.                                                      *)

Registered == {h \in Hosts : info[h].registered}

RegisterHost(h) ==
  /\ info' = [info EXCEPT ![h] = NewlyRegistered]
  /\ UNCHANGED <<records, queueVars, dispatchVars, placerVars>>

UpdateHostHealth(h, healthy) ==
  /\ h \in Registered
  /\ info' = [info EXCEPT ![h].healthy = healthy]
  /\ UNCHANGED <<records, queueVars, dispatchVars, placerVars>>

\* The monitor stores what a heartbeat answer reported.
RecordHeartbeat(h, cpu, warm) ==
  /\ h \in Registered
  /\ info' = [info EXCEPT ![h] = [registered |-> TRUE, healthy |-> TRUE,
                                  cpu |-> cpu, warm |-> warm]]
  /\ UNCHANGED <<records, queueVars, dispatchVars, placerVars>>

\* scoreHost, in units of 1/10000.
CPUFit_Unclipped(cpu) == 100 - cpu

CPUFit(cpu) == IF cpu > 100 THEN 0 ELSE 100 - cpu

Score(i) ==
  IF ~i.healthy THEN -10000
  ELSE 40 * CPUFit(i.cpu) + (IF i.warm THEN 3500 ELSE 0) + 2500

\* bestHost ranges over a Go map, so any of the highest-scoring hosts may win.
BestHosts ==
  {h \in Registered : \A k \in Registered : Score(info[k]) <= Score(info[h])}

-------------------------------------------------------------------------------
(* inProcessOrchestrator.Submit: two calls, the store's and the queue's.   *)

SubmitCreate(s) ==
  /\ ~Exists(s)
  /\ Create(s)
  /\ submitting' = submitting \cup {s}
  /\ UNCHANGED <<info, queue, left, dispatchVars, placerVars>>

\* The heap push.  The wake-up on placeCh is left out: the loop's ticker
\* starts a round without it.
Push(s) == queue' = [queue EXCEPT ![s] = @ + 1]

Enqueue(s, timeout) ==
  /\ s \in submitting
  /\ submitting' = submitting \ {s}
  /\ left' = [left EXCEPT ![s] = timeout]
  /\ Push(s)
  /\ UNCHANGED <<records, info, dispatchVars, placerVars>>

\* A millisecond, or as many as a tick stands for, passes for the items that
\* are still timed.  Passed deadlines are no longer told apart.
Pending(s) == queue[s] > 0 \/ item = s

Tick ==
  /\ \E s \in Sandboxes : Pending(s) /\ left[s] >= 0
  /\ left' = [s \in Sandboxes |->
               IF Pending(s) /\ left[s] >= 0 THEN left[s] - 1 ELSE left[s]]
  /\ UNCHANGED <<records, info, submitting, queue, dispatchVars, placerVars>>

-------------------------------------------------------------------------------
(* dispatchPending, one round of RunDispatchLoop.                          *)

First(s) ==
  /\ queue[s] > 0
  /\ \A t \in Sandboxes : queue[t] > 0 => left[s] <= left[t]

Pop_Peek(s) ==
  /\ dpc = "wait"
  /\ First(s)
  /\ dpc' = "popped" /\ item' = s
  /\ UNCHANGED <<records, info, queueVars, target, placerVars>>

Pop(s) ==
  /\ dpc = "wait"
  /\ First(s)
  /\ queue' = [queue EXCEPT ![s] = @ - 1]
  /\ dpc' = "popped" /\ item' = s
  /\ UNCHANGED <<records, info, submitting, left, target, placerVars>>

RoundEnds == dpc' = "wait" /\ item' = NoSandbox /\ target' = NoHost

PastDeadline_AtDeadline(s) == left[s] <= 0

PastDeadline(s) == left[s] < 0

DropExpired ==
  /\ dpc = "popped"
  /\ PastDeadline(item)
  /\ Transition(item, "queued", "failed")
  /\ RoundEnds
  /\ UNCHANGED <<info, queueVars, placerVars>>

StillLive ==
  /\ dpc = "popped"
  /\ ~PastDeadline(item)
  /\ dpc' = "live"
  /\ UNCHANGED <<records, info, queueVars, item, target, placerVars>>

Requeue_ItemLost ==
  /\ dpc = "live"
  /\ Registered = {}
  /\ RoundEnds
  /\ UNCHANGED <<records, info, queueVars, placerVars>>

\* bestHost found nothing: back into the heap.
Requeue ==
  /\ dpc = "live"
  /\ Registered = {}
  /\ Push(item)
  /\ RoundEnds
  /\ UNCHANGED <<records, info, submitting, left, placerVars>>

PickHost_NoneFoundUnchecked(h) ==
  /\ dpc = "live"
  /\ h \in BestHosts \/ Registered = {}
  /\ dpc' = "picked" /\ target' = IF Registered = {} THEN NoHost ELSE h
  /\ UNCHANGED <<records, info, queueVars, item, placerVars>>

PickHost(h) ==
  /\ dpc = "live"
  /\ h \in BestHosts
  /\ dpc' = "picked" /\ target' = h
  /\ UNCHANGED <<records, info, queueVars, item, placerVars>>

AssignHost_NotStored ==
  /\ dpc = "picked"
  /\ dpc' = "assigned"
  /\ UNCHANGED <<records, info, queueVars, item, target, placerVars>>

AssignHost ==
  /\ dpc = "picked"
  /\ SetHostID(item, target)
  /\ dpc' = "assigned"
  /\ UNCHANGED <<info, queueVars, item, target, placerVars>>

\* An error of Transition drops the item; else the goroutine is started.
StartPlacement ==
  /\ dpc = "assigned"
  /\ Transition(item, "queued", "provisioning")
  /\ IF TransitionOK(item, "queued", "provisioning")
     THEN /\ placer' = [placer EXCEPT ![item] = "calling"]
          /\ calledHost' = [calledHost EXCEPT ![item] = target]
     ELSE UNCHANGED placerVars
  /\ RoundEnds
  /\ UNCHANGED <<info, queueVars>>

Dispatch ==
  \/ \E s \in Sandboxes : Pop(s)
  \/ DropExpired
  \/ StillLive
  \/ Requeue
  \/ \E h \in Hosts : PickHost(h)
  \/ AssignHost
  \/ StartPlacement

-------------------------------------------------------------------------------
(* The placement goroutine and grpcPlacer.PlaceSandbox.                    *)

PlacerStep(s, from, to) ==
  /\ placer[s] = from
  /\ placer' = [placer EXCEPT ![s] = to]
  /\ UNCHANGED <<info, queueVars, dispatchVars, calledHost>>

\* The host agent answered 200, or the call failed or timed out.
AgentReplies(s) == PlacerStep(s, "calling", "booted")  /\ UNCHANGED records
AgentFails(s)   == PlacerStep(s, "calling", "errored") /\ UNCHANGED records

StoreVsock(s)  == PlacerStep(s, "booted", "stored") /\ SetVsockCID(s)
MarkRunning_BeforeVsock(s) ==
  PlacerStep(s, "booted", "done") /\ Transition(s, "provisioning", "running")

MarkRunning(s) ==
  PlacerStep(s, "stored", "done") /\ Transition(s, "provisioning", "running")
MarkFailed_WrongExpected(s) ==
  PlacerStep(s, "errored", "done") /\ Transition(s, "running", "failed")

MarkFailed_NoTransition(s) ==
  PlacerStep(s, "errored", "done") /\ UNCHANGED records

MarkFailed(s)  ==
  PlacerStep(s, "errored", "done") /\ Transition(s, "provisioning", "failed")

Placement(s) ==
  \/ AgentReplies(s)
  \/ AgentFails(s)
  \/ StoreVsock(s)
  \/ MarkRunning(s)
  \/ MarkFailed(s)

-------------------------------------------------------------------------------
\* The last line of Terminate: `seen' is the state an earlier Get returned,
\* and may be stale.
TerminateTransition(s, seen) ==
  /\ Exists(s)
  /\ ~IsTerminal(seen)
  /\ Transition(s, seen, "draining")
  /\ UNCHANGED <<info, queueVars, dispatchVars, placerVars>>

HostRegistry ==
  \E h \in Hosts :
    \/ RegisterHost(h)
    \/ \E b \in BOOLEAN : UpdateHostHealth(h, b)
    \/ \E c \in CPULevels, w \in BOOLEAN : RecordHeartbeat(h, c, w)

Handlers(s) ==
  \/ SubmitCreate(s)
  \/ \E timeout \in Timeouts : Enqueue(s, timeout)
  \/ \E seen \in States : TerminateTransition(s, seen)

Next ==
  \/ Tick
  \/ HostRegistry
  \/ Dispatch
  \/ \E s \in Sandboxes : Handlers(s) \/ Placement(s)

Spec == Init /\ [][Next]_vars

-------------------------------------------------------------------------------
(* Properties.                                                             *)

\* The types of the scheduler's state; the dispatch loop's local variables
\* are set exactly where dispatchPending has assigned them: no item goes on to
\* be stored and placed with a host that bestHost did not find.
TypeOK ==
  /\ records \in [Sandboxes -> Record]
  /\ info \in [Hosts -> HostInfo]
  /\ submitting \subseteq Sandboxes
  /\ queue \in [Sandboxes -> Nat]
  /\ left \in [Sandboxes -> Nat \cup {-1}]
  /\ dpc \in DispatchPCs
  /\ item \in Sandboxes \cup {NoSandbox}
  /\ dpc = "wait" <=> item = NoSandbox
  /\ target \in Hosts \cup {NoHost}
  /\ dpc \in {"picked", "assigned"} <=> target # NoHost
  /\ placer \in [Sandboxes -> PlacerPCs]
  /\ calledHost \in [Sandboxes -> Hosts \cup {NoHost}]

\* How many places hold the duty to move s out of queued: the heap, the
\* handler that has not enqueued it yet, the dispatch loop's hand.
Owners(s) ==
  queue[s] + (IF s \in submitting THEN 1 ELSE 0) + (IF item = s THEN 1 ELSE 0)

\* A queued sandbox is in exactly one of those places, and a sandbox that is
\* not queued in none: no request is lost between the heap, the dispatch loop
\* and a re-queue, none is dispatched twice, and the Transition calls of
\* dispatchPending, whose errors are dropped, cannot fail.
OneOwner ==
  \A s \in Sandboxes :
    Owners(s) = IF records[s].state = "queued" THEN 1 ELSE 0

\* A sandbox is provisioning exactly while its placement goroutine is on its
\* way, so the goroutine's closing Transition, whose error is dropped too,
\* finds the state it expects whatever Terminate did meanwhile.
PlacementTracksState ==
  \A s \in Sandboxes :
    /\ records[s].state = "provisioning"
         <=> placer[s] \in {"calling", "booted", "stored", "errored"}
    /\ placer[s] = "none" <=> calledHost[s] = NoHost
    /\ placer[s] = "none" => records[s].state \in {"absent", "queued", "failed"}
    /\ placer[s] = "done" => records[s].state \in {"running", "draining", "failed"}

\* The host a record names is the host the placement RPC goes to, so a later
\* Terminate or Exec, which look the host up by the record, reach the agent
\* that has the VM; and no agent is told to kill a sandbox it was never
\* chosen for.
KillReachesHost ==
  \A s \in Sandboxes :
    /\ placer[s] # "none" => records[s].host = calledHost[s]
    /\ item = s /\ dpc = "assigned" => records[s].host = target
    /\ placer[s] = "none" /\ ~(item = s /\ dpc = "assigned")
         => records[s].host = NoHost

\* A client that sees running can exec: host and guest endpoint are stored
\* before the state is (SetHostID and SetVsockCID are separate store calls).
RunningIsReachable ==
  \A s \in Sandboxes :
    /\ placer[s] = "stored" => records[s].vsock
    /\ records[s].state \in {"running", "draining"} =>
         records[s].host \in Hosts /\ records[s].vsock

\* A request that no host was asked to place failed only because its
\* deadline was over (time.Now().After, not at, the deadline).
NoEarlyExpiry ==
  \A s \in Sandboxes :
    records[s].state = "failed" /\ placer[s] = "none" => left[s] < 0

\* The parts above hold each other up: together they are inductive.
SchedulerInv ==
  /\ TypeOK
  /\ OneOwner
  /\ PlacementTracksState
  /\ KillReachesHost
  /\ RunningIsReachable
  /\ NoEarlyExpiry

\* While a healthy host is registered, the host picked is a healthy one, even
\* when the healthy ones report more than 100 % CPU.
HealthyFirst ==
  [][\A h \in Hosts :
       PickHost(h) /\ (\E k \in Registered : info[k].healthy)
         => info[h].healthy]_vars

\* The records a client can read move as SandboxLifecycle promises: admitted
\* once, one host for good, tried once, killed at most once, final states
\* final.  A host stored for a request that is still queued does not count:
\* it is the dispatch loop's business until the state says provisioning.
phaseBar == [s \in Sandboxes |-> records[s].state]
homeBar  == [s \in Sandboxes |->
              IF records[s].state = "queued" THEN NoHost ELSE records[s].host]

Lifecycle == INSTANCE SandboxLifecycle WITH phase <- phaseBar, home <- homeBar

ImplementsLifecycle == Lifecycle!Spec

\* Every request the API accepted comes to running or failed, with or without a
\* host to place it on and whatever becomes of the placement's answer.
RequestResolved ==
  \A s \in Sandboxes :
    records[s].state \in {"queued", "provisioning"}
      ~> records[s].state \notin {"queued", "provisioning"}
===============================================================================
