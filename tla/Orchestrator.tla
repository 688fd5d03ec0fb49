------------------------------ MODULE Orchestrator ------------------------------
(***************************************************************************)
(* The orchestrator process: its copy of the scheduler next to             *)
(* runHeartbeatMonitor, the goroutine that polls every registered host,    *)
(* one after the other, counts what it misses in fencing.HealthScorer, and *)
(* edits the registry the dispatch loop reads.  Requests come from the     *)
(* outside: main itself enqueues none, the scheduler's test does.          *)
(***************************************************************************)
EXTENDS Scheduler

CONSTANT
  MissThreshold  \* main passes 3 to NewHealthScorer

ASSUME MissThresholdAssumption == MissThreshold \in Nat \ {0}

VARIABLES
  mpc,         \* where the monitor is
  todo,        \* the hosts of this round's snapshot it has still to poll
  cur,         \* the host it is about to mark or fence
  misses,      \* HealthScorer.missed, counted up to MissThreshold
  responsive   \* environment: the hosts that answer a heartbeat within 5 s

monitorVars == <<mpc, todo, cur, misses>>
orchVars    == <<vars, monitorVars, responsive>>

MonitorPCs == {"wait", "poll", "mark", "fence"}

OrchInit ==
  /\ Init
  /\ mpc = "wait" /\ todo = {} /\ cur = NoHost
  /\ misses = [h \in Hosts |-> 0]
  /\ responsive \in SUBSET Hosts

-------------------------------------------------------------------------------
(* fencing.HealthScorer.                                                   *)

RecordSuccess_NoReset(h) == UNCHANGED misses

RecordSuccess(h) == misses' = [misses EXCEPT ![h] = 0]

\* Only "at the threshold or above" is ever asked of the counter.
RecordMiss(h) ==
  misses' = [misses EXCEPT ![h] = IF @ < MissThreshold THEN @ + 1 ELSE @]

ThresholdReached(h) == misses[h] + 1 >= MissThreshold

-------------------------------------------------------------------------------
(* runHeartbeatMonitor.                                                    *)

StartRound_EveryHost ==
  /\ mpc = "wait"
  /\ mpc' = "poll" /\ todo' = Hosts
  /\ UNCHANGED <<vars, cur, misses, responsive>>

\* The 10 s ticker fires; the registry is copied under the lock.
StartRound ==
  /\ mpc = "wait"
  /\ mpc' = "poll" /\ todo' = Registered
  /\ UNCHANGED <<vars, cur, misses, responsive>>

EndRound ==
  /\ mpc = "poll" /\ todo = {}
  /\ mpc' = "wait"
  /\ UNCHANGED <<vars, todo, cur, misses, responsive>>

HeartbeatAnswered_StaysDown(h, cpu, warm) ==
  /\ mpc = "poll" /\ h \in todo /\ h \in responsive
  /\ RecordSuccess(h)
  /\ info' = [info EXCEPT ![h].cpu = cpu, ![h].warm = warm]
  /\ todo' = todo \ {h}
  /\ UNCHANGED <<records, queueVars, dispatchVars, placerVars,
                 mpc, cur, responsive>>

HeartbeatAnswered(h, cpu, warm) ==
  /\ mpc = "poll" /\ h \in todo /\ h \in responsive
  /\ RecordSuccess(h)
  /\ RecordHeartbeat(h, cpu, warm)
  /\ todo' = todo \ {h}
  /\ UNCHANGED <<mpc, cur, responsive>>

HeartbeatMissed(h) ==
  /\ mpc = "poll" /\ h \in todo /\ h \notin responsive
  /\ RecordMiss(h)
  /\ IF ThresholdReached(h)
     THEN mpc' = "mark" /\ cur' = h /\ UNCHANGED todo
     ELSE todo' = todo \ {h} /\ UNCHANGED <<mpc, cur>>
  /\ UNCHANGED <<vars, responsive>>

MarkUnhealthy_Skipped ==
  /\ mpc = "mark"
  /\ mpc' = "fence"
  /\ UNCHANGED <<vars, todo, cur, misses, responsive>>

MarkUnhealthy_Unregisters ==
  /\ mpc = "mark"
  /\ info' = [info EXCEPT ![cur] = Unregistered]
  /\ mpc' = "fence"
  /\ UNCHANGED <<records, queueVars, dispatchVars, placerVars,
                 todo, cur, misses, responsive>>

MarkUnhealthy ==
  /\ mpc = "mark"
  /\ UpdateHostHealth(cur, FALSE)
  /\ mpc' = "fence"
  /\ UNCHANGED <<todo, cur, misses, responsive>>

\* LogFencer only logs; a fencing error is logged too, and the round goes on.
Fence ==
  /\ mpc = "fence"
  /\ mpc' = "poll" /\ todo' = todo \ {cur} /\ cur' = NoHost
  /\ UNCHANGED <<vars, misses, responsive>>

Monitor ==
  \/ StartRound
  \/ EndRound
  \/ \E h \in Hosts :
       \/ \E cpu \in CPULevels, warm \in BOOLEAN : HeartbeatAnswered(h, cpu, warm)
       \/ HeartbeatMissed(h)
  \/ MarkUnhealthy
  \/ Fence

\* Hosts stop and start answering as they like.
Environment ==
  /\ \E h \in Hosts :
       responsive' = IF h \in responsive THEN responsive \ {h}
                                         ELSE responsive \cup {h}
  /\ UNCHANGED <<vars, monitorVars>>

SchedulerRuns ==
  /\ \/ Tick
     \/ Dispatch
     \/ \E s \in Sandboxes :
          \/ SubmitCreate(s)
          \/ \E timeout \in Timeouts : Enqueue(s, timeout)
          \/ Placement(s)
  /\ UNCHANGED <<monitorVars, responsive>>

OrchNext == Monitor \/ Environment \/ SchedulerRuns

\* The ticker fires, and every poll and every fence ends by its timeout.
OrchFairness == WF_orchVars(Monitor)

OrchSpec     == OrchInit /\ [][OrchNext]_orchVars
OrchFairSpec == OrchSpec /\ OrchFairness

-------------------------------------------------------------------------------
(* Properties.                                                             *)

\* Types; the monitor has a host in hand exactly while it marks or fences it,
\* and polls registered hosts only.
OrchTypeOK ==
  /\ TypeOK
  /\ mpc \in MonitorPCs
  /\ todo \subseteq Registered
  /\ mpc \in {"mark", "fence"} <=> cur # NoHost
  /\ cur # NoHost => cur \in todo
  /\ misses \in [Hosts -> 0..MissThreshold]
  /\ responsive \subseteq Hosts

\* What the dispatch loop reads of a host's health is what the monitor counted:
\* unhealthy exactly after MissThreshold misses in a row, but for the moment
\* between the count and the write.
HealthFollowsMisses ==
  \A h \in Registered :
    ~(mpc = "mark" /\ cur = h) =>
      (info[h].healthy <=> misses[h] < MissThreshold)

\* The monitor only ever does to the scheduler what Scheduler.tla allows.
RefinesScheduler == Spec

\* A registered host that stops answering for good is marked for good, and one
\* that answers for good is healthy for good, whatever the other hosts and the
\* polls in between did.
DeadHostMarked ==
  \A h \in Hosts :
    (<>[](h \notin responsive) /\ [](h \in Registered))
      => <>[](~info[h].healthy)

RecoveredHostUsed ==
  \A h \in Hosts :
    (<>[](h \in responsive) /\ [](h \in Registered)) => <>[](info[h].healthy)

\* cmd/orchestrator/scheduler.go:51: "Never place on an unhealthy host."
UnhealthyNeverPicked ==
  [][\A h \in Hosts : PickHost(h) => info[h].healthy]_orchVars
===============================================================================
