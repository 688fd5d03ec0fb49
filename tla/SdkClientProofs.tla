---------------------------- MODULE SdkClientProofs ----------------------------
(***************************************************************************)
(* What an SDK's wait was told stays true, for every number of clients,    *)
(* sandboxes and hosts and every deadline.                                 *)
(***************************************************************************)
EXTENDS SdkClient, SchedulerProofs

\* The clients are handlers of the scheduler: their steps are its steps.
LEMMA SdkStepIsSchedulerStep == [SdkNext]_sdkVars => [Next]_vars
BY DEF SdkNext, sdkVars, Serves, Next, Handlers, Post, PostAnswered, PostFails,
       KillArrives, WaitRunning, TimerEnds, Polls, Get, Hears, GivesUp, GetFails

\* A running sandbox is running or draining from then on, and a final state
\* stays: what SandboxLifecycle promises, read for one sandbox and one step.
LEMMA StateMoves ==
  ASSUME SchedulerInv, [Next]_vars, NEW s \in Sandboxes
  PROVE  /\ records[s].state \in {"running", "draining"} =>
              records'[s].state \in {"running", "draining"}
         /\ records[s].state \in {"terminated", "failed"} =>
              records'[s].state = records[s].state
<1>1. [Lifecycle!Next]_(Lifecycle!vars)
  BY LifecycleStep
<1>2. phaseBar[s] = records[s].state /\ phaseBar'[s] = records'[s].state
  BY DEF phaseBar
<1>3. phaseBar \in [Sandboxes -> States \cup {"absent"}]
  BY DEF SchedulerInv, TypeOK, Record, phaseBar
<1> QED
  BY <1>1, <1>2, <1>3
  DEF Lifecycle!Next, Lifecycle!vars, Lifecycle!Admit, Lifecycle!Expire,
      Lifecycle!Assign, Lifecycle!ComeUp, Lifecycle!FailToBoot,
      Lifecycle!Drain, Lifecycle!Goes

\* What the client of s knows of the record, from the answer it has in hand or
\* from what its wait returned.
Knows(s) ==
  /\ cpc[s] = "ready" \/ (cpc[s] = "answered" /\ told[s] = "running") =>
       records[s].state \in {"running", "draining"}
  /\ cpc[s] = "ended" => records[s].state \in {"terminated", "failed"}
  /\ cpc[s] = "answered" /\ told[s] \in {"terminated", "failed"} =>
       records[s].state = told[s]

\* The inductive strengthening: knowledge starts with the answer, not with the
\* return of the wait.
SdkInv == SchedulerInv /\ SdkTypeOK /\ \A s \in Sandboxes : Knows(s)

\* The clients' own variables keep their types.
LEMMA SdkTypeStep == SchedulerInv /\ SdkTypeOK /\ [SdkNext]_sdkVars => SdkTypeOK'
<1> SUFFICES ASSUME SchedulerInv, SdkTypeOK, [SdkNext]_sdkVars PROVE SdkTypeOK'
  OBVIOUS
<1> USE DEF SdkTypeOK, ClientPCs, NotTold
<1>1. CASE UNCHANGED clientVars
  BY <1>1 DEF clientVars
<1>2. ASSUME NEW s \in Sandboxes,
             \/ Post(s) \/ PostAnswered(s) \/ PostFails(s)
             \/ \E limit \in {"unlimited", "running"} : WaitRunning(s, limit)
             \/ TimerEnds(s)
      PROVE  SdkTypeOK'
  BY <1>2 DEF Post, PostAnswered, PostFails, WaitRunning, TimerEnds, Waiting,
              ClientGoes
<1>3. ASSUME NEW s \in Sandboxes, Polls(s) \/ GetFails(s) PROVE SdkTypeOK'
  <2>1. records[s].state \in States \cup {"absent"}
    BY DEF SchedulerInv, TypeOK, Record
  <2>2. CASE Get(s)
    BY <2>1, <2>2 DEF Get, ClientGoes
  <2>3. CASE Hears(s)
    BY <2>3 DEF Hears, Returns, PollsAgain
  <2>4. CASE GivesUp(s) \/ GetFails(s)
    BY <2>4 DEF GivesUp, GetFails, Returns
  <2> QED
    BY <1>3, <2>2, <2>3, <2>4 DEF Polls
<1> QED
  BY <1>1, <1>2, <1>3 DEF SdkNext, sdkVars, Serves, KillArrives

\* No step takes away what a client knows.
LEMMA KnowsStep ==
  ASSUME SdkInv, [SdkNext]_sdkVars, NEW z \in Sandboxes
  PROVE  Knows(z)'
<1>0. Knows(z) /\ SdkTypeOK /\ SchedulerInv
  BY DEF SdkInv
<1>1. /\ records[z].state \in {"running", "draining"} =>
           records'[z].state \in {"running", "draining"}
      /\ records[z].state \in {"terminated", "failed"} =>
           records'[z].state = records[z].state
  BY <1>0, SdkStepIsSchedulerStep, StateMoves
<1> USE <1>0, <1>1 DEF Knows, SdkTypeOK
<1>2. CASE cpc'[z] = cpc[z] /\ told'[z] = told[z]
  BY <1>2
<1>3. ASSUME NEW s \in Sandboxes,
             \/ Post(s) \/ PostAnswered(s) \/ PostFails(s)
             \/ \E limit \in {"unlimited", "running"} : WaitRunning(s, limit)
             \/ TimerEnds(s)
      PROVE  Knows(z)'
  <2>1. /\ cpc'[z] # cpc[z] => cpc'[z] \in {"posting", "created", "gaveUp", "polling"}
        /\ told' = told
    BY <1>3 DEF Post, PostAnswered, PostFails, WaitRunning, TimerEnds, ClientGoes
  <2> QED
    BY <2>1
<1>4. ASSUME NEW s \in Sandboxes, Polls(s) \/ GetFails(s) PROVE Knows(z)'
  <2>1. CASE s # z
    <3>1. cpc'[z] = cpc[z] /\ told'[z] = told[z]
      BY <1>4, <2>1 DEF Polls, Get, Hears, GivesUp, GetFails, Returns, PollsAgain,
                        ClientGoes
    <3> QED
      BY <3>1
  <2>2. CASE s = z /\ Get(s)
    BY <2>2 DEF Get, ClientGoes, vars
  <2>3. CASE s = z /\ Hears(s)
    BY <2>3 DEF Hears, Returns, PollsAgain, vars
  <2>4. CASE s = z /\ (GivesUp(s) \/ GetFails(s))
    BY <2>4 DEF GivesUp, GetFails, Returns
  <2> QED
    BY <1>4, <2>1, <2>2, <2>3, <2>4 DEF Polls
<1>5. CASE UNCHANGED clientVars
  BY <1>2, <1>5 DEF clientVars
<1> QED
  BY <1>3, <1>4, <1>5 DEF SdkNext, sdkVars, Serves, KillArrives

\* A wait that returned the sandbox returned one that has its host and its
\* guest endpoint, and one that returned an error returned for good.
THEOREM WhatAWaitReturnsHolds == SdkSpec => []ToldIsTrue
<1>1. SdkInit => SdkInv
  BY InvInit DEF SdkInit, SdkInv, SdkTypeOK, Knows, ClientPCs, NotTold
<1>2. SdkInv /\ [SdkNext]_sdkVars => SdkInv'
  BY InvStep, SdkStepIsSchedulerStep, SdkTypeStep, KnowsStep DEF SdkInv
<1>3. SdkInv => ToldIsTrue
  <2> SUFFICES ASSUME SdkInv, NEW s \in Sandboxes
               PROVE  /\ cpc[s] = "ready" =>
                           /\ records[s].state \in {"running", "draining"}
                           /\ records[s].host \in Hosts /\ records[s].vsock
                      /\ cpc[s] = "ended" => IsTerminal(records[s].state)
    BY DEF ToldIsTrue
  <2>1. Knows(s) /\ RunningIsReachable
    BY DEF SdkInv, SchedulerInv
  <2> QED
    BY <2>1 DEF Knows, RunningIsReachable, IsTerminal, validTransitions
<1> QED
  BY <1>1, <1>2, <1>3, PTL DEF SdkSpec
===============================================================================
