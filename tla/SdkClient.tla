------------------------------- MODULE SdkClient -------------------------------
(***************************************************************************)
(* What a program that uses an SDK goes through with each of its           *)
(* sandboxes: Create, whose answer may get lost, WaitRunning (in           *)
(* TypeScript waitUntilRunning), which polls the record until it is        *)
(* running or final, and Kill, next to the scheduler that moves the        *)
(* record.  The hosts are those that main registered.                      *)
(***************************************************************************)
EXTENDS Scheduler

CONSTANT Waiters   \* the sandboxes their client calls WaitRunning for

ASSUME WaitersAssumption == Waiters \subseteq Sandboxes

VARIABLES
  cpc,         \* cpc[s]: where the client of s is
  told,        \* told[s]: the state in the answer of its last Get
  timer        \* timer[s]: the wait's context or maxWaitMs, if it has a limit

clientVars == <<cpc, told, timer>>
sdkVars    == <<vars, clientVars>>

ClientPCs == {"none", "posting", "created", "polling", "answered",
              "ready", "ended", "gaveUp"}

NotTold == "absent"

SdkInit ==
  /\ Init
  /\ cpc = [s \in Sandboxes |-> "none"]
  /\ told = [s \in Sandboxes |-> NotTold]
  /\ timer = [s \in Sandboxes |-> "unlimited"]

ClientGoes(s, from, to) == cpc[s] = from /\ cpc' = [cpc EXCEPT ![s] = to]

-------------------------------------------------------------------------------
(* Create and Kill.                                                        *)

\* The POST arrives: Submit's first half.
Post(s) ==
  /\ ClientGoes(s, "none", "posting")
  /\ SubmitCreate(s)
  /\ UNCHANGED <<told, timer>>

\* The 201 is sent once Submit has enqueued the request.
PostAnswered(s) ==
  /\ s \notin submitting
  /\ ClientGoes(s, "posting", "created")
  /\ UNCHANGED <<vars, told, timer>>

\* The request's timeout or a broken connection: the client never learns the
\* ID of a sandbox that goes on without it.  There is no retry.
PostFails(s) ==
  /\ ClientGoes(s, "posting", "gaveUp")
  /\ UNCHANGED <<vars, told, timer>>

\* A DELETE, sent by whoever knows the ID, of whatever state it found.
KillArrives(s) ==
  /\ \E seen \in States : TerminateTransition(s, seen)
  /\ UNCHANGED clientVars

-------------------------------------------------------------------------------
(* WaitRunning.                                                            *)

\* context.Background() or a context with a deadline.
WaitRunning(s, limit) ==
  /\ s \in Waiters
  /\ ClientGoes(s, "created", "polling")
  /\ timer' = [timer EXCEPT ![s] = limit]
  /\ UNCHANGED <<vars, told>>

Waiting(s) == cpc[s] \in {"polling", "answered"}

TimerEnds(s) ==
  /\ timer[s] = "running"
  /\ timer' = [timer EXCEPT ![s] = "over"]
  /\ UNCHANGED <<vars, cpc, told>>

\* handleGetSandbox copies the record; the answer travels.
Get(s) ==
  /\ timer[s] # "over"
  /\ ClientGoes(s, "polling", "answered")
  /\ told' = [told EXCEPT ![s] = records[s].state]
  /\ UNCHANGED <<vars, timer>>

Returns(s, outcome) ==
  /\ cpc' = [cpc EXCEPT ![s] = outcome]
  /\ told' = [told EXCEPT ![s] = NotTold]
  /\ timer' = [timer EXCEPT ![s] = "unlimited"]

PollsAgain(s) ==
  /\ cpc' = [cpc EXCEPT ![s] = "polling"]
  /\ told' = [told EXCEPT ![s] = NotTold]
  /\ UNCHANGED timer

Hears_FailedGoesOn(s) ==
  /\ cpc[s] = "answered"
  /\ CASE told[s] = "running"    -> Returns(s, "ready")
       [] told[s] = "terminated" -> Returns(s, "ended")
       [] OTHER                  -> PollsAgain(s)
  /\ UNCHANGED vars

\* Any state but these three, draining too, means another round.
Hears(s) ==
  /\ cpc[s] = "answered"
  /\ CASE told[s] = "running"                  -> Returns(s, "ready")
       [] told[s] \in {"terminated", "failed"} -> Returns(s, "ended")
       [] OTHER                                -> PollsAgain(s)
  /\ UNCHANGED vars

\* The first error of Get ends the wait.
GetFails(s) ==
  /\ Waiting(s)
  /\ Returns(s, "gaveUp")
  /\ UNCHANGED vars

GivesUp(s) ==
  /\ cpc[s] = "polling" /\ timer[s] = "over"
  /\ Returns(s, "gaveUp")
  /\ UNCHANGED vars

-------------------------------------------------------------------------------

Polls(s) == Get(s) \/ Hears(s) \/ GivesUp(s)

Serves ==
  /\ \/ Tick \/ Dispatch
     \/ \E s \in Sandboxes :
          Placement(s) \/ \E timeout \in Timeouts : Enqueue(s, timeout)
  /\ UNCHANGED clientVars

SdkNext ==
  \/ Serves
  \/ \E s \in Sandboxes :
       \/ Post(s) \/ PostAnswered(s) \/ PostFails(s)
       \/ KillArrives(s)
       \/ \E limit \in {"unlimited", "running"} : WaitRunning(s, limit)
       \/ TimerEnds(s) \/ Polls(s) \/ GetFails(s)

\* The dispatch loop runs on a 50 ms ticker and the handler that created a
\* record goes on to enqueue it; the RPC client's 30 s end every call of a
\* placement goroutine; time passes.  The ticker of WaitRunning keeps firing,
\* the HTTP client's 60 s end every Get, and so do timers.
SdkFairness ==
  /\ WF_sdkVars(Tick /\ UNCHANGED clientVars)
  /\ WF_sdkVars(Dispatch /\ UNCHANGED clientVars)
  /\ \A s \in Sandboxes :
       /\ WF_sdkVars((\E t \in Timeouts : Enqueue(s, t)) /\ UNCHANGED clientVars)
       /\ WF_sdkVars(Placement(s) /\ UNCHANGED clientVars)
       /\ WF_sdkVars(Polls(s))
       /\ WF_sdkVars(TimerEnds(s))

SdkSpec     == SdkInit /\ [][SdkNext]_sdkVars
SdkFairSpec == SdkSpec /\ SdkFairness

-------------------------------------------------------------------------------
(* Properties.                                                             *)

SdkTypeOK ==
  /\ cpc \in [Sandboxes -> ClientPCs]
  /\ told \in [Sandboxes -> States \cup {NotTold}]
  /\ timer \in [Sandboxes -> {"unlimited", "running", "over"}]
  /\ \A s \in Sandboxes : told[s] # NotTold => cpc[s] = "answered"

\* What a wait returned with stays so while the client acts on it, although the
\* record moves between Get's copy and its answer: a sandbox reported running
\* has its host and its guest endpoint, and at worst is being killed by now; a
\* sandbox reported dead will not come up after all.
ToldIsTrue ==
  \A s \in Sandboxes :
    /\ cpc[s] = "ready" =>
         /\ records[s].state \in {"running", "draining"}
         /\ records[s].host \in Hosts /\ records[s].vsock
    /\ cpc[s] = "ended" => IsTerminal(records[s].state)

\* Every wait ends: one with a limit because of it, one without because the
\* scheduler brings every request to running or failed; only a sandbox that
\* is killed between two polls leaves an unlimited wait polling.
WaitEnds ==
  \A s \in Sandboxes :
    Waiting(s) ~>
      ~Waiting(s) \/ (timer[s] = "unlimited" /\ records[s].state = "draining")

\* sdk/go/sandock/client.go:178: "polls Get until the sandbox reaches the
\* "running" state or a terminal state", and Kill (line 159) "terminates a
\* sandbox immediately": a wait does not outlast its sandbox.
WaitEndsAfterKill ==
  \A s \in Sandboxes :
    Waiting(s) /\ records[s].state = "draining" ~> ~Waiting(s)
===============================================================================
