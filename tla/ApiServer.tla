------------------------------- MODULE ApiServer -------------------------------
(***************************************************************************)
(* The API process: the goroutines that serve POST and DELETE requests,    *)
(* each running its handler one store call, quota call or RPC at a time,   *)
(* around the scheduler and the tenant's quota counter, and in front of    *)
(* host agents reduced to what they do to one VM per sandbox.  (No         *)
(* heartbeat monitor runs in this process, so the host registry stays as   *)
(* main filled it.)                                                        *)
(***************************************************************************)
EXTENDS Scheduler, QuotaStore, FiniteSets

\* At any time there are finitely many goroutines and records.
ASSUME FiniteAssumption == IsFiniteSet(Callers) /\ IsFiniteSet(Sandboxes)

VARIABLES
  hpc,         \* hpc[c]: where the handler goroutine c is
  sb,          \* sb[c]: the sandbox its request is about
  seen,        \* seen[c]: the copy of the record Terminate's Get returned
  vm,          \* vm[s]: the VM of s on the agent it was sent to
  lost,        \* history: sandboxes a kill RPC of which never reached an agent
  freed,       \* history: how often Release was called for s, 2 for "more"
  kept         \* history: slots a failed Submit kept, Limit for "or more"

handlerVars == <<hpc, sb, seen>>
agentVars   == <<vm, lost>>
historyVars == <<freed, kept>>
apiVars     == <<vars, quotaVars, handlerVars, agentVars, historyVars>>

HandlerPCs == {"idle", "refused", "admitted", "created",
               "telling", "told", "accepted", "releasing"}

Agent == INSTANCE AgentVM

ApiInit ==
  /\ Init
  /\ Registered # {}            \* main falls back to registering host-local
  /\ QuotaInit
  /\ hpc = [c \in Callers |-> "idle"]
  /\ sb = [c \in Callers |-> NoSandbox]
  /\ seen = [c \in Callers |-> Absent]
  /\ Agent!Init
  /\ lost = {}
  /\ freed = [s \in Sandboxes |-> 0]
  /\ kept = 0

\* c moves on, in a request about s.
At(c, from)      == hpc[c] = from /\ UNCHANGED <<sb, seen>>
GoesTo(c, to)    == hpc' = [hpc EXCEPT ![c] = to]
Answers(c) ==
  /\ GoesTo(c, "idle")
  /\ sb' = [sb EXCEPT ![c] = NoSandbox]
  /\ seen' = [seen EXCEPT ![c] = Absent]

-------------------------------------------------------------------------------
(* POST /v1/sandboxes: handleCreateSandbox and Submit.                     *)

Admit(c) ==
  /\ At(c, "idle")
  /\ AcquireAdd(c)
  /\ GoesTo(c, IF Granted THEN "admitted" ELSE "refused")
  /\ UNCHANGED <<vars, agentVars, historyVars>>

Refuse_NoRollback(c) ==
  /\ hpc[c] = "refused"
  /\ Answers(c)
  /\ UNCHANGED <<vars, quotaVars, agentVars, historyVars>>

\* 429.
Refuse(c) ==
  /\ hpc[c] = "refused"
  /\ AcquireRollback(c)
  /\ Answers(c)
  /\ UNCHANGED <<vars, agentVars, historyVars>>

Submit(c, s) ==
  /\ hpc[c] = "admitted"
  /\ SubmitCreate(s)
  /\ GoesTo(c, "created")
  /\ sb' = [sb EXCEPT ![c] = s]
  /\ UNCHANGED <<quotaVars, seen, agentVars, historyVars>>

\* store.Create refuses an ID that is taken: 500, and the slot is kept.
SubmitError(c, s) ==
  /\ hpc[c] = "admitted"
  /\ Exists(s)
  /\ Answers(c)
  /\ kept' = IF kept < Limit THEN kept + 1 ELSE kept
  /\ UNCHANGED <<vars, quotaVars, agentVars, freed>>

\* 201.
SubmitEnqueue(c, timeout) ==
  /\ hpc[c] = "created"
  /\ Enqueue(sb[c], timeout)
  /\ Answers(c)
  /\ UNCHANGED <<quotaVars, agentVars, historyVars>>

-------------------------------------------------------------------------------
(* DELETE /v1/sandboxes/{id}: handleDeleteSandbox and Terminate.           *)

\* Get, and the two decisions Terminate takes on the copy: nothing to do for
\* a final state, no RPC for a record without a host.
Delete(c, s) ==
  /\ hpc[c] = "idle"
  /\ Exists(s)
  /\ sb' = [sb EXCEPT ![c] = s]
  /\ seen' = [seen EXCEPT ![c] = records[s]]
  /\ GoesTo(c, IF IsTerminal(records[s].state) THEN "accepted"
               ELSE IF records[s].host \in Registered THEN "telling" ELSE "told")
  /\ UNCHANGED <<vars, quotaVars, agentVars, historyVars>>

\* The RPC's outcome is not looked at.  The agent knows s once it is up.
KillArrives(c) ==
  /\ At(c, "telling")
  /\ IF vm[sb[c]] = "up" /\ seen[c].host = calledHost[sb[c]]
     THEN Agent!Ends(sb[c]) ELSE UNCHANGED vm
  /\ GoesTo(c, "told")
  /\ UNCHANGED <<vars, quotaVars, lost, historyVars>>

KillLost(c) ==
  /\ At(c, "telling")
  /\ lost' = lost \cup {sb[c]}
  /\ GoesTo(c, "told")
  /\ UNCHANGED <<vars, quotaVars, vm, historyVars>>

MarkDraining_ErrorIgnored(c) ==
  /\ At(c, "told")
  /\ TerminateTransition(sb[c], seen[c].state)
  /\ GoesTo(c, "accepted")
  /\ UNCHANGED <<quotaVars, agentVars, historyVars>>

MarkDraining_BeforeKill(c) ==
  /\ hpc[c] = "telling"
  /\ TerminateTransition(sb[c], seen[c].state)
  /\ IF TransitionOK(sb[c], seen[c].state, "draining")
     THEN GoesTo(c, "accepted") /\ UNCHANGED <<sb, seen>>
     ELSE Answers(c)
  /\ UNCHANGED <<quotaVars, agentVars, historyVars>>

MarkDraining_Forced(c) ==
  /\ hpc[c] = "told"
  /\ records' = [records EXCEPT ![sb[c]].state = "draining"]
  /\ GoesTo(c, "accepted")
  /\ UNCHANGED <<info, queueVars, dispatchVars, placerVars, sb, seen,
                 quotaVars, agentVars, historyVars>>

\* An error of Transition is a 500 without a Release.
MarkDraining(c) ==
  /\ hpc[c] = "told"
  /\ TerminateTransition(sb[c], seen[c].state)
  /\ IF TransitionOK(sb[c], seen[c].state, "draining")
     THEN GoesTo(c, "accepted") /\ UNCHANGED <<sb, seen>>
     ELSE Answers(c)
  /\ UNCHANGED <<quotaVars, agentVars, historyVars>>

\* quota.Release, then 204.
Release(c) ==
  /\ hpc[c] = "accepted"
  /\ ReleaseLoad(c)
  /\ freed' = [freed EXCEPT ![sb[c]] = IF @ < 2 THEN @ + 1 ELSE @]
  /\ IF count > 0
     THEN GoesTo(c, "releasing") /\ UNCHANGED <<sb, seen>>
     ELSE Answers(c)
  /\ UNCHANGED <<vars, agentVars, kept>>

Released(c) ==
  /\ hpc[c] = "releasing"
  /\ ReleaseDec(c)
  /\ Answers(c)
  /\ UNCHANGED <<vars, agentVars, historyVars>>

-------------------------------------------------------------------------------
(* The host agents, as the API process meets them.                         *)

AgentStep(s) ==
  /\ \/ placer[s] = "calling" /\ Agent!PlaceArrives(s)
     \/ Agent!Boots(s)
     \/ Agent!BootFails(s)
     \/ Agent!Ends(s)
  /\ UNCHANGED <<vars, quotaVars, handlerVars, lost, historyVars>>

\* A 200 says the VM came up, not that it still is; an error says nothing.
PlacementRuns(s) ==
  /\ \/ AgentReplies(s) /\ vm[s] \in {"up", "dead"}
     \/ AgentFails(s)
     \/ StoreVsock(s)
     \/ MarkRunning(s)
     \/ MarkFailed(s)
  /\ UNCHANGED <<quotaVars, handlerVars, agentVars, historyVars>>

SchedulerRuns ==
  /\ Tick \/ Dispatch
  /\ UNCHANGED <<quotaVars, handlerVars, agentVars, historyVars>>

HandlerStep(c) ==
  \/ Refuse(c)
  \/ \E s \in Sandboxes : Submit(c, s) \/ SubmitError(c, s)
  \/ \E timeout \in Timeouts : SubmitEnqueue(c, timeout)
  \/ KillArrives(c)
  \/ KillLost(c)
  \/ MarkDraining(c)
  \/ Release(c)
  \/ Released(c)

ApiNext ==
  \/ SchedulerRuns
  \/ \E c \in Callers :
       Admit(c) \/ (\E s \in Sandboxes : Delete(c, s)) \/ HandlerStep(c)
  \/ \E s \in Sandboxes : PlacementRuns(s) \/ AgentStep(s)

\* Handlers go on to their answer (every RPC has a timeout), the loop and the
\* placement goroutines run, agents boot VMs and enforce their timeout.
\* Clients need not send anything.
ApiFairness ==
  /\ WF_apiVars(SchedulerRuns)
  /\ \A c \in Callers : WF_apiVars(HandlerStep(c))
  /\ \A s \in Sandboxes :
       WF_apiVars(PlacementRuns(s)) /\ WF_apiVars(AgentStep(s))

ApiSpec     == ApiInit /\ [][ApiNext]_apiVars
ApiFairSpec == ApiSpec /\ ApiFairness

-------------------------------------------------------------------------------
(* Properties.                                                             *)

\* Types; the handlers' local variables and their half-done calls agree with
\* where they are.
ApiTypeOK ==
  /\ TypeOK
  /\ QuotaTypeOK
  /\ hpc \in [Callers -> HandlerPCs]
  /\ sb \in [Callers -> Sandboxes \cup {NoSandbox}]
  /\ seen \in [Callers -> Record]
  /\ Agent!TypeOK
  /\ lost \subseteq Sandboxes
  /\ freed \in [Sandboxes -> 0..2]
  /\ kept \in 0..Limit
  /\ \A c \in Callers :
       /\ qpc[c] = "over" <=> hpc[c] = "refused"
       /\ qpc[c] = "positive" <=> hpc[c] = "releasing"
       /\ sb[c] = NoSandbox <=> hpc[c] \in {"idle", "refused", "admitted"}
       /\ hpc[c] \in {"telling", "told"} => seen[c].state \in States

\* The handlers and the agents only ever do to the scheduler what Scheduler.tla
\* allows, so all that is proved of it holds in the API process.
RefinesScheduler == Spec

Accepting(s) == {c \in Callers : sb[c] = s /\ hpc[c] = "accepted"}

\* However many DELETEs of one sandbox overlap, and whatever states they saw,
\* exactly one of them gives its quota slot back if it is killed and none
\* does while it is alive.  (A failed sandbox is another matter: see
\* LiveWithinLimit.)
KillReleasesOnce ==
  \A s \in Sandboxes :
    records[s].state # "failed" =>
      freed[s] + Cardinality(Accepting(s))
        = IF records[s].state = "draining" THEN 1 ELSE 0

\* Terminate kills first and records after, so a sandbox that reads draining
\* has no VM any more, unless the RPC was lost, an error Terminate ignores.
DrainingIsDead ==
  \A s \in Sandboxes :
    records[s].state = "draining" /\ s \notin lost => vm[s] = "dead"

Live == {s \in Sandboxes :
           records[s].state \in {"queued", "provisioning", "running"}}

NoFailedKill ==
  \A s \in Sandboxes :
    records[s].state = "failed" => freed[s] = 0 /\ Accepting(s) = {}

InCall(pcs) == {c \in Callers : hpc[c] \in pcs}

\* However the halves of Acquire and Release overlap with each other and with
\* failing Submits, no slot is lost or invented: the counter is the records
\* that were not released (failed ones too: nothing but a DELETE gives their
\* slot back), the requests on their way in or out, the refusals not yet
\* undone, and the slots that failing Submits keep for good.
SlotsAccounted ==
  NoFailedKill =>
    count = Cardinality({s \in Sandboxes : Exists(s) /\ freed[s] = 0})
              + Cardinality(InCall({"admitted", "refused", "releasing"}))
              + kept

\* quota.go:50: Release is "safe to call even if the counter is already zero".
\* Taken at its word: the counter never goes below zero.
NeverNegative == count >= 0

\* The tenant has at most Limit sandboxes alive as long as nobody sends DELETE
\* for a sandbox that failed, in every overlap of Acquire, Submit and Release.
LimitKept == NoFailedKill => Cardinality(Live) <= Limit

\* handlers.go:40, of defaultQuotaLimit: "the max concurrent sandboxes per
\* tenant".
LiveWithinLimit == Cardinality(Live) <= Limit

\* docs/phase-2-flow.md:112: "On sandbox Terminated / Failed:
\* quota.Store.Release(tenantID)".
FailureReleases ==
  \A s \in Sandboxes : records[s].state = "failed" ~> freed[s] > 0

\* state.go:28 calls draining "VM teardown in progress", LEARN.md:215 draws the
\* way out of it: a sandbox does not stay there.
DrainingEnds ==
  \A s \in Sandboxes :
    records[s].state = "draining" ~> records[s].state = "terminated"

\* state.go:26, of running: "VM is live, vsock exec endpoint is available".  A
\* record whose VM is gone does not go on saying so for good.
DeathIsNoticed ==
  \A s \in Sandboxes :
    records[s].state = "running" /\ vm[s] = "dead"
      ~> records[s].state # "running"
===============================================================================
