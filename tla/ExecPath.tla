-------------------------------- MODULE ExecPath --------------------------------
(***************************************************************************)
(* POST /v1/sandboxes/{id}/exec of one sandbox, from the API's handler     *)
(* over the host agent's to the vm-agent inside the VM, which serves one   *)
(* connection after the other, and to the command it spawns.  Each hop has *)
(* a timer of its own, and no hop tells the next one that it gave up.  A   *)
(* tick is the 5 s that each hop allows on top of the command's timeout.   *)
(***************************************************************************)
EXTENDS Integers, Sequences

CONSTANTS
  Calls,       \* exec requests for the sandbox
  Timeouts,    \* the timeout_ms values they carry, in ticks
  Grace,       \* 5 s
  ClientCap    \* agentapi.NewClient's own timeout, 30 s

ASSUME TimeoutsAssumption == Timeouts \subseteq Nat \ {0}
ASSUME GraceAssumption    == Grace \in Nat /\ ClientCap \in Nat

VARIABLES
  running,     \* the record says running
  tracked,     \* the host agent's map has the sandbox
  vm,          \* the VM is up
  budget,      \* budget[c]: the timeout of c, 0 before c came in
  apc,         \* apc[c]: where handleExec and Exec are
  apiLeft,     \* apiLeft[c]: time left to the RPC, Unarmed before it
  hpc,         \* hpc[c]: where ExecInSandbox and vsock.Exec are
  hostLeft,    \* hostLeft[c]: time left to the deadline of the vsock connection
  guest,       \* guest[c]: what became of the connection inside the VM
  backlog,     \* the accept queue of vm-agent's socket
  child,       \* what the command being served is at
  ran          \* history: how long the command being run has been running,
               \* up to one tick more than its timeout

apiVars   == <<budget, apc, apiLeft>>
hostVars  == <<hpc, hostLeft>>
guestVars == <<guest, backlog, child, ran>>
vmVars    == <<running, tracked, vm>>
vars      == <<apiVars, hostVars, guestVars, vmVars>>

Unarmed == -1

ApiPCs   == {"idle", "checked", "calling", "answered", "failed", "broken", "timedOut"}
HostPCs  == {"none", "dialing", "waiting", "ok", "error"}
GuestPCs == {"none", "queued", "feeding", "collecting", "replied", "dropped"}
ChildPCs == {"none", "started", "read", "writing", "exited"}

Init ==
  /\ running = TRUE /\ tracked = TRUE /\ vm = TRUE
  /\ budget = [c \in Calls |-> 0]
  /\ apc = [c \in Calls |-> "idle"]
  /\ apiLeft = [c \in Calls |-> Unarmed]
  /\ hpc = [c \in Calls |-> "none"]
  /\ hostLeft = [c \in Calls |-> Unarmed]
  /\ guest = [c \in Calls |-> "none"]
  /\ backlog = <<>> /\ child = "none" /\ ran = 0

-------------------------------------------------------------------------------
(* The API process: handleExec, inProcessOrchestrator.Exec and the client  *)
(* of the host agent.                                                      *)

ApiGoes(c, from, to) == apc[c] = from /\ apc' = [apc EXCEPT ![c] = to]

\* The first look at the record: 409 unless it is running.
HandleExec(c, timeout) ==
  /\ ApiGoes(c, "idle", IF running THEN "checked" ELSE "failed")
  /\ budget' = [budget EXCEPT ![c] = timeout]
  /\ UNCHANGED <<apiLeft, hostVars, guestVars, vmVars>>

\* The context's timeout, cut to the HTTP client's.
Allowed(timeout) ==
  IF timeout + Grace < ClientCap THEN timeout + Grace ELSE ClientCap

ExecCall_NoDeadline(c) ==
  /\ ApiGoes(c, "checked", IF running THEN "calling" ELSE "failed")
  /\ UNCHANGED <<budget, apiLeft, hostVars, guestVars, vmVars>>

\* The second look, and the RPC.  A running record has a host that is
\* registered, so Exec's other two errors are not reached.
ExecCall(c) ==
  /\ ApiGoes(c, "checked", IF running THEN "calling" ELSE "failed")
  /\ apiLeft' = IF running THEN [apiLeft EXCEPT ![c] = Allowed(budget[c])]
                ELSE apiLeft
  /\ UNCHANGED <<budget, hostVars, guestVars, vmVars>>

ApiReads(c) ==
  /\ hpc[c] \in {"ok", "error"}
  /\ ApiGoes(c, "calling", IF hpc[c] = "ok" THEN "answered" ELSE "failed")
  /\ UNCHANGED <<budget, apiLeft, hostVars, guestVars, vmVars>>

ApiTimesOut(c) ==
  /\ apiLeft[c] = 0
  /\ ApiGoes(c, "calling", "timedOut")
  /\ UNCHANGED <<budget, apiLeft, hostVars, guestVars, vmVars>>

ApiBreaks(c) ==
  /\ ApiGoes(c, "calling", "broken")
  /\ UNCHANGED <<budget, apiLeft, hostVars, guestVars, vmVars>>

-------------------------------------------------------------------------------
(* The host agent: ExecInSandbox and vsock.Exec.  It is not told when the  *)
(* caller is gone, and a request may come in after that.                   *)

HostGoes(c, from, to) == hpc[c] = from /\ hpc' = [hpc EXCEPT ![c] = to]

FindEntry(c) ==
  /\ apc[c] \in {"calling", "broken", "timedOut"}
  /\ HostGoes(c, "none", IF tracked THEN "dialing" ELSE "error")
  /\ UNCHANGED <<apiVars, hostLeft, guestVars, vmVars>>

Dial_NoDeadline(c) ==
  /\ vm
  /\ HostGoes(c, "dialing", "waiting")
  /\ guest' = [guest EXCEPT ![c] = "queued"]
  /\ backlog' = Append(backlog, c)
  /\ UNCHANGED <<apiVars, hostLeft, child, ran, vmVars>>

\* The handshake, which the guest's kernel answers whatever vm-agent is doing,
\* then the deadline and the request.
Dial(c) ==
  /\ vm
  /\ HostGoes(c, "dialing", "waiting")
  /\ hostLeft' = [hostLeft EXCEPT ![c] = budget[c] + Grace]
  /\ guest' = [guest EXCEPT ![c] = "queued"]
  /\ backlog' = Append(backlog, c)
  /\ UNCHANGED <<apiVars, child, ran, vmVars>>

DialFails(c) ==
  /\ HostGoes(c, "dialing", "error")
  /\ UNCHANGED <<apiVars, hostLeft, guestVars, vmVars>>

HostReads(c) ==
  /\ guest[c] \in {"replied", "dropped"}
  /\ HostGoes(c, "waiting", IF guest[c] = "replied" THEN "ok" ELSE "error")
  /\ UNCHANGED <<apiVars, hostLeft, guestVars, vmVars>>

HostTimesOut_Redials(c) ==
  /\ hostLeft[c] = 0
  /\ HostGoes(c, "waiting", "dialing")
  /\ UNCHANGED <<apiVars, hostLeft, guestVars, vmVars>>

HostTimesOut(c) ==
  /\ hostLeft[c] = 0
  /\ HostGoes(c, "waiting", "error")
  /\ UNCHANGED <<apiVars, hostLeft, guestVars, vmVars>>

-------------------------------------------------------------------------------
(* vm-agent: the accept loop and handle_connection.                        *)

Serving == {c \in Calls : guest[c] \in {"feeding", "collecting"}}

\* handle_connection is over, well or badly; what is left of the command is
\* nobody's business.
Closes(c, how) ==
  /\ guest' = [guest EXCEPT ![c] = how]
  /\ child' = "none" /\ ran' = 0

Accept_Peek ==
  /\ vm /\ Serving = {} /\ backlog # <<>>
  /\ \E outcome \in {"feeding", "collecting", "dropped"} :
       /\ guest' = [guest EXCEPT ![Head(backlog)] = outcome]
       /\ child' = IF outcome = "dropped" THEN "none" ELSE "started"
  /\ UNCHANGED <<apiVars, hostVars, backlog, ran, vmVars>>

\* One connection's request is read and its command spawned, or that fails (a
\* host that has closed the connection may or may not have got it through).
\* An stdin that the pipe holds, or none, is written at once; a longer one
\* blocks write_all.
Accept ==
  /\ vm /\ Serving = {} /\ backlog # <<>>
  /\ \E outcome \in {"feeding", "collecting", "dropped"} :
       /\ guest' = [guest EXCEPT ![Head(backlog)] = outcome]
       /\ child' = IF outcome = "dropped" THEN "none" ELSE "started"
  /\ backlog' = Tail(backlog)
  /\ UNCHANGED <<apiVars, hostVars, ran, vmVars>>

\* write_all returns: the command has read its input, or it is gone and the
\* error is dropped.  Only wait_with_output reads what it has written.
Fed(c) ==
  /\ guest[c] = "feeding" /\ child \in {"read", "exited"}
  /\ guest' = [guest EXCEPT ![c] = "collecting"]
  /\ UNCHANGED <<apiVars, hostVars, backlog, child, ran, vmVars>>

CommandEnds_StopsOnError(c) ==
  /\ guest[c] = "collecting" /\ child = "exited" /\ hpc[c] = "waiting"
  /\ Closes(c, "replied")
  /\ UNCHANGED <<apiVars, hostVars, backlog, vmVars>>

\* wait_with_output returns; writing to a host that is gone is an error, which
\* is logged, and the loop goes on.  timeout_ms is not looked at.
CommandEnds(c) ==
  /\ guest[c] = "collecting" /\ child = "exited"
  /\ Closes(c, IF hpc[c] = "waiting" THEN "replied" ELSE "dropped")
  /\ UNCHANGED <<apiVars, hostVars, backlog, vmVars>>

-------------------------------------------------------------------------------
(* The command: it reads its stdin to the end, or writes more than the     *)
(* output pipe holds before it does, or neither.                           *)

ChildGoes(from, to) ==
  /\ child = from /\ child' = to
  /\ UNCHANGED <<apiVars, hostVars, guest, backlog, ran, vmVars>>

ChildReads  == ChildGoes("started", "read")
ChildWrites == ChildGoes("started", "writing")
ChildExits  ==
  \/ ChildGoes("started", "exited")
  \/ ChildGoes("read", "exited")
  \/ \E c \in Calls : guest[c] = "collecting" /\ ChildGoes("writing", "exited")

-------------------------------------------------------------------------------
(* The sandbox and the clock.                                              *)

\* Terminate, of which the agent's part comes first.
Untrack ==
  /\ tracked' = FALSE
  /\ UNCHANGED <<apiVars, hostVars, guestVars, running, vm>>

StopsRunning ==
  /\ running' = FALSE
  /\ UNCHANGED <<apiVars, hostVars, guestVars, tracked, vm>>

\* A kill, the sandbox's own timeout or a crash: the connections break.
VMEnds ==
  /\ vm
  /\ vm' = FALSE
  /\ guest' = [c \in Calls |-> IF guest[c] = "queued" \/ c \in Serving
                               THEN "dropped" ELSE guest[c]]
  /\ backlog' = <<>> /\ child' = "none" /\ ran' = 0
  /\ UNCHANGED <<apiVars, hostVars, running, tracked>>

CountDown(left) == [c \in Calls |-> IF left[c] > 0 THEN left[c] - 1 ELSE left[c]]

Tick ==
  /\ apiLeft' = CountDown(apiLeft)
  /\ hostLeft' = CountDown(hostLeft)
  /\ ran' = IF \E c \in Serving : ran <= budget[c] THEN ran + 1 ELSE ran
  /\ UNCHANGED <<budget, apc, hpc, guest, backlog, child, vmVars>>

-------------------------------------------------------------------------------

ApiSide(c) == ExecCall(c) \/ ApiReads(c) \/ ApiTimesOut(c)

HostSide(c) ==
  \/ FindEntry(c)
  \/ ~vm /\ DialFails(c)
  \/ HostReads(c)
  \/ HostTimesOut(c)

Next ==
  \/ \E c \in Calls :
       \/ \E timeout \in Timeouts : HandleExec(c, timeout)
       \/ ApiSide(c) \/ ApiBreaks(c)
       \/ HostSide(c) \/ Dial(c) \/ DialFails(c)
       \/ Fed(c) \/ CommandEnds(c)
  \/ Accept
  \/ ChildReads \/ ChildWrites \/ ChildExits
  \/ Untrack \/ StopsRunning \/ VMEnds
  \/ Tick

VMAgent == Accept \/ \E c \in Calls : Fed(c) \/ CommandEnds(c)

\* Handlers run on, time passes, vm-agent goes on unless it is blocked.  A
\* handshake has no deadline and a command may run for ever.
Fairness ==
  /\ WF_vars(Tick)
  /\ WF_vars(VMAgent)
  /\ \A c \in Calls : WF_vars(ApiSide(c)) /\ WF_vars(HostSide(c))

\* What the clients may do for the system: send commands that end, if they are
\* fed and read.
CommandsEnd == WF_vars(ChildReads \/ ChildWrites \/ ChildExits)

Spec     == Init /\ [][Next]_vars
FairSpec == Spec /\ Fairness

-------------------------------------------------------------------------------
(* Properties.                                                             *)

\* Types; the accept queue holds the queued connections, each once, and
\* vm-agent serves one at a time, and none when the VM is gone.
ExecTypeOK ==
  /\ running \in BOOLEAN /\ tracked \in BOOLEAN /\ vm \in BOOLEAN
  /\ budget \in [Calls -> Timeouts \cup {0}]
  /\ apc \in [Calls -> ApiPCs]
  /\ apiLeft \in [Calls -> Nat \cup {Unarmed}]
  /\ hpc \in [Calls -> HostPCs]
  /\ hostLeft \in [Calls -> Nat \cup {Unarmed}]
  /\ guest \in [Calls -> GuestPCs]
  /\ backlog \in Seq(Calls)
  /\ child \in ChildPCs /\ ran \in Nat
  /\ child = "none" <=> Serving = {}
  /\ {backlog[i] : i \in DOMAIN backlog} = {c \in Calls : guest[c] = "queued"}
  /\ \A i, j \in DOMAIN backlog : backlog[i] = backlog[j] => i = j
  /\ \A c, d \in Serving : c = d
  /\ ~vm => Serving = {} /\ backlog = <<>>

\* What the callers and the commands see of the three hops is RemoteExec: no
\* timer, retry or late request runs a command a second time, and no caller is
\* given an answer that is not its own command's.
callerBar == [c \in Calls |->
  IF apc[c] \in {"idle", "checked"} THEN "idle"
  ELSE IF apc[c] = "calling" THEN "waiting"
  ELSE IF apc[c] = "answered" THEN "answered"
  ELSE IF apiLeft[c] = Unarmed THEN "refused" ELSE "gaveUp"]

commandBar == [c \in Calls |->
  IF guest[c] \in {"none", "queued"} THEN "none"
  ELSE IF c \in Serving THEN "running"
  ELSE IF guest[c] = "replied" THEN "done" ELSE "lost"]

Remote == INSTANCE RemoteExec WITH caller <- callerBar, command <- commandBar

ImplementsRemoteExec == Remote!Spec

\* Every exec request is answered, whatever the guest and its commands do.
ClientAnswered ==
  \A c \in Calls :
    apc[c] \in {"checked", "calling"}
      ~> apc[c] \in {"answered", "failed", "broken", "timedOut"}

\* No handler of the host agent outlives the deadline of its connection, so
\* commands that never end do not pile up goroutines and connections.
HandlerEnds ==
  \A c \in Calls : hpc[c] = "waiting" ~> hpc[c] \in {"ok", "error"}

\* vm-agent writes all of stdin before it reads any output, so the two block
\* each other when neither pipe holds what is written to it.
Jammed == child = "writing" /\ \E c \in Calls : guest[c] = "feeding"

\* Callers that went away, commands that ignore their input and commands that
\* write more than a pipe holds do not stop vm-agent: as long as commands end,
\* every connection is served in its turn, unless one jams.
BacklogDrains ==
  CommandsEnd =>
    \A c \in Calls : guest[c] = "queued" ~> guest[c] # "queued" \/ Jammed

\* src/vm-agent/src/main.rs:4: "one newline-delimited JSON ExecRequest per
\* connection, one ExecResponse JSON line back": every command that would end
\* leads to one.
NeverJams == CommandsEnd => \A c \in Calls : c \in Serving ~> c \notin Serving

\* internal/spec/spec.go:63: "TimeoutMs is the maximum execution time."
MaxExecutionTime == \A c \in Serving : ran <= budget[c]

\* sdk/typescript/src/client.ts:41, of exec: "Blocks until the command completes
\* or the timeout is reached."
GivenItsTime ==
  \A c \in Calls : apc[c] = "timedOut" => Allowed(budget[c]) >= budget[c]
===============================================================================
