# A specification of sandock

sandock runs untrusted commands in Firecracker microVMs. Clients ask an HTTP API for a sandbox, the API
process (with the orchestrator inside it) queues the request and places it on a host, the host's agent
builds the VM, and exec requests travel through both down to a small agent in the guest. These modules
say what each part does, as the code under `src/` has it, and TLC and TLAPS check what follows.

All paths below are relative to `src/`; line numbers are those of the commit the project was written for.

## 1. The system

| part | state | operations |
|---|---|---|
| Record store, `internal/state/state.go` | records in memory, one mutex | Create, Get (a copy), Transition (compare and set over a table), SetHostID, SetVsockCID |
| Dispatcher, `cmd/api/scheduler.go` | host registry, heap of pending items, one goroutine per placement | RegisterHost, Enqueue, RunDispatchLoop / dispatchPending, bestHost / scoreHost, PlaceSandbox |
| API handlers, `cmd/api/handlers.go` | none but their local variables | POST, GET, DELETE, exec |
| Quota, `internal/quota/quota.go` | an atomic counter per tenant | Acquire (add, undo), Release (load, decrement) |
| Heartbeat monitor, `cmd/orchestrator/main.go` with `internal/fencing` | miss counters | poll every host, mark unhealthy, fence |
| Orchestrator's scheduler, `cmd/orchestrator/scheduler.go` | as the dispatcher | the dispatcher's, and UpdateHostHealth |
| Host agent, `cmd/host-agent` with `internal/overlay`, `internal/cgroup` | map of sandboxes; mounts, cgroups, disks, processes, timers | PlaceSandbox, TerminateSandbox, watchVM, ExecInSandbox, Heartbeat |
| Agent API, `internal/agentapi`, `cmd/host-agent/internal_api.go` | none | HTTP calls with a 30 s client timeout |
| Guest path, `internal/vsock`, `vm-agent/src/main.rs` | a connection per exec, one accept loop | Exec, handle_connection |
| Persistence, `internal/persistence` | archive files | Save, Restore, Exists, Delete |
| Networks, `internal/network`, and their filters, `ebpf/loader` | bridge, namespaces, veth pairs, programs on them | Setup, Destroy, Load, Detach |
| SDKs, `sdk/go`, `sdk/typescript` | what a client was told | Create, Get, Kill, WaitRunning / waitUntilRunning |
| WireGuard, pool, snapshots, registry, Firecracker client | kernel objects, files or none | see section 8 |

**Who calls whom.** A POST handler acquires a quota slot, creates the record and pushes the request on the
heap: three calls, three locks. The dispatch loop pops one item, looks at its deadline, at the registry,
and writes the record twice; a goroutine then calls the host agent, writes the guest's CID and moves the
record to running or failed. A DELETE handler copies the record, decides on the copy, calls the host agent
for up to 10 s, transitions the record from the state *in the copy*, and releases the slot. The agent's
PlaceSandbox, TerminateSandbox, the timer of the VM's context and watchVM run at the same time on one
sandbox and meet in the map and in the kernel. The agent tells the control plane nothing on its own. The
heartbeat monitor writes the registry the dispatch loop reads. An exec passes three hops, each with a
timer of its own, and no hop tells the next that it gave up; at its end vm-agent and the command write
into each other's pipes. An SDK polls the record that all of this moves. `internal/network` and
`ebpf/loader` run command after command against the kernel, for several sandboxes at once, and find
interfaces by a name made of eight characters of an ID.

**What is hard.** Every one of these sequences can be interrupted between two calls by any other; the
errors of several store calls are dropped (`_ = store.Transition(...)`), so the code is right only if they
cannot happen; answers get lost or come late; error paths undo half of what was done while a process is
still dying; counters are read and then changed. `PROJECT.json` lists these hazards at their lines.

**What makes each part correct.**

- dispatcher: no request is lost, run twice or expired early; the dropped errors cannot occur; a running
  record has a host and a CID, and its host is the one that was called; every request is resolved.
- handlers and quota: a kill gives back exactly one slot, the limit holds, a draining record has no VM.
- monitor: the health the dispatcher reads is what was counted; a dead host is avoided, a live one used.
- host agent: no process without somebody to end it, no map entry without a watcher; a mount or an unwiped
  layer is left only after an error of the teardown, a cgroup only half made or with a process in it; every
  VM ends by its timeout.
- exec: every caller is answered, nothing piles up behind a dead caller.
- persistence: the archive under a key's name is always whole.
- networks: a sandbox keeps the network and the filter it was given, whatever fails for another one; nothing
  is left of one that ended.
- SDKs: what a wait returned with is true, and every wait that can end does.

## 2. Modules

| module | models | kind |
|---|---|---|
| `SandboxLifecycle` | what a client may see of one sandbox | abstract specification |
| `SandboxStore` | `internal/state` | library of actions |
| `Scheduler` | `cmd/api/scheduler.go` (and its copy in `cmd/orchestrator`) on `SandboxStore` | specification |
| `QuotaStore` | `internal/quota` | library of actions |
| `AgentVM` | what a host agent promises of one VM | abstract specification |
| `ApiServer` | the API process: handlers + `Scheduler` + `QuotaStore` + `AgentVM` | composition |
| `HostAgent` | `cmd/host-agent`, `internal/overlay`, `internal/cgroup` | specification, implements `AgentVM` |
| `Orchestrator` | `cmd/orchestrator`, `internal/fencing` + `Scheduler` | composition |
| `RemoteExec` | what the exec requests of a sandbox come to | abstract specification |
| `ExecPath` | exec from handler to vm-agent, and the command's pipes | specification, implements `RemoteExec` |
| `ArchiveRegister` | what a store promises of one key | abstract specification |
| `ArchiveStore` | `internal/persistence`, one key | specification, implements `ArchiveRegister` |
| `HostNetwork` | `internal/network`, and `ebpf/loader` on its interfaces | specification |
| `SdkClient` | Create, Kill and the polling wait of both SDKs + `Scheduler` | composition |
| `*Proofs` | theorems on the module of that name | proofs |
| `MCScheduler`, `MCApiServer`, `MCHostNetwork` | symmetry sets, and the IDs of the sandboxes, for TLC | instances |

Names are the code's: `dispatchPending` is `Pop`, `DropExpired`, `StillLive`, `Requeue`, `PickHost`,
`AssignHost`, `StartPlacement`, one per call that others can interrupt, with `dpc`, `item` and `target` as
the function's place and local variables. In `ApiServer`, `hpc[c]` is where handler `c` is and `seen[c]` the
copy of the record its Terminate got. In `HostAgent`, `ppc[s]` is where `PlaceSandbox` is and `watcher[s]`
where `watchVM` is, and `tear[s]` where `overlay.Teardown` is that one of them called; everything else is the kernel's state. In `HostNetwork`, `npc[s]` is the `ip` command or the
step of Load that comes next for `s`, `veth[n]` the pair whose host end is called `n`, with how far its two
ends are configured and which programs sit on it. In `SdkClient`, `cpc[s]` is where the client of `s` is and
`told[s]` the state in the answer it has. In `ExecPath`, `child` is the command with its two pipes. `map` in `PROJECT.json` gives the lines of every
definition.

Refinements tie the levels together. `Scheduler` implements `SandboxLifecycle`, with a host that is stored
for a record still queued hidden (`homeBar`): that write is visible before the decision is. `HostAgent`
implements `AgentVM` (`vmBar`), and `ApiServer` is built on `AgentVM`, so what is shown of the API process holds with
the real agent under it as long as the agent stays up. `ApiServer` and `Orchestrator` in turn implement
`Scheduler` (`RefinesScheduler`), so the scheduler's properties hold in both processes. `SdkClient` is the
composition in which the scheduler's liveness is checked: its clients may do nothing, wait or kill.
`ExecPath` implements `RemoteExec` (`callerBar`, `commandBar`), where the three hops and their timers are gone: a
command that was sent runs at most once, alone and perhaps for nobody, one that was refused never runs, and an answer is that
of the caller's own command. `ArchiveStore`, with one Save of a key at a time, implements `ArchiveRegister` (`valueBar`,
`savingBar`, `restoringBar`): a Save takes effect at its rename or never, a Restore reads what the key had when it
was opened, and a crash changes no key.

Definitions whose name has an underscore (`Pop_Peek`, `GiveUp_NoKill`, ...) are variants with a plausible
mistake; they stand before the definition they vary and are used only to see that a property notices.

### Abstractions

- One tenant. Counters of different tenants share nothing.
- A request is its ID and its deadline; spec, image, command and output are left out, and with them
  validation and authentication, which end a request before it changes anything.
- Time: in `Scheduler` a tick lets a unit of every pending deadline pass, and passed deadlines are not
  told apart. In `ExecPath` a tick is the 5 s of grace; timers count down together.
- `scoreHost` is kept in integers (units of 1/10000). Between hosts of one score any may win, as the
  code ranges over a Go map.
- A kill is a SIGKILL that takes effect a little later; a process may also exit at any time.
- A pipe holds what is written to it or does not; which of the two is chosen when the command starts.
- The last two bytes of an address are kept; 10.100 never changes. The eight characters that name an
  interface and the eight that give the slot are functions of the ID, `Prefix` and `Tail`.
- A record that `List` or the SDK decodes has its fields; shapes of JSON are left out.
- Each call into the kernel or Firecracker may fail, at the point the code can notice.
- The kernel removes the veth pair of a deleted namespace a little after `ip netns del` returns; `DelNetns` has both
  in one step.

## 3. What the runs show

| run | module, configuration | checks |
|---|---|---|
| `scheduler` | `MCScheduler`, `MCScheduler.cfg` | `TypeOK`, `OneOwner`, `PlacementTracksState`, `KillReachesHost`, `RunningIsReachable`, `NoEarlyExpiry`, `HealthyFirst`, `ImplementsLifecycle` |
| `sdk` | `SdkClient`, `MCSdk.cfg` | `ToldIsTrue`, `RequestResolved`, `WaitEnds` |
| `api` | `MCApiServer`, `MCApiServer.cfg` | `SlotsAccounted`, `KillReleasesOnce`, `DrainingIsDead`, `LimitKept`, `RefinesScheduler` |
| `agent` | `HostAgent`, `MCHostAgent.cfg` | `TypeOK`, `AliveIsOwned`, `EntryIsWatched`, `WatchedIsCleaned`, `FailureUndone`, `ImplementsVM`, `EveryVMEnds` |
| `orchestrator` | `Orchestrator`, `MCOrchestrator.cfg` | `HealthFollowsMisses`, `RefinesScheduler`, `DeadHostMarked`, `RecoveredHostUsed` |
| `exec` | `ExecPath`, `MCExec.cfg` | `ExecTypeOK`, `ImplementsRemoteExec`, `ClientAnswered`, `HandlerEnds`, `BacklogDrains` |
| `archive` | `ArchiveStore`, `MCArchive.cfg` | `DestIsWhole`, `NeverCorrupt`, `ImplementsRegister` |
| `network` | `MCHostNetwork`, `MCNetwork.cfg` | `NetworkKept`, `NothingLeft`, `SubnetsDisjoint`, `FilterInPlace` |
| `orchestrator_unhealthy` | `Orchestrator`, `MCOrchestratorUnhealthy.cfg` | `UnhealthyNeverPicked`, violated |
| `api_limit` | `MCApiServer`, `MCApiServerLimit.cfg` | `LiveWithinLimit`, violated |
| `agent_stop` | `HostAgent`, `MCHostAgentStop.cfg` | `TimeoutKills`, violated |
| `exec_max_time` | `ExecPath`, `MCExecMaxTime.cfg` | `MaxExecutionTime`, violated |

- `scheduler`: the queue, the dispatch loop's hand and the handler that has not enqueued yet own each queued
  sandbox exactly once between them, which is why the Transitions whose errors are dropped cannot fail.
  Terminate may interfere anywhere and cannot disturb a placement: it drains running records only.
- `sdk`: every request is resolved, running or failed, whatever its client does and whether or not the
  answer to its Create arrived. A state that a wait reported is still true when the wait returns, though the
  record moved on; a wait ends unless it is unlimited and its sandbox is killed between two polls.
- `api`: a DELETE that overlaps another DELETE, or a placement, of the same sandbox releases once or not at
  all. `SlotsAccounted` says what the counter is between the halves of Acquire and Release. `LimitKept` is
  the limit for tenants that never delete a failed sandbox; `api_limit` shows what happens when one does.
- `agent`: the timer, the kill, the exit and the placement's own failure in every order. `overlay.Teardown` is its
  four calls - unmount, remove the writable layer, make it again, verify that it is empty - and any of them may
  fail, which ends it. `WatchedIsCleaned` has what a teardown without an error leaves (no mount, an empty layer)
  and that no layer is wiped under its mount; `FailureUndone` has why a failed placement leaves a mount or an
  unwiped layer (the teardown returned an error, which is dropped) or a cgroup (its own Setup failed, or it still
  had the dying process in it). The disk copy and the overlay's directories are never removed by anybody, and
  neither property says they are. Nothing in the repository writes through the mount, so a layer that was
  mounted counts as one that *may* hold files until it is wiped.
- `orchestrator`: the monitor is sequential and a fence takes up to 30 s, but marks and recoveries are exact: a host
  is marked by its third miss in a row and not earlier, and each further miss marks and fences it again.
- `exec`: two requests against a guest that serves one at a time; commands may run for ever, ignore their
  input, or write more than a pipe holds. Only one that does the last before it reads its input jams. However the
  timers fall, no command runs twice, for a request that was refused, or next to another (`ImplementsRemoteExec`).
- `archive`: one Save of a key at a time, and the key is an atomic register (`ImplementsRegister`). The crash is of the process: what reaches the disk when the machine
  loses power is not modelled (the code does not fsync).
- `network`: three placements set up, load, detach and destroy side by side, with a failure of any command at
  any point, and two of them compete for one interface name. The second Setup of a name fails and takes
  nothing of the first with it, because the code deletes only what it added; a program stays on its sandbox.

### Disagreements

Four runs end in a counterexample, each against a sentence of the repository; `findings` in `PROJECT.json`
quotes them.

1. `orchestrator_unhealthy`: with every registered host unhealthy, one of them is picked (-1 beats -2).
2. `api_limit`: DELETE of a failed sandbox succeeds, and releases, any number of times.
3. `agent_stop`: the VM's timeout lives in the agent and goes with it.
4. `exec_max_time`: `timeout_ms` reaches vm-agent and is only logged.

More were met, with a property and a configuration each; run TLC on them to see the behaviour.

| property | configuration (module) | what is said, and what happens |
|---|---|---|
| `FailureReleases` | `MCApiFailureReleases.cfg` (`MCApiServer`) | docs/phase-2-flow.md:112 has the slot released on Failed; nothing releases it |
| `DrainingEnds` | `MCApiDrainingEnds.cfg` (`MCApiServer`) | LEARN.md draws draining to terminated; no call makes that transition |
| `DeathIsNoticed` | `MCApiDeathIsNoticed.cfg` (`MCApiServer`) | state.go:26 has "VM is live"; a VM that ends on its host leaves its record running |
| `NeverNegative` | `MCApiCounter.cfg` (`MCApiServer`) | quota.go:50 calls Release safe at zero; two that read 1 take it to -1 |
| `WipedBeforeIdle` | `MCHostAgentWipe.cfg` (`HostAgent`) | overlay.go:8 has upper wiped before the slot is marked idle; the map entry, by which slots count, goes first, and a wipe that fails is logged |
| `WaitEndsAfterKill` | `MCSdkWait.cfg` (`SdkClient`) | client.go:178 polls "until ... a terminal state"; a killed sandbox never reaches one |
| `GivenItsTime` | `MCExecGiven.cfg` (`ExecPath`) | the SDK blocks "until ... the timeout is reached"; the agent client gives up after 30 s |
| `NeverJams` | `MCExecJam.cfg` (`ExecPath`) | main.rs:4 promises a response per request; a command that writes much before it reads its input never ends |
| `DestIsWhole` | `MCArchiveTorn.cfg` (`ArchiveStore`) | persistence.go:58 calls Save atomic; two Saves of one key share their temporary file |
| `BridgeServes` | `MCNetworkBridge.cfg` (`MCHostNetwork`) | a Setup that finds the bridge another one is still making goes on with it as it is |
| `GatewayIsBridge` | `MCNetworkGateway.cfg` (`MCHostNetwork`) | each sandbox routes by a gateway address of its own; the bridge has 10.100.0.1 only |
| `AddressesDiffer` | `MCNetworkAddresses.cfg` (`MCHostNetwork`) | slots go to 65000, but the third byte wraps at 16384 |
| `FilterStays` | `MCNetworkFilter.cfg` (`MCHostNetwork`) | server.go:295 keeps the filter in a local variable; once it is collected a TCX link is closed |
| `NetworkKept` | `MCNetworkRetry.cfg` (`MCHostNetwork`) | a Destroy that is repeated deletes by name what may be another sandbox's by then |

Two more were seen while reading and are about encodings that no module has: the Go SDK's List decodes an
array where the API answers an object (handlers.go), and AddCIDR (loader_linux.go:141) stores an address in the
host's byte order that egress_filter.c:72 looks up in the network's.

### Bounds

Every bound is a constant or named in a guard.

- Two sandboxes and two hosts in `scheduler`: a request and its competitor for the queue, a host and its
  alternative. Interference is pairwise everywhere in the code (a handler against a placement, a placement
  against the loop); the theorems of section 5 drop the bound. `Timeouts` {1, 2} order the heap both ways. `CPULevels` {0, 800}
  has a host above 100 %, where the clip of `scoreHost` matters.
- `api`: two callers on two sandboxes under a limit of one, so one refusal, one overlap and one full quota
  all occur; one host, as the choice of a host is the scheduler's. `freed` counts to 2, one more than allowed.
- `agent`: two sandboxes share nothing but the map; one would show all but that.
- `orchestrator`: two hosts, so one is polled while another is fenced; the threshold is the code's 3. Misses
  are counted up to the threshold, where the code compares with `>=`.
- `sdk`: two sandboxes, so one request queues behind another and is put back; one client waits, with a limit
  and without. One host, registered or not: `Requeue` happens when it is not.
- `network`: three sandboxes, `a` and `b` of one name, `b` and `c` of one subnet, `a` and `c` of neighbouring
  subnets on the two sides of a byte boundary, and tails on both sides of 65000. What a command does to one
  sandbox depends on at most one other through the name, and on the bridge.
- `exec`: two calls, so one waits behind the other. The timeout is as long as the grace and the client's cap
  below their sum, so each hop can give up first. `ran` counts to one more than the timeout.
- `archive`: two savers, one reader, archives of one or two writes, so there is a torn one, a short one over
  a long one and a read across a rename; four files are enough for every open descriptor and both names.

### Fairness

- `SdkClient`: the dispatch loop runs on a 50 ms ticker; the goroutine of a placement is ended by the HTTP
  client's 30 s at the latest; the handler that created a record goes on to Enqueue; time passes. A wait's
  ticker keeps firing and every Get has a timeout. Clients need not do anything.
- `ApiServer` (documented configurations only): handlers go on to their answer, as every RPC has a timeout, and
  agents boot VMs and enforce their timeouts.
- `HostAgent`: goroutines run on, through the calls of a teardown too, context timers fire, a SIGKILL kills. VMs need not exit by themselves.
- `Orchestrator`: the ticker fires and every poll (5 s) and fence (30 s) is bounded. Nothing is assumed of hosts.
- `ExecPath`: handlers run on, time passes, vm-agent accepts when it is free. Not assumed: that a command
  ends, or that a handshake is answered. `BacklogDrains` assumes commands that end, in the property.

`CHECK_DEADLOCK FALSE` is set where a system may be done: `HostAgent` when every VM has ended.

## 4. What the properties are for

`PROJECT.json` lists the hazards with the properties that would catch each. Where none does, the note says
whether the code makes no such promise, or which plan item below is about it.

## 5. What is proved

For every value of the constants that satisfies the modules' named assumptions: limits and thresholds are
positive, `NoHost` is no host (and so on), `CPULevels` are naturals with 0, at any time there are finitely many
handlers and records (`FiniteAssumption`), an archive has at least one chunk, an ID gives a name and a number.

| module | theorem | says |
|---|---|---|
| `SchedulerProofs` | `TypeCorrect`, `SchedulerInvariant`, and from it `RequestsHaveOneOwner`, `PlacementsFindTheirRecord`, `KillsGoToTheirHost`, `RunningSandboxesAreReachable`, `NothingExpiresEarly` | the safety of the dispatcher |
| | `HealthyHostFirst` | the pick is healthy when any host is |
| | `SchedulerImplementsLifecycle` | `Scheduler` implements `SandboxLifecycle` |
| `ApiServerProofs` | `ApiTypeCorrect`, `ApiImplementsScheduler` | the API process is a scheduler |
| | `ApiImplementsLifecycle`, `ApiKeepsRequests` | so its records and requests are as safe as the dispatcher's |
| | `DrainedVMIsDead` | a draining record has no VM |
| | `KillsReleaseOnce`, `EverySlotIsAccounted`, `LimitIsKept`, `CounterIsNeverNegative` | the quota, for any number of callers and any limit |
| `HostAgentProofs` | `AgentTypeCorrect`, `ProcessesAreOwned`, `EntriesAreWatched`, `WatchersClean`, `FailuresAreUndone` | the safety of the host agent |
| | `AgentImplementsVM` | `HostAgent` implements `AgentVM` |
| `OrchestratorProofs` | `OrchTypeCorrect`, `OrchImplementsScheduler`, `HealthIsCounted` | the orchestrator is a scheduler whose health bits are exact |
| | `OrchKeepsRequests` | no request is lost or misplaced, whatever the monitor does |
| `SdkClientProofs` | `WhatAWaitReturnsHolds` | what a wait told its caller stays true |
| `HostNetworkProofs` | `NetworkIsKept`, `NothingIsLeft`, `FiltersStayInPlace` | the safety of networks, however names coincide |
| | `SubnetsAreDisjoint`, `SubnetsAreAddresses`, `SlotsDecideAddresses` | subnets and addresses, for every slot there is |
| | `RepeatedDestroyIsSafe` | callers that repeat a Destroy, when no two IDs begin alike |
| `ExecPathProofs` | `ExecInvariant`, `ExecTypeCorrect` | who holds the connection, the handler and the command |
| | `ExecImplementsRemote` | `ExecPath` implements `RemoteExec` |
| `ArchiveStoreProofs` | `ArchiveTypeCorrect`, `DestStaysWhole`, `RestoreNeverCorrupt` | archives, for any length and number of readers |
| | `ArchiveImplementsRegister` | `ArchiveStore` implements `ArchiveRegister` |

The lemmas on `SandboxStore` stand first in `SchedulerProofs`. The arguments:

- **Scheduler.** The parts of `SchedulerInv` hold each other up. That a popped item is queued (so its transition to
  provisioning succeeds) is `OneOwner`; that a placement finds its record provisioning is `PlacementTracksState`; without
  both, a dropped error could strand a record and break the other. Each part has a lemma with one step per
  action, and cites what each store call does to one record and to the others.
- **API process.** Each step of `ApiServer` is a step of `Scheduler` or leaves it alone, so `SchedulerInv` comes for free. For
  `DrainingIsDead` the invariant `DeadInv` adds what a handler knows between its copy of the record and its transition:
  a handler that saw running has a sandbox that was up, whose host is the one called, so its kill, unless it is lost, hits.
- **Quota.** `AllSettled` says, sandbox by sandbox, that a draining record was released once or has exactly one
  handler about to, and that one alive was not. `SlotInv` then counts: the counter is the records not yet
  released, the calls between their halves and the slots kept; and without the refusals, which are undone, that
  sum stays within the limit. Both are needed: a Release takes one record out of the sum only because that
  record was not released before. `CallMoves` is the lemma on cardinalities that every step cites.
- **Host agent.** `AgentInv` ties the process, the timer, the owner, the cgroup and the overlay to the place PlaceSandbox and
  watchVM are at, one sandbox at a time. `OverlayFollows` says that a teardown is under way only where one is called, and
  reads off its progress what is left of mount and layer; without it nothing would keep the two callers apart.
- **Compositions.** `ApiKeepsRequests` and `OrchKeepsRequests` need no invariant of their own: a step of either process is a
  step of `Scheduler`, so its theorems hold of them.
- **Orchestrator.** `HealthInv` adds that the host the monitor is about to mark has reached the threshold.
- **SDK.** The invariant adds to `ToldIsTrue` that the answer on its way is no later than the record: of the states
  that end a wait, running can only become draining, and failed nothing.
- **Networks.** `NetInv` says for each place of `npc` how much of the network there is, and that a pair is reached by
  the name of its own sandbox; so a step for one sandbox finds either its own pair or leaves the other's alone.
  A caller that repeats a Destroy breaks it: the pair at the name may be another's. `RetryInv` is what is left of it, and
  `DistinctNames`, which eight characters of a random ID make likely and nothing ensures, takes the place of the rest.
- **Exec.** `ExecInv` adds to the types, request by request, that one hop goes ahead of the next: nothing is dialed for a
  request that was not sent, nothing is queued in the guest before the dial, a handler has an answer only when its own command
  replied, and a caller only when its handler has one. The refinement then takes one action at a time: a timer that
  fires is a caller giving up, a connection lost, or nothing, and only `Accept` starts a command.
- **Archives.** `ArchiveInv` says that what the one Save has written is the beginning of its archive, in a file that
  neither the key's name nor a reader holds; so the rename moves a whole one and a reader's file never changes.
  The refinement follows: only the rename and Delete change the file under the key, so they alone change the register.

**Only model-checked:** everything about liveness and fairness (`RequestResolved`, `WaitEnds`, `EveryVMEnds`, `DeadHostMarked`,
`RecoveredHostUsed`, `ClientAnswered`, `HandlerEnds`, `BacklogDrains`), which the prover cannot treat, as it cannot treat
ENABLED. Every invariant, action property and refinement that a run passes is proved. No module uses RECURSIVE operators. Induction over data is out of the prover's reach,
and no theorem needs it.

## 6. Running it

In this directory: `tlc -config MCScheduler.cfg MCScheduler.tla`, and likewise for the other rows of
section 3; `tlapm SchedulerProofs.tla` and likewise for the other proof modules. The longest run is `api`
(three million states, two minutes); `exec` and `archive` take a minute and a half, the others seconds to a minute.

## 7. Plan

Done, in this order: record store and lifecycle, scheduler, quota, API process on the abstract agent, host
agent, orchestrator, exec path, persistence; then the command and its pipes in the exec path, the SDKs next to
the scheduler, networks with their filters; the proofs along with them.

What could follow:

1. A new agent over the VMs of an earlier one, when the code adopts or kills them.
2. The networks inside `HostAgent`'s placement, when PlaceSandbox calls `network.Setup`.
3. `Tunnels`: WireGuard's EnsureTunnel and RemoveTunnel, once something calls them.

## 8. Not modelled, and why

- JWT authentication, request decoding and validation: they refuse a request before any state changes.
- GET, List, StreamLogs, metrics, tracing, logging, configuration: they read, or write what nothing reads back.
- The fence's IPMI and HTTP calls: their effect is outside the system; that the call may take its 30 s is in.
- A restart of the API: records and counters start again from nothing, which is `Init`, while no code looks for
  the VMs that go on. They end by their agents' timers; `EveryVMEnds` asks nothing of the API.
- WireGuard: no program calls EnsureTunnel or RemoveTunnel, and what would be worth checking - who may call
  them at once, for which tenants, with which of their routes - is up to callers that do not exist.
- The kernel's lookup in the egress filter, and AddCIDR: one map entry each, on which no state of the loader depends.
- Warm pool sizing: floating-point smoothing whose result nothing acts on (`reconcilePool` sets gauges).
- Snapshots: one more way for `Boot` to succeed or fail.
- The Firecracker client: a request per call; the calls are steps of `HostAgent` that may fail.
- Image registry: no state, and no caller. The command line: a wrapper of the SDK's calls.
