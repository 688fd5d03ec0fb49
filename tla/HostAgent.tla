------------------------------- MODULE HostAgent -------------------------------
(***************************************************************************)
(* cmd/host-agent: PlaceSandbox, which builds a microVM out of an overlay  *)
(* mount, a cgroup, a disk copy and a Firecracker process; the timer of    *)
(* its context, which kills the process; TerminateSandbox; and watchVM,    *)
(* the goroutine that cleans up after the process.  All of them run at     *)
(* once.  Each call into the kernel or Firecracker is an action.           *)
(***************************************************************************)
EXTENDS Naturals, FiniteSets

CONSTANT
  Sandboxes    \* the IDs the control plane asks to place, each of them once

VARIABLES
  ppc,         \* ppc[s]: where PlaceSandbox of s is
  mounted,     \* the sandboxes whose overlay is mounted
  upper,       \* upper[s]: no directory, an empty one, or one that was mounted
               \* and may hold what was written through the mount
  tear,        \* tear[s]: how far overlay.Teardown of s is, or how it ended
  cgroup,      \* cgroup[s]: no directory, one Setup left half written, or one
  disk,        \* the sandboxes that have a copy of the root file system
  proc,        \* proc[s]: the Firecracker process
  limited,     \* the sandboxes whose process AddPID moved to the cgroup
  timer,       \* timer[s]: vmCtx
  entries,     \* hostAgentServer.sandboxes, the map
  killing,     \* TerminateSandbox calls between the delete and entry.cancel()
  watcher      \* watcher[s]: where watchVM of s is

placeVars == <<ppc, disk>>
overlayVars == <<mounted, upper, tear>>
fileVars  == <<overlayVars, cgroup>>
procVars  == <<proc, limited, timer>>
vars      == <<placeVars, fileVars, procVars, entries, killing, watcher>>

\* One name per place PlaceSandbox can be interrupted at; the undo states are
\* its error paths.
Building == {"called", "overlaid", "grouped", "prepared", "started", "configured",
             "limited", "booted"}
Undoing  == {"undoMount", "undoBoth", "undoCgroup"}
PlacePCs == {"none", "tracked", "placed", "failed", "gone"} \cup Building \cup Undoing

Processes  == {"none", "alive", "signalled", "exited", "reaped"}
WatcherPCs == {"none", "waiting", "reaped", "untracked", "ungrouped", "done"}
TearPCs    == {"none", "unmounted", "removed", "remade", "wiped", "failed"}

Init ==
  /\ ppc = [s \in Sandboxes |-> "none"]
  /\ mounted = {} /\ disk = {} /\ limited = {}
  /\ upper = [s \in Sandboxes |-> "none"]
  /\ tear = [s \in Sandboxes |-> "none"]
  /\ cgroup = [s \in Sandboxes |-> "none"]
  /\ proc = [s \in Sandboxes |-> "none"]
  /\ timer = [s \in Sandboxes |-> "none"]
  /\ entries = {} /\ killing = {}
  /\ watcher = [s \in Sandboxes |-> "none"]

Goes(s, from, to) == ppc[s] = from /\ ppc' = [ppc EXCEPT ![s] = to]

-------------------------------------------------------------------------------
(* The kernel's and the packages' side of the calls.                       *)

Running(s) == proc[s] \in {"alive", "signalled"}

\* cancel(), Process.Kill() and the timer all end in a SIGKILL, which the
\* process dies of a little later.
Kill(s) ==
  /\ timer' = [timer EXCEPT ![s] = "over"]
  /\ proc' = [proc EXCEPT ![s] = IF @ = "alive" THEN "signalled" ELSE @]

\* cgroup.Teardown: a cgroup with a process in it cannot be removed.
CgroupTeardown(s) ==
  cgroup' = IF s \in limited /\ Running(s) THEN cgroup
            ELSE [cgroup EXCEPT ![s] = "none"]

-------------------------------------------------------------------------------
(* overlay.Teardown, called by an error path of PlaceSandbox or by watchVM:  *)
(* four calls, each of which may fail, and the first failure ends it.        *)

InTeardown(s) == ppc[s] \in {"undoMount", "undoBoth"} \/ watcher[s] = "ungrouped"

TornDown(s) == tear[s] \in {"wiped", "failed"}

Tears(s, from, to) ==
  /\ InTeardown(s)
  /\ tear[s] = from
  /\ tear' = [tear EXCEPT ![s] = to]
  /\ UNCHANGED <<placeVars, cgroup, procVars, entries, killing, watcher>>

Unmount_ErrorIgnored(s) ==
  /\ Tears(s, "none", "unmounted")
  /\ mounted' \in {mounted, mounted \ {s}}
  /\ UNCHANGED upper

Unmount(s) ==
  /\ \/ Tears(s, "none", "unmounted") /\ mounted' = mounted \ {s}
     \/ Tears(s, "none", "failed") /\ UNCHANGED mounted
  /\ UNCHANGED upper

\* removeAll gives up at the first entry it cannot remove.
RemoveUpper(s) ==
  /\ \/ Tears(s, "unmounted", "removed") /\ upper' = [upper EXCEPT ![s] = "none"]
     \/ Tears(s, "unmounted", "failed") /\ UNCHANGED upper
  /\ UNCHANGED mounted

RecreateUpper(s) ==
  /\ \/ /\ Tears(s, "removed", "remade")
        /\ upper' = [upper EXCEPT ![s] = IF @ = "none" THEN "empty" ELSE @]
     \/ Tears(s, "removed", "failed") /\ UNCHANGED upper
  /\ UNCHANGED mounted

\* verifyEmptyUpper: an entry is an error, and so is a walk that fails.
VerifyUpper(s) ==
  /\ \/ Tears(s, "remade", "wiped") /\ upper[s] = "empty"
     \/ Tears(s, "remade", "failed")
  /\ UNCHANGED <<mounted, upper>>

OverlayTeardown(s) ==
  Unmount(s) \/ RemoveUpper(s) \/ RecreateUpper(s) \/ VerifyUpper(s)

-------------------------------------------------------------------------------
(* PlaceSandbox.                                                           *)

\* handlePlace has decoded a request.
Call(s) ==
  /\ Goes(s, "none", "called")
  /\ UNCHANGED <<disk, fileVars, procVars, entries, killing, watcher>>

\* overlayLowerDir mounts the base image once for all sandboxes, with a look at
\* /proc/mounts before: among placements that both found it unmounted one may
\* get an error from mount.  Nothing of s is there to undo.
LowerDirFails(s) == Goes(s, "called", "failed") /\ UNCHANGED <<mounted, upper>>

\* overlay.Setup: three directories, upper the first of them, which stay when
\* a later one or the mount fails; then there is no mount to undo.
OverlaySetup(s) ==
  \/ /\ Goes(s, "called", "overlaid")
     /\ mounted' = mounted \cup {s}
     /\ upper' = [upper EXCEPT ![s] = "used"]
  \/ /\ Goes(s, "called", "failed")
     /\ upper' \in {upper, [upper EXCEPT ![s] = "empty"]}
     /\ UNCHANGED mounted

SetupOverlay(s) ==
  /\ LowerDirFails(s) \/ OverlaySetup(s)
  /\ UNCHANGED <<disk, cgroup, tear, procVars, entries, killing, watcher>>

\* cgroup.Setup: a mkdir and three writes; no write error removes the directory.
SetupCgroup(s) ==
  /\ \/ Goes(s, "overlaid", "grouped") /\ cgroup' = [cgroup EXCEPT ![s] = "made"]
     \/ Goes(s, "overlaid", "undoMount") /\ UNCHANGED cgroup
     \/ Goes(s, "overlaid", "undoMount") /\ cgroup' = [cgroup EXCEPT ![s] = "half"]
  /\ UNCHANGED <<disk, overlayVars, procVars, entries, killing, watcher>>

\* MkdirAll, copyFile, the log file.
PrepareDisk(s) ==
  /\ Goes(s, "grouped", "prepared") \/ Goes(s, "grouped", "undoBoth")
  /\ disk' \in {disk, disk \cup {s}} /\ (ppc'[s] = "prepared" => s \in disk')
  /\ UNCHANGED <<fileVars, procVars, entries, killing, watcher>>

StartFirecracker(s) ==
  /\ \/ /\ Goes(s, "prepared", "started")
        /\ proc' = [proc EXCEPT ![s] = "alive"]
        /\ timer' = [timer EXCEPT ![s] = "armed"]
     \/ /\ Goes(s, "prepared", "undoBoth")
        /\ timer' = [timer EXCEPT ![s] = "over"]
        /\ UNCHANGED proc
  /\ UNCHANGED <<disk, fileVars, limited, entries, killing, watcher>>

\* waitForSocket and the four PUTs: they need a process that answers.
Configure(s) ==
  /\ Running(s)
  /\ Goes(s, "started", "configured")
  /\ UNCHANGED <<disk, fileVars, procVars, entries, killing, watcher>>

AddPID(s) ==
  /\ Goes(s, "configured", "limited")
  /\ limited' = limited \cup {s}
  /\ UNCHANGED <<disk, fileVars, proc, timer, entries, killing, watcher>>

\* snapManager.Load or StartInstance.
Boot(s) ==
  /\ Running(s)
  /\ Goes(s, "limited", "booted")
  /\ UNCHANGED <<disk, fileVars, procVars, entries, killing, watcher>>

GiveUp_NoKill(s) ==
  /\ ppc[s] \in {"started", "configured", "limited"}
  /\ Goes(s, ppc[s], "undoBoth")
  /\ UNCHANGED <<disk, fileVars, procVars, entries, killing, watcher>>

GiveUp_EvenWhenTracked(s) ==
  /\ ppc[s] \in {"started", "configured", "limited", "tracked"}
  /\ Goes(s, ppc[s], "undoBoth")
  /\ Kill(s)
  /\ UNCHANGED <<disk, fileVars, limited, entries, killing, watcher>>

\* Any call from Start to StartInstance fails, or the caller's context ends.
GiveUp(s) ==
  /\ ppc[s] \in {"started", "configured", "limited"}
  /\ Goes(s, ppc[s], "undoBoth")
  /\ Kill(s)
  /\ UNCHANGED <<disk, fileVars, limited, entries, killing, watcher>>

\* The error paths: the overlay first, then, but not when its own Setup
\* failed, the cgroup; the teardowns' errors are dropped.
UndoOverlay(s) ==
  /\ TornDown(s)
  /\ Goes(s, "undoMount", "failed") \/ Goes(s, "undoBoth", "undoCgroup")
  /\ UNCHANGED <<disk, fileVars, procVars, entries, killing, watcher>>

UndoCgroup_Skipped(s) ==
  /\ Goes(s, "undoCgroup", "failed")
  /\ UNCHANGED <<disk, fileVars, procVars, entries, killing, watcher>>

UndoCgroup(s) ==
  /\ Goes(s, "undoCgroup", "failed")
  /\ CgroupTeardown(s)
  /\ UNCHANGED <<disk, overlayVars, procVars, entries, killing, watcher>>

Track(s) ==
  /\ Goes(s, "booted", "tracked")
  /\ entries' = entries \cup {s}
  /\ UNCHANGED <<disk, fileVars, procVars, killing, watcher>>

Watch_BeforeTracked(s) ==
  /\ watcher[s] = "none"
  /\ \/ ppc[s] = "booted" /\ UNCHANGED ppc
     \/ Goes(s, "tracked", "placed")
  /\ watcher' = [watcher EXCEPT ![s] = "waiting"]
  /\ UNCHANGED <<disk, fileVars, procVars, entries, killing>>

\* The egress filter is loaded or not; go watchVM; the answer is 200.
Watch(s) ==
  /\ Goes(s, "tracked", "placed")
  /\ watcher' = [watcher EXCEPT ![s] = "waiting"]
  /\ UNCHANGED <<disk, fileVars, procVars, entries, killing>>

-------------------------------------------------------------------------------
(* The process and its timer.                                              *)

TimerFires_NoKill(s) ==
  /\ timer[s] = "armed"
  /\ timer' = [timer EXCEPT ![s] = "over"]
  /\ UNCHANGED <<placeVars, fileVars, proc, limited, entries, killing, watcher>>

TimerFires(s) ==
  /\ timer[s] = "armed"
  /\ Kill(s)
  /\ UNCHANGED <<placeVars, fileVars, limited, entries, killing, watcher>>

Exits(s, how) ==
  /\ proc[s] = how
  /\ proc' = [proc EXCEPT ![s] = "exited"]
  /\ UNCHANGED <<placeVars, fileVars, limited, timer, entries, killing, watcher>>

-------------------------------------------------------------------------------
(* TerminateSandbox.  A second call for s finds no entry and changes       *)
(* nothing.                                                                *)

Untrack(s) ==
  /\ s \in entries
  /\ entries' = entries \ {s}
  /\ killing' = killing \cup {s}
  /\ UNCHANGED <<placeVars, fileVars, procVars, watcher>>

Cancel(s) ==
  /\ s \in killing
  /\ killing' = killing \ {s}
  /\ Kill(s)
  /\ UNCHANGED <<placeVars, fileVars, limited, entries, watcher>>

-------------------------------------------------------------------------------
(* watchVM.                                                                *)

Watching(s, from, to) ==
  /\ watcher[s] = from
  /\ watcher' = [watcher EXCEPT ![s] = to]
  /\ UNCHANGED <<placeVars, limited, timer, killing>>

\* cmd.Wait.
Wait(s) ==
  /\ proc[s] = "exited"
  /\ Watching(s, "waiting", "reaped")
  /\ proc' = [proc EXCEPT ![s] = "reaped"]
  /\ UNCHANGED <<fileVars, entries>>

Forget(s) ==
  /\ Watching(s, "reaped", "untracked")
  /\ entries' = entries \ {s}
  /\ UNCHANGED <<fileVars, proc>>

CleanCgroup(s) ==
  /\ Watching(s, "untracked", "ungrouped")
  /\ CgroupTeardown(s)
  /\ UNCHANGED <<overlayVars, proc, entries>>

\* An error of overlay.Teardown is logged.
CleanOverlay(s) ==
  /\ TornDown(s)
  /\ Watching(s, "ungrouped", "done")
  /\ UNCHANGED <<fileVars, proc, entries>>

-------------------------------------------------------------------------------

Place(s) ==
  \/ SetupOverlay(s) \/ SetupCgroup(s) \/ PrepareDisk(s) \/ StartFirecracker(s)
  \/ Configure(s) \/ AddPID(s) \/ Boot(s) \/ GiveUp(s)
  \/ UndoOverlay(s) \/ UndoCgroup(s)
  \/ Track(s) \/ Watch(s)

WatchVM(s) == Wait(s) \/ Forget(s) \/ CleanCgroup(s) \/ CleanOverlay(s)

Next ==
  \E s \in Sandboxes :
    \/ Call(s) \/ Place(s)
    \/ OverlayTeardown(s)
    \/ TimerFires(s)
    \/ Exits(s, "alive") \/ Exits(s, "signalled")
    \/ Untrack(s) \/ Cancel(s)
    \/ WatchVM(s)

\* The agent stops, by SIGTERM or a crash: its memory is gone, the Firecracker
\* processes, the mounts, their layers and the cgroups stay.
AgentStops ==
  /\ ppc' = [s \in Sandboxes |-> "gone"]
  /\ timer' = [s \in Sandboxes |-> "none"]
  /\ watcher' = [s \in Sandboxes |-> "none"]
  /\ entries' = {} /\ killing' = {}
  /\ UNCHANGED <<disk, fileVars, proc, limited>>

\* Goroutines run on, a context's timer fires, a SIGKILL kills.  A VM need not
\* exit by itself and clients need not kill it.
Fairness ==
  \A s \in Sandboxes :
    /\ WF_vars(Place(s))
    /\ WF_vars(OverlayTeardown(s))
    /\ WF_vars(TimerFires(s))
    /\ WF_vars(Exits(s, "signalled"))
    /\ WF_vars(Cancel(s))
    /\ WF_vars(WatchVM(s))

Spec         == Init /\ [][Next]_vars
FairSpec     == Spec /\ Fairness
StopFairSpec == Init /\ [][Next \/ AgentStops]_vars /\ Fairness

-------------------------------------------------------------------------------
(* Properties.                                                             *)

\* Types; watchVM runs for a placement that was answered with 200, and only then.
TypeOK ==
  /\ ppc \in [Sandboxes -> PlacePCs]
  /\ cgroup \in [Sandboxes -> {"none", "half", "made"}]
  /\ proc \in [Sandboxes -> Processes]
  /\ timer \in [Sandboxes -> {"none", "armed", "over"}]
  /\ watcher \in [Sandboxes -> WatcherPCs]
  /\ upper \in [Sandboxes -> {"none", "empty", "used"}]
  /\ tear \in [Sandboxes -> TearPCs]
  /\ mounted \subseteq Sandboxes /\ disk \subseteq Sandboxes
  /\ limited \subseteq Sandboxes
  /\ entries \subseteq Sandboxes /\ killing \subseteq Sandboxes
  /\ \A s \in Sandboxes : watcher[s] # "none" <=> ppc[s] = "placed"

\* A process nobody has sent SIGKILL yet has a timer that will, and somebody
\* who answers for it: the placement under way, the map, or the call that just
\* took it out of the map.
AliveIsOwned ==
  \A s \in Sandboxes :
    proc[s] = "alive" =>
      /\ timer[s] = "armed"
      /\ ppc[s] \in Building \/ s \in entries \cup killing

\* No entry outlives its watcher: whenever s is in the map, watchVM has still
\* to delete it, however early the process died and whoever else deleted it.
EntryIsWatched ==
  \A s \in entries :
    \/ ppc[s] = "tracked" /\ watcher[s] = "none"
    \/ watcher[s] \in {"waiting", "reaped"}

\* When watchVM is over the process is reaped and the entry and the cgroup are
\* gone: their removal cannot meet a process.  overlay.Teardown has returned,
\* and a nil error means what its caller takes it for: no mount, and a writable
\* layer that is there and empty.  After an error the layer may still hold the
\* sandbox's files, the mount may still be there, or upper may be missing; but a
\* layer is never wiped under its mount.  The disk copy and the overlay's
\* directories stay in any case.
WatchedIsCleaned ==
  \A s \in Sandboxes :
    watcher[s] = "done" =>
      /\ proc[s] = "reaped" /\ s \notin entries
      /\ cgroup[s] = "none"
      /\ TornDown(s)
      /\ tear[s] = "wiped" => s \notin mounted /\ upper[s] = "empty"
      /\ s \in mounted => upper[s] = "used"

\* What the error paths of a failed placement leave behind of the mount, the
\* writable layer and the cgroup, and why: a mount or an unwiped layer only when
\* overlay.Teardown returned an error; a cgroup only when its own Setup failed
\* half way, or when AddPID had put the process into it, which may have been
\* dying still.  Nobody removes a disk copy, so it says nothing of that.
FailureUndone ==
  \A s \in Sandboxes :
    ppc[s] = "failed" =>
      /\ s \in mounted \/ upper[s] = "used" => tear[s] = "failed"
      /\ s \in mounted => upper[s] = "used"
      /\ cgroup[s] = "made" => s \in limited
      /\ cgroup[s] = "half" => proc[s] = "none"

\* What the control plane sees of a placement is AgentVM.
vmBar == [s \in Sandboxes |->
  CASE ppc[s] = "none"                     -> "none"
    [] ppc[s] \in Building                 -> "booting"
    [] s \in entries                       -> "up"
    [] ppc[s] \in Undoing \cup {"failed"}  -> "unbootable"
    [] OTHER                               -> "dead"]

VM == INSTANCE AgentVM WITH vm <- vmBar

ImplementsVM == VM!Spec

\* Every placement ends, and every VM that came up is taken down and cleaned up
\* by its timeout at the latest.
EveryVMEnds ==
  \A s \in Sandboxes :
    ppc[s] # "none" ~> ppc[s] = "failed" \/ watcher[s] = "done"

\* overlay.go:8: "After sandbox exit the upper/ dir is wiped with a sha256
\* integrity check before the slot is marked idle".  A slot is taken while s is
\* in the map, by which Heartbeat and the pool's gauges count.
WipedBeforeIdle ==
  \A s \in Sandboxes : ppc[s] = "placed" /\ s \notin entries => tear[s] = "wiped"

\* LEARN.md:387: "`vmCtx` auto-kills it after `timeout_ms`."
TimeoutKills ==
  \A s \in Sandboxes : proc[s] = "alive" ~> proc[s] # "alive"
===============================================================================
