---------------------------- MODULE HostAgentProofs ----------------------------
(***************************************************************************)
(* What holds of the host agent for every set of sandboxes.                *)
(***************************************************************************)
EXTENDS HostAgent, TLAPS

\* The process exists from Start on, and watchVM is the only one to reap it.
ProcessFollows(s) ==
  /\ ppc[s] \in {"none", "called", "overlaid", "grouped", "prepared", "undoMount"}
       => proc[s] = "none"
  /\ ppc[s] \in {"started", "configured", "limited", "booted", "tracked", "placed"}
       => proc[s] # "none"
  /\ proc[s] = "reaped" <=> watcher[s] \in {"reaped", "untracked", "ungrouped", "done"}

\* AliveIsOwned and EntryIsWatched, of one sandbox.
Owned(s) ==
  /\ proc[s] = "alive" =>
       /\ timer[s] = "armed"
       /\ ppc[s] \in Building \/ s \in entries \cup killing
  /\ s \in entries =>
       \/ ppc[s] = "tracked"
       \/ ppc[s] = "placed" /\ watcher[s] \in {"waiting", "reaped"}

\* Which cgroup is left at which point of the building, the undoing and the
\* cleaning.
CgroupFollows(s) ==
  /\ ppc[s] \in {"none", "called", "overlaid"} => cgroup[s] = "none"
  /\ ppc[s] = "undoMount" => cgroup[s] # "made"
  /\ cgroup[s] = "half" => ppc[s] \in {"undoMount", "failed"} /\ proc[s] = "none"
  /\ ppc[s] = "failed" => (cgroup[s] = "made" => s \in limited)
  /\ watcher[s] \in {"ungrouped", "done"} => cgroup[s] = "none"

\* overlay.Teardown is under way where it is called and nowhere else, and how
\* far it is tells what is left of mount and layer.
OverlayFollows(s) ==
  /\ ppc[s] \in {"none", "called"} => s \notin mounted /\ upper[s] = "none"
  /\ tear[s] # "none" => InTeardown(s) \/ ppc[s] \in {"undoCgroup", "failed"}
                                      \/ watcher[s] = "done"
  /\ ppc[s] = "undoCgroup" \/ watcher[s] = "done" => TornDown(s)
  /\ ppc[s] = "failed" => \/ TornDown(s)
                          \/ tear[s] = "none" /\ s \notin mounted /\ upper[s] # "used"
  /\ s \in mounted => upper[s] = "used" /\ tear[s] \in {"none", "failed"}
  /\ tear[s] = "removed" => upper[s] = "none"
  /\ tear[s] = "wiped" => upper[s] = "empty"

AgentInv ==
  /\ TypeOK
  /\ \A s \in Sandboxes : 
       ProcessFollows(s) /\ Owned(s) /\ CgroupFollows(s) /\ OverlayFollows(s)

\* Every step of the agent keeps AgentInv.
LEMMA AgentInvStep == AgentInv /\ [Next]_vars => AgentInv'
<1> SUFFICES ASSUME AgentInv, [Next]_vars PROVE AgentInv'
  OBVIOUS
<1> USE DEF AgentInv, TypeOK, ProcessFollows, Owned, CgroupFollows,
            OverlayFollows, InTeardown, TornDown, overlayVars, placeVars,
            fileVars, procVars, Goes, Running, Building, Undoing,
            PlacePCs, Processes, WatcherPCs, TearPCs
<1>1. ASSUME NEW s \in Sandboxes, Call(s) PROVE AgentInv'
  BY <1>1 DEF Call
<1>2. ASSUME NEW s \in Sandboxes, SetupOverlay(s) PROVE AgentInv'
  BY <1>2 DEF SetupOverlay, LowerDirFails, OverlaySetup
<1>3. ASSUME NEW s \in Sandboxes, SetupCgroup(s) PROVE AgentInv'
  BY <1>3 DEF SetupCgroup
<1>4. ASSUME NEW s \in Sandboxes, PrepareDisk(s) PROVE AgentInv'
  BY <1>4 DEF PrepareDisk
<1>5. ASSUME NEW s \in Sandboxes, StartFirecracker(s) PROVE AgentInv'
  BY <1>5 DEF StartFirecracker
<1>6. ASSUME NEW s \in Sandboxes, Configure(s) PROVE AgentInv'
  BY <1>6 DEF Configure
<1>7. ASSUME NEW s \in Sandboxes, AddPID(s) PROVE AgentInv'
  BY <1>7 DEF AddPID
<1>8. ASSUME NEW s \in Sandboxes, Boot(s) PROVE AgentInv'
  BY <1>8 DEF Boot
<1>9. ASSUME NEW s \in Sandboxes, GiveUp(s) PROVE AgentInv'
  BY <1>9 DEF GiveUp, Kill
<1>10. ASSUME NEW s \in Sandboxes, UndoOverlay(s) PROVE AgentInv'
  BY <1>10 DEF UndoOverlay
<1>11. ASSUME NEW s \in Sandboxes, UndoCgroup(s) PROVE AgentInv'
  BY <1>11 DEF UndoCgroup, CgroupTeardown
<1>12. ASSUME NEW s \in Sandboxes, Track(s) PROVE AgentInv'
  BY <1>12 DEF Track
<1>13. ASSUME NEW s \in Sandboxes, Watch(s) PROVE AgentInv'
  BY <1>13 DEF Watch
<1>14. ASSUME NEW s \in Sandboxes, TimerFires(s) PROVE AgentInv'
  BY <1>14 DEF TimerFires, Kill
<1>15. ASSUME NEW s \in Sandboxes, Exits(s, "alive") \/ Exits(s, "signalled")
      PROVE  AgentInv'
  BY <1>15 DEF Exits
<1>16. ASSUME NEW s \in Sandboxes, Untrack(s) PROVE AgentInv'
  BY <1>16 DEF Untrack
<1>17. ASSUME NEW s \in Sandboxes, Cancel(s) PROVE AgentInv'
  BY <1>17 DEF Cancel, Kill
<1>18. ASSUME NEW s \in Sandboxes, Wait(s) PROVE AgentInv'
  BY <1>18 DEF Wait, Watching
<1>19. ASSUME NEW s \in Sandboxes, Forget(s) PROVE AgentInv'
  BY <1>19 DEF Forget, Watching
<1>20. ASSUME NEW s \in Sandboxes, CleanCgroup(s) PROVE AgentInv'
  BY <1>20 DEF CleanCgroup, Watching, CgroupTeardown
<1>21. ASSUME NEW s \in Sandboxes, CleanOverlay(s) PROVE AgentInv'
  BY <1>21 DEF CleanOverlay, Watching
<1>22. ASSUME NEW s \in Sandboxes, Unmount(s) PROVE AgentInv'
  BY <1>22 DEF Unmount, Tears
<1>23. ASSUME NEW s \in Sandboxes, RemoveUpper(s) PROVE AgentInv'
  BY <1>23 DEF RemoveUpper, Tears
<1>24. ASSUME NEW s \in Sandboxes, RecreateUpper(s) PROVE AgentInv'
  BY <1>24 DEF RecreateUpper, Tears
<1>25. ASSUME NEW s \in Sandboxes, VerifyUpper(s) PROVE AgentInv'
  BY <1>25 DEF VerifyUpper, Tears
<1>26. CASE UNCHANGED vars
  BY <1>26 DEF vars
<1> QED
  BY <1>1, <1>2, <1>3, <1>4, <1>5, <1>6, <1>7, <1>8, <1>9, <1>10, <1>11, <1>12,
     <1>13, <1>14, <1>15, <1>16, <1>17, <1>18, <1>19, <1>20, <1>21, <1>26, <1>22,
     <1>23, <1>24, <1>25
  DEF Next, Place, WatchVM, OverlayTeardown

\* The agent starts in AgentInv.
LEMMA AgentInvInit == Init => AgentInv
BY DEF Init, AgentInv, TypeOK, ProcessFollows, Owned, CgroupFollows, OverlayFollows,
       InTeardown, TornDown, Building, PlacePCs, Processes, WatcherPCs, TearPCs

\* AgentInv is an invariant, for every set of sandboxes.
THEOREM AgentInvariant == Spec => []AgentInv
BY AgentInvInit, AgentInvStep, PTL DEF Spec

\* Type correctness of the agent.
THEOREM AgentTypeCorrect == Spec => []TypeOK
<1>1. AgentInv => TypeOK
  BY DEF AgentInv
<1> QED
  BY <1>1, AgentInvariant, PTL

\* No Firecracker process runs unaccounted for.
THEOREM ProcessesAreOwned == Spec => []AliveIsOwned
<1>1. AgentInv => AliveIsOwned
  BY DEF AgentInv, Owned, AliveIsOwned
<1> QED
  BY <1>1, AgentInvariant, PTL

\* No entry of the map outlives the goroutine that removes it.
THEOREM EntriesAreWatched == Spec => []EntryIsWatched
<1>1. AgentInv => EntryIsWatched
  BY DEF AgentInv, TypeOK, ProcessFollows, Owned, EntryIsWatched, WatcherPCs
<1> QED
  BY <1>1, AgentInvariant, PTL

\* When watchVM is over the process is reaped, entry and cgroup are gone, and
\* the writable layer is wiped and unmounted, unless overlay.Teardown returned
\* an error; even then the layer of a mount that stays has not been touched.
THEOREM WatchersClean == Spec => []WatchedIsCleaned
<1>1. AgentInv => WatchedIsCleaned
  BY DEF AgentInv, TypeOK, ProcessFollows, Owned, CgroupFollows, OverlayFollows,
         WatchedIsCleaned
<1> QED
  BY <1>1, AgentInvariant, PTL

\* A failed placement leaves a mount or an unwiped layer only after an error of
\* overlay.Teardown, and a cgroup only half made or with the process in it.
THEOREM FailuresAreUndone == Spec => []FailureUndone
<1>1. AgentInv => FailureUndone
  BY DEF AgentInv, CgroupFollows, OverlayFollows, TornDown, FailureUndone
<1> QED
  BY <1>1, AgentInvariant, PTL

-------------------------------------------------------------------------------
(* The agent implements AgentVM.                                           *)

\* What the control plane can tell of one VM, spelled out.
BarIs(s) ==
  /\ ppc[s] = "none" => vmBar[s] = "none"
  /\ ppc[s] \in Building => vmBar[s] = "booting"
  /\ s \in entries => vmBar[s] = "up"
  /\ ppc[s] \in Undoing \cup {"failed"} => vmBar[s] = "unbootable"
  /\ ppc[s] \in {"tracked", "placed"} /\ s \notin entries => vmBar[s] = "dead"
  /\ s \in entries => ppc[s] \in {"tracked", "placed"}

\* The definition of vmBar says so in every state of the agent.
LEMMA BarValue == AgentInv => \A s \in Sandboxes : BarIs(s)
BY DEF AgentInv, TypeOK, Owned, vmBar, Building, Undoing, PlacePCs, BarIs

\* A step about s moves the abstract VM of s only.
LEMMA BarMoves ==
  ASSUME NEW s \in Sandboxes,
         \A z \in Sandboxes \ {s} :
           ppc'[z] = ppc[z] /\ (z \in entries' <=> z \in entries)
  PROVE  /\ vmBar' = [vmBar EXCEPT ![s] = vmBar'[s]]
         /\ vmBar'[s] = vmBar[s] => vmBar' = vmBar
<1>1. \A z \in Sandboxes \ {s} : vmBar'[z] = vmBar[z]
  BY DEF vmBar
<1>2. /\ vmBar = [z \in Sandboxes |-> vmBar[z]]
      /\ vmBar' = [z \in Sandboxes |-> vmBar'[z]]
  BY DEF vmBar
<1> QED
  BY <1>1, <1>2

\* Every step of the agent is a step of AgentVM, or one the control plane does
\* not see.
LEMMA AgentRefines == AgentInv /\ AgentInv' /\ [Next]_vars => [VM!Next]_vmBar
<1> SUFFICES ASSUME AgentInv, AgentInv', [Next]_vars PROVE [VM!Next]_vmBar
  OBVIOUS
<1>1. ASSUME UNCHANGED <<ppc, entries>> PROVE vmBar' = vmBar
  BY <1>1 DEF vmBar
<1>2. ASSUME NEW s \in Sandboxes,
             \A z \in Sandboxes \ {s} :
               ppc'[z] = ppc[z] /\ (z \in entries' <=> z \in entries),
             \/ vmBar[s] = "none" /\ vmBar'[s] = "booting"
             \/ vmBar[s] = "booting" /\ vmBar'[s] \in {"up", "unbootable"}
             \/ vmBar[s] = "up" /\ vmBar'[s] = "dead"
             \/ vmBar'[s] = vmBar[s]
      PROVE  [VM!Next]_vmBar
  BY <1>2, BarMoves DEF VM!Next, VM!PlaceArrives, VM!Boots, VM!BootFails,
                        VM!Ends, VM!Goes
<1>3. \A s \in Sandboxes : BarIs(s) /\ BarIs(s)'
  <2>1. \A s \in Sandboxes : BarIs(s)
    BY BarValue
  <2>2. \A s \in Sandboxes : BarIs(s)'
    BY DEF AgentInv, TypeOK, Owned, vmBar, Building, Undoing, PlacePCs, BarIs
  <2> QED
    BY <2>1, <2>2
<1>4. ppc \in [Sandboxes -> PlacePCs] /\ entries \subseteq Sandboxes
  BY DEF AgentInv, TypeOK
<1> USE <1>3, <1>4 DEF BarIs, placeVars, Goes, Building, Undoing
<1>5. ASSUME NEW s \in Sandboxes, Call(s) PROVE [VM!Next]_vmBar
  BY <1>2, <1>5 DEF Call
<1>6. ASSUME NEW s \in Sandboxes, SetupOverlay(s) PROVE [VM!Next]_vmBar
  BY <1>2, <1>6 DEF SetupOverlay, LowerDirFails, OverlaySetup
<1>7. ASSUME NEW s \in Sandboxes, SetupCgroup(s) PROVE [VM!Next]_vmBar
  BY <1>2, <1>7 DEF SetupCgroup
<1>8. ASSUME NEW s \in Sandboxes, PrepareDisk(s) PROVE [VM!Next]_vmBar
  BY <1>2, <1>8 DEF PrepareDisk
<1>9. ASSUME NEW s \in Sandboxes, StartFirecracker(s) PROVE [VM!Next]_vmBar
  BY <1>2, <1>9 DEF StartFirecracker
<1>10. ASSUME NEW s \in Sandboxes, Configure(s) PROVE [VM!Next]_vmBar
  BY <1>2, <1>10 DEF Configure
<1>11. ASSUME NEW s \in Sandboxes, AddPID(s) PROVE [VM!Next]_vmBar
  BY <1>2, <1>11 DEF AddPID
<1>12. ASSUME NEW s \in Sandboxes, Boot(s) PROVE [VM!Next]_vmBar
  BY <1>2, <1>12 DEF Boot
<1>13. ASSUME NEW s \in Sandboxes, GiveUp(s) PROVE [VM!Next]_vmBar
  BY <1>2, <1>13 DEF GiveUp
<1>14. ASSUME NEW s \in Sandboxes, UndoOverlay(s) PROVE [VM!Next]_vmBar
  BY <1>2, <1>14 DEF UndoOverlay
<1>15. ASSUME NEW s \in Sandboxes, UndoCgroup(s) PROVE [VM!Next]_vmBar
  BY <1>2, <1>15 DEF UndoCgroup
<1>16. ASSUME NEW s \in Sandboxes, Track(s) PROVE [VM!Next]_vmBar
  BY <1>2, <1>16 DEF Track
<1>17. ASSUME NEW s \in Sandboxes, Watch(s) PROVE [VM!Next]_vmBar
  BY <1>2, <1>17 DEF Watch
<1>18. ASSUME NEW s \in Sandboxes, Untrack(s) PROVE [VM!Next]_vmBar
  BY <1>2, <1>18 DEF Untrack
<1>19. ASSUME NEW s \in Sandboxes, Forget(s) PROVE [VM!Next]_vmBar
  <2>1. ppc[s] = "placed"
    BY <1>19 DEF Forget, Watching, AgentInv, TypeOK
  <2>2. vmBar'[s] = vmBar[s] \/ (vmBar[s] = "up" /\ vmBar'[s] = "dead")
    BY <1>19, <2>1 DEF Forget, Watching
  <2> QED
    BY <1>2, <1>19, <2>2 DEF Forget, Watching
<1>20. ASSUME NEW s \in Sandboxes,
             \/ TimerFires(s) \/ Exits(s, "alive") \/ Exits(s, "signalled")
             \/ Cancel(s) \/ Wait(s) \/ CleanCgroup(s) \/ CleanOverlay(s)
             \/ OverlayTeardown(s)
      PROVE  [VM!Next]_vmBar
  BY <1>1, <1>20 DEF TimerFires, Exits, Cancel, Wait, CleanCgroup, CleanOverlay,
                    Watching, OverlayTeardown, Unmount, RemoveUpper, RecreateUpper,
                    VerifyUpper, Tears
<1>21. CASE UNCHANGED vars
  BY <1>1, <1>21 DEF vars
<1> QED
  BY <1>5, <1>6, <1>7, <1>8, <1>9, <1>10, <1>11, <1>12, <1>13, <1>14, <1>15,
     <1>16, <1>17, <1>18, <1>19, <1>20, <1>21
  DEF Next, Place, WatchVM

\* The agent does to a VM what AgentVM says, so ApiServer.tla, which is built on
\* AgentVM, sees every behaviour of it.
THEOREM AgentImplementsVM == Spec => ImplementsVM
<1>1. Init => VM!Init
  BY DEF Init, VM!Init, vmBar, Building, Undoing
<1> QED
  BY <1>1, AgentRefines, AgentInvariant, PTL DEF Spec, ImplementsVM, VM!Spec
===============================================================================
