-------------------------------- MODULE AgentVM --------------------------------
(***************************************************************************)
(* What a host agent promises the control plane about the VM of a sandbox: *)
(* it is placed once, comes up or fails to, and once it is out it is out.  *)
(* HostAgent.tla implements this; ApiServer.tla is built on it.            *)
(***************************************************************************)
CONSTANT Sandboxes

\* "up": StartInstance returned and the sandbox is in the agent's map.  "dead":
\* it was, and a kill, its timeout or its own exit took it out.
VARIABLE vm

VMStates == {"none", "booting", "up", "dead", "unbootable"}

TypeOK == vm \in [Sandboxes -> VMStates]

Init == vm = [s \in Sandboxes |-> "none"]

Goes(s, from, to) ==
  /\ vm[s] = from
  /\ vm' = [vm EXCEPT ![s] = to]

PlaceArrives(s) == Goes(s, "none", "booting")
Boots(s)        == Goes(s, "booting", "up")
BootFails(s)    == Goes(s, "booting", "unbootable")
Ends(s)         == Goes(s, "up", "dead")

Next ==
  \E s \in Sandboxes : PlaceArrives(s) \/ Boots(s) \/ BootFails(s) \/ Ends(s)

Spec == Init /\ [][Next]_vm
===============================================================================
