--------------------------- MODULE SandboxLifecycle ---------------------------
(***************************************************************************)
(* What the control plane promises about one sandbox, whatever the queue,  *)
(* the dispatcher, the placement goroutines and the API handlers do: it    *)
(* is admitted once, assigned one host for good, tried on that host once,  *)
(* and ends at most once.  Scheduler.tla is shown to implement this.       *)
(***************************************************************************)
CONSTANTS
  Sandboxes,   \* sandbox IDs
  Hosts,       \* host IDs
  NoHost       \* the empty HostID

VARIABLES
  phase,       \* phase[s]: what a client polling GET /v1/sandboxes/{id} sees
  home         \* home[s]: the host s was assigned, NoHost before that

vars == <<phase, home>>

Phases == {"absent", "queued", "provisioning", "running",
           "draining", "failed"}

Init ==
  /\ phase = [s \in Sandboxes |-> "absent"]
  /\ home  = [s \in Sandboxes |-> NoHost]

Goes(s, from, to) ==
  /\ phase[s] = from
  /\ phase' = [phase EXCEPT ![s] = to]

\* A request is admitted.
Admit(s) == Goes(s, "absent", "queued") /\ UNCHANGED home

\* The request waited past its deadline, and no host ever heard of it.
Expire(s) == Goes(s, "queued", "failed") /\ UNCHANGED home

\* The one and only assignment of a host.
Assign(s, h) ==
  /\ Goes(s, "queued", "provisioning")
  /\ home' = [home EXCEPT ![s] = h]

\* The assigned host did, or did not, bring the VM up.
ComeUp(s)     == Goes(s, "provisioning", "running") /\ UNCHANGED home
FailToBoot(s) == Goes(s, "provisioning", "failed")  /\ UNCHANGED home

\* A client's kill was accepted: only for a sandbox that is up, only once.
Drain(s) == Goes(s, "running", "draining") /\ UNCHANGED home

Next ==
  \E s \in Sandboxes :
    \/ Admit(s)
    \/ Expire(s)
    \/ \E h \in Hosts : Assign(s, h)
    \/ ComeUp(s)
    \/ FailToBoot(s)
    \/ Drain(s)

Spec == Init /\ [][Next]_vars
===============================================================================
