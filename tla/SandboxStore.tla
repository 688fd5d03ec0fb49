----------------------------- MODULE SandboxStore -----------------------------
(***************************************************************************)
(* internal/state: the in-memory registry of sandbox records and the state *)
(* machine every change of state goes through.  Each operation of Store    *)
(* holds Store.mu from its first to its last line, so each is one atomic   *)
(* update of `records'; the callers' own steps are in the modules that     *)
(* extend this one.                                                        *)
(***************************************************************************)
EXTENDS Naturals

CONSTANTS
  Sandboxes,   \* the sandbox IDs id.NewSandbox may draw
  Hosts,       \* the host IDs that may be registered
  NoHost       \* HostID = "": no host assigned yet

ASSUME NoHostAssumption == NoHost \notin Hosts

VARIABLE
  records      \* Store.records; a key that is not in the map is "absent"

States == {"queued", "provisioning", "running",
           "draining", "terminated", "failed"}

validTransitions_KillQueued ==
  [queued       |-> {"provisioning", "failed", "draining"},
   provisioning |-> {"running", "failed"},
   running      |-> {"draining", "failed"},
   draining     |-> {"terminated"},
   terminated   |-> {},
   failed       |-> {}]

\* The table of legal moves.
validTransitions ==
  [queued       |-> {"provisioning", "failed"},
   provisioning |-> {"running", "failed"},
   running      |-> {"draining", "failed"},
   draining     |-> {"terminated"},
   terminated   |-> {},
   failed       |-> {}]

IsTerminal(st) == validTransitions[st] = {}

\* vsock: SetVsockCID has stored the guest's exec endpoint.
Record == [state : States \cup {"absent"},
           host  : Hosts \cup {NoHost},
           vsock : BOOLEAN]

Absent == [state |-> "absent", host |-> NoHost, vsock |-> FALSE]
Fresh  == [state |-> "queued", host |-> NoHost, vsock |-> FALSE]

StoreInit == records = [s \in Sandboxes |-> Absent]

Exists(s) == records[s].state # "absent"

\* Store.Create: refuses an ID that is taken, and always starts in queued.
Create(s) ==
  records' = IF Exists(s) THEN records ELSE [records EXCEPT ![s] = Fresh]

\* Store.Transition: a compare-and-set that is also checked against the
\* table.  TransitionOK is its nil error.
TransitionOK(s, expectedCurrent, newState) ==
  /\ Exists(s)
  /\ records[s].state = expectedCurrent
  /\ newState \in validTransitions[expectedCurrent]

Transition(s, expectedCurrent, newState) ==
  records' = IF TransitionOK(s, expectedCurrent, newState)
             THEN [records EXCEPT ![s].state = newState]
             ELSE records

SetHostID(s, h) ==
  records' = IF Exists(s) THEN [records EXCEPT ![s].host = h] ELSE records

SetVsockCID(s) ==
  records' = IF Exists(s) THEN [records EXCEPT ![s].vsock = TRUE] ELSE records
===============================================================================
