------------------------------- MODULE RemoteExec -------------------------------
(***************************************************************************)
(* What the exec requests of one sandbox come to, whatever the three hops  *)
(* between a caller and the guest do: the command of a request that was    *)
(* sent runs at most once, alone, and perhaps for a caller that has given  *)
(* up; the command of a request that was refused never runs; and an answer *)
(* is that of the caller's own command, run to its end.  ExecPath.tla is   *)
(* shown to implement this.                                                *)
(***************************************************************************)
CONSTANT
  Calls        \* exec requests for the sandbox

VARIABLES
  caller,      \* caller[c]: what the one who asked knows
  command      \* command[c]: what became of the command

vars == <<caller, command>>

Callers  == {"idle", "waiting", "refused", "answered", "gaveUp"}
Commands == {"none", "running", "done", "lost"}

Init ==
  /\ caller  = [c \in Calls |-> "idle"]
  /\ command = [c \in Calls |-> "none"]

Learns(c, from, to) ==
  /\ caller[c] = from
  /\ caller' = [caller EXCEPT ![c] = to]
  /\ UNCHANGED command

Becomes(c, from, to) ==
  /\ command[c] = from
  /\ command' = [command EXCEPT ![c] = to]
  /\ UNCHANGED caller

Sent(c) == caller[c] \notin {"idle", "refused"}

Ask(c)    == Learns(c, "idle", "waiting")
Refuse(c) == Learns(c, "idle", "refused")
GiveUp(c) == Learns(c, "waiting", "gaveUp")
Answer(c) == command[c] = "done" /\ Learns(c, "waiting", "answered")

Start(c) ==
  /\ Sent(c) /\ \A d \in Calls : command[d] # "running"
  /\ Becomes(c, "none", "running")

End(c) == Becomes(c, "running", "done")

\* Connections are dropped, with commands that run or wait for their turn.
Lose(lost) ==
  /\ \A c \in lost : Sent(c) /\ command[c] \in {"none", "running"}
  /\ command' = [c \in Calls |-> IF c \in lost THEN "lost" ELSE command[c]]
  /\ UNCHANGED caller

Next ==
  \/ \E c \in Calls : \/ Ask(c) \/ Refuse(c) \/ GiveUp(c) \/ Answer(c)
                      \/ Start(c) \/ End(c)
  \/ \E lost \in SUBSET Calls : Lose(lost)

Spec == Init /\ [][Next]_vars
===============================================================================
