----------------------------- MODULE ArchiveRegister -----------------------------
(***************************************************************************)
(* What a LocalStore promises of one key: the key holds nothing or one     *)
(* archive.  A Save replaces it at one instant, with the archive that its  *)
(* caller gave, or not at all; a Restore gets the archive the key held     *)
(* when it began, whatever becomes of the key; a crash ends the calls and  *)
(* leaves the key alone.  ArchiveStore.tla is shown to implement this.     *)
(***************************************************************************)
CONSTANTS
  Savers, Readers,   \* goroutines that Save under the key, and that Restore it
  Archives,          \* what can be saved
  NoArchive          \* none of it

VARIABLES
  value,       \* what the key holds
  saving,      \* saving[s]: what the Save of s has been given, while it runs
  restoring    \* restoring[r]: how the Restore of r stands, and what it reads

vars == <<value, saving, restoring>>

Idle == [pc |-> "idle", held |-> NoArchive]

Init ==
  /\ value = NoArchive
  /\ saving = [s \in Savers |-> NoArchive]
  /\ restoring = [r \in Readers |-> Idle]

BeginSave(s) ==
  /\ saving[s] = NoArchive
  /\ \E archive \in Archives : saving' = [saving EXCEPT ![s] = archive]
  /\ UNCHANGED <<value, restoring>>

EndsSave(s) ==
  /\ saving[s] # NoArchive
  /\ saving' = [saving EXCEPT ![s] = NoArchive]
  /\ UNCHANGED restoring

Commit(s)   == EndsSave(s) /\ value' = saving[s]
SaveFails(s) == EndsSave(s) /\ UNCHANGED value

BeginRestore(r) ==
  /\ restoring[r].pc # "reading" /\ value # NoArchive
  /\ restoring' = [restoring EXCEPT ![r] = [pc |-> "reading", held |-> value]]
  /\ UNCHANGED <<value, saving>>

\* All of the archive has been extracted, or writing it failed.
EndRestore(r) ==
  /\ restoring[r].pc = "reading"
  /\ \E pc \in {"restored", "idle"} :
       restoring' = [restoring EXCEPT ![r] = [Idle EXCEPT !.pc = pc]]
  /\ UNCHANGED <<value, saving>>

Delete ==
  /\ value' = NoArchive
  /\ UNCHANGED <<saving, restoring>>

Crash ==
  /\ saving' = [s \in Savers |-> NoArchive]
  /\ restoring' = [r \in Readers |-> Idle]
  /\ UNCHANGED value

Next ==
  \/ \E s \in Savers : BeginSave(s) \/ Commit(s) \/ SaveFails(s)
  \/ \E r \in Readers : BeginRestore(r) \/ EndRestore(r)
  \/ Delete \/ Crash

Spec == Init /\ [][Next]_vars
===============================================================================
