------------------------------ MODULE QuotaStore ------------------------------
(***************************************************************************)
(* internal/quota, MemoryStore: one tenant's concurrency counter.  Acquire *)
(* and Release are each two separate atomic operations on it, so each is   *)
(* two steps here, and calls of other goroutines fall in between.          *)
(* authenticate knows a single tenant, hence a single counter.             *)
(***************************************************************************)
EXTENDS Integers

CONSTANTS
  Callers,     \* goroutines that call the store
  Limit        \* the limit Acquire is called with

ASSUME LimitAssumption == Limit \in Nat \ {0}

VARIABLES
  count,       \* *counters[tenant]
  qpc          \* qpc[c]: between the two halves of which call c is

quotaVars == <<count, qpc>>

QuotaPCs == {"none", "over", "positive"}

QuotaTypeOK == count \in Int /\ qpc \in [Callers -> QuotaPCs]

QuotaInit == count = 0 /\ qpc = [c \in Callers |-> "none"]

Granted_OneMore == count <= Limit

\* The value AddInt64 returned decides; a second add undoes a refusal.
Granted == count + 1 <= Limit

AcquireAdd(c) ==
  /\ qpc[c] = "none"
  /\ count' = count + 1
  /\ qpc' = [qpc EXCEPT ![c] = IF Granted THEN "none" ELSE "over"]

AcquireRollback_Forgotten(c) ==
  /\ qpc[c] = "over"
  /\ qpc' = [qpc EXCEPT ![c] = "none"]
  /\ UNCHANGED count

AcquireRollback(c) ==
  /\ qpc[c] = "over"
  /\ count' = count - 1
  /\ qpc' = [qpc EXCEPT ![c] = "none"]

\* LoadInt64 > 0, then AddInt64(-1), whatever the counter is by then.
ReleaseLoad(c) ==
  /\ qpc[c] = "none"
  /\ qpc' = [qpc EXCEPT ![c] = IF count > 0 THEN "positive" ELSE "none"]
  /\ UNCHANGED count

ReleaseDec(c) ==
  /\ qpc[c] = "positive"
  /\ count' = count - 1
  /\ qpc' = [qpc EXCEPT ![c] = "none"]
===============================================================================
