----------------------------- MODULE ExecPathProofs -----------------------------
(***************************************************************************)
(* Whatever number of exec requests the clients make of a sandbox, however *)
(* long their commands take and whoever gives up on whom: the guest serves *)
(* one connection at a time and each of them once, no command runs for a   *)
(* request that was refused, or twice, and what a caller is told is what   *)
(* its own command came to.                                                *)
(***************************************************************************)
EXTENDS ExecPath, SequenceTheorems, TLAPS

\* One hop goes ahead of the next: nothing is dialed for a request the API has
\* not sent, no connection is there before the dial, a handler waits only for
\* what it dialed, and has an answer only when the command replied.
HopsOK(c) ==
  /\ apc[c] \in {"idle", "checked"} => apiLeft[c] = Unarmed
  /\ apc[c] \in {"calling", "answered", "broken", "timedOut"} => apiLeft[c] # Unarmed
  /\ hpc[c] # "none" => apiLeft[c] # Unarmed
  /\ hpc[c] \in {"none", "dialing"} => guest[c] = "none"
  /\ hpc[c] \in {"waiting", "ok"} => guest[c] # "none"
  /\ guest[c] = "replied" => hpc[c] \in {"waiting", "ok", "error"}
  /\ hpc[c] = "ok" => guest[c] = "replied"
  /\ apc[c] = "answered" => hpc[c] = "ok"

ExecInv == ExecTypeOK /\ \A c \in Calls : HopsOK(c)

\* ExecTypeOK in three parts: what each hop keeps, the accept queue, and the
\* connection that is being served.
HopsTyped ==
  /\ running \in BOOLEAN /\ tracked \in BOOLEAN /\ vm \in BOOLEAN
  /\ budget \in [Calls -> Timeouts \cup {0}]
  /\ apc \in [Calls -> ApiPCs]
  /\ apiLeft \in [Calls -> Nat \cup {Unarmed}]
  /\ hpc \in [Calls -> HostPCs]
  /\ hostLeft \in [Calls -> Nat \cup {Unarmed}]
  /\ guest \in [Calls -> GuestPCs]
  /\ child \in ChildPCs /\ ran \in Nat

BacklogOK ==
  /\ backlog \in Seq(Calls)
  /\ {backlog[i] : i \in DOMAIN backlog} = {c \in Calls : guest[c] = "queued"}
  /\ \A i, j \in DOMAIN backlog : backlog[i] = backlog[j] => i = j
  /\ ~vm => backlog = <<>>

ServingOK ==
  /\ child = "none" <=> Serving = {}
  /\ \A c, d \in Serving : c = d
  /\ ~vm => Serving = {}

LEMMA ExecInvParts ==
  /\ ExecInv => HopsTyped /\ BacklogOK /\ ServingOK /\ \A c \in Calls : HopsOK(c)
  /\ HopsTyped /\ BacklogOK /\ ServingOK /\ (\A c \in Calls : HopsOK(c)) => ExecInv
  /\ (HopsTyped /\ BacklogOK /\ ServingOK /\ \A c \in Calls : HopsOK(c))' => ExecInv'
BY DEF ExecInv, ExecTypeOK, HopsTyped, BacklogOK, ServingOK

\* What no step outside the guest disturbs.
LEMMA GuestAlone ==
  ASSUME BacklogOK, ServingOK, UNCHANGED <<guest, backlog, child, vm>>
  PROVE  BacklogOK' /\ ServingOK'
BY DEF BacklogOK, ServingOK, Serving

-------------------------------------------------------------------------------
(* The accept queue.                                                       *)

\* A connection that was not in the queue joins it at its end.
LEMMA AppendQueues ==
  ASSUME NEW q \in Seq(Calls), NEW c \in Calls,
         \A i \in DOMAIN q : q[i] # c,
         \A i, j \in DOMAIN q : q[i] = q[j] => i = j
  PROVE  /\ Append(q, c) \in Seq(Calls)
         /\ {Append(q, c)[i] : i \in DOMAIN Append(q, c)} = {q[i] : i \in DOMAIN q} \cup {c}
         /\ \A i, j \in DOMAIN Append(q, c) :
              Append(q, c)[i] = Append(q, c)[j] => i = j
<1> DEFINE r == Append(q, c)
<1>1. /\ r \in Seq(Calls) /\ Len(q) \in Nat /\ DOMAIN q = 1..Len(q)
      /\ Len(r) = Len(q) + 1 /\ DOMAIN r = 1..(Len(q) + 1)
      /\ \A i \in 1..Len(q) : r[i] = q[i]
      /\ r[Len(q) + 1] = c
  BY AppendProperties, LenProperties
<1> HIDE DEF r
<1>2. {r[i] : i \in DOMAIN r} = {q[i] : i \in DOMAIN q} \cup {c}
  BY <1>1
<1>3. ASSUME NEW i \in DOMAIN r, NEW j \in DOMAIN r, r[i] = r[j] PROVE i = j
  BY <1>1, <1>3
<1> QED
  BY <1>1, <1>2, <1>3 DEF r

\* The head leaves the queue, and nothing else does.
LEMMA TailDequeues ==
  ASSUME NEW q \in Seq(Calls), q # <<>>,
         \A i, j \in DOMAIN q : q[i] = q[j] => i = j
  PROVE  /\ Tail(q) \in Seq(Calls) /\ Head(q) \in Calls
         /\ \E i \in DOMAIN q : Head(q) = q[i]
         /\ {Tail(q)[i] : i \in DOMAIN Tail(q)} = {q[i] : i \in DOMAIN q} \ {Head(q)}
         /\ \A i, j \in DOMAIN Tail(q) : Tail(q)[i] = Tail(q)[j] => i = j
<1> DEFINE r == Tail(q)
<1>1. /\ r \in Seq(Calls) /\ Len(q) \in Nat \ {0} /\ DOMAIN q = 1..Len(q)
      /\ Len(r) = Len(q) - 1 /\ DOMAIN r = 1..(Len(q) - 1)
      /\ \A i \in 1..(Len(q) - 1) : r[i] = q[i + 1]
      /\ Head(q) = q[1] /\ q[1] \in Calls
  BY HeadTailProperties, LenProperties, EmptySeq
<1> HIDE DEF r
<1>2. {r[i] : i \in DOMAIN r} = {q[i] : i \in DOMAIN q} \ {q[1]}
  <2>1. ASSUME NEW i \in DOMAIN r PROVE r[i] \in {q[j] : j \in DOMAIN q} \ {q[1]}
    BY <1>1
  <2>2. ASSUME NEW j \in DOMAIN q, q[j] # q[1] PROVE q[j] \in {r[i] : i \in DOMAIN r}
    <3>1. j - 1 \in DOMAIN r /\ r[j - 1] = q[j]
      BY <1>1, <2>2
    <3> QED
      BY <3>1
  <2> QED
    BY <2>1, <2>2
<1>3. ASSUME NEW i \in DOMAIN r, NEW j \in DOMAIN r, r[i] = r[j] PROVE i = j
  BY <1>1, <1>3
<1> QED
  <2>1. Head(q) = q[1] /\ 1 \in DOMAIN q
    BY <1>1
  <2> QED
    BY <1>1, <1>2, <1>3, <2>1 DEF r

-------------------------------------------------------------------------------
(* The steps.                                                              *)

LEMMA ExecInit == Init => ExecInv
<1> SUFFICES ASSUME Init PROVE ExecInv
  OBVIOUS
<1>1. HopsTyped
  BY DEF Init, HopsTyped, ApiPCs, HostPCs, GuestPCs, ChildPCs, Unarmed
<1>2. BacklogOK
  BY DEF Init, BacklogOK
<1>3. ServingOK
  BY DEF Init, ServingOK, Serving
<1>4. \A c \in Calls : HopsOK(c)
  BY DEF Init, HopsOK, Unarmed
<1> QED
  BY <1>1, <1>2, <1>3, <1>4, ExecInvParts

LEMMA AllowedIsNat == \A timeout \in Timeouts \cup {0} : Allowed(timeout) \in Nat
BY TimeoutsAssumption, GraceAssumption DEF Allowed

\* The API's steps.
LEMMA ApiStepKeeps ==
  ASSUME ExecInv, NEW c \in Calls,
         \/ \E timeout \in Timeouts : HandleExec(c, timeout)
         \/ ExecCall(c) \/ ApiReads(c) \/ ApiTimesOut(c) \/ ApiBreaks(c)
  PROVE  ExecInv'
<1>1. /\ HopsTyped /\ BacklogOK /\ ServingOK /\ \A d \in Calls : HopsOK(d)
      /\ UNCHANGED <<hostVars, guestVars, vmVars>>
  BY ExecInvParts DEF HandleExec, ExecCall, ApiReads, ApiTimesOut, ApiBreaks
<1>2. HopsTyped'
  <2>1. ASSUME NEW timeout \in Timeouts, HandleExec(c, timeout) PROVE HopsTyped'
    BY <1>1, <2>1 DEF HandleExec, ApiGoes, HopsTyped, ApiPCs, hostVars, guestVars, vmVars
  <2>2. CASE ExecCall(c)
    <3>1. Allowed(budget[c]) \in Nat
      BY <1>1, AllowedIsNat DEF HopsTyped
    <3> QED
      BY <1>1, <2>2, <3>1 DEF ExecCall, ApiGoes, HopsTyped, ApiPCs, hostVars, guestVars, vmVars
  <2>3. CASE ApiReads(c) \/ ApiTimesOut(c) \/ ApiBreaks(c)
    BY <1>1, <2>3 DEF ApiReads, ApiTimesOut, ApiBreaks, ApiGoes, HopsTyped, ApiPCs,
                      hostVars, guestVars, vmVars
  <2> QED
    BY <2>1, <2>2, <2>3
<1>3. BacklogOK' /\ ServingOK'
  BY <1>1, GuestAlone DEF guestVars, vmVars
<1>4. ASSUME NEW d \in Calls PROVE HopsOK(d)'
  <2>1. CASE d # c
    <3>1. apc'[d] = apc[d] /\ apiLeft'[d] = apiLeft[d]
      BY <1>1, <2>1 DEF HandleExec, ExecCall, ApiReads, ApiTimesOut, ApiBreaks, ApiGoes,
                        HopsTyped
    <3> QED
      BY <1>1, <3>1 DEF HopsOK, hostVars, guestVars
  <2>2. CASE d = c
    <3>1. ASSUME NEW timeout \in Timeouts, HandleExec(c, timeout) PROVE HopsOK(c)'
      BY <1>1, <3>1 DEF HandleExec, ApiGoes, HopsTyped, HopsOK, hostVars, guestVars
    <3>2. CASE ExecCall(c)
      <4>1. Allowed(budget[c]) # Unarmed
        BY <1>1, AllowedIsNat DEF HopsTyped, Unarmed
      <4> QED
        BY <1>1, <3>2, <4>1 DEF ExecCall, ApiGoes, HopsTyped, HopsOK, hostVars, guestVars
    <3>3. CASE ApiReads(c) \/ ApiTimesOut(c) \/ ApiBreaks(c)
      BY <1>1, <3>3 DEF ApiReads, ApiTimesOut, ApiBreaks, ApiGoes, HopsTyped, HopsOK,
                        hostVars, guestVars
    <3> QED
      BY <2>2, <3>1, <3>2, <3>3
  <2> QED
    BY <2>1, <2>2
<1> QED
  BY <1>2, <1>3, <1>4, ExecInvParts

\* The host agent's steps but the dial.
LEMMA HostStepKeeps ==
  ASSUME ExecInv, NEW c \in Calls,
         FindEntry(c) \/ DialFails(c) \/ HostReads(c) \/ HostTimesOut(c)
  PROVE  ExecInv'
<1>1. /\ HopsTyped /\ BacklogOK /\ ServingOK /\ \A d \in Calls : HopsOK(d)
      /\ UNCHANGED <<apiVars, hostLeft, guestVars, vmVars>>
  BY ExecInvParts DEF FindEntry, DialFails, HostReads, HostTimesOut
<1>2. HopsTyped'
  BY <1>1 DEF FindEntry, DialFails, HostReads, HostTimesOut, HostGoes, HopsTyped, HostPCs,
              apiVars, guestVars, vmVars
<1>3. BacklogOK' /\ ServingOK'
  BY <1>1, GuestAlone DEF guestVars, vmVars
<1>4. ASSUME NEW d \in Calls PROVE HopsOK(d)'
  BY <1>1 DEF FindEntry, DialFails, HostReads, HostTimesOut, HostGoes, HopsTyped, HopsOK,
              apiVars, guestVars
<1> QED
  BY <1>2, <1>3, <1>4, ExecInvParts

\* The dial puts a connection that was not there at the end of the queue.
LEMMA DialKeeps ==
  ASSUME ExecInv, NEW c \in Calls, Dial(c)
  PROVE  ExecInv'
<1>1. /\ HopsTyped /\ BacklogOK /\ ServingOK /\ \A d \in Calls : HopsOK(d)
  BY ExecInvParts
<1>2. /\ vm /\ hpc[c] = "dialing" /\ guest[c] = "none"
      /\ hpc' = [hpc EXCEPT ![c] = "waiting"]
      /\ guest' = [guest EXCEPT ![c] = "queued"]
      /\ backlog' = Append(backlog, c)
      /\ hostLeft' = [hostLeft EXCEPT ![c] = budget[c] + Grace]
      /\ UNCHANGED <<apiVars, child, ran, vmVars>>
  BY <1>1 DEF Dial, HostGoes, HopsOK
<1>3. HopsTyped'
  <2>1. budget[c] + Grace \in Nat
    <3>1. budget[c] \in Timeouts \cup {0}
      BY <1>1 DEF HopsTyped
    <3>2. \A timeout \in Timeouts \cup {0} : timeout \in Nat
      BY TimeoutsAssumption
    <3> QED
      BY <3>1, <3>2, GraceAssumption
  <2> QED
    BY <1>1, <1>2, <2>1 DEF HopsTyped, HostPCs, GuestPCs, apiVars, vmVars
<1>4. BacklogOK'
  <2>1. \A i \in DOMAIN backlog : backlog[i] # c
    BY <1>1, <1>2 DEF BacklogOK
  <2>2. backlog \in Seq(Calls) /\ \A i, j \in DOMAIN backlog : backlog[i] = backlog[j] => i = j
    BY <1>1 DEF BacklogOK
  <2>3. /\ backlog' \in Seq(Calls)
        /\ {backlog'[i] : i \in DOMAIN backlog'} = {backlog[i] : i \in DOMAIN backlog} \cup {c}
        /\ \A i, j \in DOMAIN backlog' : backlog'[i] = backlog'[j] => i = j
    <3>1. backlog' = Append(backlog, c)
      BY <1>2
    <3>2. /\ Append(backlog, c) \in Seq(Calls)
          /\ {Append(backlog, c)[i] : i \in DOMAIN Append(backlog, c)}
               = {backlog[i] : i \in DOMAIN backlog} \cup {c}
          /\ \A i, j \in DOMAIN Append(backlog, c) :
               Append(backlog, c)[i] = Append(backlog, c)[j] => i = j
      BY <2>1, <2>2, AppendQueues
    <3> QED
      BY <3>1, <3>2, Zenon
  <2>4. {d \in Calls : guest'[d] = "queued"} = {d \in Calls : guest[d] = "queued"} \cup {c}
    BY <1>1, <1>2 DEF HopsTyped
  <2> QED
    BY <1>1, <1>2, <2>3, <2>4 DEF BacklogOK, vmVars
<1>5. ServingOK'
  <2>1. Serving' = Serving
    BY <1>1, <1>2 DEF Serving, HopsTyped
  <2> QED
    BY <1>1, <1>2, <2>1 DEF ServingOK, vmVars
<1>6. ASSUME NEW d \in Calls PROVE HopsOK(d)'
  BY <1>1, <1>2 DEF HopsOK, HopsTyped, apiVars
<1> QED
  BY <1>3, <1>4, <1>5, <1>6, ExecInvParts

\* The connection at the head of the queue is served, or dropped.
LEMMA AcceptKeeps ==
  ASSUME ExecInv, Accept
  PROVE  ExecInv'
<1>1. /\ HopsTyped /\ BacklogOK /\ ServingOK /\ \A d \in Calls : HopsOK(d)
  BY ExecInvParts
<1>2. PICK outcome \in {"feeding", "collecting", "dropped"} :
        /\ guest' = [guest EXCEPT ![Head(backlog)] = outcome]
        /\ child' = IF outcome = "dropped" THEN "none" ELSE "started"
  BY DEF Accept
<1>3. /\ vm /\ Serving = {} /\ backlog # <<>> /\ backlog' = Tail(backlog)
      /\ UNCHANGED <<apiVars, hostVars, ran, vmVars>>
  BY DEF Accept
<1> DEFINE c == Head(backlog)
<1>4. /\ c \in Calls /\ guest[c] = "queued"
      /\ backlog' \in Seq(Calls)
      /\ {backlog'[i] : i \in DOMAIN backlog'} = {backlog[i] : i \in DOMAIN backlog} \ {c}
      /\ \A i, j \in DOMAIN backlog' : backlog'[i] = backlog'[j] => i = j
  <2>1. backlog \in Seq(Calls) /\ \A i, j \in DOMAIN backlog : backlog[i] = backlog[j] => i = j
    BY <1>1 DEF BacklogOK
  <2>2. /\ Tail(backlog) \in Seq(Calls) /\ c \in Calls
        /\ \E i \in DOMAIN backlog : c = backlog[i]
        /\ {Tail(backlog)[i] : i \in DOMAIN Tail(backlog)}
              = {backlog[i] : i \in DOMAIN backlog} \ {c}
        /\ \A i, j \in DOMAIN Tail(backlog) : Tail(backlog)[i] = Tail(backlog)[j] => i = j
    BY <1>3, <2>1, TailDequeues
  <2>3. guest[c] = "queued"
    BY <1>1, <2>2 DEF BacklogOK
  <2>4. backlog' = Tail(backlog)
    BY <1>3
  <2> QED
    BY <2>2, <2>3, <2>4, Zenon
<1>5. /\ guest'[c] = outcome
      /\ \A d \in Calls \ {c} : guest'[d] = guest[d]
  BY <1>1, <1>2, <1>4 DEF HopsTyped
<1>6. HopsTyped'
  BY <1>1, <1>2, <1>3, <1>4 DEF HopsTyped, GuestPCs, ChildPCs, apiVars, hostVars, vmVars
<1> HIDE DEF c
<1>7. BacklogOK'
  <2>1. {d \in Calls : guest'[d] = "queued"} = {d \in Calls : guest[d] = "queued"} \ {c}
    BY <1>4, <1>5
  <2> QED
    BY <1>1, <1>3, <1>4, <2>1 DEF BacklogOK, vmVars
<1>8. ServingOK'
  <2>1. Serving' = IF outcome = "dropped" THEN {} ELSE {c}
    BY <1>3, <1>4, <1>5 DEF Serving
  <2> QED
    BY <1>1, <1>2, <1>3, <2>1 DEF ServingOK, vmVars
<1>9. ASSUME NEW d \in Calls PROVE HopsOK(d)'
  BY <1>1, <1>3, <1>4, <1>5 DEF HopsOK, apiVars, hostVars
<1> QED
  BY <1>6, <1>7, <1>8, <1>9, ExecInvParts

\* vm-agent goes on with, or is done with, the connection it serves.
LEMMA ServeKeeps ==
  ASSUME ExecInv, NEW c \in Calls, Fed(c) \/ CommandEnds(c)
  PROVE  ExecInv'
<1>1. /\ HopsTyped /\ BacklogOK /\ ServingOK /\ \A d \in Calls : HopsOK(d)
      /\ UNCHANGED <<apiVars, hostVars, backlog, vmVars>>
  BY ExecInvParts DEF Fed, CommandEnds
<1>2. PICK to \in {"collecting", "replied", "dropped"} :
        /\ guest' = [guest EXCEPT ![c] = to]
        /\ to = "collecting" => UNCHANGED <<child, ran>>
        /\ to # "collecting" => child' = "none" /\ ran' = 0
        /\ to = "replied" => hpc[c] = "waiting"
  BY DEF Fed, CommandEnds, Closes
<1>3. /\ c \in Serving /\ Serving = {c} /\ child # "none"
      /\ hpc[c] \notin {"none", "dialing", "ok"}
  BY <1>1 DEF Fed, CommandEnds, Serving, ServingOK, HopsOK
<1>4. /\ guest'[c] = to
      /\ \A d \in Calls \ {c} : guest'[d] = guest[d]
  BY <1>1, <1>2 DEF HopsTyped
<1>5. HopsTyped'
  BY <1>1, <1>2 DEF HopsTyped, GuestPCs, ChildPCs, apiVars, hostVars, vmVars
<1>6. BacklogOK'
  <2>1. guest[c] # "queued"
    BY <1>3 DEF Serving
  <2>2. {d \in Calls : guest'[d] = "queued"} = {d \in Calls : guest[d] = "queued"}
    BY <1>4, <2>1
  <2> QED
    BY <1>1, <2>2 DEF BacklogOK, vmVars
<1>7. ServingOK'
  <2>1. Serving' = IF to = "collecting" THEN {c} ELSE {}
    BY <1>3, <1>4 DEF Serving
  <2> QED
    BY <1>1, <1>2, <1>3, <2>1 DEF ServingOK, vmVars
<1>8. ASSUME NEW d \in Calls PROVE HopsOK(d)'
  BY <1>1, <1>2, <1>3, <1>4 DEF HopsOK, apiVars, hostVars
<1> QED
  BY <1>5, <1>6, <1>7, <1>8, ExecInvParts

\* The command, the record, the host agent's map and the clock.
LEMMA SurroundingsKeep ==
  ASSUME ExecInv,
         \/ ChildReads \/ ChildWrites \/ ChildExits
         \/ Untrack \/ StopsRunning \/ Tick \/ UNCHANGED vars
  PROVE  ExecInv'
<1>1. /\ HopsTyped /\ BacklogOK /\ ServingOK /\ \A d \in Calls : HopsOK(d)
  BY ExecInvParts
<1>2. CASE ChildReads \/ ChildWrites \/ ChildExits
  <2>1. /\ child \in {"started", "read", "writing"} /\ child' \in {"read", "writing", "exited"}
        /\ UNCHANGED <<apiVars, hostVars, guest, backlog, ran, vmVars>>
    BY <1>2 DEF ChildReads, ChildWrites, ChildExits, ChildGoes
  <2>2. HopsTyped' /\ BacklogOK'
    BY <1>1, <2>1 DEF HopsTyped, BacklogOK, ChildPCs, apiVars, hostVars, vmVars
  <2>3. ServingOK'
    BY <1>1, <2>1 DEF ServingOK, Serving, vmVars
  <2>4. \A d \in Calls : HopsOK(d)'
    BY <1>1, <2>1 DEF HopsOK, apiVars, hostVars
  <2> QED
    BY <2>2, <2>3, <2>4, ExecInvParts
<1>3. CASE Untrack \/ StopsRunning \/ UNCHANGED vars
  <2>1. /\ UNCHANGED <<apiVars, hostVars, guestVars, vm>>
        /\ running' \in {running, FALSE} /\ tracked' \in {tracked, FALSE}
    BY <1>3 DEF Untrack, StopsRunning, vars, vmVars
  <2>2. HopsTyped'
    BY <1>1, <2>1 DEF HopsTyped, apiVars, hostVars, guestVars
  <2>3. BacklogOK' /\ ServingOK'
    BY <1>1, <2>1, GuestAlone DEF guestVars
  <2>4. \A d \in Calls : HopsOK(d)'
    BY <1>1, <2>1 DEF HopsOK, apiVars, hostVars, guestVars
  <2> QED
    BY <2>2, <2>3, <2>4, ExecInvParts
<1>4. CASE Tick
  <2>1. /\ apiLeft' = CountDown(apiLeft) /\ hostLeft' = CountDown(hostLeft)
        /\ ran' \in {ran, ran + 1}
        /\ UNCHANGED <<budget, apc, hpc, guest, backlog, child, vmVars>>
    BY <1>4 DEF Tick
  <2>2. ASSUME NEW left, left \in [Calls -> Nat \cup {Unarmed}]
        PROVE  /\ CountDown(left) \in [Calls -> Nat \cup {Unarmed}]
               /\ \A d \in Calls : CountDown(left)[d] = Unarmed <=> left[d] = Unarmed
    BY <2>2 DEF CountDown, Unarmed
  <2>3. HopsTyped'
    BY <1>1, <2>1, <2>2 DEF HopsTyped, vmVars
  <2>4. BacklogOK' /\ ServingOK'
    BY <1>1, <2>1, GuestAlone DEF vmVars
  <2>5. \A d \in Calls : HopsOK(d)'
    BY <1>1, <2>1, <2>2 DEF HopsOK, HopsTyped
  <2> QED
    BY <2>3, <2>4, <2>5, ExecInvParts
<1> QED
  BY <1>2, <1>3, <1>4

\* The VM ends, and with it every connection into it.
LEMMA VMEndsKeeps ==
  ASSUME ExecInv, VMEnds
  PROVE  ExecInv'
<1>1. /\ HopsTyped /\ BacklogOK /\ ServingOK /\ \A d \in Calls : HopsOK(d)
  BY ExecInvParts
<1>2. /\ vm' = FALSE /\ backlog' = <<>> /\ child' = "none" /\ ran' = 0
      /\ UNCHANGED <<apiVars, hostVars, running, tracked>>
      /\ guest' = [d \in Calls |-> IF guest[d] \in {"queued", "feeding", "collecting"}
                                   THEN "dropped" ELSE guest[d]]
  BY DEF VMEnds, Serving
<1>3. HopsTyped'
  BY <1>1, <1>2 DEF HopsTyped, GuestPCs, ChildPCs, apiVars, hostVars
<1>4. BacklogOK'
  BY <1>2 DEF BacklogOK
<1>5. ServingOK'
  BY <1>2 DEF ServingOK, Serving
<1>6. \A d \in Calls : HopsOK(d)'
  BY <1>1, <1>2 DEF HopsOK, apiVars, hostVars
<1> QED
  BY <1>3, <1>4, <1>5, <1>6, ExecInvParts

LEMMA ExecStep == ExecInv /\ [Next]_vars => ExecInv'
BY ApiStepKeeps, HostStepKeeps, DialKeeps, AcceptKeeps, ServeKeeps, SurroundingsKeep,
   VMEndsKeeps
DEF Next, ApiSide, HostSide

\* The hops, the accept queue and the guest agree on how far every request is.
THEOREM ExecInvariant == Spec => []ExecInv
BY ExecInit, ExecStep, PTL DEF Spec

\* The accept queue has each queued connection once, vm-agent serves one at a
\* time, and none when the VM is gone.
THEOREM ExecTypeCorrect == Spec => []ExecTypeOK
<1>1. ExecInv => ExecTypeOK
  BY DEF ExecInv
<1> QED
  BY <1>1, ExecInvariant, PTL

-------------------------------------------------------------------------------
(* ExecPath implements RemoteExec.                                         *)

CallerOf(pc, left) ==
  IF pc \in {"idle", "checked"} THEN "idle"
  ELSE IF pc = "calling" THEN "waiting"
  ELSE IF pc = "answered" THEN "answered"
  ELSE IF left = Unarmed THEN "refused" ELSE "gaveUp"

CommandOf(at) ==
  IF at \in {"none", "queued"} THEN "none"
  ELSE IF at \in {"feeding", "collecting"} THEN "running"
  ELSE IF at = "replied" THEN "done" ELSE "lost"

\* The mapping, one call at a time.
LEMMA Bars ==
  /\ callerBar = [c \in Calls |-> CallerOf(apc[c], apiLeft[c])]
  /\ callerBar' = [c \in Calls |-> CallerOf(apc'[c], apiLeft'[c])]
  /\ commandBar = [c \in Calls |-> CommandOf(guest[c])]
  /\ commandBar' = [c \in Calls |-> CommandOf(guest'[c])]
BY DEF callerBar, commandBar, CallerOf, CommandOf, Serving

\* A connection is there only for a request that was sent.
LEMMA ConnectionsWereSent ==
  ASSUME ExecInv, NEW c \in Calls, guest[c] # "none"
  PROVE  Remote!Sent(c)
<1>1. HopsOK(c) /\ apc[c] \in ApiPCs /\ hpc[c] \in HostPCs
  BY DEF ExecInv, ExecTypeOK
<1>2. apiLeft[c] # Unarmed /\ apc[c] \notin {"idle", "checked"}
  BY <1>1 DEF HopsOK, HostPCs
<1> QED
  BY <1>2, Bars DEF CallerOf, Remote!Sent

\* What the caller of one request learns.
LEMMA CallerLearns ==
  ASSUME ExecInv, NEW c \in Calls, NEW pc, NEW left,
         apc' = [apc EXCEPT ![c] = pc], apiLeft' = [apiLeft EXCEPT ![c] = left],
         UNCHANGED guest
  PROVE  /\ callerBar[c] = CallerOf(apc[c], apiLeft[c])
         /\ callerBar' = [callerBar EXCEPT ![c] = CallerOf(pc, left)]
         /\ commandBar' = commandBar
<1>1. apc \in [Calls -> ApiPCs] /\ apiLeft \in [Calls -> Nat \cup {Unarmed}]
  BY DEF ExecInv, ExecTypeOK
<1>2. \A d \in Calls : callerBar'[d] = IF d = c THEN CallerOf(pc, left) ELSE callerBar[d]
  BY <1>1, Bars
<1> QED
  BY <1>2, Bars

\* The API's steps are what its caller learns.
LEMMA ApiStepIsRemote ==
  ASSUME ExecInv, NEW c \in Calls,
         \/ \E timeout \in Timeouts : HandleExec(c, timeout)
         \/ ExecCall(c) \/ ApiReads(c) \/ ApiTimesOut(c) \/ ApiBreaks(c)
  PROVE  [Remote!Next]_(Remote!vars)
<1>1. /\ UNCHANGED guest /\ HopsOK(c)
      /\ apc \in [Calls -> ApiPCs] /\ apiLeft \in [Calls -> Nat \cup {Unarmed}]
      /\ budget \in [Calls -> Timeouts \cup {0}]
  BY DEF ExecInv, ExecTypeOK, HandleExec, ExecCall, ApiReads, ApiTimesOut, ApiBreaks,
         guestVars
<1>2. apiLeft = [apiLeft EXCEPT ![c] = apiLeft[c]]
  BY <1>1
<1>3. ASSUME NEW timeout \in Timeouts, HandleExec(c, timeout)
      PROVE  Remote!Refuse(c) \/ UNCHANGED Remote!vars
  <2> DEFINE pc == IF running THEN "checked" ELSE "failed"
  <2>1. /\ apc[c] = "idle" /\ apc' = [apc EXCEPT ![c] = pc]
        /\ apiLeft' = [apiLeft EXCEPT ![c] = apiLeft[c]] /\ apiLeft[c] = Unarmed
    BY <1>1, <1>2, <1>3 DEF HandleExec, ApiGoes, HopsOK
  <2>2. /\ callerBar[c] = "idle" /\ commandBar' = commandBar
        /\ callerBar' = [callerBar EXCEPT ![c] = IF running THEN "idle" ELSE "refused"]
    BY <1>1, <2>1, CallerLearns DEF CallerOf
  <2> QED
    BY <2>2, Bars DEF Remote!Refuse, Remote!Learns, Remote!vars
<1>4. CASE ExecCall(c)
  <2>1. /\ apc[c] = "checked" /\ apiLeft[c] = Unarmed
        /\ apc' = [apc EXCEPT ![c] = IF running THEN "calling" ELSE "failed"]
        /\ apiLeft' = [apiLeft EXCEPT ![c] = IF running THEN Allowed(budget[c]) ELSE Unarmed]
    BY <1>1, <1>2, <1>4 DEF ExecCall, ApiGoes, HopsOK
  <2>2. /\ callerBar[c] = "idle" /\ commandBar' = commandBar
        /\ callerBar' = [callerBar EXCEPT ![c] = IF running THEN "waiting" ELSE "refused"]
    BY <1>1, <2>1, CallerLearns DEF CallerOf
  <2>3. Remote!Ask(c) \/ Remote!Refuse(c)
    BY <2>2 DEF Remote!Ask, Remote!Refuse, Remote!Learns
  <2> QED
    BY <2>3 DEF Remote!Next
<1>5. CASE ApiReads(c) \/ ApiTimesOut(c) \/ ApiBreaks(c)
  <2>1. PICK pc \in {"answered", "failed", "timedOut", "broken"} :
          /\ apc[c] = "calling" /\ apc' = [apc EXCEPT ![c] = pc]
          /\ apiLeft' = [apiLeft EXCEPT ![c] = apiLeft[c]]
          /\ pc = "answered" => hpc[c] = "ok"
    BY <1>1, <1>2, <1>5 DEF ApiReads, ApiTimesOut, ApiBreaks, ApiGoes
  <2>2. apiLeft[c] # Unarmed /\ (pc = "answered" => guest[c] = "replied")
    BY <1>1, <2>1 DEF HopsOK
  <2>3. /\ callerBar[c] = "waiting" /\ commandBar' = commandBar
        /\ callerBar' = [callerBar EXCEPT ![c] = CallerOf(pc, apiLeft[c])]
    <3>1. CallerOf(apc[c], apiLeft[c]) = "waiting"
      BY <2>1 DEF CallerOf
    <3>2. /\ callerBar[c] = CallerOf(apc[c], apiLeft[c])
          /\ callerBar' = [callerBar EXCEPT ![c] = CallerOf(pc, apiLeft[c])]
          /\ commandBar' = commandBar
      <4>1. apc' = [apc EXCEPT ![c] = pc] /\ apiLeft' = [apiLeft EXCEPT ![c] = apiLeft[c]]
        BY <2>1
      <4>2. UNCHANGED guest
        BY <1>1
      <4> QED
        BY <4>1, <4>2, CallerLearns
    <3> QED
      BY <3>1, <3>2
  <2>4. CallerOf(pc, apiLeft[c]) = IF pc = "answered" THEN "answered" ELSE "gaveUp"
    BY <2>1, <2>2 DEF CallerOf
  <2>5. pc = "answered" => commandBar[c] = "done"
    BY <2>2, Bars DEF CommandOf
  <2>6. Remote!Answer(c) \/ Remote!GiveUp(c)
    BY <2>3, <2>4, <2>5 DEF Remote!Answer, Remote!GiveUp, Remote!Learns
  <2> QED
    BY <2>6 DEF Remote!Next
<1> QED
  BY <1>3, <1>4, <1>5 DEF Remote!Next

\* A step that keeps the caller's place, or lets time pass, and moves no
\* connection but from the dial to the queue or on within its service.
LEMMA Unseen ==
  ASSUME UNCHANGED apc,
         \A c \in Calls : apiLeft'[c] = Unarmed <=> apiLeft[c] = Unarmed,
         \A c \in Calls : CommandOf(guest'[c]) = CommandOf(guest[c])
  PROVE  UNCHANGED Remote!vars
<1>1. \A c \in Calls : CallerOf(apc'[c], apiLeft'[c]) = CallerOf(apc[c], apiLeft[c])
  BY DEF CallerOf
<1> QED
  BY <1>1, Bars DEF Remote!vars

\* Whatever the host agent and the clock do is not seen at either end.
LEMMA HostStepIsUnseen ==
  ASSUME ExecInv,
         \/ \E c \in Calls : \/ FindEntry(c) \/ Dial(c) \/ DialFails(c)
                             \/ HostReads(c) \/ HostTimesOut(c) \/ Fed(c)
         \/ ChildReads \/ ChildWrites \/ ChildExits
         \/ Untrack \/ StopsRunning \/ Tick \/ UNCHANGED vars
  PROVE  UNCHANGED Remote!vars
<1>1. /\ guest \in [Calls -> GuestPCs] /\ apiLeft \in [Calls -> Nat \cup {Unarmed}]
      /\ \A c \in Calls : HopsOK(c)
  BY DEF ExecInv, ExecTypeOK
<1>2. UNCHANGED apc
  BY DEF FindEntry, Dial, DialFails, HostReads, HostTimesOut, Fed, ChildReads, ChildWrites,
         ChildExits, ChildGoes, Untrack, StopsRunning, Tick, vars, apiVars
<1>3. ASSUME NEW c \in Calls PROVE apiLeft'[c] = Unarmed <=> apiLeft[c] = Unarmed
  <2>1. apiLeft' = apiLeft \/ apiLeft' = CountDown(apiLeft)
    BY DEF FindEntry, Dial, DialFails, HostReads, HostTimesOut, Fed, ChildReads, ChildWrites,
           ChildExits, ChildGoes, Untrack, StopsRunning, Tick, vars, apiVars
  <2>2. apiLeft[c] \in Nat \cup {Unarmed}
    BY <1>1
  <2> QED
    BY <2>1, <2>2 DEF CountDown, Unarmed
<1>4. ASSUME NEW d \in Calls PROVE CommandOf(guest'[d]) = CommandOf(guest[d])
  <2>1. ASSUME NEW c \in Calls, Dial(c) PROVE CommandOf(guest'[d]) = CommandOf(guest[d])
    <3>1. guest[c] = "none" /\ guest' = [guest EXCEPT ![c] = "queued"]
      BY <1>1, <2>1 DEF Dial, HostGoes, HopsOK
    <3> QED
      BY <1>1, <3>1 DEF CommandOf
  <2>2. ASSUME NEW c \in Calls, Fed(c) PROVE CommandOf(guest'[d]) = CommandOf(guest[d])
    BY <1>1, <2>2 DEF Fed, CommandOf
  <2>3. CASE UNCHANGED guest
    BY <2>3
  <2> QED
    BY <2>1, <2>2, <2>3
    DEF FindEntry, DialFails, HostReads, HostTimesOut, ChildReads, ChildWrites,
        ChildExits, ChildGoes, Untrack, StopsRunning, Tick, vars, guestVars
<1> QED
  BY <1>2, <1>3, <1>4, Unseen

\* What becomes of one command.
LEMMA CommandBecomes ==
  ASSUME ExecInv, NEW c \in Calls, NEW at,
         guest' = [guest EXCEPT ![c] = at], UNCHANGED <<apc, apiLeft>>
  PROVE  /\ commandBar[c] = CommandOf(guest[c])
         /\ commandBar' = [commandBar EXCEPT ![c] = CommandOf(at)]
         /\ callerBar' = callerBar
<1>1. guest \in [Calls -> GuestPCs]
  BY DEF ExecInv, ExecTypeOK
<1>2. \A d \in Calls : commandBar'[d] = IF d = c THEN CommandOf(at) ELSE commandBar[d]
  BY <1>1, Bars
<1> QED
  BY <1>2, Bars

\* Losing the connections of a set of requests.
LEMMA ConnectionsLost ==
  ASSUME ExecInv, NEW lost \in SUBSET Calls,
         \A c \in lost : guest[c] \in {"queued", "feeding", "collecting"},
         guest' = [c \in Calls |-> IF c \in lost THEN "dropped" ELSE guest[c]],
         UNCHANGED <<apc, apiLeft>>
  PROVE  Remote!Lose(lost)
<1>1. ASSUME NEW c \in lost PROVE Remote!Sent(c) /\ commandBar[c] \in {"none", "running"}
  BY ConnectionsWereSent, Bars DEF CommandOf
<1>2. commandBar' = [c \in Calls |-> IF c \in lost THEN "lost" ELSE commandBar[c]]
  BY Bars DEF CommandOf
<1>3. callerBar' = callerBar
  BY Bars
<1> QED
  BY <1>1, <1>2, <1>3 DEF Remote!Lose

\* vm-agent takes up a command when none runs, sees it to its end, or loses it.
LEMMA GuestStepIsRemote ==
  ASSUME ExecInv, Accept \/ VMEnds \/ \E c \in Calls : CommandEnds(c)
  PROVE  Remote!Next
<1>1. /\ guest \in [Calls -> GuestPCs] /\ BacklogOK /\ ServingOK
      /\ UNCHANGED <<apc, apiLeft>>
  BY ExecInvParts DEF HopsTyped, Accept, VMEnds, CommandEnds, apiVars
<1>2. CASE Accept
  <2> DEFINE c == Head(backlog)
  <2>1. backlog # <<>> /\ backlog \in Seq(Calls) /\ Serving = {}
        /\ \A i, j \in DOMAIN backlog : backlog[i] = backlog[j] => i = j
    BY <1>1, <1>2 DEF Accept, BacklogOK
  <2>2. c \in Calls /\ \E i \in DOMAIN backlog : c = backlog[i]
    BY <2>1, TailDequeues
  <2>3. guest[c] = "queued"
    BY <1>1, <2>2 DEF BacklogOK
  <2>4. PICK outcome \in {"feeding", "collecting", "dropped"} :
          guest' = [guest EXCEPT ![c] = outcome]
    BY <1>2 DEF Accept
  <2> HIDE DEF c
  <2>5. CASE outcome = "dropped"
    <3>1. guest' = [d \in Calls |-> IF d \in {c} THEN "dropped" ELSE guest[d]]
      BY <1>1, <2>4, <2>5
    <3>2. Remote!Lose({c})
      BY <1>1, <2>2, <2>3, <3>1, ConnectionsLost
    <3> QED
      BY <2>2, <3>2 DEF Remote!Next
  <2>6. CASE outcome # "dropped"
    <3>1. /\ commandBar[c] = "none" /\ callerBar' = callerBar
          /\ commandBar' = [commandBar EXCEPT ![c] = "running"]
      BY <1>1, <2>2, <2>3, <2>4, <2>6, CommandBecomes DEF CommandOf
    <3>2. \A d \in Calls : commandBar[d] # "running"
      BY <2>1, Bars DEF Serving, CommandOf
    <3>3. Remote!Sent(c)
      BY <2>2, <2>3, ConnectionsWereSent
    <3>4. Remote!Start(c)
      BY <3>1, <3>2, <3>3 DEF Remote!Start, Remote!Becomes
    <3> QED
      BY <2>2, <3>4 DEF Remote!Next
  <2> QED
    BY <2>5, <2>6
<1>3. ASSUME NEW c \in Calls, CommandEnds(c) PROVE Remote!Next
  <2>1. guest[c] = "collecting"
    BY <1>3 DEF CommandEnds
  <2>2. PICK how \in {"replied", "dropped"} : guest' = [guest EXCEPT ![c] = how]
    BY <1>3 DEF CommandEnds, Closes
  <2>3. CASE how = "dropped"
    <3>1. guest' = [d \in Calls |-> IF d \in {c} THEN "dropped" ELSE guest[d]]
      BY <1>1, <2>2, <2>3
    <3>2. Remote!Lose({c})
      BY <1>1, <2>1, <3>1, ConnectionsLost
    <3> QED
      BY <3>2 DEF Remote!Next
  <2>4. CASE how = "replied"
    <3>1. /\ commandBar[c] = "running" /\ callerBar' = callerBar
          /\ commandBar' = [commandBar EXCEPT ![c] = "done"]
      BY <1>1, <2>1, <2>2, <2>4, CommandBecomes DEF CommandOf
    <3> QED
      BY <3>1 DEF Remote!Next, Remote!End, Remote!Becomes
  <2> QED
    BY <2>3, <2>4
<1>4. CASE VMEnds
  <2> DEFINE lost == {c \in Calls : guest[c] \in {"queued", "feeding", "collecting"}}
  <2>1. guest' = [c \in Calls |-> IF c \in lost THEN "dropped" ELSE guest[c]]
    BY <1>4 DEF VMEnds, Serving
  <2>2. lost \in SUBSET Calls /\ \A c \in lost : guest[c] \in {"queued", "feeding", "collecting"}
    OBVIOUS
  <2> HIDE DEF lost
  <2>3. Remote!Lose(lost)
    BY <1>1, <2>1, <2>2, ConnectionsLost
  <2> QED
    BY <2>2, <2>3 DEF Remote!Next
<1> QED
  BY <1>2, <1>3, <1>4

LEMMA RemoteInit == Init => Remote!Init
BY DEF Init, Remote!Init, callerBar, commandBar

\* A command runs at most once, alone, and never for a refused request, and an
\* answer is its own command's, whatever times out and whoever goes away.
THEOREM ExecImplementsRemote == Spec => ImplementsRemoteExec
<1>1. ExecInv /\ [Next]_vars => [Remote!Next]_(Remote!vars)
  BY ApiStepIsRemote, HostStepIsUnseen, GuestStepIsRemote DEF Next, ApiSide, HostSide
<1> QED
  BY <1>1, RemoteInit, ExecInvariant, PTL DEF Spec, ImplementsRemoteExec, Remote!Spec
===============================================================================
