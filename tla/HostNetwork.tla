------------------------------ MODULE HostNetwork ------------------------------
(***************************************************************************)
(* Networks of the sandboxes of one host: internal/network's Setup and     *)
(* Destroy, one ip command per step, and ebpf/loader's Load and Detach on  *)
(* the host end of the veth pair.  Placements run side by side, and any    *)
(* command can fail.  Nothing in the repository calls Setup and Destroy    *)
(* yet; the callers here set a network up before they load its filter (as  *)
(* docs/phase-2-flow.md has it) and destroy only what Setup returned.      *)
(***************************************************************************)
EXTENDS Integers

CONSTANTS
  Sandboxes,   \* sandbox IDs
  Names,       \* names of host veths
  Prefix,      \* Prefix[s]: the name made of the first 8 characters of s
  Tail,        \* Tail[s]: the number its last 8 hexadecimal digits spell
  NoVeth       \* no interface has that name

ASSUME PrefixAssumption == Prefix \in [Sandboxes -> Names]
ASSUME TailAssumption   == Tail \in [Sandboxes -> Nat]

VARIABLES
  bridge,      \* sandock0
  netns,       \* the named network namespaces
  veth,        \* veth[n]: the pair whose host end is called n
  npc,         \* npc[s]: the ip command, or the step of Load, s is at
  objs,        \* sandboxes whose eBPF collection is open in the agent
  stuck        \* history: sandboxes whose "ip netns del" failed

hostVars == <<bridge, netns, veth>>
vars     == <<hostVars, npc, objs, stuck>>

BridgeStates == {"none", "bare", "addressed", "up"}

\* TCX, or a classic filter on kernels that have none.
Hooks == {"tcx", "netlink"}

\* The host end and its clsact qdisc and programs; eth0, its other end.
Pair == [peer : Sandboxes, port : {"plain", "attached", "up"},
         eth0 : {"plain", "addressed", "up", "routed"},
         clsact : BOOLEAN, progs : SUBSET (Sandboxes \X Hooks)]

ASSUME NoVethAssumption == NoVeth \notin Pair

NewPair(s) == [peer |-> s, port |-> "plain", eth0 |-> "plain",
               clsact |-> FALSE, progs |-> {}]

BridgePCs == {"addBridge", "addressBridge", "raiseBridge"}
PairPCs   == {"attach", "raise", "address", "raiseGuest", "route"}
LoadPCs   == {"opened", "found", "hooked"}

\* At a member of Hooks the filter is loaded, and attached that way.
NetPCs    == BridgePCs \cup PairPCs \cup LoadPCs \cup Hooks
               \cup {"idle", "addNetns", "addVeth", "ready", "delVeth", "delNetns"}

Init ==
  /\ bridge = "none" /\ netns = {} /\ veth = [n \in Names |-> NoVeth]
  /\ npc = [s \in Sandboxes |-> "idle"]
  /\ objs = {}
  /\ stuck = {}

Goes(s, from, to) == npc[s] = from /\ npc' = [npc EXCEPT ![s] = to]

-------------------------------------------------------------------------------
(* allocateIPs: the last two bytes of 10.100.x.y.                          *)

Slot(s) == Tail[s] % 65000

Base_HalfStep(s) == Slot(s) * 2 + 4

Base(s) == Slot(s) * 4 + 4

Third(s)  == (Base(s) \div 256) % 256
Fourth(s) == Base(s) % 256

Gateway(s) == <<Third(s), Fourth(s) + 1>>
Guest(s)   == <<Third(s), Fourth(s) + 2>>

\* The /30 that Setup configures eth0 with.
Subnet(s) == {<<Third(s), Fourth(s) + i>> : i \in 0..3}

-------------------------------------------------------------------------------
(* Setup: ensureBridge.                                                    *)

\* The bridge is looked for by its name alone.  A failing net.Interfaces reads
\* as an empty list.
Setup(s) ==
  /\ \/ bridge # "none" /\ Goes(s, "idle", "addNetns")
     \/ Goes(s, "idle", "addBridge")
  /\ UNCHANGED <<hostVars, objs, stuck>>

BridgeCommand(s, from, has, to, makes) ==
  /\ Goes(s, from, to)
  /\ bridge = has /\ bridge' = makes
  /\ UNCHANGED <<netns, veth, objs, stuck>>

AddBridge(s)     == BridgeCommand(s, "addBridge", "none", "addressBridge", "bare")
AddressBridge(s) ==
  BridgeCommand(s, "addressBridge", "bare", "raiseBridge", "addressed")
RaiseBridge(s)   == BridgeCommand(s, "raiseBridge", "addressed", "addNetns", "up")

-------------------------------------------------------------------------------
(* Setup: the namespace and the pair.                                      *)

AddNetns(s) ==
  /\ Goes(s, "addNetns", "addVeth")
  /\ s \notin netns /\ netns' = netns \cup {s}
  /\ UNCHANGED <<bridge, veth, objs, stuck>>

AddVeth_FoundWillDo(s) ==
  /\ Goes(s, "addVeth", "attach")
  /\ s \in netns
  /\ veth' = IF veth[Prefix[s]] = NoVeth
             THEN [veth EXCEPT ![Prefix[s]] = NewPair(s)] ELSE veth
  /\ UNCHANGED <<bridge, netns, objs, stuck>>

\* The name must be free: another sandbox's ID may begin alike.
AddVeth(s) ==
  /\ Goes(s, "addVeth", "attach")
  /\ s \in netns /\ veth[Prefix[s]] = NoVeth
  /\ veth' = [veth EXCEPT ![Prefix[s]] = NewPair(s)]
  /\ UNCHANGED <<bridge, netns, objs, stuck>>

\* Commands on the host end go by its name.
PortCommand(s, from, to, makes) ==
  /\ Goes(s, from, to)
  /\ veth[Prefix[s]] # NoVeth
  /\ veth' = [veth EXCEPT ![Prefix[s]].port = makes]
  /\ UNCHANGED <<bridge, netns, objs, stuck>>

AttachToBridge(s) == bridge # "none" /\ PortCommand(s, "attach", "raise", "attached")
RaisePort(s)      == PortCommand(s, "raise", "address", "up")

\* Commands on eth0 go by the namespace.
GuestCommand(s, from, to, has, makes) ==
  /\ Goes(s, from, to)
  /\ s \in netns
  /\ \E n \in Names :
       /\ veth[n] # NoVeth /\ veth[n].peer = s /\ veth[n].eth0 = has
       /\ veth' = [veth EXCEPT ![n].eth0 = makes]
  /\ UNCHANGED <<bridge, netns, objs, stuck>>

AddressGuest(s) == GuestCommand(s, "address", "raiseGuest", "plain", "addressed")
RaiseGuest(s)   == GuestCommand(s, "raiseGuest", "route", "addressed", "up")
RouteGuest(s)   == GuestCommand(s, "route", "ready", "up", "routed")

-------------------------------------------------------------------------------
(* Destroy and cleanup.                                                    *)

Destroy(s) ==
  /\ \E from \in {"ready"} \cup Hooks : Goes(s, from, "delVeth")
  /\ UNCHANGED <<hostVars, objs, stuck>>

DelVeth(s) ==
  /\ Goes(s, "delVeth", "delNetns")
  /\ veth[Prefix[s]] # NoVeth
  /\ veth' = [veth EXCEPT ![Prefix[s]] = NoVeth]
  /\ UNCHANGED <<bridge, netns, objs, stuck>>

\* Its eth0 goes with the namespace, and the host end with it.
DelNetns(s) ==
  /\ Goes(s, "delNetns", "idle")
  /\ s \in netns /\ netns' = netns \ {s}
  /\ veth' = [n \in Names |-> IF veth[n] # NoVeth /\ veth[n].peer = s
                              THEN NoVeth ELSE veth[n]]
  /\ UNCHANGED <<bridge, objs, stuck>>

OnError_NamespaceLeft(pc) ==
  IF pc \in PairPCs THEN "delVeth"
  ELSE IF pc = "delVeth" THEN "delNetns" ELSE "idle"

OnError_CleanupAlways(pc) ==
  IF pc \in BridgePCs \cup {"addNetns", "delNetns"} THEN "idle"
  ELSE IF pc = "delVeth" THEN "delNetns" ELSE "delVeth"

\* What Setup undoes before it returns the error of a command; cleanup goes on.
OnError(pc) ==
  CASE pc \in BridgePCs \cup {"addNetns", "delNetns"} -> "idle"
    [] pc \in {"addVeth", "delVeth"}                 -> "delNetns"
    [] pc \in PairPCs                                -> "delVeth"

CommandFails(s) ==
  /\ npc[s] \in BridgePCs \cup PairPCs \cup {"addNetns", "addVeth", "delVeth", "delNetns"}
  /\ npc' = [npc EXCEPT ![s] = OnError(npc[s])]
  /\ stuck' = IF npc[s] = "delNetns" THEN stuck \cup {s} ELSE stuck
  /\ UNCHANGED <<hostVars, objs>>

-------------------------------------------------------------------------------
(* EgressFilter: Load and Detach.                                          *)

\* The errors before this point have opened nothing.
OpenCollection(s) ==
  /\ Goes(s, "ready", "opened")
  /\ objs' = objs \cup {s}
  /\ UNCHANGED <<hostVars, stuck>>

FindVeth(s) ==
  /\ Goes(s, "opened", "found")
  /\ veth[Prefix[s]] # NoVeth
  /\ UNCHANGED <<hostVars, objs, stuck>>

AddClsact(s) ==
  /\ Goes(s, "found", "hooked")
  /\ veth[Prefix[s]] # NoVeth
  /\ veth' = [veth EXCEPT ![Prefix[s]].clsact = TRUE]
  /\ UNCHANGED <<bridge, netns, objs, stuck>>

AttachProgram(s, how) ==
  /\ Goes(s, "hooked", how)
  /\ veth[Prefix[s]] # NoVeth
  /\ veth' = [veth EXCEPT ![Prefix[s]].progs = @ \cup {<<s, how>>}]
  /\ UNCHANGED <<bridge, netns, objs, stuck>>

\* PlaceSandbox only logs it.
LoadFails(s) ==
  /\ \E from \in LoadPCs : Goes(s, from, "ready")
  /\ objs' = objs \ {s}
  /\ UNCHANGED <<hostVars, stuck>>

Without(gone) ==
  [n \in Names |-> IF veth[n] = NoVeth THEN NoVeth
                   ELSE [veth[n] EXCEPT !.progs = @ \ gone]]

\* A failing tc.close is an error that changes nothing; whether the qdisc goes
\* is not looked at.
Detach(s) ==
  /\ \E how \in Hooks : Goes(s, how, "ready")
  /\ s \in objs /\ objs' = objs \ {s}
  /\ \E qdiscGone \in BOOLEAN :
       veth' = IF qdiscGone /\ veth[Prefix[s]] # NoVeth
               THEN [veth EXCEPT ![Prefix[s]].clsact = FALSE, ![Prefix[s]].progs = {}]
               ELSE Without({s} \X Hooks)
  /\ UNCHANGED <<bridge, netns, stuck>>

\* PlaceSandbox keeps no reference to its filter, so the garbage collector
\* closes the collection and, with its last descriptor, a TCX link.
Collected(s) ==
  /\ s \in objs /\ npc[s] \notin LoadPCs
  /\ objs' = objs \ {s}
  /\ veth' = Without({<<s, "tcx">>})
  /\ UNCHANGED <<bridge, netns, npc, stuck>>

-------------------------------------------------------------------------------
SetupStep(s) ==
  \/ Setup(s) \/ AddBridge(s) \/ AddressBridge(s) \/ RaiseBridge(s)
  \/ AddNetns(s) \/ AddVeth(s) \/ AttachToBridge(s) \/ RaisePort(s)
  \/ AddressGuest(s) \/ RaiseGuest(s) \/ RouteGuest(s)

DestroyStep(s) == Destroy(s) \/ DelVeth(s) \/ DelNetns(s)

FilterStep(s) ==
  \/ OpenCollection(s) \/ FindVeth(s) \/ AddClsact(s)
  \/ \E how \in Hooks : AttachProgram(s, how)
  \/ LoadFails(s) \/ Detach(s) \/ Collected(s)

Next == \E s \in Sandboxes :
          SetupStep(s) \/ DestroyStep(s) \/ FilterStep(s) \/ CommandFails(s)

NetSpec == Init /\ [][Next]_vars

\* A caller that destroys again what it could not destroy; no run assumes it
\* (see README).
DestroyAgain(s) ==
  /\ s \in stuck /\ Goes(s, "idle", "delVeth")
  /\ UNCHANGED <<hostVars, objs, stuck>>

RetrySpec == Init /\ [][Next \/ \E s \in Sandboxes : DestroyAgain(s)]_vars

-------------------------------------------------------------------------------
(* Properties.                                                             *)

\* Setup has returned the network of s, and nobody has asked for its end.
InUse(s) == npc[s] \in {"ready"} \cup LoadPCs \cup Hooks

OwnPair(s) == veth[Prefix[s]] # NoVeth /\ veth[Prefix[s]].peer = s

\* What a state may hold.
NetTypeOK ==
  /\ bridge \in BridgeStates
  /\ netns \subseteq Sandboxes
  /\ veth \in [Names -> Pair \cup {NoVeth}]
  /\ npc \in [Sandboxes -> NetPCs]
  /\ objs \subseteq Sandboxes
  /\ stuck \subseteq Sandboxes

\* Once Setup has returned, the sandbox keeps the whole network it was given: its
\* namespace, its own pair under its name, in the bridge and up, with its address
\* and its route.  Interfaces go by eight characters of the ID, so this
\* is about the others: the failing Setup, the cleanup and the Destroy of a
\* sandbox whose ID begins alike (network_linux.go:68-72, 164-175).
NetworkKept == \A s \in Sandboxes : InUse(s) =>
  /\ s \in netns /\ OwnPair(s)
  /\ veth[Prefix[s]].port = "up" /\ veth[Prefix[s]].eth0 = "routed"

\* A Setup that failed at any command, and a Destroy, leave neither a namespace
\* nor an interface behind, even when the deletion of the interface fails; only a
\* failing "ip netns del" does (network_linux.go:70-96, 164-175).
NothingLeft == \A s \in Sandboxes : npc[s] = "idle" /\ s \notin stuck =>
  /\ s \notin netns
  /\ \A n \in Names : veth[n] # NoVeth => veth[n].peer # s

\* The networks of two sandboxes share an address only when their slots
\* differ by a multiple of 16384, where the third byte wraps around; they
\* never overlap in part (network_linux.go:153-159).
SubnetsDisjoint == \A s, t \in Sandboxes :
  InUse(s) /\ InUse(t) /\ Subnet(s) \cap Subnet(t) # {} =>
    Slot(s) % 16384 = Slot(t) % 16384

\* A program filters the traffic of no sandbox but its own.  A sandbox whose Load
\* succeeded has its program in place: a classic filter until it is
\* detached, a TCX link while the agent holds the collection
\* (loader_linux.go:104-117, 153-168; server.go:293-312).
FilterInPlace ==
  /\ \A n \in Names : veth[n] # NoVeth =>
       veth[n].progs \subseteq {veth[n].peer} \X Hooks
  /\ \A s \in Sandboxes :
       npc[s] = "netlink" \/ (npc[s] = "tcx" /\ s \in objs) =>
         OwnPair(s) /\ <<s, npc[s]>> \in veth[Prefix[s]].progs

\* Not checked by a run (see README).  network_linux.go:31-43 promises a sandbox
\* an address, a gateway on the bridge and a bridge that carries both.
BridgeServes     == \A s \in Sandboxes : InUse(s) => bridge = "up"
GatewayIsBridge  == \A s \in Sandboxes : InUse(s) => Gateway(s) = <<0, 1>>
AddressesDiffer  == \A s, t \in Sandboxes :
  InUse(s) /\ InUse(t) /\ Slot(s) # Slot(t) => Guest(s) # Guest(t)
FilterStays      == \A s \in Sandboxes : npc[s] \in Hooks =>
  OwnPair(s) /\ <<s, npc[s]>> \in veth[Prefix[s]].progs

===============================================================================
