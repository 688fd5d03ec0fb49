--------------------------- MODULE HostNetworkProofs ---------------------------
(***************************************************************************)
(* A sandbox keeps the network it was given, and a failed Setup leaves     *)
(* nothing, for every set of sandboxes and however their names coincide.   *)
(***************************************************************************)
EXTENDS HostNetwork, TLAPS

Early  == BridgePCs \cup {"idle", "addNetns"}
Filled == LoadPCs \cup Hooks \cup {"ready"}
Paired == PairPCs \cup Filled \cup {"delVeth"}

\* A pair has the name of its peer, and only that sandbox's programs.
Named == \A n \in Names : veth[n] # NoVeth =>
  n = Prefix[veth[n].peer] /\ veth[n].progs \subseteq {veth[n].peer} \X Hooks

\* What s has of its own at each of its steps.
Stage(s) ==
  /\ npc[s] \notin Early => s \in netns /\ s \notin stuck
  /\ npc[s] \in Early => (s \in netns <=> s \in stuck)
  /\ npc[s] \in Early \cup {"addVeth"} /\ s \notin stuck => ~OwnPair(s)
  /\ npc[s] \in Paired => OwnPair(s)
  /\ npc[s] \in Filled \cup {"address", "raiseGuest", "route"} =>
       veth[Prefix[s]].port = "up"
  /\ npc[s] \in Filled => veth[Prefix[s]].eth0 = "routed"
  /\ npc[s] = "netlink" \/ (npc[s] = "tcx" /\ s \in objs) =>
       <<s, npc[s]>> \in veth[Prefix[s]].progs

NetInv == NetTypeOK /\ Named /\ \A s \in Sandboxes : Stage(s)

Step(s) == SetupStep(s) \/ DestroyStep(s) \/ FilterStep(s) \/ CommandFails(s)

\* At a name that has a pair there is a pair.
LEMMA IsPair ==
  ASSUME NetTypeOK, NEW n \in Names, veth[n] # NoVeth
  PROVE  veth[n] \in Pair
BY DEF NetTypeOK

\* Two pairs with the same fields are the same.
LEMMA SamePair ==
  ASSUME NEW r \in Pair, NEW q \in Pair, r.peer = q.peer, r.port = q.port,
         r.eth0 = q.eth0, r.clsact = q.clsact, r.progs = q.progs
  PROVE  r = q
BY DEF Pair

LEMMA SamePrograms ==
  ASSUME NEW r \in Pair, NEW q, q = r.progs
  PROVE  [r EXCEPT !.progs = q] = r
<1> DEFINE x == [r EXCEPT !.progs = q]
<1>1. x \in Pair /\ x.peer = r.peer /\ x.port = r.port /\ x.eth0 = r.eth0
      /\ x.clsact = r.clsact /\ x.progs = r.progs
  BY DEF Pair
<1> HIDE DEF x
<1>2. x = r
  BY <1>1, SamePair
<1> QED
  BY <1>2 DEF x

LEMMA NewPairIsPair ==
  ASSUME NEW s \in Sandboxes
  PROVE  /\ NewPair(s) \in Pair /\ NewPair(s) # NoVeth
         /\ NewPair(s).peer = s /\ NewPair(s).progs = {}
<1>1. {} \in SUBSET (Sandboxes \X Hooks)
  OBVIOUS
<1>2. NewPair(s) \in Pair
  BY <1>1 DEF NewPair, Pair
<1> QED
  BY <1>2, NoVethAssumption DEF NewPair

-------------------------------------------------------------------------------
(* What a step does to the names of others: nothing.                       *)

\* Every command on an interface works at the name of a sandbox that has a pair
\* there, or has just found the name free.
Touches(s) ==
  /\ \A n \in Names \ {Prefix[s]} : veth'[n] = veth[n]
  /\ veth[Prefix[s]] = NoVeth \/ OwnPair(s) \/ veth'[Prefix[s]] = veth[Prefix[s]]
  /\ veth'[Prefix[s]] # NoVeth /\ veth'[Prefix[s]] # veth[Prefix[s]] =>
       /\ veth'[Prefix[s]].peer = s
       /\ veth'[Prefix[s]].progs \subseteq {s} \X Hooks

LEMMA WithoutTouches ==
  ASSUME NetTypeOK, Named, NEW s \in Sandboxes, NEW gone \in SUBSET ({s} \X Hooks),
         veth' = Without(gone)
  PROVE  /\ Touches(s) /\ veth' \in [Names -> Pair \cup {NoVeth}]
         /\ OwnPair(s)' <=> OwnPair(s)
         /\ OwnPair(s) => /\ OwnPair(s)'
                          /\ veth'[Prefix[s]].port = veth[Prefix[s]].port
                          /\ veth'[Prefix[s]].eth0 = veth[Prefix[s]].eth0
                          /\ veth'[Prefix[s]].progs = veth[Prefix[s]].progs \ gone
<1>1. ASSUME NEW n \in Names, veth[n] # NoVeth
      PROVE  /\ veth[n] \in Pair /\ veth'[n] = [veth[n] EXCEPT !.progs = @ \ gone]
             /\ veth[n].progs \ gone \in SUBSET (Sandboxes \X Hooks)
  <2>1. veth[n] \in Pair
    BY <1>1, IsPair
  <2>2. veth[n].progs \in SUBSET (Sandboxes \X Hooks)
    BY <2>1 DEF Pair
  <2> QED
    BY <1>1, <2>1, <2>2 DEF Without
<1>2. ASSUME NEW n \in Names, veth[n] # NoVeth
      PROVE  veth'[n] \in Pair /\ veth'[n].progs = veth[n].progs \ gone
             /\ veth'[n] # NoVeth /\ veth'[n].peer = veth[n].peer
             /\ veth'[n].port = veth[n].port /\ veth'[n].eth0 = veth[n].eth0
  <2> DEFINE q == veth[n].progs \ gone
  <2>1. veth[n] \in Pair /\ veth'[n] = [veth[n] EXCEPT !.progs = q]
        /\ q \in SUBSET (Sandboxes \X Hooks)
    BY <1>1, <1>2
  <2> HIDE DEF q
  <2>2. veth'[n] \in Pair /\ veth'[n].progs = q /\ veth'[n].peer = veth[n].peer
        /\ veth'[n].port = veth[n].port /\ veth'[n].eth0 = veth[n].eth0
    BY <2>1 DEF Pair
  <2> QED
    BY <2>2, NoVethAssumption DEF q
<1>3. ASSUME NEW n \in Names, veth[n] = NoVeth PROVE veth'[n] = NoVeth
  BY <1>3 DEF Without
<1>4. ASSUME NEW n \in Names \ {Prefix[s]} PROVE veth'[n] = veth[n]
  <2>1. CASE veth[n] = NoVeth
    BY <2>1, <1>3
  <2>2. CASE veth[n] # NoVeth
    <3>1. veth[n].peer # s /\ veth[n].progs \subseteq {veth[n].peer} \X Hooks
      BY <2>2, <1>4 DEF Named
    <3>2. veth[n].progs \ gone = veth[n].progs
      BY <3>1
    <3> QED
      BY <1>1, <1>4, <2>2, <3>2, SamePrograms
  <2> QED
    BY <2>1, <2>2
<1>5. Prefix[s] \in Names /\ veth' \in [Names -> Pair \cup {NoVeth}]
  BY <1>2, <1>3, PrefixAssumption DEF Without
<1>6. CASE veth[Prefix[s]] # NoVeth
  <2>1. CASE veth[Prefix[s]].peer = s
    BY <1>2, <1>4, <1>5, <1>6, <2>1 DEF Touches, OwnPair, Named
  <2>2. CASE veth[Prefix[s]].peer # s
    <3>1. veth[Prefix[s]].progs \ gone = veth[Prefix[s]].progs
      BY <2>2, <1>5, <1>6 DEF Named
    <3>3. veth'[Prefix[s]] = veth[Prefix[s]]
      BY <1>1, <1>5, <1>6, <3>1, SamePrograms
    <3> QED
      BY <2>2, <3>3, <1>4, <1>5 DEF Touches, OwnPair
  <2> QED
    BY <2>1, <2>2
<1> QED
  BY <1>2, <1>3, <1>4, <1>5, <1>6 DEF Touches, OwnPair

-------------------------------------------------------------------------------
(* What a step does to its own sandbox.                                    *)

\* A step of s keeps the types, leaves s with what its next step needs, and
\* changes nothing of the others.
Effect(s) ==
  /\ NetTypeOK' /\ Touches(s) /\ Stage(s)'
  /\ \A z \in Sandboxes \ {s} :
       /\ npc'[z] = npc[z] /\ (z \in netns' <=> z \in netns)
       /\ (z \in objs' <=> z \in objs) /\ (z \in stuck' <=> z \in stuck)

\* A step that takes s further and no interface with it.
LEMMA NoInterface ==
  ASSUME NetInv, NEW s \in Sandboxes, NEW from, NEW to \in NetPCs, Goes(s, from, to),
         veth' = veth, bridge' \in BridgeStates, netns' \in {netns, netns \cup {s}, netns \ {s}},
         stuck' \in {stuck, stuck \cup {s}}, objs' \in {objs, objs \cup {s}, objs \ {s}},
         Stage(s)'
  PROVE  Effect(s)
<1>1. npc' \in [Sandboxes -> NetPCs] /\ \A z \in Sandboxes \ {s} : npc'[z] = npc[z]
  BY DEF NetInv, NetTypeOK, Goes
<1>2. NetTypeOK'
  BY <1>1 DEF NetInv, NetTypeOK
<1> QED
  BY <1>1, <1>2, PrefixAssumption DEF Effect, Touches

LEMMA BridgeAndNetns ==
  ASSUME NetInv, NEW s \in Sandboxes,
         \/ Setup(s) \/ AddBridge(s) \/ AddressBridge(s) \/ RaiseBridge(s)
         \/ AddNetns(s) \/ Destroy(s) \/ CommandFails(s)
  PROVE  Effect(s)
<1>0. Stage(s) /\ npc \in [Sandboxes -> NetPCs] /\ bridge \in BridgeStates
  BY DEF NetInv, NetTypeOK
<1> USE DEF Goes, hostVars, BridgePCs, PairPCs, LoadPCs, Hooks, NetPCs
<1>1. CASE Setup(s)
  <2>1. Stage(s)'
    BY <1>0, <1>1 DEF Setup, Stage, OwnPair, Early, Filled, Paired
  <2> QED
    BY <1>0, <1>1, <2>1, NoInterface DEF Setup
<1>2. CASE AddBridge(s) \/ AddressBridge(s) \/ RaiseBridge(s)
  <2>1. Stage(s)'
    BY <1>0, <1>2 DEF AddBridge, AddressBridge, RaiseBridge, BridgeCommand,
                      Stage, OwnPair, Early, Filled, Paired
  <2> QED
    BY <1>0, <1>2, <2>1, NoInterface
    DEF AddBridge, AddressBridge, RaiseBridge, BridgeCommand, BridgeStates
<1>3. CASE AddNetns(s)
  <2>1. Stage(s)'
    BY <1>0, <1>3 DEF AddNetns, Stage, OwnPair, Early, Filled, Paired
  <2> QED
    BY <1>0, <1>3, <2>1, NoInterface DEF AddNetns
<1>4. CASE Destroy(s)
  <2>1. Stage(s)'
    BY <1>0, <1>4 DEF Destroy, Stage, OwnPair, Early, Filled, Paired
  <2> QED
    BY <1>0, <1>4, <2>1, NoInterface DEF Destroy
<1>5. CASE CommandFails(s)
  <2> DEFINE to == OnError(npc[s])
  <2>1. /\ npc[s] \in BridgePCs \cup {"addNetns", "delNetns"} => to = "idle"
        /\ npc[s] \in {"addVeth", "delVeth"} => to = "delNetns"
        /\ npc[s] \in PairPCs => to = "delVeth"
    BY DEF OnError
  <2>2. Goes(s, npc[s], to)
    BY <1>5 DEF CommandFails
  <2> HIDE DEF to
  <2>3. Stage(s)' /\ to \in NetPCs
    BY <1>0, <1>5, <2>1, <2>2 DEF CommandFails, Stage, OwnPair, Early, Filled, Paired
  <2>4. /\ veth' = veth /\ bridge' = bridge /\ netns' = netns /\ objs' = objs
        /\ stuck' \in {stuck, stuck \cup {s}}
    BY <1>5 DEF CommandFails
  <2> QED
    BY <1>0, <2>2, <2>3, <2>4, NoInterface
<1> QED
  BY <1>1, <1>2, <1>3, <1>4, <1>5

\* A step that changes the pair of s, or makes it at a free name.
LEMMA OwnInterface ==
  ASSUME NetInv, NEW s \in Sandboxes, NEW from, NEW to \in NetPCs, Goes(s, from, to),
         OwnPair(s) \/ veth[Prefix[s]] = NoVeth,
         NEW r \in Pair \cup {NoVeth}, veth' = [veth EXCEPT ![Prefix[s]] = r],
         r # NoVeth => r.peer = s /\ r.progs \subseteq {s} \X Hooks,
         bridge' = bridge, netns' \in {netns, netns \ {s}}, stuck' = stuck,
         objs' \in {objs, objs \ {s}}, Stage(s)'
  PROVE  Effect(s)
<1>1. npc' \in [Sandboxes -> NetPCs] /\ \A z \in Sandboxes \ {s} : npc'[z] = npc[z]
  BY DEF NetInv, NetTypeOK, Goes
<1>2. /\ veth' \in [Names -> Pair \cup {NoVeth}] /\ veth'[Prefix[s]] = r
      /\ \A n \in Names \ {Prefix[s]} : veth'[n] = veth[n]
  BY PrefixAssumption DEF NetInv, NetTypeOK
<1>3. NetTypeOK'
  BY <1>1, <1>2 DEF NetInv, NetTypeOK
<1>4. Touches(s)
  BY <1>2 DEF Touches
<1> QED
  BY <1>1, <1>3, <1>4 DEF Effect

LEMMA MakingThePair ==
  ASSUME NetInv, NEW s \in Sandboxes, AddVeth(s)
  PROVE  Effect(s)
<1> USE DEF BridgePCs, PairPCs, LoadPCs, Hooks, NetPCs
<1>0. Stage(s) /\ npc \in [Sandboxes -> NetPCs] /\ Prefix[s] \in Names
      /\ veth \in [Names -> Pair \cup {NoVeth}]
  BY PrefixAssumption DEF NetInv, NetTypeOK
<1> DEFINE r == NewPair(s)
<1>1. r \in Pair /\ r # NoVeth /\ r.peer = s /\ r.progs = {}
  BY NewPairIsPair
<1>2. veth' = [veth EXCEPT ![Prefix[s]] = r]
  BY DEF AddVeth
<1> HIDE DEF r
<1>3. Stage(s)'
  BY <1>0, <1>1, <1>2 DEF AddVeth, Goes, Stage, OwnPair, Early, Filled, Paired
<1> QED
  BY <1>0, <1>1, <1>2, <1>3, OwnInterface DEF AddVeth

LEMMA RaisingThePort ==
  ASSUME NetInv, NEW s \in Sandboxes, AttachToBridge(s) \/ RaisePort(s)
  PROVE  Effect(s)
<1> USE DEF BridgePCs, PairPCs, LoadPCs, Hooks, NetPCs
<1>0. Stage(s) /\ npc \in [Sandboxes -> NetPCs] /\ Prefix[s] \in Names
      /\ veth \in [Names -> Pair \cup {NoVeth}]
  BY PrefixAssumption DEF NetInv, NetTypeOK
<1>1. PICK from \in {"attach", "raise"}, to \in {"raise", "address"},
           makes \in {"attached", "up"} :
        /\ PortCommand(s, from, to, makes)
        /\ to = "address" => makes = "up"
  BY DEF AttachToBridge, RaisePort
<1>2. OwnPair(s) /\ veth[Prefix[s]] \in Pair
      /\ veth[Prefix[s]].progs \subseteq {s} \X Hooks
  BY <1>0, <1>1 DEF PortCommand, Goes, Stage, Paired, OwnPair, NetInv, Named
<1> DEFINE r == [veth[Prefix[s]] EXCEPT !.port = makes]
<1>3. r \in Pair /\ r # NoVeth /\ r.peer = s /\ r.progs = veth[Prefix[s]].progs
      /\ r.port = makes
  BY <1>2, NoVethAssumption DEF OwnPair, Pair
<1>4. veth' = [veth EXCEPT ![Prefix[s]] = r]
  BY <1>0, <1>1 DEF PortCommand
<1> HIDE DEF r
<1>5. Stage(s)'
  BY <1>0, <1>1, <1>3, <1>4
  DEF PortCommand, Goes, Stage, OwnPair, Early, Filled, Paired
<1> QED
  BY <1>0, <1>1, <1>2, <1>3, <1>4, <1>5, OwnInterface DEF PortCommand

LEMMA ConfiguringTheGuest ==
  ASSUME NetInv, NEW s \in Sandboxes, AddressGuest(s) \/ RaiseGuest(s) \/ RouteGuest(s)
  PROVE  Effect(s)
<1> USE DEF BridgePCs, PairPCs, LoadPCs, Hooks, NetPCs
<1>0. Stage(s) /\ npc \in [Sandboxes -> NetPCs] /\ Prefix[s] \in Names
      /\ veth \in [Names -> Pair \cup {NoVeth}]
  BY PrefixAssumption DEF NetInv, NetTypeOK
<1>1. PICK from \in {"address", "raiseGuest", "route"},
           to \in {"raiseGuest", "route", "ready"},
           has \in {"plain", "addressed", "up"},
           makes \in {"addressed", "up", "routed"} :
        /\ GuestCommand(s, from, to, has, makes)
        /\ to = "ready" => makes = "routed"
  BY DEF AddressGuest, RaiseGuest, RouteGuest
<1>2. PICK n \in Names : /\ veth[n] # NoVeth /\ veth[n].peer = s
                        /\ veth' = [veth EXCEPT ![n].eth0 = makes]
  BY <1>1 DEF GuestCommand
<1>3. n = Prefix[s]
  BY <1>2 DEF NetInv, Named
<1>4. OwnPair(s) /\ veth[Prefix[s]] \in Pair
      /\ veth[Prefix[s]].progs \subseteq {s} \X Hooks
  BY <1>0, <1>2, <1>3 DEF OwnPair, NetInv, Named
<1> DEFINE r == [veth[Prefix[s]] EXCEPT !.eth0 = makes]
<1>5. r \in Pair /\ r # NoVeth /\ r.peer = s /\ r.progs = veth[Prefix[s]].progs
      /\ r.port = veth[Prefix[s]].port /\ r.eth0 = makes
  BY <1>4, NoVethAssumption DEF OwnPair, Pair
<1>6. veth' = [veth EXCEPT ![Prefix[s]] = r]
  BY <1>0, <1>2, <1>3
<1> HIDE DEF r
<1>7. Stage(s)'
  BY <1>0, <1>1, <1>5, <1>6
  DEF GuestCommand, Goes, Stage, OwnPair, Early, Filled, Paired
<1> QED
  BY <1>0, <1>1, <1>4, <1>5, <1>6, <1>7, OwnInterface DEF GuestCommand

LEMMA Removing ==
  ASSUME NetInv, NEW s \in Sandboxes, DelVeth(s) \/ DelNetns(s)
  PROVE  Effect(s)
<1> USE DEF BridgePCs, PairPCs, LoadPCs, Hooks, NetPCs
<1>0. Stage(s) /\ npc \in [Sandboxes -> NetPCs] /\ Prefix[s] \in Names
      /\ veth \in [Names -> Pair \cup {NoVeth}] /\ bridge \in BridgeStates
  BY PrefixAssumption DEF NetInv, NetTypeOK
<1>1. CASE DelVeth(s)
  <2>1. Stage(s)'
    BY <1>0, <1>1 DEF DelVeth, Goes, Stage, OwnPair, Early, Filled, Paired
  <2>2. OwnPair(s)
    BY <1>0, <1>1 DEF DelVeth, Goes, Stage, Paired
  <2> QED
    BY <1>1, <2>1, <2>2, OwnInterface DEF DelVeth
<1>2. CASE DelNetns(s)
  <2>1. ASSUME NEW n \in Names PROVE veth'[n] = IF n = Prefix[s] /\ OwnPair(s)
                                               THEN NoVeth ELSE veth[n]
    BY <1>2 DEF DelNetns, NetInv, Named, OwnPair
  <2>2. ~OwnPair(s)'
    BY <1>0, <2>1 DEF OwnPair
  <2>3. Stage(s)'
    BY <1>0, <1>2, <2>2 DEF DelNetns, Goes, Stage, Early, Filled, Paired
  <2>4. CASE OwnPair(s)
    <3>1. veth' = [veth EXCEPT ![Prefix[s]] = NoVeth]
      BY <1>0, <1>2, <2>1, <2>4 DEF DelNetns
    <3> QED
      BY <1>2, <2>3, <2>4, <3>1, OwnInterface DEF DelNetns
  <2>5. CASE ~OwnPair(s)
    <3>1. veth' = veth
      BY <1>0, <1>2, <2>1, <2>5 DEF DelNetns
    <3> QED
      BY <1>0, <1>2, <2>3, <3>1, NoInterface DEF DelNetns
  <2> QED
    BY <2>4, <2>5
<1> QED
  BY <1>1, <1>2

LEMMA LoadingTheFilter ==
  ASSUME NetInv, NEW s \in Sandboxes,
         \/ OpenCollection(s) \/ FindVeth(s) \/ LoadFails(s) \/ AddClsact(s)
         \/ \E how \in Hooks : AttachProgram(s, how)
  PROVE  Effect(s)
<1> USE DEF BridgePCs, PairPCs, LoadPCs, NetPCs
<1>0. Stage(s) /\ npc \in [Sandboxes -> NetPCs] /\ Prefix[s] \in Names
      /\ veth \in [Names -> Pair \cup {NoVeth}] /\ bridge \in BridgeStates
  BY PrefixAssumption DEF NetInv, NetTypeOK
<1>1. CASE OpenCollection(s) \/ FindVeth(s) \/ LoadFails(s)
  <2>1. Stage(s)'
    BY <1>0, <1>1 DEF OpenCollection, FindVeth, LoadFails, Goes, hostVars, Hooks,
                      Stage, OwnPair, Early, Filled, Paired
  <2> QED
    BY <1>0, <1>1, <2>1, NoInterface
    DEF OpenCollection, FindVeth, LoadFails, hostVars
<1>2. CASE AddClsact(s) \/ \E how \in Hooks : AttachProgram(s, how)
  <2>1. OwnPair(s) /\ veth[Prefix[s]] \in Pair
        /\ veth[Prefix[s]].progs \subseteq {s} \X Hooks
    BY <1>0, <1>2 DEF AddClsact, AttachProgram, Goes, Stage, OwnPair, Filled, Paired,
                      NetInv, Named
  <2>2. CASE AddClsact(s)
    <3> DEFINE r == [veth[Prefix[s]] EXCEPT !.clsact = TRUE]
    <3>1. r \in Pair /\ r # NoVeth /\ r.peer = s /\ r.progs = veth[Prefix[s]].progs
          /\ r.port = veth[Prefix[s]].port /\ r.eth0 = veth[Prefix[s]].eth0
      BY <2>1, NoVethAssumption DEF OwnPair, Pair
    <3>2. veth' = [veth EXCEPT ![Prefix[s]] = r]
      BY <1>0, <2>2 DEF AddClsact
    <3> HIDE DEF r
    <3>3. Stage(s)'
      BY <1>0, <2>2, <3>1, <3>2
      DEF AddClsact, Goes, Hooks, Stage, OwnPair, Early, Filled, Paired
    <3> QED
      BY <2>1, <2>2, <3>1, <3>2, <3>3, OwnInterface DEF AddClsact
  <2>3. ASSUME NEW how \in Hooks, AttachProgram(s, how) PROVE Effect(s)
    <3> DEFINE q == veth[Prefix[s]].progs \cup {<<s, how>>}
               r == [veth[Prefix[s]] EXCEPT !.progs = q]
    <3>1. q \in SUBSET ({s} \X Hooks) /\ q \in SUBSET (Sandboxes \X Hooks)
          /\ <<s, how>> \in q
      BY <2>1
    <3>2. veth' = [veth EXCEPT ![Prefix[s]] = r]
      BY <1>0, <2>3 DEF AttachProgram
    <3> HIDE DEF q
    <3>3. r \in Pair /\ r # NoVeth /\ r.peer = s /\ r.progs = q
          /\ r.port = veth[Prefix[s]].port /\ r.eth0 = veth[Prefix[s]].eth0
      BY <2>1, <3>1, NoVethAssumption DEF OwnPair, Pair
    <3> HIDE DEF r
    <3>4. Stage(s)'
      BY <1>0, <2>3, <3>1, <3>2, <3>3
      DEF AttachProgram, Goes, Hooks, Stage, OwnPair, Early, Filled, Paired
    <3> QED
      BY <2>1, <2>3, <3>1, <3>2, <3>3, <3>4, OwnInterface DEF AttachProgram
  <2> QED
    BY <1>2, <2>2, <2>3
<1> QED
  BY <1>1, <1>2

LEMMA DroppingTheFilter ==
  ASSUME NetInv, NEW s \in Sandboxes, Detach(s) \/ Collected(s)
  PROVE  Effect(s)
<1> USE DEF BridgePCs, PairPCs, LoadPCs, NetPCs
<1>0. Stage(s) /\ npc \in [Sandboxes -> NetPCs] /\ Prefix[s] \in Names
      /\ veth \in [Names -> Pair \cup {NoVeth}] /\ bridge \in BridgeStates
      /\ netns \subseteq Sandboxes /\ objs \subseteq Sandboxes
      /\ stuck \subseteq Sandboxes
  BY PrefixAssumption DEF NetInv, NetTypeOK
<1>1. CASE Detach(s)
  <2>1. OwnPair(s) /\ veth[Prefix[s]] \in Pair
    BY <1>0, <1>1 DEF Detach, Goes, Stage, OwnPair, Filled, Paired
  <2>2. CASE veth' = [veth EXCEPT ![Prefix[s]].clsact = FALSE, ![Prefix[s]].progs = {}]
    <3> DEFINE r == [veth[Prefix[s]] EXCEPT !.clsact = FALSE, !.progs = {}]
    <3>1. r \in Pair /\ r # NoVeth /\ r.peer = s /\ r.progs = {}
          /\ r.port = veth[Prefix[s]].port /\ r.eth0 = veth[Prefix[s]].eth0
      BY <2>1, NoVethAssumption DEF OwnPair, Pair
    <3>2. veth' = [veth EXCEPT ![Prefix[s]] = r]
      BY <1>0, <2>2
    <3> HIDE DEF r
    <3>3. Stage(s)'
      BY <1>0, <1>1, <3>1, <3>2
      DEF Detach, Goes, Hooks, Stage, OwnPair, Early, Filled, Paired
    <3> QED
      BY <1>1, <2>1, <3>1, <3>2, <3>3, OwnInterface DEF Detach
  <2>3. CASE veth' = Without({s} \X Hooks)
    <3>1. /\ Touches(s) /\ veth' \in [Names -> Pair \cup {NoVeth}] /\ OwnPair(s)'
          /\ veth'[Prefix[s]].port = veth[Prefix[s]].port
          /\ veth'[Prefix[s]].eth0 = veth[Prefix[s]].eth0
      BY <2>1, <2>3, WithoutTouches DEF NetInv
    <3>2. Stage(s)'
      BY <1>0, <1>1, <3>1
      DEF Detach, Goes, Hooks, Stage, Early, Filled, Paired
    <3> QED
      BY <1>0, <1>1, <3>1, <3>2 DEF Detach, Goes, Effect, NetTypeOK
  <2> QED
    BY <1>1, <2>1, <2>2, <2>3 DEF Detach, OwnPair
<1>2. CASE Collected(s)
  <2> DEFINE gone == {<<s, "tcx">>}
  <2>1. gone \in SUBSET ({s} \X Hooks) /\ veth' = Without(gone)
        /\ <<s, "netlink">> \notin gone
    BY <1>2 DEF Collected, Hooks
  <2> HIDE DEF gone
  <2>2. /\ Touches(s) /\ veth' \in [Names -> Pair \cup {NoVeth}]
        /\ OwnPair(s)' <=> OwnPair(s)
        /\ OwnPair(s) => /\ veth'[Prefix[s]].port = veth[Prefix[s]].port
                         /\ veth'[Prefix[s]].eth0 = veth[Prefix[s]].eth0
                         /\ veth'[Prefix[s]].progs = veth[Prefix[s]].progs \ gone
    BY <2>1, WithoutTouches DEF NetInv
  <2>3. Stage(s)'
    BY <1>0, <1>2, <2>1, <2>2 DEF Collected, Hooks, Stage, Early, Filled, Paired
  <2> QED
    BY <1>0, <1>2, <2>2, <2>3 DEF Collected, Effect, NetTypeOK
<1> QED
  BY <1>1, <1>2

-------------------------------------------------------------------------------
(* The invariant.                                                          *)

\* What a step of s leaves alone is all that the others rely on.
LEMMA EffectKeepsInv ==
  ASSUME NetInv, NEW s \in Sandboxes, Effect(s)
  PROVE  NetInv'
<1>0. Prefix[s] \in Names /\ Touches(s)
  BY PrefixAssumption DEF Effect
<1>1. ASSUME NEW n \in Names, veth'[n] # NoVeth
      PROVE  /\ n = Prefix[veth'[n].peer]
             /\ veth'[n].progs \subseteq {veth'[n].peer} \X Hooks
  <2>1. CASE veth'[n] = veth[n]
    BY <1>1, <2>1 DEF NetInv, Named
  <2>2. CASE veth'[n] # veth[n]
    BY <1>0, <1>1, <2>2 DEF Touches
  <2> QED
    BY <2>1, <2>2
<1>2. ASSUME NEW z \in Sandboxes, z # s PROVE Stage(z)'
  <2>1. Stage(z) /\ Prefix[z] \in Names
    BY PrefixAssumption DEF NetInv
  <2>2. /\ npc'[z] = npc[z] /\ (z \in netns' <=> z \in netns)
        /\ (z \in objs' <=> z \in objs) /\ (z \in stuck' <=> z \in stuck)
    BY <1>2 DEF Effect
  <2>3. CASE veth'[Prefix[z]] = veth[Prefix[z]]
    BY <2>1, <2>2, <2>3 DEF Stage, OwnPair
  <2>4. CASE veth'[Prefix[z]] # veth[Prefix[z]]
    <3>1. ~OwnPair(z) /\ ~OwnPair(z)'
      BY <1>0, <1>2, <2>1, <2>4 DEF Touches, OwnPair
    <3> QED
      BY <2>1, <2>2, <3>1 DEF Stage, Paired, Filled, PairPCs, LoadPCs, Hooks, Early, BridgePCs
  <2> QED
    BY <2>3, <2>4
<1> QED
  BY <1>1, <1>2 DEF NetInv, Named, Effect

LEMMA NetInvStep == NetInv /\ [Next]_vars => NetInv'
<1> SUFFICES ASSUME NetInv, [Next]_vars PROVE NetInv'
  OBVIOUS
<1>1. CASE UNCHANGED vars
  BY <1>1 DEF vars, hostVars, NetInv, NetTypeOK, Named, Stage, OwnPair
<1>2. ASSUME NEW s \in Sandboxes, SetupStep(s) PROVE Effect(s)
  BY <1>2, BridgeAndNetns, MakingThePair, RaisingThePort, ConfiguringTheGuest DEF SetupStep
<1>3. ASSUME NEW s \in Sandboxes, DestroyStep(s) \/ CommandFails(s) PROVE Effect(s)
  BY <1>3, BridgeAndNetns, Removing DEF DestroyStep
<1>4. ASSUME NEW s \in Sandboxes, FilterStep(s) PROVE Effect(s)
  BY <1>4, LoadingTheFilter, DroppingTheFilter DEF FilterStep
<1> QED
  BY <1>1, <1>2, <1>3, <1>4, EffectKeepsInv DEF Next

THEOREM NetInvariant == NetSpec => []NetInv
<1>1. Init => NetInv
  <2> SUFFICES ASSUME Init PROVE NetInv
    OBVIOUS
  <2>1. NetTypeOK
    BY DEF Init, NetTypeOK, BridgeStates, NetPCs
  <2>2. Named
    BY DEF Init, Named
  <2>3. ASSUME NEW s \in Sandboxes PROVE Stage(s)
    BY PrefixAssumption
    DEF Init, Stage, OwnPair, Early, Filled, Paired, BridgePCs, PairPCs, LoadPCs, Hooks
  <2> QED
    BY <2>1, <2>2, <2>3 DEF NetInv
<1> QED
  BY <1>1, NetInvStep, PTL DEF NetSpec

\* Setup and Destroy keep the state well formed (network_linux.go:48-175).
THEOREM NetTypeCorrect == NetSpec => []NetTypeOK
BY NetInvariant, PTL DEF NetInv

\* A network in use is whole, whatever failing Setups, cleanups and Destroys of
\* sandboxes with the same eight characters do (network_linux.go:68-72, 164-175).
THEOREM NetworkIsKept == NetSpec => []NetworkKept
<1>1. NetInv => NetworkKept
  <2>1. ASSUME NetInv, NEW s \in Sandboxes, InUse(s)
        PROVE  npc[s] \in Filled /\ npc[s] \in Paired /\ npc[s] \notin Early /\ Stage(s)
    BY <2>1 DEF NetInv, InUse, Filled, Paired, Early, LoadPCs, Hooks, BridgePCs
  <2> QED
    BY <2>1 DEF Stage, NetworkKept
<1> QED
  BY <1>1, NetInvariant, PTL

\* A failed Setup and a Destroy leave nothing (network_linux.go:70-96, 164-175).
THEOREM NothingIsLeft == NetSpec => []NothingLeft
<1>1. NetInv => NothingLeft
  BY DEF NetInv, NothingLeft, Named, OwnPair, Stage, Early
<1> QED
  BY <1>1, NetInvariant, PTL

\* Programs stay on their own sandbox's interface (loader_linux.go:104-117).
THEOREM FiltersStayInPlace == NetSpec => []FilterInPlace
<1>1. NetInv => FilterInPlace
  BY DEF NetInv, FilterInPlace, Named, Stage, Filled, Paired, Hooks
<1> QED
  BY <1>1, NetInvariant, PTL

-------------------------------------------------------------------------------
(* Addresses.                                                              *)

\* Two /30 networks that share an address are those of slots that differ by a
\* multiple of 16384: a block of four never straddles two networks, and the two
\* bytes count 16384 of them (network_linux.go:153-159).
LEMMA SubnetsShared ==
  ASSUME NEW s \in Sandboxes, NEW t \in Sandboxes, Subnet(s) \cap Subnet(t) # {}
  PROVE  Slot(s) % 16384 = Slot(t) % 16384
<1>1. Slot(s) \in Nat /\ Slot(t) \in Nat
  <2>1. Tail[s] \in Nat /\ Tail[t] \in Nat
    BY TailAssumption
  <2> QED
    BY <2>1 DEF Slot
<1>2. PICK i \in 0..3, j \in 0..3 :
        Third(s) = Third(t) /\ Fourth(s) + i = Fourth(t) + j
  BY DEF Subnet
<1> DEFINE x == Slot(s)
           y == Slot(t)
<1>3. /\ ((x * 4 + 4) \div 256) % 256 = ((y * 4 + 4) \div 256) % 256
      /\ ((x * 4 + 4) % 256) + i = ((y * 4 + 4) % 256) + j
  BY <1>2 DEF Third, Fourth, Base
<1> HIDE DEF x, y
<1>4. x \in Nat /\ y \in Nat
  BY <1>1 DEF x, y
<1>5. (x * 4 + 4) % 256 = (y * 4 + 4) % 256
  BY <1>3, <1>4
<1>6. x % 16384 = y % 16384
  BY <1>3, <1>4, <1>5
<1> QED
  BY <1>6 DEF x, y

\* Sandboxes whose slots are closer than 16384 never share an address.
THEOREM SubnetsAreDisjoint == NetSpec => []SubnetsDisjoint
<1>1. SubnetsDisjoint
  BY SubnetsShared DEF SubnetsDisjoint
<1> QED
  BY <1>1, PTL

LEMMA SlotIsNat ==
  ASSUME NEW s \in Sandboxes
  PROVE  Slot(s) \in Nat
<1>1. Tail[s] \in Nat
  BY TailAssumption
<1> QED
  BY <1>1 DEF Slot

\* Every network is four addresses of 10.100.0.0/16 (network_linux.go:155-158).
THEOREM SubnetsAreAddresses ==
  \A s \in Sandboxes : Subnet(s) \subseteq (0..255) \X (0..255)
<1> SUFFICES ASSUME NEW s \in Sandboxes, NEW i \in 0..3
             PROVE  <<Third(s), Fourth(s) + i>> \in (0..255) \X (0..255)
  BY DEF Subnet
<1> DEFINE x == Slot(s)
<1>1. x \in Nat
  BY SlotIsNat
<1> HIDE DEF x
<1> DEFINE q == (x * 4 + 4) \div 256
<1>2. q \in Nat /\ (x * 4 + 4) % 256 = 4 * ((x + 1) % 64)
  BY <1>1
<1>3. (x + 1) % 64 \in 0..63
  BY <1>1
<1>4. ((x * 4 + 4) % 256) + i \in 0..255
  BY <1>2, <1>3
<1> HIDE DEF q
<1>5. q % 256 \in 0..255
  BY <1>2
<1> QED
  BY <1>4, <1>5 DEF Third, Fourth, Base, x, q

\* Exactly when two sandboxes are given one address, and exactly when
\* one's gateway is the address that the bridge has (network_linux.go:31,
\* 153-159): the address space holds 16384 networks for 65000 slots.
THEOREM SlotsDecideAddresses ==
  /\ \A s, t \in Sandboxes : Guest(s) = Guest(t) <=> Slot(s) % 16384 = Slot(t) % 16384
  /\ \A s \in Sandboxes : Gateway(s) = <<0, 1>> <=> Slot(s) % 16384 = 16383
<1>1. ASSUME NEW s \in Sandboxes, NEW t \in Sandboxes, Guest(s) = Guest(t)
      PROVE  Slot(s) % 16384 = Slot(t) % 16384
  <2>1. Guest(s) \in Subnet(s) /\ Guest(t) \in Subnet(t)
    BY DEF Guest, Subnet
  <2> QED
    BY <1>1, <2>1, SubnetsShared
<1>2. ASSUME NEW s \in Sandboxes, NEW t \in Sandboxes,
             Slot(s) % 16384 = Slot(t) % 16384
      PROVE  Guest(s) = Guest(t)
  <2> DEFINE x == Slot(s)
             y == Slot(t)
  <2>1. x \in Nat /\ y \in Nat /\ x % 16384 = y % 16384
    BY <1>2, SlotIsNat
  <2> HIDE DEF x, y
  <2>2. PICK k \in Int : x = y + 16384 * k
    <3> DEFINE i == x \div 16384
               j == y \div 16384
               r == x % 16384
    <3>1. /\ i \in Int /\ j \in Int /\ r \in Int
          /\ x = 16384 * i + r /\ y = 16384 * j + r
      BY <2>1
    <3> HIDE DEF i, j, r
    <3>2. x = y + 16384 * (i - j) /\ i - j \in Int
      BY <2>1, <3>1
    <3> QED
      BY <3>2
  <2>3. (x * 4 + 4) \div 256 = (y * 4 + 4) \div 256 + 256 * k
    BY <2>1, <2>2
  <2>4. ((x * 4 + 4) \div 256) % 256 = ((y * 4 + 4) \div 256) % 256
    BY <2>1, <2>2, <2>3
  <2>5. (x * 4 + 4) % 256 = (y * 4 + 4) % 256
    BY <2>1, <2>2
  <2> QED
    BY <2>4, <2>5 DEF Guest, Third, Fourth, Base, x, y
<1>3. ASSUME NEW s \in Sandboxes
      PROVE  Gateway(s) = <<0, 1>> <=> Slot(s) % 16384 = 16383
  <2> DEFINE x == Slot(s)
  <2>1. x \in Nat
    BY SlotIsNat
  <2> HIDE DEF x
  <2>2. (((x * 4 + 4) \div 256) % 256 = 0 /\ ((x * 4 + 4) % 256) + 1 = 1)
          <=> x % 16384 = 16383
    BY <2>1
  <2>3. Gateway(s) = <<0, 1>> <=> Third(s) = 0 /\ Fourth(s) + 1 = 1
    BY DEF Gateway
  <2> QED
    BY <2>2, <2>3 DEF Third, Fourth, Base, x
<1> QED
  BY <1>1, <1>2, <1>3

-------------------------------------------------------------------------------
(* Callers that repeat a Destroy.                                          *)

DistinctNames == \A s, t \in Sandboxes : Prefix[s] = Prefix[t] => s = t

\* What s has of its own, whoever deletes its network again.
Kept(s) ==
  /\ npc[s] \in PairPCs \cup Filled \cup {"addVeth"} => s \in netns
  /\ npc[s] \in PairPCs \cup Filled => OwnPair(s)
  /\ npc[s] \in Filled \cup {"address", "raiseGuest", "route"} =>
       veth[Prefix[s]].port = "up"
  /\ npc[s] \in Filled => veth[Prefix[s]].eth0 = "routed"

RetryInv == NetTypeOK /\ Named /\ \A s \in Sandboxes : Kept(s)

\* A step of s works at its own name, and leaves s what Kept asks for.
KeptEffect(s) ==
  /\ NetTypeOK' /\ Touches(s) /\ Kept(s)'
  /\ \A z \in Sandboxes \ {s} : npc'[z] = npc[z] /\ (z \in netns' <=> z \in netns)

\* Where every sandbox has a name of its own, a pair at its name is its own.
LEMMA PairIsOwn ==
  ASSUME DistinctNames, RetryInv, NEW s \in Sandboxes
  PROVE  OwnPair(s) \/ veth[Prefix[s]] = NoVeth
<1>1. ASSUME veth[Prefix[s]] # NoVeth PROVE veth[Prefix[s]].peer = s
  <2>1. Prefix[s] \in Names
    BY PrefixAssumption
  <2>2. veth[Prefix[s]] \in Pair /\ Prefix[s] = Prefix[veth[Prefix[s]].peer]
    BY <1>1, <2>1, IsPair DEF RetryInv, Named
  <2>3. veth[Prefix[s]].peer \in Sandboxes
    BY <2>2 DEF Pair
  <2> QED
    BY <2>2, <2>3 DEF DistinctNames
<1> QED
  BY <1>1 DEF OwnPair

\* The steps that change no interface.
LEMMA KeptElsewhere ==
  ASSUME RetryInv, NEW s \in Sandboxes,
         \/ Setup(s) \/ AddBridge(s) \/ AddressBridge(s) \/ RaiseBridge(s)
         \/ AddNetns(s) \/ Destroy(s) \/ CommandFails(s) \/ DestroyAgain(s)
         \/ OpenCollection(s) \/ FindVeth(s) \/ LoadFails(s)
  PROVE  KeptEffect(s)
<1>0. /\ Kept(s) /\ NetTypeOK
      /\ npc \in [Sandboxes -> NetPCs] /\ bridge \in BridgeStates
      /\ netns \subseteq Sandboxes /\ objs \subseteq Sandboxes /\ stuck \subseteq Sandboxes
  BY DEF RetryInv, NetTypeOK
<1> USE DEF Goes, hostVars, BridgePCs, PairPCs, LoadPCs, Hooks, NetPCs, BridgeStates
<1>1. CASE Setup(s) \/ AddBridge(s) \/ AddressBridge(s) \/ RaiseBridge(s) \/ AddNetns(s)
  <2>1. veth' = veth
    BY <1>1 DEF Setup, AddBridge, AddressBridge, RaiseBridge, BridgeCommand, AddNetns
  <2>2. Kept(s)'
    BY <1>0, <1>1, <2>1 DEF Setup, AddBridge, AddressBridge, RaiseBridge, BridgeCommand,
                            AddNetns, Kept, OwnPair, Filled
  <2>3. NetTypeOK'
    BY <1>0, <1>1, <2>1 DEF Setup, AddBridge, AddressBridge, RaiseBridge, BridgeCommand,
                            AddNetns, NetTypeOK
  <2>4. \A z \in Sandboxes \ {s} : npc'[z] = npc[z] /\ (z \in netns' <=> z \in netns)
    BY <1>0, <1>1 DEF Setup, AddBridge, AddressBridge, RaiseBridge, BridgeCommand, AddNetns
  <2> QED
    BY <2>1, <2>2, <2>3, <2>4, PrefixAssumption DEF KeptEffect, Touches
<1>2. CASE Destroy(s) \/ DestroyAgain(s) \/ OpenCollection(s) \/ FindVeth(s) \/ LoadFails(s)
  <2>1. veth' = veth /\ netns' = netns
    BY <1>2 DEF Destroy, DestroyAgain, OpenCollection, FindVeth, LoadFails
  <2>2. Kept(s)'
    BY <1>0, <1>2, <2>1 DEF Destroy, DestroyAgain, OpenCollection, FindVeth, LoadFails,
                            Kept, OwnPair, Filled
  <2>3. NetTypeOK'
    BY <1>0, <1>2, <2>1 DEF Destroy, DestroyAgain, OpenCollection, FindVeth, LoadFails,
                            NetTypeOK
  <2>4. \A z \in Sandboxes \ {s} : npc'[z] = npc[z]
    BY <1>0, <1>2 DEF Destroy, DestroyAgain, OpenCollection, FindVeth, LoadFails
  <2> QED
    BY <2>1, <2>2, <2>3, <2>4, PrefixAssumption DEF KeptEffect, Touches
<1>3. CASE CommandFails(s)
  <2> DEFINE to == OnError(npc[s])
  <2>1. to \in {"idle", "delNetns", "delVeth"}
    BY <1>3 DEF CommandFails, OnError
  <2>2. npc' = [npc EXCEPT ![s] = to]
    BY <1>3 DEF CommandFails
  <2> HIDE DEF to
  <2>3. veth' = veth /\ netns' = netns /\ bridge' = bridge /\ objs' = objs
        /\ stuck' \in {stuck, stuck \cup {s}}
    BY <1>3 DEF CommandFails
  <2>4. Kept(s)'
    BY <1>0, <2>1, <2>2, <2>3 DEF Kept, OwnPair, Filled
  <2>5. NetTypeOK' /\ \A z \in Sandboxes \ {s} : npc'[z] = npc[z]
    BY <1>0, <2>1, <2>2, <2>3 DEF NetTypeOK
  <2> QED
    BY <2>3, <2>4, <2>5, PrefixAssumption DEF KeptEffect, Touches
<1> QED
  BY <1>1, <1>2, <1>3

\* A step that changes the pair of s, or makes or deletes it.
LEMMA KeptAtOwnName ==
  ASSUME DistinctNames, RetryInv, NEW s \in Sandboxes, NEW from, NEW to \in NetPCs,
         Goes(s, from, to),
         NEW r \in Pair \cup {NoVeth}, veth' = [veth EXCEPT ![Prefix[s]] = r],
         r # NoVeth => r.peer = s /\ r.progs \subseteq {s} \X Hooks,
         bridge' = bridge, netns' \in {netns, netns \ {s}}, stuck' = stuck,
         objs' \in {objs, objs \ {s}}, Kept(s)'
  PROVE  KeptEffect(s)
<1>1. npc' \in [Sandboxes -> NetPCs] /\ \A z \in Sandboxes \ {s} : npc'[z] = npc[z]
  BY DEF RetryInv, NetTypeOK, Goes
<1>2. /\ veth' \in [Names -> Pair \cup {NoVeth}] /\ veth'[Prefix[s]] = r
      /\ \A n \in Names \ {Prefix[s]} : veth'[n] = veth[n]
  BY PrefixAssumption DEF RetryInv, NetTypeOK
<1>3. NetTypeOK'
  BY <1>1, <1>2 DEF RetryInv, NetTypeOK
<1>4. Touches(s)
  BY <1>2, PairIsOwn DEF Touches
<1> QED
  BY <1>1, <1>3, <1>4 DEF KeptEffect

\* The steps of Setup and Load on the interface.
LEMMA KeptWhenBuilding ==
  ASSUME DistinctNames, RetryInv, NEW s \in Sandboxes,
         \/ AddVeth(s) \/ AttachToBridge(s) \/ RaisePort(s)
         \/ AddressGuest(s) \/ RaiseGuest(s) \/ RouteGuest(s)
         \/ AddClsact(s) \/ \E how \in Hooks : AttachProgram(s, how)
  PROVE  KeptEffect(s)
<1> USE DEF BridgePCs, PairPCs, LoadPCs, NetPCs
<1>0. /\ Kept(s) /\ npc \in [Sandboxes -> NetPCs] /\ Prefix[s] \in Names
      /\ veth \in [Names -> Pair \cup {NoVeth}]
      /\ OwnPair(s) => veth[Prefix[s]] \in Pair /\ veth[Prefix[s]].progs \subseteq {s} \X Hooks
  BY PrefixAssumption DEF RetryInv, NetTypeOK, OwnPair, Named
<1>1. CASE AddVeth(s)
  <2> DEFINE r == NewPair(s)
  <2>1. r \in Pair /\ r # NoVeth /\ r.peer = s /\ r.progs = {}
    BY NewPairIsPair
  <2>2. veth' = [veth EXCEPT ![Prefix[s]] = r]
    BY <1>1 DEF AddVeth
  <2> HIDE DEF r
  <2>3. Kept(s)'
    BY <1>0, <1>1, <2>1, <2>2 DEF AddVeth, Goes, Hooks, Kept, OwnPair, Filled
  <2> QED
    BY <1>0, <1>1, <2>1, <2>2, <2>3, KeptAtOwnName DEF AddVeth
<1>2. CASE AttachToBridge(s) \/ RaisePort(s)
  <2>1. PICK from \in {"attach", "raise"}, to \in {"raise", "address"},
             makes \in {"attached", "up"} :
          /\ PortCommand(s, from, to, makes)
          /\ to = "address" => makes = "up"
    BY <1>2 DEF AttachToBridge, RaisePort
  <2>2. OwnPair(s)
    BY <1>0, <2>1 DEF PortCommand, Goes, Kept
  <2> DEFINE r == [veth[Prefix[s]] EXCEPT !.port = makes]
  <2>3. r \in Pair /\ r # NoVeth /\ r.peer = s /\ r.progs \subseteq {s} \X Hooks
        /\ r.port = makes
    BY <1>0, <2>2, NoVethAssumption DEF OwnPair, Pair
  <2>4. veth' = [veth EXCEPT ![Prefix[s]] = r]
    BY <1>0, <2>1 DEF PortCommand
  <2> HIDE DEF r
  <2>5. Kept(s)'
    BY <1>0, <2>1, <2>3, <2>4 DEF PortCommand, Goes, Hooks, Kept, OwnPair, Filled
  <2> QED
    BY <1>0, <2>1, <2>3, <2>4, <2>5, KeptAtOwnName DEF PortCommand
<1>3. CASE AddressGuest(s) \/ RaiseGuest(s) \/ RouteGuest(s)
  <2>1. PICK from \in {"address", "raiseGuest", "route"},
             to \in {"raiseGuest", "route", "ready"},
             has \in {"plain", "addressed", "up"},
             makes \in {"addressed", "up", "routed"} :
          /\ GuestCommand(s, from, to, has, makes)
          /\ to = "ready" => makes = "routed"
    BY <1>3 DEF AddressGuest, RaiseGuest, RouteGuest
  <2>2. PICK n \in Names : /\ veth[n] # NoVeth /\ veth[n].peer = s
                          /\ veth' = [veth EXCEPT ![n].eth0 = makes]
    BY <2>1 DEF GuestCommand
  <2>3. n = Prefix[s] /\ OwnPair(s)
    BY <2>2 DEF RetryInv, Named, OwnPair
  <2> DEFINE r == [veth[Prefix[s]] EXCEPT !.eth0 = makes]
  <2>4. r \in Pair /\ r # NoVeth /\ r.peer = s /\ r.progs \subseteq {s} \X Hooks
        /\ r.port = veth[Prefix[s]].port /\ r.eth0 = makes
    BY <1>0, <2>3, NoVethAssumption DEF OwnPair, Pair
  <2>5. veth' = [veth EXCEPT ![Prefix[s]] = r]
    BY <1>0, <2>2, <2>3
  <2> HIDE DEF r
  <2>6. Kept(s)'
    BY <1>0, <2>1, <2>4, <2>5 DEF GuestCommand, Goes, Hooks, Kept, OwnPair, Filled
  <2> QED
    BY <1>0, <2>1, <2>4, <2>5, <2>6, KeptAtOwnName DEF GuestCommand
<1>4. CASE AddClsact(s)
  <2>1. OwnPair(s)
    BY <1>0, <1>4 DEF AddClsact, Goes, Kept, Filled
  <2> DEFINE r == [veth[Prefix[s]] EXCEPT !.clsact = TRUE]
  <2>2. r \in Pair /\ r # NoVeth /\ r.peer = s /\ r.progs \subseteq {s} \X Hooks
        /\ r.port = veth[Prefix[s]].port /\ r.eth0 = veth[Prefix[s]].eth0
    BY <1>0, <2>1, NoVethAssumption DEF OwnPair, Pair
  <2>3. veth' = [veth EXCEPT ![Prefix[s]] = r]
    BY <1>0, <1>4 DEF AddClsact
  <2> HIDE DEF r
  <2>4. Kept(s)'
    BY <1>0, <1>4, <2>2, <2>3 DEF AddClsact, Goes, Hooks, Kept, OwnPair, Filled
  <2> QED
    BY <1>4, <2>2, <2>3, <2>4, KeptAtOwnName DEF AddClsact
<1>5. ASSUME NEW how \in Hooks, AttachProgram(s, how) PROVE KeptEffect(s)
  <2>1. OwnPair(s)
    BY <1>0, <1>5 DEF AttachProgram, Goes, Kept, Filled
  <2> DEFINE q == veth[Prefix[s]].progs \cup {<<s, how>>}
             r == [veth[Prefix[s]] EXCEPT !.progs = q]
  <2>2. q \in SUBSET ({s} \X Hooks) /\ q \in SUBSET (Sandboxes \X Hooks)
    BY <1>0, <2>1
  <2>3. veth' = [veth EXCEPT ![Prefix[s]] = r]
    BY <1>0, <1>5 DEF AttachProgram
  <2> HIDE DEF q
  <2>4. r \in Pair /\ r # NoVeth /\ r.peer = s /\ r.progs = q
        /\ r.port = veth[Prefix[s]].port /\ r.eth0 = veth[Prefix[s]].eth0
    BY <1>0, <2>1, <2>2, NoVethAssumption DEF OwnPair, Pair
  <2> HIDE DEF r
  <2>5. Kept(s)'
    BY <1>0, <1>5, <2>4, <2>3 DEF AttachProgram, Goes, Hooks, Kept, OwnPair, Filled
  <2> QED
    BY <1>5, <2>2, <2>3, <2>4, <2>5, KeptAtOwnName DEF AttachProgram
<1> QED
  BY <1>1, <1>2, <1>3, <1>4, <1>5

\* The steps that take the pair, or programs from it.
LEMMA KeptWhenRemoving ==
  ASSUME DistinctNames, RetryInv, NEW s \in Sandboxes,
         DelVeth(s) \/ DelNetns(s) \/ Detach(s) \/ Collected(s)
  PROVE  KeptEffect(s)
<1> USE DEF BridgePCs, PairPCs, LoadPCs, NetPCs
<1>0. /\ Kept(s) /\ npc \in [Sandboxes -> NetPCs] /\ Prefix[s] \in Names
      /\ NetTypeOK /\ Named /\ veth \in [Names -> Pair \cup {NoVeth}]
  BY PrefixAssumption DEF RetryInv, NetTypeOK
<1>1. CASE DelVeth(s)
  <2>1. veth' = [veth EXCEPT ![Prefix[s]] = NoVeth]
    BY <1>1 DEF DelVeth
  <2>2. Kept(s)'
    BY <1>0, <1>1 DEF DelVeth, Goes, Hooks, Kept, Filled
  <2> QED
    BY <1>1, <2>1, <2>2, KeptAtOwnName DEF DelVeth
<1>2. CASE DelNetns(s)
  <2>1. ASSUME NEW n \in Names PROVE veth'[n] = IF n = Prefix[s] THEN NoVeth ELSE veth[n]
    BY <1>2, PairIsOwn DEF DelNetns, RetryInv, Named, OwnPair
  <2>2. veth' = [veth EXCEPT ![Prefix[s]] = NoVeth]
    BY <1>0, <1>2, <2>1 DEF DelNetns
  <2>3. Kept(s)'
    BY <1>0, <1>2 DEF DelNetns, Goes, Hooks, Kept, Filled
  <2> QED
    BY <1>2, <2>2, <2>3, KeptAtOwnName DEF DelNetns
<1>3. CASE Detach(s)
  <2>1. OwnPair(s) /\ veth[Prefix[s]] \in Pair
    BY <1>0, <1>3 DEF Detach, Goes, Kept, OwnPair, Filled
  <2>2. CASE veth' = [veth EXCEPT ![Prefix[s]].clsact = FALSE, ![Prefix[s]].progs = {}]
    <3> DEFINE r == [veth[Prefix[s]] EXCEPT !.clsact = FALSE, !.progs = {}]
    <3>1. r \in Pair /\ r # NoVeth /\ r.peer = s /\ r.progs = {}
          /\ r.port = veth[Prefix[s]].port /\ r.eth0 = veth[Prefix[s]].eth0
      BY <2>1, NoVethAssumption DEF OwnPair, Pair
    <3>2. veth' = [veth EXCEPT ![Prefix[s]] = r]
      BY <1>0, <2>2
    <3> HIDE DEF r
    <3>3. Kept(s)'
      BY <1>0, <1>3, <3>1, <3>2 DEF Detach, Goes, Hooks, Kept, OwnPair, Filled
    <3> QED
      BY <1>3, <3>1, <3>2, <3>3, KeptAtOwnName DEF Detach
  <2>3. CASE veth' = Without({s} \X Hooks)
    <3>1. /\ Touches(s) /\ veth' \in [Names -> Pair \cup {NoVeth}] /\ OwnPair(s)'
          /\ veth'[Prefix[s]].port = veth[Prefix[s]].port
          /\ veth'[Prefix[s]].eth0 = veth[Prefix[s]].eth0
      BY <1>0, <2>1, <2>3, WithoutTouches
    <3>2. Kept(s)'
      BY <1>0, <1>3, <3>1 DEF Detach, Goes, Hooks, Kept, Filled
    <3> QED
      BY <1>0, <1>3, <3>1, <3>2 DEF Detach, Goes, KeptEffect, NetTypeOK
  <2> QED
    BY <1>3, <2>1, <2>2, <2>3 DEF Detach, OwnPair
<1>4. CASE Collected(s)
  <2> DEFINE gone == {<<s, "tcx">>}
  <2>1. gone \in SUBSET ({s} \X Hooks) /\ veth' = Without(gone)
    BY <1>4 DEF Collected, Hooks
  <2> HIDE DEF gone
  <2>2. /\ Touches(s) /\ veth' \in [Names -> Pair \cup {NoVeth}]
        /\ OwnPair(s)' <=> OwnPair(s)
        /\ OwnPair(s) => /\ veth'[Prefix[s]].port = veth[Prefix[s]].port
                         /\ veth'[Prefix[s]].eth0 = veth[Prefix[s]].eth0
    BY <1>0, <2>1, WithoutTouches
  <2>3. Kept(s)'
    BY <1>0, <1>4, <2>2 DEF Collected, Hooks, Kept, Filled
  <2> QED
    BY <1>0, <1>4, <2>2, <2>3 DEF Collected, KeptEffect, NetTypeOK
<1> QED
  BY <1>1, <1>2, <1>3, <1>4

LEMMA KeptEffectKeepsInv ==
  ASSUME DistinctNames, RetryInv, NEW s \in Sandboxes, KeptEffect(s)
  PROVE  RetryInv'
<1>0. Prefix[s] \in Names /\ Touches(s)
  BY PrefixAssumption DEF KeptEffect
<1>1. ASSUME NEW n \in Names, veth'[n] # NoVeth
      PROVE  /\ n = Prefix[veth'[n].peer]
             /\ veth'[n].progs \subseteq {veth'[n].peer} \X Hooks
  <2>1. CASE veth'[n] = veth[n]
    BY <1>1, <2>1 DEF RetryInv, Named
  <2>2. CASE veth'[n] # veth[n]
    BY <1>0, <1>1, <2>2 DEF Touches
  <2> QED
    BY <2>1, <2>2
<1>2. ASSUME NEW z \in Sandboxes, z # s PROVE Kept(z)'
  <2>1. Kept(z) /\ Prefix[z] \in Names /\ Prefix[z] # Prefix[s]
    BY <1>2, PrefixAssumption DEF RetryInv, DistinctNames
  <2>2. npc'[z] = npc[z] /\ (z \in netns' <=> z \in netns)
        /\ veth'[Prefix[z]] = veth[Prefix[z]]
    BY <1>0, <1>2, <2>1 DEF KeptEffect, Touches
  <2> QED
    BY <2>1, <2>2 DEF Kept, OwnPair
<1> QED
  BY <1>1, <1>2 DEF RetryInv, Named, KeptEffect

\* cleanup goes by the name (network_linux.go:164-175).  When no two IDs begin
\* alike, a network in use is whole even if a failed Destroy is repeated
\* at any time.
THEOREM RepeatedDestroyIsSafe == DistinctNames => (RetrySpec => []NetworkKept)
<1> SUFFICES ASSUME DistinctNames PROVE RetrySpec => []NetworkKept
  OBVIOUS
<1>1. Init => RetryInv
  <2> SUFFICES ASSUME Init PROVE RetryInv
    OBVIOUS
  <2>1. NetTypeOK /\ Named
    BY DEF Init, NetTypeOK, BridgeStates, NetPCs, Named
  <2>2. ASSUME NEW s \in Sandboxes PROVE Kept(s)
    BY DEF Init, Kept, Filled, PairPCs, LoadPCs, Hooks
  <2> QED
    BY <2>1, <2>2 DEF RetryInv
<1>2. RetryInv /\ [Next \/ \E s \in Sandboxes : DestroyAgain(s)]_vars => RetryInv'
  <2> SUFFICES ASSUME RetryInv, [Next \/ \E s \in Sandboxes : DestroyAgain(s)]_vars
               PROVE  RetryInv'
    OBVIOUS
  <2>1. CASE UNCHANGED vars
    BY <2>1 DEF vars, hostVars, RetryInv, NetTypeOK, Named, Kept, OwnPair
  <2>2. ASSUME NEW s \in Sandboxes, SetupStep(s) PROVE KeptEffect(s)
    BY <2>2, KeptElsewhere, KeptWhenBuilding DEF SetupStep
  <2>3. ASSUME NEW s \in Sandboxes, DestroyStep(s) \/ CommandFails(s) \/ DestroyAgain(s)
        PROVE  KeptEffect(s)
    BY <2>3, KeptElsewhere, KeptWhenRemoving DEF DestroyStep
  <2>4. ASSUME NEW s \in Sandboxes, FilterStep(s) PROVE KeptEffect(s)
    BY <2>4, KeptElsewhere, KeptWhenBuilding, KeptWhenRemoving DEF FilterStep
  <2> QED
    BY <2>1, <2>2, <2>3, <2>4, KeptEffectKeepsInv DEF Next
<1>3. RetryInv => NetworkKept
  <2>1. ASSUME RetryInv, NEW s \in Sandboxes, InUse(s)
        PROVE  npc[s] \in Filled /\ Kept(s)
    BY <2>1 DEF RetryInv, InUse, Filled
  <2> QED
    BY <2>1 DEF Kept, NetworkKept
<1> QED
  BY <1>1, <1>2, <1>3, PTL DEF RetrySpec
===============================================================================
