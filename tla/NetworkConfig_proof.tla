-------------------------- MODULE NetworkConfig_proof --------------------------
(***************************************************************************)
(* Proofs about NetworkConfig, for any network, calls and bounds: what the *)
(* file keeps, that the gateway can start from it, and that the channel    *)
(* objects and the listeners follow the configuration.                     *)
(*                                                                         *)
(* Two inductive invariants.  Inv says of the queue that a peer or an      *)
(* organisation whose removal waits is in no channel any more, unless it   *)
(* was put there carelessly; what the handlers of events do does not       *)
(* matter for it.  SdkInv, in the second half, says what they leave of the *)
(* objects and listeners, and which events that will change them wait.     *)
(***************************************************************************)
EXTENDS NetworkConfig, TLAPS, FiniteSetTheorems, WellFoundedInduction

Kinds == {"removePeer", "peerGone", "orgGone", "removeOrderer", "ordererGone", "addChannel",
          "channelAdded", "revise", "addOrderer", "removeOrdererIn"}
Tasks == [kind : Kinds, channels : SUBSET Channel, orgs : SUBSET Org, peers : SUBSET Peer,
          orderer : Orderer \cup {None}]

\* Whether t removes p of o.
Removes(t, o, p) ==
  /\ t.kind \in {"removePeer", "peerGone", "orgGone"} /\ o \in t.orgs
  /\ t.kind = "orgGone" \/ p \in t.peers

TaskInv(t) ==
  /\ \A x \in config.peers : Removes(t, x[2], x[3]) => x \in careless
  /\ t.kind = "addChannel" => t.channels \subseteq config.channels /\ t.channels # {}

QueueInv == queue \in Seq(Tasks) /\ \A i \in 1..Len(queue) : TaskInv(queue[i])

Inv ==
  /\ config \in Config /\ file \in Config /\ Nested(config) /\ Nested(file)
  /\ FileFollows /\ Starts
  /\ QueueInv

LEMMA InitInv == Init => Inv
<1> SUFFICES ASSUME Init PROVE Inv
  OBVIOUS
<1>1. config = Initial /\ file = Initial /\ queue = <<>> /\ careless = {}
  BY DEF Init
<1>2. Starts
  <2> SUFFICES ASSUME NEW x \in Initial.peers PROVE <<x[2], x[3]>> \in Initial.known
    BY <1>1 DEF Starts
  <2>1. x \in Channel \X Org \X Peer /\ x[1] \in Initial.channels
    BY InitialIsConfig DEF Config, Nested
  <2>2. <<x[2], x[3]>> \in PeersOf(Initial, x[1])
    BY <2>1 DEF PeersOf
  <2> QED BY <2>1, <2>2, InitialIsConfig DEF Loads, Known
<1>3. FileFollows
  BY <1>1, InitialIsConfig DEF FileFollows, Config
<1> QED BY <1>1, <1>2, <1>3, InitialIsConfig DEF Inv, QueueInv

(***************************************************************************)
(* What a step does with the configuration                                 *)
(***************************************************************************)

KnownOrCareless(g, some) == \A x \in g.peers : <<x[2], x[3]>> \in g.known \/ x \in some

\* A change that is saved.
LEMMA Saves ==
  ASSUME saveNetworkConfigToFs, config' \in Config, Nested(config'),
         KnownOrCareless(config', careless'), QueueInv'
  PROVE  Inv'
<1>1. file' = config'
  BY DEF saveNetworkConfigToFs
<1>2. FileFollows'
  BY <1>1 DEF FileFollows, Config
<1>3. Starts'
  BY <1>1 DEF Starts, KnownOrCareless
<1>4. (Nested(config)' <=> Nested(config')) /\ (Nested(file)' <=> Nested(file'))
  BY DEF Nested
<1> QED BY <1>1, <1>2, <1>3, <1>4 DEF Inv

\* No change.
LEMMA Same ==
  ASSUME Inv, UNCHANGED <<config, file, careless>>, QueueInv' PROVE Inv'
BY DEF Inv, Nested, FileFollows, Starts

LEMMA InvFacts ==
  ASSUME Inv
  PROVE  /\ config \in Config /\ file \in Config /\ Nested(config)
         /\ config.peers \subseteq file.peers /\ config.members \subseteq file.members
         /\ config.known = file.known
         /\ KnownOrCareless(config, careless)
         /\ \A x \in config.peers : /\ x \in Channel \X Org \X Peer
                                    /\ <<x[1], x[2]>> \in config.members
                                    /\ x[1] \in config.channels
BY DEF Inv, FileFollows, Starts, KnownOrCareless, Nested, Config

\* No peer comes into a channel whose removal waits, but carelessly.
Gains ==
  /\ \A x \in config'.peers :
       \/ x \in config.peers \/ x \in careless'
       \/ \A i \in 1..Len(queue) : ~Removes(queue[i], x[2], x[3])
  /\ config.channels \subseteq config'.channels /\ careless \subseteq careless'

LEMMA TaskKept ==
  ASSUME QueueInv, Gains, NEW i \in 1..Len(queue), NEW t, t = queue[i]
  PROVE  TaskInv(t)'
BY DEF QueueInv, Gains, TaskInv

LEMMA QueueKept ==
  ASSUME QueueInv, Gains, queue' = queue
  PROVE  QueueInv'
<1>1. ASSUME NEW i \in 1..Len(queue') PROVE TaskInv(queue[i])'
  <2> PICK u : u = queue[i]
    OBVIOUS
  <2>1. TaskInv(u)'
    BY TaskKept
  <2> QED BY <2>1 DEF TaskInv
<1> QED BY <1>1 DEF QueueInv

LEMMA QueueGrows ==
  ASSUME QueueInv, Gains, NEW t \in Tasks, queue' = Append(queue, t), TaskInv(t)'
  PROVE  QueueInv'
<1>1. queue' \in Seq(Tasks) /\ Len(queue) \in Nat /\ Len(queue') = Len(queue) + 1
      /\ queue'[Len(queue) + 1] = t /\ \A i \in 1..Len(queue) : queue'[i] = queue[i]
  BY DEF QueueInv
<1>2. ASSUME NEW i \in 1..Len(queue') PROVE TaskInv(queue[i])'
  <2>1. CASE i \in 1..Len(queue)
    <3> PICK u : u = queue[i]
      OBVIOUS
    <3>1. TaskInv(u)'
      BY <2>1, TaskKept
    <3>2. queue'[i] = u
      BY <1>1, <2>1
    <3> QED BY <3>1, <3>2 DEF TaskInv
  <2>2. CASE i = Len(queue) + 1
    BY <1>1, <2>2 DEF TaskInv
  <2> QED BY <1>1, <2>1, <2>2
<1> QED BY <1>1, <1>2 DEF QueueInv

LEMMA QueueShrinks ==
  ASSUME QueueInv, Gains, queue # <<>>, queue' = Tail(queue)
  PROVE  QueueInv'
<1>1. queue' \in Seq(Tasks) /\ Len(queue) \in Nat /\ Len(queue') = Len(queue) - 1
      /\ \A i \in 1..Len(queue') : queue'[i] = queue[i + 1]
  BY DEF QueueInv
<1>2. ASSUME NEW i \in 1..Len(queue') PROVE TaskInv(queue[i])'
  <2> PICK u : u = queue[i + 1]
    OBVIOUS
  <2>1. i + 1 \in 1..Len(queue)
    BY <1>1
  <2>2. TaskInv(u)'
    BY <2>1, TaskKept
  <2>3. queue'[i] = u
    BY <1>1
  <2> QED BY <2>2, <2>3 DEF TaskInv
<1> QED BY <1>1, <1>2 DEF QueueInv

LEMMA QueueGoesOn ==
  ASSUME QueueInv, Gains, queue # <<>>, NEW t \in Tasks, queue' = Append(Tail(queue), t), TaskInv(t)'
  PROVE  QueueInv'
<1>1. queue' \in Seq(Tasks) /\ Len(queue) \in Nat /\ Len(queue') = Len(queue)
      /\ queue'[Len(queue)] = t
      /\ \A i \in 1..Len(queue) - 1 : queue'[i] = queue[i + 1]
  BY DEF QueueInv
<1>2. ASSUME NEW i \in 1..Len(queue') PROVE TaskInv(queue[i])'
  <2>1. CASE i \in 1..Len(queue) - 1
    <3> PICK u : u = queue[i + 1]
      OBVIOUS
    <3>1. i + 1 \in 1..Len(queue)
      BY <1>1, <2>1
    <3>2. TaskInv(u)'
      BY <3>1, TaskKept
    <3>3. queue'[i] = u
      BY <1>1, <2>1
    <3> QED BY <3>2, <3>3 DEF TaskInv
  <2>2. CASE i = Len(queue)
    BY <1>1, <2>2 DEF TaskInv
  <2>3. i \in 1..Len(queue) - 1 \/ i = Len(queue)
    <3> PICK n \in Nat : n = Len(queue)
      BY <1>1
    <3>1. i \in 1..n
      BY <1>1
    <3>2. i \in 1..n - 1 \/ i = n
      BY <3>1
    <3> QED BY <3>2
  <2> QED BY <2>1, <2>2, <2>3
<1> QED BY <1>1, <1>2 DEF QueueInv

(***************************************************************************)
(* The calls                                                               *)
(***************************************************************************)

LEMMA TaskType ==
  ASSUME NEW kind \in Kinds, NEW cs \in SUBSET Channel, NEW os \in SUBSET Org,
         NEW ps \in SUBSET Peer, NEW x \in Orderer \cup {None}
  PROVE  Task(kind, cs, os, ps, x) \in Tasks
BY DEF Task, Tasks

LEMMA OtherTask ==
  ASSUME NEW t, t.kind \notin {"removePeer", "peerGone", "orgGone", "addChannel"}
  PROVE  TaskInv(t)'
BY DEF TaskInv, Removes

LEMMA NetworkAdds ==
  ASSUME Inv,
         \/ \E o \in Org, ps \in SUBSET Peer : nAddOrg(o, ps) \/ nAddPeers(o, ps)
         \/ \E x \in Orderer : nAddOrderer(x)
         \/ nReviseAttribute
  PROVE  Inv'
<1>0. /\ config \in Config /\ Nested(config) /\ KnownOrCareless(config, careless)
  BY InvFacts
<1>1. /\ saveNetworkConfigToFs /\ UNCHANGED <<queue, careless>>
      /\ \/ config' = config
         \/ \E o \in Org, ps \in SUBSET Peer :
              config' = [config EXCEPT !.orgs = @ \cup {o}, !.known = @ \cup ({o} \X ps)]
         \/ \E o \in Org, ps \in SUBSET Peer :
              config' = [config EXCEPT !.known = @ \cup ({o} \X ps)]
         \/ \E x \in Orderer : config' = [config EXCEPT !.orderers = @ \cup {x}]
  BY DEF nAddOrg, nAddPeers, nAddOrderer, nReviseAttribute, Quiet
<1>2. config' \in Config
  <2>1. ASSUME NEW o \in Org, NEW ps \in SUBSET Peer,
               config' = [config EXCEPT !.orgs = @ \cup {o}, !.known = @ \cup ({o} \X ps)]
        PROVE  config' \in Config
    BY <1>0, <2>1 DEF Config
  <2>2. ASSUME NEW o \in Org, NEW ps \in SUBSET Peer,
               config' = [config EXCEPT !.known = @ \cup ({o} \X ps)]
        PROVE  config' \in Config
    BY <1>0, <2>2 DEF Config
  <2>3. ASSUME NEW x \in Orderer, config' = [config EXCEPT !.orderers = @ \cup {x}]
        PROVE  config' \in Config
    BY <1>0, <2>3 DEF Config
  <2> QED BY <1>0, <1>1, <2>1, <2>2, <2>3
<1>3. /\ config'.channels = config.channels /\ config'.peers = config.peers
      /\ config'.members = config.members /\ config.known \subseteq config'.known
  BY <1>0, <1>1 DEF Config
<1>4. Nested(config') /\ KnownOrCareless(config', careless')
  BY <1>0, <1>1, <1>3 DEF Nested, KnownOrCareless
<1>5. QueueInv'
  BY <1>1, <1>3, QueueKept DEF Inv, Gains
<1> QED BY <1>1, <1>2, <1>4, <1>5, Saves

LEMMA nRemovePeerInv ==
  ASSUME Inv, NEW o \in Org, NEW p \in Peer, nRemovePeer(o, p) PROVE Inv'
<1> DEFINE cs == ChannelsOf(o, p)
           t == Task("removePeer", cs, {o}, {p}, None)
<1>1. /\ config' = [config EXCEPT !.peers = @ \ (cs \X {o} \X {p})]
      /\ saveNetworkConfigToFs /\ queue' = Append(queue, t) /\ careless' = careless
  BY DEF nRemovePeer, RemovePeerFrom, Waits
<1>2. config' \in Config
  BY <1>1, InvFacts DEF Config
<1>3. /\ config'.channels = config.channels /\ config'.peers \subseteq config.peers
      /\ config'.members = config.members /\ config.known = config'.known
      /\ config'.peers = config.peers \ (cs \X {o} \X {p})
  BY <1>1, InvFacts DEF Config
<1>4. Nested(config') /\ KnownOrCareless(config', careless')
  BY <1>1, <1>3, InvFacts DEF Nested, KnownOrCareless
<1>5. QueueInv'
  <2>1. t \in Tasks
    <3>1. cs \in SUBSET Channel
      BY InvFacts DEF ChannelsOf, Config
    <3>2. "removePeer" \in Kinds /\ {o} \in SUBSET Org /\ {p} \in SUBSET Peer
      BY DEF Kinds
    <3> QED BY <3>1, <3>2, TaskType
  <2>2. ASSUME NEW x \in config'.peers PROVE ~(x[2] = o /\ x[3] = p)
    <3>1. x \in Channel \X Org \X Peer /\ x[1] \in config.channels /\ x \in config.peers
      BY <1>3, InvFacts
    <3>2. x = <<x[1], x[2], x[3]>>
      BY <3>1
    <3> SUFFICES ASSUME x[2] = o, x[3] = p PROVE FALSE
      OBVIOUS
    <3>3. x[1] \in cs
      BY <3>1, <3>2 DEF ChannelsOf
    <3>4. x \in cs \X {o} \X {p}
      BY <3>2, <3>3
    <3> QED BY <1>3, <3>4
  <2> PICK u : u = t
    OBVIOUS
  <2>3. u.kind = "removePeer" /\ u.orgs = {o} /\ u.peers = {p}
    BY DEF Task
  <2>4. TaskInv(u)'
    BY <2>2, <2>3 DEF TaskInv, Removes
  <2> HIDE DEF t
  <2>5. Gains
    BY <1>1, <1>3 DEF Gains
  <2> QED BY <1>1, <2>1, <2>4, <2>5, QueueGrows DEF Inv
<1> QED BY <1>1, <1>2, <1>4, <1>5, Saves

\* An organisation is taken out of channels, and nothing is saved.
LEMMA WithoutOrgInv ==
  ASSUME Inv, NEW o \in Org, NEW cs, config' = WithoutOrg(config, cs, o),
         UNCHANGED <<file, careless>>, QueueInv'
  PROVE  Inv'
<1>0. /\ config \in Config /\ file \in Config /\ Nested(config) /\ Nested(file)
      /\ FileFollows /\ Starts
  BY DEF Inv
<1>1. config' \in Config
  BY <1>0 DEF WithoutOrg, Config
<1>2. /\ config'.members = config.members \ (cs \X {o})
      /\ config'.peers = config.peers \ (cs \X {o} \X Peer)
      /\ config' = [config EXCEPT !.members = config'.members, !.peers = config'.peers]
  BY <1>0 DEF WithoutOrg, Config
<1>3. ASSUME NEW x \in config.peers
      PROVE  x \in config'.peers <=> <<x[1], x[2]>> \in config'.members
  <2>1. x \in Channel \X Org \X Peer /\ <<x[1], x[2]>> \in config.members
    BY InvFacts
  <2>2. x = <<x[1], x[2], x[3]>> /\ x[3] \in Peer
    BY <2>1
  <2>3. x \in cs \X {o} \X Peer <=> x[1] \in cs /\ x[2] = o
    BY <2>2
  <2> QED BY <1>2, <2>1, <2>3
<1>4. Nested(config')
  BY <1>0, <1>1, <1>2, <1>3 DEF Nested, Config
<1>5. FileFollows'
  <2>1. file = [config' EXCEPT !.members = file.members, !.peers = file.peers]
    BY <1>0, <1>2 DEF FileFollows, Config
  <2>2. config'.members \subseteq file.members /\ config'.peers \subseteq file.peers
    BY <1>0, <1>2 DEF FileFollows
  <2>3. ASSUME NEW x \in file.peers \ config'.peers
        PROVE  <<x[1], x[2]>> \in file.members \ config'.members
    <3>1. CASE x \in config.peers
      BY <1>3, <2>3, <3>1, InvFacts
    <3>2. CASE x \notin config.peers
      BY <1>0, <1>2, <2>3, <3>2 DEF FileFollows
    <3> QED BY <3>1, <3>2
  <2> QED BY <2>1, <2>2, <2>3 DEF FileFollows
<1>6. Starts'
  BY <1>0 DEF Starts
<1>7. (Nested(config)' <=> Nested(config')) /\ (Nested(file)' <=> Nested(file'))
  BY DEF Nested
<1> QED BY <1>0, <1>1, <1>4, <1>5, <1>6, <1>7 DEF Inv

LEMMA WithoutOrgGains ==
  ASSUME Inv, NEW o, NEW cs, config' = WithoutOrg(config, cs, o), careless' = careless
  PROVE  Gains
BY InvFacts DEF Gains, WithoutOrg, Config

LEMMA nRemoveOrgInv == ASSUME Inv, NEW o \in Org, nRemoveOrg(o) PROVE Inv'
<1> DEFINE cs == {c \in config.channels : <<c, o>> \in config.members}
           t == Task("orgGone", {}, {o}, {}, None)
<1>1. PICK ds : /\ config' = WithoutOrg(config, ds, o) /\ UNCHANGED <<file, careless>>
                /\ queue' = queue \/ (queue' = Append(queue, t) /\ ds = cs)
  BY DEF nRemoveOrg, Waits
<1>2. Gains
  BY <1>1, WithoutOrgGains
<1>3. QueueInv'
  <2>1. CASE queue' = queue
    BY <1>2, <2>1, QueueKept DEF Inv
  <2>2. CASE queue' = Append(queue, t) /\ ds = cs
    <3>1. t \in Tasks
      <4>1. "orgGone" \in Kinds /\ {o} \in SUBSET Org
        BY DEF Kinds
      <4> QED BY <4>1, TaskType
    <3>2. ASSUME NEW x \in config'.peers PROVE x[2] # o
      <4>1. config'.peers = config.peers \ (cs \X {o} \X Peer)
        BY <1>1, <2>2, InvFacts DEF WithoutOrg, Config
      <4>2. /\ x \in Channel \X Org \X Peer /\ <<x[1], x[2]>> \in config.members
            /\ x[1] \in config.channels
        BY <4>1, InvFacts
      <4>3. x = <<x[1], x[2], x[3]>> /\ x[3] \in Peer
        BY <4>2
      <4> QED BY <4>1, <4>2, <4>3
    <3> PICK u : u = t
      OBVIOUS
    <3>3. u.kind = "orgGone" /\ u.orgs = {o}
      BY DEF Task
    <3>4. TaskInv(u)'
      BY <3>2, <3>3 DEF TaskInv, Removes
    <3> HIDE DEF t
    <3> QED BY <1>2, <2>2, <3>1, <3>4, QueueGrows DEF Inv
  <2> QED BY <1>1, <2>1, <2>2
<1> QED BY <1>1, <1>3, WithoutOrgInv

LEMMA nRemoveOrdererInv == ASSUME Inv, NEW x \in Orderer, nRemoveOrderer(x) PROVE Inv'
<1> DEFINE cs == {c \in config.channels : <<c, x>> \in config.ordering}
           t == Task("removeOrderer", cs, {}, {}, x)
<1>1. /\ config' = [config EXCEPT !.ordering = @ \ (cs \X {x})]
      /\ file' = IF cs = {} THEN file ELSE config'
      /\ queue' = Append(queue, t) /\ careless' = careless
  BY DEF nRemoveOrderer, Waits, Quiet
<1>2. config' \in Config
  BY <1>1, InvFacts DEF Config
<1>3. /\ config'.channels = config.channels /\ config'.peers = config.peers
      /\ config'.members = config.members /\ config.known = config'.known
  BY <1>1, InvFacts DEF Config
<1>4. QueueInv'
  <2>1. t \in Tasks
    <3>1. "removeOrderer" \in Kinds /\ cs \in SUBSET Channel
      BY InvFacts DEF Kinds, Config
    <3> QED BY <3>1, TaskType
  <2> PICK u : u = t
    OBVIOUS
  <2>2. u.kind = "removeOrderer"
    BY DEF Task
  <2>3. TaskInv(u)'
    BY <2>2, OtherTask
  <2>4. Gains
    BY <1>1, <1>3 DEF Gains
  <2> HIDE DEF t
  <2> QED BY <1>1, <2>1, <2>3, <2>4, QueueGrows DEF Inv
<1>5. CASE cs = {}
  <2>1. config' = config
    <3>1. config.ordering \ (cs \X {x}) = config.ordering
      BY <1>5
    <3> QED BY <1>1, <3>1, InvFacts DEF Config
  <2> QED BY <1>1, <1>4, <1>5, <2>1, Same
<1>6. CASE cs # {}
  <2>1. Nested(config') /\ KnownOrCareless(config', careless')
    BY <1>1, <1>3, InvFacts DEF Nested, KnownOrCareless
  <2> QED BY <1>1, <1>2, <1>4, <1>6, <2>1, Saves DEF saveNetworkConfigToFs
<1> QED BY <1>5, <1>6

LEMMA AddsPeers ==
  ASSUME Inv, NEW c \in Channel, c \in config.channels,
         NEW os \in SUBSET Org, NEW ps \in SUBSET Peer, AddPeers(c, os, ps)
  PROVE  /\ config' \in Config /\ Nested(config') /\ KnownOrCareless(config', careless')
         /\ Gains /\ config'.channels = config.channels
<1>0. /\ config \in Config /\ Nested(config) /\ KnownOrCareless(config, careless)
  BY InvFacts
<1>1. /\ config' = [config EXCEPT !.members = @ \cup ({c} \X os),
                                  !.peers = @ \cup ({c} \X os \X ps)]
      /\ careless' = careless \cup Dangling(c, os, ps)
  BY DEF AddPeers
<1>2. /\ config'.channels = config.channels /\ config'.known = config.known
      /\ config'.members = config.members \cup ({c} \X os)
      /\ config'.peers = config.peers \cup ({c} \X os \X ps)
  BY <1>0, <1>1 DEF Config
<1>3. config' \in Config
  BY <1>0, <1>1 DEF Config
<1>4. Nested(config')
  <2>1. ASSUME NEW x \in config'.members PROVE x[1] \in config'.channels
    BY <1>0, <1>2 DEF Nested
  <2>2. ASSUME NEW x \in config'.peers PROVE <<x[1], x[2]>> \in config'.members
    <3>1. CASE x \in config.peers
      BY <1>0, <1>2, <3>1 DEF Nested
    <3>2. CASE x \in {c} \X os \X ps
      BY <1>2, <3>2
    <3> QED BY <1>2, <3>1, <3>2
  <2> QED BY <2>1, <2>2 DEF Nested
<1>5. ASSUME NEW x \in {c} \X os \X ps PROVE x \in careless' \/ Stays(x[2], x[3])
  BY <1>1 DEF Dangling
<1>6. KnownOrCareless(config', careless')
  BY <1>0, <1>1, <1>2, <1>5 DEF KnownOrCareless, Stays
<1>7. Gains
  <2>1. ASSUME NEW o, NEW p, Stays(o, p)
        PROVE  \A i \in 1..Len(queue) : ~Removes(queue[i], o, p)
    BY <2>1 DEF Stays, Removes
  <2> QED BY <1>1, <1>2, <1>5, <2>1 DEF Gains
<1> QED BY <1>2, <1>3, <1>4, <1>6, <1>7

\* A peer is added, and a continuation of the other kinds may wait for it.
LEMMA AddPeersInv ==
  ASSUME Inv, NEW c \in Channel, c \in config.channels,
         NEW os \in SUBSET Org, NEW ps \in SUBSET Peer, cReviseOrgInChannel(c, os, ps),
         QueueInv'
  PROVE  Inv'
BY AddsPeers, Saves DEF cReviseOrgInChannel

LEMMA Revises ==
  ASSUME Inv, Gains, NEW c \in Channel,
         NEW kind \in {"revise", "addOrderer", "removeOrdererIn"}, NEW x \in Orderer \cup {None},
         queue' = Append(queue, Task(kind, {c}, {}, {}, x))
  PROVE  QueueInv'
<1> DEFINE t == Task(kind, {c}, {}, {}, x)
<1>1. t \in Tasks
  <2>1. kind \in Kinds
    BY DEF Kinds
  <2> QED BY <2>1, TaskType
<1> PICK u : u = t
  OBVIOUS
<1>2. u.kind \notin {"removePeer", "peerGone", "orgGone", "addChannel"}
  BY DEF Task
<1>3. TaskInv(u)'
  BY <1>2, OtherTask
<1> HIDE DEF t
<1> QED BY <1>1, <1>3, QueueGrows DEF Inv, t

LEMMA cAddChannelInv ==
  ASSUME Inv, NEW c \in Channel, NEW xs \in SUBSET Orderer, NEW os \in SUBSET Org,
         NEW ps \in SUBSET Peer, cAddChannel(c, xs, os, ps)
  PROVE  Inv'
<1> DEFINE t == Task("addChannel", {c}, os, ps, None)
<1>1. /\ config' = [config EXCEPT !.channels = @ \cup {c},
                                  !.ordering = @ \cup ({c} \X xs)]
      /\ saveNetworkConfigToFs /\ queue' = Append(queue, t) /\ careless' = careless
  BY DEF cAddChannel, Waits
<1>2. config' \in Config
  BY <1>1, InvFacts DEF Config
<1>3. /\ config'.channels = config.channels \cup {c} /\ config'.peers = config.peers
      /\ config'.members = config.members /\ config.known = config'.known
  BY <1>1, InvFacts DEF Config
<1>4. Nested(config') /\ KnownOrCareless(config', careless')
  BY <1>1, <1>3, InvFacts DEF Nested, KnownOrCareless
<1>5. Gains
  BY <1>1, <1>3 DEF Gains
<1>6. t \in Tasks
  <2>1. "addChannel" \in Kinds /\ {c} \in SUBSET Channel
    BY DEF Kinds
  <2> QED BY <2>1, TaskType
<1> PICK u : u = t
  OBVIOUS
<1>7. u.kind = "addChannel" /\ u.channels = {c}
  BY DEF Task
<1>8. TaskInv(u)'
  BY <1>3, <1>7 DEF TaskInv, Removes
<1> HIDE DEF t
<1>9. QueueInv'
  BY <1>1, <1>5, <1>6, <1>8, QueueGrows DEF Inv
<1> QED BY <1>1, <1>2, <1>4, <1>9, Saves

LEMMA cAddOrgInChannelInv ==
  ASSUME Inv, NEW c \in Channel, NEW o \in Org, NEW ps \in SUBSET Peer,
         cAddOrgInChannel(c, o, ps)
  PROVE  Inv'
<1>1. /\ c \in config.channels /\ cReviseOrgInChannel(c, {o}, ps)
      /\ \/ queue' = queue
         \/ queue' = Append(queue, Task("revise", {c}, {}, {}, None))
  BY DEF cAddOrgInChannel, Waits
<1>2. Gains
  BY <1>1, AddsPeers DEF cReviseOrgInChannel
<1>3. QueueInv'
  <2>1. CASE queue' = queue
    BY <1>2, <2>1, QueueKept DEF Inv
  <2>2. CASE queue' = Append(queue, Task("revise", {c}, {}, {}, None))
    BY <1>2, <2>2, Revises
  <2> QED BY <1>1, <2>1, <2>2
<1> QED BY <1>1, <1>3, AddPeersInv

LEMMA cRemoveOrgInChannelInv ==
  ASSUME Inv, NEW c \in Channel, NEW o \in Org, cRemoveOrgInChannel(c, o) PROVE Inv'
<1>1. config' = WithoutOrg(config, {c}, o) /\ UNCHANGED <<file, careless, queue>>
  BY DEF cRemoveOrgInChannel
<1>2. QueueInv'
  BY <1>1, WithoutOrgGains, QueueKept DEF Inv
<1> QED BY <1>1, <1>2, WithoutOrgInv

LEMMA cAddPeerInChannelInv ==
  ASSUME Inv, NEW c \in Channel, NEW o \in Org, NEW p \in Peer, cAddPeerInChannel(c, o, p)
  PROVE  Inv'
<1>1. /\ c \in config.channels /\ queue' = queue
      /\ cReviseOrgInChannel(c, {o}, {p}) \/ UNCHANGED <<config, file, careless>>
  BY DEF cAddPeerInChannel
<1>2. CASE cReviseOrgInChannel(c, {o}, {p})
  <2>1. Gains
    BY <1>1, <1>2, AddsPeers DEF cReviseOrgInChannel
  <2>2. QueueInv'
    BY <1>1, <2>1, QueueKept DEF Inv
  <2> QED BY <1>1, <1>2, <2>2, AddPeersInv
<1>3. CASE UNCHANGED <<config, file, careless>>
  <2>1. QueueInv'
    BY <1>1, <1>3, QueueKept DEF Inv, Gains
  <2> QED BY <1>3, <2>1, Same
<1> QED BY <1>1, <1>2, <1>3

LEMMA cRemovePeerInChannelInv ==
  ASSUME Inv, NEW c \in Channel, NEW o \in Org, NEW p \in Peer, cRemovePeerInChannel(c, o, p)
  PROVE  Inv'
<1>1. /\ config' = [config EXCEPT !.peers = @ \ {<<c, o, p>>}]
      /\ saveNetworkConfigToFs /\ careless' = careless
      /\ \/ queue' = queue
         \/ queue' = Append(queue, Task("revise", {c}, {}, {}, None))
  BY DEF cRemovePeerInChannel, Waits
<1>2. config' \in Config
  BY <1>1, InvFacts DEF Config
<1>3. /\ config'.channels = config.channels /\ config'.peers \subseteq config.peers
      /\ config'.members = config.members /\ config.known = config'.known
  BY <1>1, InvFacts DEF Config
<1>4. Nested(config') /\ KnownOrCareless(config', careless')
  BY <1>1, <1>3, InvFacts DEF Nested, KnownOrCareless
<1>5. Gains
  BY <1>1, <1>3 DEF Gains
<1>6. QueueInv'
  <2>1. CASE queue' = queue
    BY <1>5, <2>1, QueueKept DEF Inv
  <2>2. CASE queue' = Append(queue, Task("revise", {c}, {}, {}, None))
    BY <1>5, <2>2, Revises
  <2> QED BY <1>1, <2>1, <2>2
<1> QED BY <1>1, <1>2, <1>4, <1>6, Saves

LEMMA cChangePeerTypeChannelInv ==
  ASSUME Inv, NEW c \in Channel, NEW o \in Org, NEW p \in Peer, cChangePeerTypeChannel(c, o, p)
  PROVE  Inv'
<1>1. /\ cReviseOrgInChannel(c, {o}, {p}) /\ queue' = queue /\ <<c, o, p>> \in config.peers
  BY DEF cChangePeerTypeChannel
<1>2. c \in config.channels
  BY <1>1, InvFacts
<1>3. Gains
  BY <1>1, <1>2, AddsPeers DEF cReviseOrgInChannel
<1>4. QueueInv'
  BY <1>1, <1>3, QueueKept DEF Inv
<1> QED BY <1>1, <1>2, <1>4, AddPeersInv

LEMMA cOrdererInChannelInv ==
  ASSUME Inv, NEW c \in Channel, NEW x \in Orderer,
         cAddOrdererInChannel(c, x) \/ cRemoveOrdererInChannel(c, x)
  PROVE  Inv'
<1>1. PICK ordering \in SUBSET (Channel \X Orderer) :
        config' = [config EXCEPT !.ordering = ordering]
  <2>0. config.ordering \in SUBSET (Channel \X Orderer)
    BY InvFacts DEF Config
  <2>1. config.ordering \cup {<<c, x>>} \in SUBSET (Channel \X Orderer)
    BY <2>0
  <2>2. config.ordering \ {<<c, x>>} \in SUBSET (Channel \X Orderer)
    BY <2>0
  <2> QED BY <2>1, <2>2
          DEF cAddOrdererInChannel, cRemoveOrdererInChannel, cReviseChannelOrderer
<1>2. /\ saveNetworkConfigToFs /\ careless' = careless
      /\ \/ queue' = Append(queue, Task("addOrderer", {c}, {}, {}, x))
         \/ queue' = Append(queue, Task("removeOrdererIn", {c}, {}, {}, x))
  BY DEF cAddOrdererInChannel, cRemoveOrdererInChannel, cReviseChannelOrderer, Waits, Quiet
<1>3. config' \in Config
  BY <1>1, InvFacts DEF Config
<1>4. /\ config'.channels = config.channels /\ config'.peers = config.peers
      /\ config'.members = config.members /\ config.known = config'.known
  BY <1>1, InvFacts DEF Config
<1>5. Nested(config') /\ KnownOrCareless(config', careless')
  BY <1>2, <1>4, InvFacts DEF Nested, KnownOrCareless
<1>6. Gains
  BY <1>2, <1>4 DEF Gains
<1>7. QueueInv'
  <2>1. CASE queue' = Append(queue, Task("addOrderer", {c}, {}, {}, x))
    BY <1>6, <2>1, Revises
  <2>2. CASE queue' = Append(queue, Task("removeOrdererIn", {c}, {}, {}, x))
    BY <1>6, <2>2, Revises
  <2> QED BY <1>2, <2>1, <2>2
<1> QED BY <1>2, <1>3, <1>5, <1>7, Saves

(***************************************************************************)
(* The continuations                                                       *)
(***************************************************************************)

LEMMA HeadFacts ==
  ASSUME Inv, queue # <<>>, NEW t, t = Head(queue)
  PROVE  t \in Tasks /\ TaskInv(t)
<1>1. queue \in Seq(Tasks) /\ 1 \in 1..Len(queue) /\ Head(queue) = queue[1]
  BY DEF Inv, QueueInv
<1> QED BY <1>1 DEF Inv, QueueInv

\* One that changes nothing, and is the last or is followed by another.
LEMMA EmitsInv ==
  ASSUME Inv, queue # <<>>, UNCHANGED <<config, file, careless>>,
         \/ queue' = Tail(queue)
         \/ \E t \in Tasks : queue' = Append(Tail(queue), t) /\ TaskInv(t)
  PROVE  Inv'
<1>1. Gains
  BY DEF Gains
<1>2. CASE queue' = Tail(queue)
  BY <1>1, <1>2, QueueShrinks, Same DEF Inv
<1>3. ASSUME NEW t \in Tasks, queue' = Append(Tail(queue), t), TaskInv(t) PROVE Inv'
  <2>1. TaskInv(t)'
    BY <1>3 DEF TaskInv
  <2>2. QueueInv'
    BY <1>1, <1>3, <2>1, QueueGoesOn DEF Inv
  <2> QED BY <2>2, Same
<1> QED BY <1>2, <1>3

LEMMA EmitInv ==
  ASSUME Inv, EmitChannelRevise \/ EmitOrdererEvent \/ EmitChannelAdd
  PROVE  Inv'
<1>1. queue # <<>> /\ queue' = Tail(queue) /\ UNCHANGED <<config, file, careless>>
  BY DEF EmitChannelRevise, EmitOrdererEvent, EmitChannelAdd, Run, Ends
<1> QED BY <1>1, EmitsInv

LEMMA EmitPeerRemovedInv == ASSUME Inv, EmitPeerRemoved PROVE Inv'
<1> PICK t : t = Head(queue)
  OBVIOUS
<1> PICK u : u = [t EXCEPT !.kind = "peerGone"]
  OBVIOUS
<1>1. /\ queue # <<>> /\ t.kind = "removePeer" /\ UNCHANGED <<config, file, careless>>
      /\ queue' = Tail(queue) \/ queue' = Append(Tail(queue), u)
  BY DEF EmitPeerRemoved, Run, Ends, GoesOnWith
<1>2. t \in Tasks /\ TaskInv(t)
  BY <1>1, HeadFacts
<1>3. u \in Tasks /\ u.kind = "peerGone" /\ u.orgs = t.orgs /\ u.peers = t.peers
  BY <1>2 DEF Tasks, Kinds
<1>4. TaskInv(u)
  BY <1>1, <1>2, <1>3 DEF TaskInv, Removes
<1> QED BY <1>1, <1>3, <1>4, EmitsInv

LEMMA EmitOrderersRemovedInv == ASSUME Inv, EmitOrderersRemoved PROVE Inv'
<1> PICK t : t = Head(queue)
  OBVIOUS
<1> PICK u : u = [t EXCEPT !.kind = "ordererGone"]
  OBVIOUS
<1>1. /\ queue # <<>> /\ UNCHANGED <<config, file, careless>>
      /\ queue' = Tail(queue) \/ queue' = Append(Tail(queue), u)
  BY DEF EmitOrderersRemoved, Run, Ends, GoesOnWith
<1>2. t \in Tasks
  BY <1>1, HeadFacts
<1>3. u \in Tasks /\ u.kind = "ordererGone"
  BY <1>2 DEF Tasks, Kinds
<1>4. TaskInv(u)
  BY <1>3 DEF TaskInv, Removes
<1> QED BY <1>1, <1>3, <1>4, EmitsInv

LEMMA AddChannelOrgsInv == ASSUME Inv, AddChannelOrgs PROVE Inv'
<1> PICK t : t = Head(queue)
  OBVIOUS
<1> PICK u : u = [t EXCEPT !.kind = "channelAdded"]
  OBVIOUS
<1> PICK c : c = ItsChannel
  OBVIOUS
<1>1. /\ queue # <<>> /\ t.kind = "addChannel" /\ queue' = Append(Tail(queue), u)
      /\ cReviseOrgInChannel(c, t.orgs, t.peers)
  BY DEF AddChannelOrgs, Run, GoesOnWith
<1>2. t \in Tasks /\ TaskInv(t)
  BY <1>1, HeadFacts
<1>3. c \in t.channels
  BY <1>1, <1>2 DEF TaskInv, ItsChannel
<1>4. /\ c \in Channel /\ c \in config.channels
      /\ t.orgs \in SUBSET Org /\ t.peers \in SUBSET Peer
  BY <1>1, <1>2, <1>3 DEF TaskInv, Tasks
<1>5. u \in Tasks /\ u.kind = "channelAdded"
  BY <1>2 DEF Tasks, Kinds
<1>6. TaskInv(u)'
  BY <1>5 DEF TaskInv, Removes
<1>7. Gains
  BY <1>1, <1>4, AddsPeers DEF cReviseOrgInChannel
<1>8. QueueInv'
  BY <1>1, <1>5, <1>6, <1>7, QueueGoesOn DEF Inv
<1> QED BY <1>1, <1>4, <1>8, AddPeersInv

\* What is removed from the network is in no channel, but carelessly.
LEMMA GoneInv ==
  ASSUME Inv, NEW known, NEW orgs \in SUBSET Org, NEW orderers \in SUBSET Orderer,
         known \subseteq config.known,
         config' = [config EXCEPT !.orgs = orgs, !.known = known, !.orderers = orderers],
         \A x \in config.peers : <<x[2], x[3]>> \in known \/ x \in careless,
         saveNetworkConfigToFs, careless' = careless, queue # <<>>, queue' = Tail(queue)
  PROVE  Inv'
<1>1. config' \in Config
  BY InvFacts DEF Config
<1>2. /\ config'.channels = config.channels /\ config'.peers = config.peers
      /\ config'.members = config.members /\ config'.known = known
  BY InvFacts DEF Config
<1>3. Nested(config') /\ KnownOrCareless(config', careless')
  BY <1>2, InvFacts DEF Nested, KnownOrCareless
<1>4. QueueInv'
  BY <1>2, QueueShrinks DEF Inv, Gains
<1> QED BY <1>1, <1>3, <1>4, Saves

LEMMA PeerGoneInv == ASSUME Inv, PeerGone PROVE Inv'
<1> PICK t : t = Head(queue)
  OBVIOUS
<1> PICK known : known = config.known \ (t.orgs \X t.peers)
  OBVIOUS
<1>1. /\ queue # <<>> /\ t.kind = "peerGone" /\ queue' = Tail(queue) /\ careless' = careless
      /\ saveNetworkConfigToFs /\ config' = [config EXCEPT !.known = known]
  BY DEF PeerGone, Run, Ends
<1>2. t \in Tasks /\ TaskInv(t)
  BY <1>1, HeadFacts
<1>3. config' = [config EXCEPT !.orgs = config.orgs, !.known = known,
                               !.orderers = config.orderers]
  BY <1>1, InvFacts DEF Config
<1>4. config.orgs \in SUBSET Org /\ config.orderers \in SUBSET Orderer
  BY InvFacts DEF Config
<1>5. ASSUME NEW x \in config.peers PROVE <<x[2], x[3]>> \in known \/ x \in careless
  <2>1. <<x[2], x[3]>> \in config.known \/ x \in careless
    BY InvFacts DEF KnownOrCareless
  <2>2. CASE x[2] \in t.orgs /\ x[3] \in t.peers
    BY <1>1, <1>2, <2>2 DEF TaskInv, Removes
  <2> QED BY <2>1, <2>2
<1>6. known \subseteq config.known
  OBVIOUS
<1>7. \A x \in config.peers : <<x[2], x[3]>> \in known \/ x \in careless
  BY <1>5
<1> QED BY <1>1, <1>3, <1>4, <1>6, <1>7, GoneInv

LEMMA OrgGoneInv == ASSUME Inv, OrgGone PROVE Inv'
<1>a. PICK t : t = Head(queue)
  OBVIOUS
<1>b. PICK known : known = config.known \ (t.orgs \X Peer)
  OBVIOUS
<1>c. PICK orgs : orgs = config.orgs \ t.orgs
  OBVIOUS
<1>d. PICK orderers : orderers = config.orderers
  OBVIOUS
<1>1. queue # <<>> /\ t.kind = "orgGone" /\ queue' = Tail(queue) /\ careless' = careless
      /\ saveNetworkConfigToFs
  BY <1>a DEF OrgGone, Run, Ends
<1>2. t \in Tasks /\ TaskInv(t)
  BY <1>a, <1>1, HeadFacts
<1>3. config' = [config EXCEPT !.orgs = orgs, !.known = known, !.orderers = orderers]
  <2>1. config' = [config EXCEPT !.orgs = orgs, !.known = known]
    BY <1>a, <1>b, <1>c DEF OrgGone
  <2> QED BY <1>d, <2>1, InvFacts DEF Config
<1>4. orgs \in SUBSET Org /\ orderers \in SUBSET Orderer
  BY <1>c, <1>d, InvFacts DEF Config
<1>5. ASSUME NEW x \in config.peers PROVE <<x[2], x[3]>> \in known \/ x \in careless
  <2>1. <<x[2], x[3]>> \in config.known \/ x \in careless
    BY InvFacts DEF KnownOrCareless
  <2>2. CASE x[2] \in t.orgs
    BY <1>1, <1>2, <2>2 DEF TaskInv, Removes
  <2> QED BY <1>b, <2>1, <2>2
<1>6. known \subseteq config.known
  BY <1>b
<1>7. \A x \in config.peers : <<x[2], x[3]>> \in known \/ x \in careless
  BY <1>5
<1> QED BY <1>1, <1>3, <1>4, <1>6, <1>7, GoneInv

LEMMA OrdererGoneInv == ASSUME Inv, OrdererGone PROVE Inv'
<1> PICK x : x = Head(queue).orderer
  OBVIOUS
<1>1. /\ queue # <<>> /\ queue' = Tail(queue) /\ careless' = careless
      /\ saveNetworkConfigToFs /\ config' = [config EXCEPT !.orderers = @ \ {x}]
  BY DEF OrdererGone, Run, Ends
<1> PICK orderers : orderers = config.orderers \ {x}
  OBVIOUS
<1>2. config' = [config EXCEPT !.orgs = config.orgs, !.known = config.known,
                               !.orderers = orderers]
  BY <1>1, InvFacts DEF Config
<1>3. config.orgs \in SUBSET Org /\ orderers \in SUBSET Orderer
  BY InvFacts DEF Config
<1>4. \A y \in config.peers : <<y[2], y[3]>> \in config.known \/ y \in careless
  BY InvFacts DEF KnownOrCareless
<1> QED BY <1>1, <1>2, <1>3, <1>4, GoneInv

(***************************************************************************)
(* All steps                                                               *)
(***************************************************************************)

LEMMA CrashInv == ASSUME Inv, Crash PROVE Inv'
<1>1. config' = file /\ file' = file /\ queue' = <<>> /\ careless' = careless
  BY DEF Crash
<1>2. file \in Config /\ Nested(file) /\ Starts
  BY DEF Inv
<1>3. FileFollows'
  BY <1>1, <1>2 DEF FileFollows, Config
<1>4. (Nested(config)' <=> Nested(file)) /\ (Nested(file)' <=> Nested(file))
  BY <1>1 DEF Nested
<1> QED BY <1>1, <1>2, <1>3, <1>4 DEF Inv, QueueInv, Starts

LEMMA OtherInv ==
  ASSUME Inv, init \/ (\E p \in Peer : HubCloses(p) \/ HubOpens(p)) \/ UNCHANGED vars
  PROVE  Inv'
<1>1. UNCHANGED <<config, file, careless, queue>>
  BY DEF init, HubCloses, HubOpens, vars
<1>2. QueueInv'
  BY <1>1, QueueKept DEF Inv, Gains
<1> QED BY <1>1, <1>2, Same

LEMMA NetworkCallInv == ASSUME Inv, NetworkCall PROVE Inv'
<1>1. CASE \E o \in Org : nRemoveOrg(o)
  BY <1>1, nRemoveOrgInv
<1>2. CASE \E o \in Org, p \in Peer : nRemovePeer(o, p)
  BY <1>2, nRemovePeerInv
<1>3. CASE \E x \in Orderer : nRemoveOrderer(x)
  BY <1>3, nRemoveOrdererInv
<1>4. CASE \/ \E o \in Org, ps \in SUBSET Peer : nAddOrg(o, ps) \/ nAddPeers(o, ps)
           \/ \E x \in Orderer : nAddOrderer(x)
           \/ nReviseAttribute
  BY <1>4, NetworkAdds
<1> QED BY <1>1, <1>2, <1>3, <1>4 DEF NetworkCall

LEMMA ChannelCallInv == ASSUME Inv, ChannelCall PROVE Inv'
<1> PICK c \in Channel :
      \/ \E xs \in SUBSET Orderer, os \in SUBSET Org, ps \in SUBSET Peer :
           cAddChannel(c, xs, os, ps)
      \/ \E o \in Org, ps \in SUBSET Peer : cAddOrgInChannel(c, o, ps)
      \/ \E o \in Org : cRemoveOrgInChannel(c, o)
      \/ \E o \in Org, p \in Peer :
           cAddPeerInChannel(c, o, p) \/ cRemovePeerInChannel(c, o, p)
           \/ cChangePeerTypeChannel(c, o, p)
      \/ \E x \in Orderer : cAddOrdererInChannel(c, x) \/ cRemoveOrdererInChannel(c, x)
  BY DEF ChannelCall
<1> QED BY cAddChannelInv, cAddOrgInChannelInv, cRemoveOrgInChannelInv, cAddPeerInChannelInv,
           cRemovePeerInChannelInv, cChangePeerTypeChannelInv, cOrdererInChannelInv

LEMMA ContinueInv == ASSUME Inv, Continue PROVE Inv'
BY EmitInv, AddChannelOrgsInv, EmitPeerRemovedInv, PeerGoneInv, OrgGoneInv,
   EmitOrderersRemovedInv, OrdererGoneInv DEF Continue

LEMMA NextInv == ASSUME Inv, [Next]_vars PROVE Inv'
BY NetworkCallInv, ChannelCallInv, ContinueInv, CrashInv, OtherInv DEF Next

LEMMA Invariance == Spec => []Inv
<1>1. Init => Inv
  BY InitInv
<1>2. Inv /\ [Next]_vars => Inv'
  BY NextInv
<1> QED BY <1>1, <1>2, PTL DEF Spec

\* The file is what a restart makes of the configuration, after every call and every
\* continuation, but for organisations that were taken out of a channel, for which
\* cRemoveOrgInChannel saves nothing (networkConfig.js:466).
THEOREM FileIsKept == Spec => []FileFollows
<1>1. Inv => FileFollows
  BY DEF Inv
<1> QED BY <1>1, Invariance, PTL

\* The gateway can be started from its file whenever it crashes: initChannels finds
\* every peer that a channel names, but for peers put into a channel while they were
\* not in the network, or while they were being removed from it.
THEOREM CanStart == Spec => []Starts
<1>1. Inv => Starts
  BY DEF Inv
<1> QED BY <1>1, Invariance, PTL

(***************************************************************************)
(* The handlers of events                                                  *)
(***************************************************************************)

Objects == [peers : SUBSET (Org \X Peer), orderers : SUBSET Orderer]
Sdk ==
  [object : [Channel -> Objects \cup {None}], hubs : SUBSET Peer,
   slots : [Channel -> (SUBSET Peer) \cup {None}], on : [Channel -> SUBSET Peer],
   threw : BOOLEAN, reached : SUBSET Channel, bad : SUBSET Channel]

\* The hubs that call a listener of c are among those of the listener that is kept.
Slotted(s, c) ==
  /\ s.slots[c] = None => s.on[c] = {}
  /\ s.slots[c] # None => s.on[c] \subseteq s.slots[c]

SameAt(s, t, c) == t.object[c] = s.object[c] /\ t.slots[c] = s.slots[c] /\ t.on[c] = s.on[c]

\* The handlers before t have the channels ds, and leave the others.
Within(s, t, ds) ==
  /\ t \in Sdk /\ t.reached = s.reached /\ t.bad = s.bad
  /\ \A d \in Channel \ ds : SameAt(s, t, d)

Rebuilt(t, g, c) ==
  t.object[c] = Built(g, c) /\ t.on[c] = OwnPeersOf(g, c) /\ Slotted(t, c)

LEMMA BuiltType == ASSUME NEW g, NEW c PROVE Built(g, c) \in Objects /\ OwnPeersOf(g, c) \in SUBSET Peer
BY DEF Built, Objects, PeersOf, OrderersOf, OwnPeersOf

LEMMA CalmType ==
  ASSUME NEW s \in Sdk
  PROVE  /\ Calm(s) \in Sdk /\ Calm(s).threw = FALSE /\ Calm(s).reached = {} /\ Calm(s).bad = {}
         /\ Calm(s).hubs = s.hubs /\ Calm(s).object = s.object /\ Calm(s).slots = s.slots /\ Calm(s).on = s.on
BY DEF Calm, Sdk

\* A map that is changed at c.
LEMMA ChangedAt ==
  ASSUME NEW S, NEW f \in [Channel -> S], NEW c \in Channel, NEW v \in S
  PROVE  /\ [f EXCEPT ![c] = v] \in [Channel -> S] /\ [f EXCEPT ![c] = v][c] = v
         /\ \A d \in Channel \ {c} : [f EXCEPT ![c] = v][d] = f[d]
OBVIOUS

LEMMA Cancels ==
  ASSUME NEW s \in Sdk, NEW c \in Channel, NEW some, NEW t, t = cancelListenConfig(s, c, some)
  PROVE  /\ Within(s, t, {c}) /\ t.object = s.object /\ t.slots = s.slots
         /\ s.threw => t.threw
         /\ ~t.threw => s.slots[c] # None /\ t.on[c] = s.on[c] \ s.slots[c]
<1>0. s.on \in [Channel -> SUBSET Peer]
  BY DEF Sdk
<1>1. CASE s.slots[c] = None
  BY <1>1 DEF cancelListenConfig, Within, SameAt, Sdk
<1>2. CASE s.slots[c] # None /\ s.slots[c] \subseteq s.hubs
  <2>1. t = [s EXCEPT !.on[c] = @ \ s.slots[c]]
    BY <1>2 DEF cancelListenConfig, unRegisterEventWithThreshold
  <2> QED BY <1>2, <2>1 DEF Within, SameAt, Sdk
<1>3. CASE s.slots[c] # None /\ ~(s.slots[c] \subseteq s.hubs)
  <2> PICK f : f = [s.on EXCEPT ![c] = s.on[c] \ (some \cap s.slots[c])]
    OBVIOUS
  <2>1. t = [s EXCEPT !.on = f, !.threw = TRUE]
    BY <1>3 DEF cancelListenConfig, unRegisterEventWithThreshold, Sdk
  <2>2. s.on[c] \ (some \cap s.slots[c]) \in SUBSET Peer
    BY <1>0
  <2>3. f \in [Channel -> SUBSET Peer] /\ \A d \in Channel \ {c} : f[d] = s.on[d]
    BY <1>0, <2>2, ChangedAt
  <2> QED BY <1>3, <2>1, <2>3 DEF Within, SameAt, Sdk
<1> QED BY <1>1, <1>2, <1>3

LEMMA Inits ==
  ASSUME NEW s \in Sdk, NEW c \in Channel, NEW g, NEW t, t = initChannel(s, g, c)
  PROVE  /\ Within(s, t, {c}) /\ t.slots = s.slots /\ t.on = s.on
         /\ s.threw => t.threw
         /\ ~t.threw => t.object[c] = Built(g, c)
<1> PICK b \in Objects : b = Built(g, c)
  BY BuiltType
<1>1. CASE s.threw
  BY <1>1 DEF initChannel, Within, SameAt, Sdk
<1>2. CASE ~s.threw /\ Known(g, c)
  <2>1. t = [s EXCEPT !.object[c] = b]
    BY <1>2 DEF initChannel
  <2> QED BY <1>2, <2>1 DEF Within, SameAt, Sdk
<1>3. CASE ~s.threw /\ ~Known(g, c)
  <2> PICK b2 : b2 = [b EXCEPT !.peers = {}]
    OBVIOUS
  <2> PICK f : f = [s.object EXCEPT ![c] = b2]
    OBVIOUS
  <2>1. t = [s EXCEPT !.object = f, !.threw = TRUE]
    BY <1>3 DEF initChannel, Sdk
  <2>2. b2 \in Objects \cup {None} /\ s.object \in [Channel -> Objects \cup {None}]
    BY DEF Objects, Sdk
  <2>3. f \in [Channel -> Objects \cup {None}]
        /\ \A d \in Channel \ {c} : f[d] = s.object[d]
    BY <2>2, ChangedAt
  <2> QED BY <1>3, <2>1, <2>3 DEF Within, SameAt, Sdk
<1> QED BY <1>1, <1>2, <1>3

LEMMA Listens ==
  ASSUME NEW s \in Sdk, NEW c \in Channel, NEW g, NEW some, NEW t,
         t = channelInitAndListenConfig(s, g, c, some),
         <<c, myOrgIndex>> \notin g.members => OwnPeersOf(g, c) = {}
  PROVE  /\ Within(s, t, {c}) /\ t.object = s.object
         /\ s.threw => t.threw
         /\ ~t.threw => /\ t.on[c] = s.on[c] \cup OwnPeersOf(g, c)
                        /\ t.slots[c] = IF OwnPeersOf(g, c) = {} THEN s.slots[c]
                                        ELSE OwnPeersOf(g, c)
<1> PICK own \in SUBSET Peer : own = OwnPeersOf(g, c)
  BY BuiltType
<1>0. /\ s.on \in [Channel -> SUBSET Peer] /\ s.slots \in [Channel -> (SUBSET Peer) \cup {None}]
      /\ s.hubs \in SUBSET Peer
  BY DEF Sdk
<1>1. CASE s.threw \/ own = {}
  <2>1. t = s
    BY <1>1 DEF channelInitAndListenConfig
  <2> QED BY <1>1, <2>1 DEF Within, SameAt, Sdk
<1>2. CASE ~s.threw /\ own # {} /\ own \cap s.hubs \cap closed = {}
  <2> PICK f : f = [s.on EXCEPT ![c] = s.on[c] \cup own]
    OBVIOUS
  <2> PICK h : h = [s.slots EXCEPT ![c] = own]
    OBVIOUS
  <2> PICK hubs : hubs = s.hubs \cup own
    OBVIOUS
  <2>1. t = [s EXCEPT !.hubs = hubs, !.on = f, !.slots = h]
    BY <1>2 DEF channelInitAndListenConfig, registerEventWithThreshold, Sdk
  <2>2. s.on[c] \cup own \in SUBSET Peer /\ own \in (SUBSET Peer) \cup {None}
        /\ hubs \in SUBSET Peer
    BY <1>0
  <2>3. /\ f \in [Channel -> SUBSET Peer] /\ f[c] = s.on[c] \cup own
        /\ \A d \in Channel \ {c} : f[d] = s.on[d]
    BY <1>0, <2>2, ChangedAt
  <2>4. /\ h \in [Channel -> (SUBSET Peer) \cup {None}] /\ h[c] = own
        /\ \A d \in Channel \ {c} : h[d] = s.slots[d]
    BY <1>0, <2>2, ChangedAt
  <2> QED BY <1>2, <2>1, <2>2, <2>3, <2>4 DEF Within, SameAt, Sdk
<1>3. CASE ~s.threw /\ own # {} /\ own \cap s.hubs \cap closed # {}
  <2> PICK done : done = (some \cap own) \ (s.hubs \cap closed)
    OBVIOUS
  <2> PICK f : f = [s.on EXCEPT ![c] = s.on[c] \cup done]
    OBVIOUS
  <2> PICK hubs : hubs = s.hubs \cup done
    OBVIOUS
  <2>1. t = [s EXCEPT !.hubs = hubs, !.on = f, !.threw = TRUE]
    BY <1>3 DEF channelInitAndListenConfig, registerEventWithThreshold, Sdk
  <2>2. s.on[c] \cup done \in SUBSET Peer /\ hubs \in SUBSET Peer
    BY <1>0
  <2>3. f \in [Channel -> SUBSET Peer] /\ \A d \in Channel \ {c} : f[d] = s.on[d]
    BY <1>0, <2>2, ChangedAt
  <2> QED BY <1>3, <2>1, <2>2, <2>3 DEF Within, SameAt, Sdk
<1> QED BY <1>1, <1>2, <1>3

\* In a channel of which the configuration nests the peers in the members.
Holds(g, c) == <<c, myOrgIndex>> \notin g.members => OwnPeersOf(g, c) = {}

\* The handler of c was called.
HandledTo(s, t, c) ==
  /\ t \in Sdk /\ t.threw = s.threw /\ t.reached = s.reached \cup {c}
  /\ t.bad = IF s.threw THEN s.bad \cup {c} ELSE s.bad
  /\ t.object = s.object /\ t.slots = s.slots /\ t.on = s.on

LEMMA HandledFacts ==
  ASSUME NEW s \in Sdk, NEW c \in Channel, NEW t, t = Handled(s, c)
  PROVE  HandledTo(s, t, c)
<1> PICK b : b = IF s.threw THEN s.bad \cup {c} ELSE s.bad
  OBVIOUS
<1>1. t = [s EXCEPT !.reached = s.reached \cup {c}, !.bad = b]
  BY DEF Handled, Sdk
<1>2. b \in SUBSET Channel /\ s.reached \cup {c} \in SUBSET Channel
  BY DEF Sdk
<1> QED BY <1>1, <1>2 DEF HandledTo, Sdk

LEMMA Revises1 ==
  ASSUME NEW s \in Sdk, ~s.threw, NEW c \in Channel, NEW g, Holds(g, c), NEW some,
         NEW t, t = ChannelRevised(s, g, c, some)
  PROVE  /\ t \in Sdk /\ t.reached = s.reached \cup {c}
         /\ t.bad = IF t.threw THEN s.bad \cup {c} ELSE s.bad
         /\ \A d \in Channel \ {c} : SameAt(s, t, d)
         /\ ~t.threw /\ Slotted(s, c) => Rebuilt(t, g, c)
<1> PICK s1 : s1 = cancelListenConfig(s, c, some)
  OBVIOUS
<1> PICK s2 : s2 = initChannel(s1, g, c)
  OBVIOUS
<1> PICK s3 : s3 = channelInitAndListenConfig(s2, g, c, some)
  OBVIOUS
<1>0. t = Handled(s3, c)
  BY DEF ChannelRevised
<1>1. /\ Within(s, s1, {c}) /\ s1.slots = s.slots
      /\ ~s1.threw => s.slots[c] # None /\ s1.on[c] = s.on[c] \ s.slots[c]
  BY Cancels, SMTT(30)
<1>2. /\ Within(s1, s2, {c}) /\ s2.slots = s1.slots /\ s2.on = s1.on
      /\ s1.threw => s2.threw
      /\ ~s2.threw => s2.object[c] = Built(g, c)
  BY <1>1, Inits DEF Within
<1>3. /\ Within(s2, s3, {c}) /\ s3.object = s2.object
      /\ s2.threw => s3.threw
      /\ ~s3.threw => /\ s3.on[c] = s2.on[c] \cup OwnPeersOf(g, c)
                      /\ s3.slots[c] = IF OwnPeersOf(g, c) = {} THEN s2.slots[c]
                                       ELSE OwnPeersOf(g, c)
  BY <1>2, Listens DEF Within, Holds
<1>4. /\ t \in Sdk /\ t.threw = s3.threw /\ t.reached = s3.reached \cup {c}
      /\ t.bad = IF s3.threw THEN s3.bad \cup {c} ELSE s3.bad
      /\ t.object = s3.object /\ t.slots = s3.slots /\ t.on = s3.on
  <2>1. s3 \in Sdk
    BY <1>3 DEF Within
  <2>2. HandledTo(s3, t, c)
    BY <1>0, <2>1, HandledFacts
  <2> QED BY <2>2 DEF HandledTo
<1>5. t.reached = s.reached \cup {c} /\ t.bad = IF t.threw THEN s.bad \cup {c} ELSE s.bad
  BY <1>1, <1>2, <1>3, <1>4 DEF Within
<1>6. \A d \in Channel \ {c} : SameAt(s, t, d)
  BY <1>1, <1>2, <1>3, <1>4 DEF Within, SameAt
<1>7. ASSUME ~t.threw, Slotted(s, c) PROVE Rebuilt(t, g, c)
  <2>1. s2.on[c] = {} /\ s2.slots[c] # None
    BY <1>1, <1>2, <1>3, <1>4, <1>7 DEF Slotted
  <2>2. t.object[c] = Built(g, c) /\ t.on[c] = OwnPeersOf(g, c)
    BY <1>2, <1>3, <1>4, <1>7, <2>1
  <2>3. t.slots[c] # None /\ t.on[c] \subseteq t.slots[c]
    BY <1>3, <1>4, <1>7, <2>1, <2>2, BuiltType, NoneIsNoSet
  <2> QED BY <2>2, <2>3 DEF Rebuilt, Slotted
<1> QED BY <1>4, <1>5, <1>6, <1>7

\* c was added since s.
AddedTo(s, t, g, c) ==
  /\ t \in Sdk /\ t.reached = s.reached \cup {c}
  /\ t.bad = IF t.threw THEN s.bad \cup {c} ELSE s.bad
  /\ \A d \in Channel \ {c} : SameAt(s, t, d)
  /\ ~t.threw /\ Slotted(s, c) /\ s.on[c] \subseteq OwnPeersOf(g, c) => Rebuilt(t, g, c)

LEMMA Adds1 ==
  ASSUME NEW s \in Sdk, NEW c \in Channel, NEW g, Holds(g, c), NEW some,
         NEW t, t = ChannelAdded(s, g, c, some)
  PROVE  AddedTo(s, t, g, c)
<1> PICK s2 : s2 = initChannel(s, g, c)
  OBVIOUS
<1> PICK s3 : s3 = channelInitAndListenConfig(s2, g, c, some)
  OBVIOUS
<1>0. t = Handled(s3, c)
  BY DEF ChannelAdded
<1>2. /\ Within(s, s2, {c}) /\ s2.slots = s.slots /\ s2.on = s.on
      /\ ~s2.threw => s2.object[c] = Built(g, c)
  BY Inits DEF Within
<1>3. /\ Within(s2, s3, {c}) /\ s3.object = s2.object
      /\ s2.threw => s3.threw
      /\ ~s3.threw => /\ s3.on[c] = s2.on[c] \cup OwnPeersOf(g, c)
                      /\ s3.slots[c] = IF OwnPeersOf(g, c) = {} THEN s2.slots[c]
                                       ELSE OwnPeersOf(g, c)
  BY <1>2, Listens DEF Within, Holds
<1>4. /\ t \in Sdk /\ t.threw = s3.threw /\ t.reached = s3.reached \cup {c}
      /\ t.bad = IF s3.threw THEN s3.bad \cup {c} ELSE s3.bad
      /\ t.object = s3.object /\ t.slots = s3.slots /\ t.on = s3.on
  <2>1. s3 \in Sdk
    BY <1>3 DEF Within
  <2>2. HandledTo(s3, t, c)
    BY <1>0, <2>1, HandledFacts
  <2> QED BY <2>2 DEF HandledTo
<1>5. t.reached = s.reached \cup {c} /\ t.bad = IF t.threw THEN s.bad \cup {c} ELSE s.bad
  BY <1>2, <1>3, <1>4 DEF Within
<1>6. \A d \in Channel \ {c} : SameAt(s, t, d)
  BY <1>2, <1>3, <1>4 DEF Within, SameAt
<1>7. ASSUME ~t.threw, Slotted(s, c), s.on[c] \subseteq OwnPeersOf(g, c) PROVE Rebuilt(t, g, c)
  <2>2. t.object[c] = Built(g, c) /\ t.on[c] = OwnPeersOf(g, c)
    BY <1>2, <1>3, <1>4, <1>7
  <2>3. CASE OwnPeersOf(g, c) = {}
    BY <1>2, <1>3, <1>4, <1>7, <2>2, <2>3 DEF Rebuilt, Slotted
  <2>4. CASE OwnPeersOf(g, c) # {}
    <3>1. t.slots[c] # None /\ t.slots[c] = t.on[c]
      BY <1>3, <1>4, <1>7, <2>2, <2>4, BuiltType, NoneIsNoSet
    <3> QED BY <2>2, <3>1 DEF Rebuilt, Slotted
  <2> QED BY <2>3, <2>4
<1> QED BY <1>4, <1>5, <1>6, <1>7 DEF AddedTo

\* The handlers of cs, or of some of them, were called since sdk.
Handles(t, g, cs) ==
  /\ t \in Sdk /\ t.bad \subseteq t.reached /\ t.reached \subseteq cs
  /\ \A c \in Channel \ t.reached : SameAt(sdk, t, c)
  /\ \A c \in t.reached \ t.bad : Slotted(sdk, c) => Rebuilt(t, g, c)

LEMMA HandlesNone == ASSUME sdk \in Sdk, NEW g PROVE Handles(Calm(sdk), g, {})
BY CalmType DEF Handles, SameAt

LEMMA HandlesAgain ==
  ASSUME NEW s, NEW g, NEW cs, Handles(s, g, cs), NEW t, t = Afresh(s)
  PROVE  Handles(t, g, cs) /\ t.reached = s.reached /\ ~t.threw
<1>1. /\ t \in Sdk /\ ~t.threw /\ t.reached = s.reached /\ t.bad = s.bad
      /\ t.object = s.object /\ t.slots = s.slots /\ t.on = s.on
  BY DEF Handles, Sdk, Afresh
<1> QED BY <1>1 DEF Handles, SameAt, Rebuilt, Slotted

LEMMA HandlesMore ==
  ASSUME NEW s, NEW g, NEW cs, Handles(s, g, cs), ~s.threw, NEW c \in Channel, Holds(g, c),
         NEW some, NEW t, t = ChannelRevised(s, g, c, some)
  PROVE  Handles(t, g, cs \cup {c}) /\ t.reached = s.reached \cup {c}
<1>1. /\ t \in Sdk /\ t.reached = s.reached \cup {c}
      /\ t.bad = IF t.threw THEN s.bad \cup {c} ELSE s.bad
      /\ \A d \in Channel \ {c} : SameAt(s, t, d)
      /\ ~t.threw /\ Slotted(s, c) => Rebuilt(t, g, c)
  <2>1. s \in Sdk
    BY DEF Handles
  <2> QED BY <2>1, Revises1
<1>2. t.bad \subseteq t.reached /\ t.reached \subseteq cs \cup {c}
  BY <1>1 DEF Handles
<1>3. \A d \in Channel \ t.reached : SameAt(sdk, t, d)
  BY <1>1 DEF Handles, SameAt
<1>4. ASSUME NEW d \in t.reached \ t.bad, Slotted(sdk, d) PROVE Rebuilt(t, g, d)
  <2>0. d \in Channel
    BY <1>1 DEF Sdk
  <2>1. CASE d # c
    <3>1. Rebuilt(s, g, d) /\ SameAt(s, t, d)
      BY <1>1, <1>4, <2>0, <2>1 DEF Handles
    <3> QED BY <3>1 DEF Rebuilt, SameAt, Slotted
  <2>2. CASE d = c
    <3>1. ~t.threw /\ c \notin s.bad
      BY <1>1, <1>4, <2>2
    <3>2. Slotted(s, c)
      <4>1. CASE c \in s.reached
        BY <1>4, <2>2, <3>1, <4>1 DEF Handles, Rebuilt
      <4>2. CASE c \notin s.reached
        <5>1. SameAt(sdk, s, c)
          BY <4>2 DEF Handles
        <5> QED BY <1>4, <2>2, <5>1 DEF SameAt, Slotted
      <4> QED BY <4>1, <4>2
    <3> QED BY <1>1, <2>2, <3>1, <3>2
  <2> QED BY <2>1, <2>2
<1> QED BY <1>1, <1>2, <1>3, <1>4 DEF Handles

(***************************************************************************)
(* Induction, by the least number without a property                       *)
(***************************************************************************)

\* A set of natural numbers that is not empty has a least one.
LEMMA Least ==
  ASSUME NEW S \in SUBSET Nat, S # {}
  PROVE  \E m \in S : \A k \in S : m <= k
<1>1. IsWellFoundedOn(OpToRel(<, Nat), Nat)
  BY NatLessThanWellFounded
<1>2. PICK m \in S : \A k \in S : ~(<<k, m>> \in OpToRel(<, Nat))
  BY <1>1, WFMin
<1>3. \A k \in S : ~(k < m)
  BY <1>2 DEF OpToRel
<1> QED BY <1>3

\* One that has 0 and every successor has all.
LEMMA Induction ==
  ASSUME NEW S \in SUBSET Nat, 0 \in S, \A n \in S : n + 1 \in S
  PROVE  S = Nat
<1> SUFFICES ASSUME Nat \ S # {} PROVE FALSE
  OBVIOUS
<1>1. PICK m \in Nat \ S : \A k \in Nat \ S : m <= k
  <2>1. Nat \ S \in SUBSET Nat
    OBVIOUS
  <2> QED BY <2>1, Least
<1>2. m - 1 \in S
  BY <1>1
<1> QED BY <1>1, <1>2

(***************************************************************************)
(* The handlers of several channels                                        *)
(***************************************************************************)

LEMMA Orderings ==
  ASSUME NEW cs \in SUBSET Channel, NEW order \in SetToSeqs(cs)
  PROVE  /\ Len(order) \in Nat /\ \A i \in 1..Len(order) : order[i] \in cs
         /\ \A c \in cs : \E i \in 1..Len(order) : order[i] = c
<1> PICK n : n = Cardinality(cs)
  OBVIOUS
<1>1. IsFiniteSet(cs) /\ n \in Nat
  <2>1. IsFiniteSet(cs)
    BY FiniteChannels, FS_Subset
  <2> QED BY <2>1, FS_CardinalityType
<1>2. order \in [1..n -> cs] /\ \A i, j \in 1..n : i # j => order[i] # order[j]
  BY DEF SetToSeqs
<1>3. order \in Seq(cs) /\ Len(order) = n
  BY <1>1, <1>2
<1>4. order \in Injection(1..n, cs)
  BY <1>2 DEF Injection, IsInjective
<1>5. Cardinality(1..n) = n
  BY <1>1, FS_Interval
<1>6. order \in Surjection(1..n, cs)
  BY <1>1, <1>4, <1>5, FS_Injection
<1> QED BY <1>1, <1>2, <1>3, <1>6 DEF Surjection

AllStep(f, g, order, some, i) ==
  IF i = 0 THEN Calm(sdk) ELSE ChannelRevised(f[i - 1], g, order[i], some)
IsAll(f, g, order, some, n) == f = [i \in 0..n |-> AllStep(f, g, order, some, i)]

\* The definition by recursion in ChannelsRevised defines a function.
LEMMA AllExists ==
  ASSUME NEW g, NEW order, NEW some, NEW n \in Nat PROVE \E f : IsAll(f, g, order, some, n)
<1> DEFINE S == {k \in Nat : \E f : IsAll(f, g, order, some, k)}
<1>1. 0 \in S
  <2>1. IsAll([i \in 0..0 |-> Calm(sdk)], g, order, some, 0)
    BY DEF IsAll, AllStep
  <2> QED BY <2>1
<1>2. ASSUME NEW k \in S PROVE k + 1 \in S
  <2>1. PICK f : IsAll(f, g, order, some, k)
    OBVIOUS
  <2> DEFINE h == [i \in 0..k + 1 |-> IF i <= k THEN f[i] ELSE AllStep(f, g, order, some, i)]
  <2>2. \A i \in 0..k : h[i] = f[i] /\ f[i] = AllStep(f, g, order, some, i)
    BY <2>1 DEF IsAll
  <2>3. \A i \in 0..k + 1 : h[i] = AllStep(h, g, order, some, i)
    <3>1. \A i \in 0..k + 1 : AllStep(h, g, order, some, i) = AllStep(f, g, order, some, i)
      BY <2>2 DEF AllStep
    <3> QED BY <2>2, <3>1
  <2> HIDE DEF h
  <2>4. IsAll(h, g, order, some, k + 1)
    <3>1. h = [i \in 0..k + 1 |-> h[i]]
      BY DEF h
    <3> QED BY <2>3, <3>1 DEF IsAll
  <2> QED BY <2>4
<1> HIDE DEF S
<1>3. S = Nat
  <2>1. S \in SUBSET Nat
    BY DEF S
  <2> QED BY <1>1, <1>2, <2>1, Induction
<1> QED BY <1>3 DEF S

AllHandled(t, g, cs) == Handles(t, g, cs) /\ (~t.threw => t.reached = cs)

LEMMA AllHandledMore ==
  ASSUME NEW r, NEW g, NEW ds, AllHandled(r, g, ds), NEW c \in Channel, Holds(g, c),
         NEW some, NEW t, t = ChannelRevised(r, g, c, some)
  PROVE  AllHandled(t, g, ds \cup {c})
<1>1. CASE r.threw
  <2>1. t = r
    BY <1>1 DEF ChannelRevised
  <2> QED BY <1>1, <2>1 DEF AllHandled, Handles
<1>2. CASE ~r.threw
  <2>1. Handles(t, g, ds \cup {c}) /\ t.reached = r.reached \cup {c}
    BY <1>2, HandlesMore DEF AllHandled
  <2> QED BY <1>2, <2>1 DEF AllHandled
<1> QED BY <1>1, <1>2

LEMMA ChannelsRevisedHandles ==
  ASSUME sdk \in Sdk, NEW g, \A c \in Channel : Holds(g, c), NEW cs \in SUBSET Channel,
         NEW order \in SetToSeqs(cs), NEW some, NEW s, s = ChannelsRevised(g, order, some)
  PROVE  AllHandled(s, g, cs)
<1> DEFINE f == CHOOSE h : IsAll(h, g, order, some, Len(order))
           Firsts(i) == {order[j] : j \in 1..i}
           S == {i \in Nat : i <= Len(order) =>
                   AllHandled(f[i], g, Firsts(i))}
<1>0. /\ Len(order) \in Nat /\ \A i \in 1..Len(order) : order[i] \in cs
      /\ Firsts(Len(order)) = cs
  BY Orderings
<1>1. IsAll(f, g, order, some, Len(order))
  BY <1>0, AllExists
<1>2. s = f[Len(order)]
  BY DEF ChannelsRevised, IsAll, AllStep
<1> HIDE DEF f
<1>3. /\ f[0] = Calm(sdk)
      /\ \A i \in 1..Len(order) : f[i] = ChannelRevised(f[i - 1], g, order[i], some)
  <2>1. \A i \in 0..Len(order) : f[i] = AllStep(f, g, order, some, i)
    BY <1>0, <1>1 DEF IsAll
  <2> QED BY <1>0, <2>1 DEF AllStep
<1>4. 0 \in S
  <2>1. AllHandled(f[0], g, {})
    BY <1>3, HandlesNone, CalmType DEF AllHandled
  <2>2. Firsts(0) = {}
    OBVIOUS
  <2> QED BY <2>1, <2>2
<1>5. ASSUME NEW i \in S PROVE i + 1 \in S
  <2> SUFFICES ASSUME i + 1 <= Len(order)
               PROVE  AllHandled(f[i + 1], g, Firsts(i + 1))
    OBVIOUS
  <2>1. i \in Nat /\ AllHandled(f[i], g, Firsts(i))
    BY <1>0
  <2>2. order[i + 1] \in Channel /\ f[i + 1] = ChannelRevised(f[i], g, order[i + 1], some)
    <3>1. i + 1 \in 1..Len(order) /\ i + 1 - 1 = i
      BY <1>0, <2>1
    <3> QED BY <1>0, <1>3, <3>1
  <2>3. Firsts(i + 1) = Firsts(i) \cup {order[i + 1]}
    <3>1. 1..i + 1 = 1..i \cup {i + 1}
      BY <2>1
    <3> QED BY <3>1
  <2> HIDE DEF Firsts, S
  <2> QED BY <2>1, <2>2, <2>3, AllHandledMore
<1> HIDE DEF S
<1>6. S = Nat
  <2>1. S \in SUBSET Nat
    BY DEF S
  <2> QED BY <1>4, <1>5, <2>1, Induction
<1>7. AllHandled(f[Len(order)], g, Firsts(Len(order)))
  <2>1. Len(order) \in S
    BY <1>0, <1>6
  <2> QED BY <1>0, <2>1 DEF S
<1> HIDE DEF Firsts
<1> QED BY <1>0, <1>2, <1>7

EachStep(f, order, some, i) ==
  IF i = 0 THEN Calm(sdk)
  ELSE ChannelRevised(Afresh(f[i - 1]), config, order[i], some)
IsEach(f, order, some, n) == f = [i \in 0..n |-> EachStep(f, order, some, i)]

LEMMA EachExists ==
  ASSUME NEW order, NEW some, NEW n \in Nat PROVE \E f : IsEach(f, order, some, n)
<1> DEFINE S == {k \in Nat : \E f : IsEach(f, order, some, k)}
<1>1. 0 \in S
  <2>1. IsEach([i \in 0..0 |-> Calm(sdk)], order, some, 0)
    BY DEF IsEach, EachStep
  <2> QED BY <2>1
<1>2. ASSUME NEW k \in S PROVE k + 1 \in S
  <2>1. PICK f : IsEach(f, order, some, k)
    OBVIOUS
  <2> DEFINE h == [i \in 0..k + 1 |-> IF i <= k THEN f[i] ELSE EachStep(f, order, some, i)]
  <2>2. \A i \in 0..k : h[i] = f[i] /\ f[i] = EachStep(f, order, some, i)
    BY <2>1 DEF IsEach
  <2>3. \A i \in 0..k + 1 : h[i] = EachStep(h, order, some, i)
    <3>1. \A i \in 0..k + 1 : EachStep(h, order, some, i) = EachStep(f, order, some, i)
      BY <2>2 DEF EachStep
    <3> QED BY <2>2, <3>1
  <2> HIDE DEF h
  <2>4. IsEach(h, order, some, k + 1)
    <3>1. h = [i \in 0..k + 1 |-> h[i]]
      BY DEF h
    <3> QED BY <2>3, <3>1 DEF IsEach
  <2> QED BY <2>4
<1> HIDE DEF S
<1>3. S = Nat
  <2>1. S \in SUBSET Nat
    BY DEF S
  <2> QED BY <1>1, <1>2, <2>1, Induction
<1> QED BY <1>3 DEF S

EachHandled(t, cs) == Handles(t, config, cs) /\ t.reached = cs

LEMMA EachHandledMore ==
  ASSUME NEW r, NEW ds, EachHandled(r, ds), NEW c \in Channel, Holds(config, c),
         NEW some, NEW t, t = ChannelRevised(Afresh(r), config, c, some)
  PROVE  EachHandled(t, ds \cup {c})
<1> PICK u : u = Afresh(r)
  OBVIOUS
<1>1. Handles(u, config, ds) /\ u.reached = ds /\ ~u.threw
  BY HandlesAgain DEF EachHandled
<1> QED BY <1>1, HandlesMore DEF EachHandled

LEMMA EachRevisedHandles ==
  ASSUME sdk \in Sdk, \A c \in Channel : Holds(config, c), NEW cs \in SUBSET Channel,
         NEW order \in SetToSeqs(cs), NEW some, NEW s, s = EachRevised(order, some)
  PROVE  Handles(s, config, cs) /\ s.reached = cs
<1> DEFINE f == CHOOSE h : IsEach(h, order, some, Len(order))
           Firsts(i) == {order[j] : j \in 1..i}
           S == {i \in Nat : i <= Len(order) =>
                   EachHandled(f[i], Firsts(i))}
<1>0. /\ Len(order) \in Nat /\ \A i \in 1..Len(order) : order[i] \in cs
      /\ Firsts(Len(order)) = cs
  BY Orderings
<1>1. IsEach(f, order, some, Len(order))
  BY <1>0, EachExists
<1>2. s = f[Len(order)]
  BY DEF EachRevised, IsEach, EachStep
<1> HIDE DEF f
<1>3. /\ f[0] = Calm(sdk)
      /\ \A i \in 1..Len(order) :
           f[i] = ChannelRevised(Afresh(f[i - 1]), config, order[i], some)
  <2>1. \A i \in 0..Len(order) : f[i] = EachStep(f, order, some, i)
    BY <1>0, <1>1 DEF IsEach
  <2> QED BY <1>0, <2>1 DEF EachStep
<1>4. 0 \in S
  <2>1. EachHandled(f[0], {})
    BY <1>3, HandlesNone, CalmType DEF EachHandled
  <2>2. Firsts(0) = {}
    OBVIOUS
  <2> QED BY <2>1, <2>2
<1>5. ASSUME NEW i \in S PROVE i + 1 \in S
  <2> SUFFICES ASSUME i + 1 <= Len(order)
               PROVE  EachHandled(f[i + 1], Firsts(i + 1))
    OBVIOUS
  <2>1. i \in Nat /\ EachHandled(f[i], Firsts(i))
    BY <1>0
  <2>2. /\ order[i + 1] \in Channel
        /\ f[i + 1] = ChannelRevised(Afresh(f[i]), config, order[i + 1], some)
    <3>1. i + 1 \in 1..Len(order) /\ i + 1 - 1 = i
      BY <1>0, <2>1
    <3> QED BY <1>0, <1>3, <3>1
  <2>3. Firsts(i + 1) = Firsts(i) \cup {order[i + 1]}
    <3>1. 1..i + 1 = 1..i \cup {i + 1}
      BY <2>1
    <3> QED BY <3>1
  <2> HIDE DEF Firsts, S
  <2> QED BY <2>1, <2>2, <2>3, EachHandledMore
<1> HIDE DEF S
<1>6. S = Nat
  <2>1. S \in SUBSET Nat
    BY DEF S
  <2> QED BY <1>4, <1>5, <2>1, Induction
<1>7. EachHandled(f[Len(order)], Firsts(Len(order)))
  <2>1. Len(order) \in S
    BY <1>0, <1>6
  <2> QED BY <1>0, <2>1 DEF S
<1> HIDE DEF Firsts
<1> QED BY <1>0, <1>2, <1>7 DEF EachHandled

ListeningStep(f, order, some, i) ==
  IF i = 0 THEN Calm(sdk) ELSE channelInitAndListenConfig(f[i - 1], config, order[i], some)
IsListening(f, order, some, n) == f = [i \in 0..n |-> ListeningStep(f, order, some, i)]

LEMMA ListeningExists ==
  ASSUME NEW order, NEW some, NEW n \in Nat PROVE \E f : IsListening(f, order, some, n)
<1> DEFINE S == {k \in Nat : \E f : IsListening(f, order, some, k)}
<1>1. 0 \in S
  <2>1. IsListening([i \in 0..0 |-> Calm(sdk)], order, some, 0)
    BY DEF IsListening, ListeningStep
  <2> QED BY <2>1
<1>2. ASSUME NEW k \in S PROVE k + 1 \in S
  <2>1. PICK f : IsListening(f, order, some, k)
    OBVIOUS
  <2> DEFINE h == [i \in 0..k + 1 |-> IF i <= k THEN f[i] ELSE ListeningStep(f, order, some, i)]
  <2>2. \A i \in 0..k : h[i] = f[i] /\ f[i] = ListeningStep(f, order, some, i)
    BY <2>1 DEF IsListening
  <2>3. \A i \in 0..k + 1 : h[i] = ListeningStep(h, order, some, i)
    <3>1. \A i \in 0..k + 1 : ListeningStep(h, order, some, i) = ListeningStep(f, order, some, i)
      BY <2>2 DEF ListeningStep
    <3> QED BY <2>2, <3>1
  <2> HIDE DEF h
  <2>4. IsListening(h, order, some, k + 1)
    <3>1. h = [i \in 0..k + 1 |-> h[i]]
      BY DEF h
    <3> QED BY <2>3, <3>1 DEF IsListening
  <2> QED BY <2>4
<1> HIDE DEF S
<1>3. S = Nat
  <2>1. S \in SUBSET Nat
    BY DEF S
  <2> QED BY <1>1, <1>2, <2>1, Induction
<1> QED BY <1>3 DEF S

\* The listeners of ds were made since sdk, unless one threw.
ListensIn(t, ds) ==
  /\ t \in Sdk /\ t.object = sdk.object
  /\ \A c \in Channel \ ds : SameAt(sdk, t, c)
  /\ \A c \in ds : ~t.threw /\ sdk.slots[c] = None /\ sdk.on[c] = {} =>
                    t.on[c] = OwnPeersOf(config, c) /\ Slotted(t, c)

LEMMA ListensMore ==
  ASSUME NEW s, NEW ds \in SUBSET Channel, ListensIn(s, ds), NEW c \in Channel, Holds(config, c),
         NEW some, NEW t, t = channelInitAndListenConfig(s, config, c, some)
  PROVE  ListensIn(t, ds \cup {c})
<1>0. s \in Sdk
  BY DEF ListensIn
<1>1. /\ Within(s, t, {c}) /\ t.object = s.object
      /\ s.threw => t.threw
      /\ ~t.threw => /\ t.on[c] = s.on[c] \cup OwnPeersOf(config, c)
                     /\ t.slots[c] = IF OwnPeersOf(config, c) = {} THEN s.slots[c]
                                     ELSE OwnPeersOf(config, c)
  BY <1>0, Listens, SMTT(30) DEF Holds
<1>2. t \in Sdk /\ t.object = sdk.object
  BY <1>1 DEF ListensIn, Within
<1>3. \A d \in Channel \ (ds \cup {c}) : SameAt(sdk, t, d)
  BY <1>1 DEF ListensIn, Within, SameAt
<1>4. ASSUME NEW d \in ds \cup {c}, ~t.threw, sdk.slots[d] = None, sdk.on[d] = {}
      PROVE  t.on[d] = OwnPeersOf(config, d) /\ Slotted(t, d)
  <2>1. CASE d # c
    <3>1. s.on[d] = OwnPeersOf(config, d) /\ Slotted(s, d)
      BY <1>1, <1>4, <2>1 DEF ListensIn
    <3>2. SameAt(s, t, d)
      BY <1>1, <1>4, <2>1 DEF Within
    <3> QED BY <3>1, <3>2 DEF SameAt, Slotted
  <2>2. CASE d = c
    <3>1. s.on[c] \subseteq OwnPeersOf(config, c) /\ Slotted(s, c)
      <4>1. CASE c \in ds
        BY <1>1, <1>4, <2>2, <4>1 DEF ListensIn
      <4>2. CASE c \notin ds
        <5>1. SameAt(sdk, s, c)
          BY <4>2 DEF ListensIn
        <5> QED BY <1>4, <2>2, <5>1 DEF SameAt, Slotted
      <4> QED BY <4>1, <4>2
    <3>2. t.on[c] = OwnPeersOf(config, c)
      BY <1>1, <1>4, <3>1
    <3>3. CASE OwnPeersOf(config, c) = {}
      BY <1>1, <1>4, <2>2, <3>2, <3>3 DEF Slotted
    <3>4. CASE OwnPeersOf(config, c) # {}
      <4>1. t.slots[c] # None /\ t.slots[c] = t.on[c]
        BY <1>1, <1>4, <3>2, <3>4, BuiltType, NoneIsNoSet
      <4> QED BY <2>2, <3>2, <4>1 DEF Slotted
    <3> QED BY <3>3, <3>4
  <2> QED BY <2>1, <2>2
<1> QED BY <1>2, <1>3, <1>4 DEF ListensIn

LEMMA ListensToAllListens ==
  ASSUME sdk \in Sdk, \A c \in Channel : Holds(config, c), NEW cs \in SUBSET Channel,
         NEW order \in SetToSeqs(cs), NEW some, NEW s, s = ListensToAll(order, some)
  PROVE  ListensIn(s, cs)
<1> DEFINE f == CHOOSE h : IsListening(h, order, some, Len(order))
           Firsts(i) == {order[j] : j \in 1..i}
           S == {i \in Nat : i <= Len(order) => ListensIn(f[i], Firsts(i))}
<1>0. /\ Len(order) \in Nat /\ \A i \in 1..Len(order) : order[i] \in cs
      /\ Firsts(Len(order)) = cs
  BY Orderings
<1>1. IsListening(f, order, some, Len(order))
  BY <1>0, ListeningExists
<1>2. s = f[Len(order)]
  BY DEF ListensToAll, IsListening, ListeningStep
<1> HIDE DEF f
<1>3. /\ f[0] = Calm(sdk)
      /\ \A i \in 1..Len(order) :
           f[i] = channelInitAndListenConfig(f[i - 1], config, order[i], some)
  <2>1. \A i \in 0..Len(order) : f[i] = ListeningStep(f, order, some, i)
    BY <1>0, <1>1 DEF IsListening
  <2> QED BY <1>0, <2>1 DEF ListeningStep
<1>4. 0 \in S
  <2>1. ListensIn(f[0], {})
    BY <1>3, CalmType DEF ListensIn, SameAt
  <2>2. Firsts(0) = {}
    OBVIOUS
  <2> QED BY <2>1, <2>2
<1>5. ASSUME NEW i \in S PROVE i + 1 \in S
  <2> SUFFICES ASSUME i + 1 <= Len(order) PROVE ListensIn(f[i + 1], Firsts(i + 1))
    OBVIOUS
  <2>1. i \in Nat /\ ListensIn(f[i], Firsts(i)) /\ Firsts(i) \in SUBSET Channel
    <3>1. i \in Nat /\ ListensIn(f[i], Firsts(i))
      BY <1>0
    <3>2. \A j \in 1..i : j \in 1..Len(order)
      BY <1>0, <3>1
    <3> QED BY <1>0, <3>1, <3>2
  <2>2. /\ order[i + 1] \in Channel
        /\ f[i + 1] = channelInitAndListenConfig(f[i], config, order[i + 1], some)
    <3>1. i + 1 \in 1..Len(order) /\ i + 1 - 1 = i
      BY <1>0, <2>1
    <3> QED BY <1>0, <1>3, <3>1
  <2>3. Firsts(i + 1) = Firsts(i) \cup {order[i + 1]}
    <3>1. 1..i + 1 = 1..i \cup {i + 1}
      BY <2>1
    <3> QED BY <3>1
  <2> HIDE DEF Firsts, S
  <2> QED BY <2>1, <2>2, <2>3, ListensMore
<1> HIDE DEF S
<1>6. S = Nat
  <2>1. S \in SUBSET Nat
    BY DEF S
  <2> QED BY <1>4, <1>5, <2>1, Induction
<1>7. ListensIn(f[Len(order)], Firsts(Len(order)))
  <2>1. Len(order) \in S
    BY <1>0, <1>6
  <2> QED BY <1>0, <2>1 DEF S
<1> HIDE DEF Firsts
<1> QED BY <1>0, <1>2, <1>7

(***************************************************************************)
(* The objects and the listeners                                           *)
(*                                                                         *)
(* The second inductive invariant.  Of each channel that has not failed:   *)
(* the hubs that call a listener are among those of the listener that is   *)
(* kept; they are peers of the configuration, unless an event that makes   *)
(* the listener anew waits; and the object and the listener are those of   *)
(* the configuration, unless the channel is behind or such an event waits, *)
(* up to orderers whose own events wait.  The last such event of an        *)
(* orderer says whether the configuration has it.                          *)
(*                                                                         *)
(* What is appended by a continuation comes after all that calls appended, *)
(* for no call comes in between.  So when a channel that was added gets    *)
(* its event no other that makes its listener waits.                       *)
(***************************************************************************)

Remakes(t, c) ==
  c \in t.channels /\ (t.kind = "revise" \/ (t.kind = "removePeer" /\ myOrgIndex \in t.orgs))
Adds(t, c) == c \in t.channels /\ t.kind \in {"addChannel", "channelAdded"}
Orders(t, c, x) ==
  /\ c \in t.channels /\ t.orderer = x
  /\ t.kind \in {"addOrderer", "removeOrdererIn", "removeOrderer"}

Remaking(q, c) == \E t \in ToSet(q) : Remakes(t, c)
Adding(q, c) == \E t \in ToSet(q) : Adds(t, c)
Ordering(q, c, x) == \E t \in ToSet(q) : Orders(t, c, x)

\* The i-th task of q is the last about x in c.
LastOrder(q, i, c, x) ==
  Orders(q[i], c, x) /\ \A j \in 1..Len(q) : j > i => ~Orders(q[j], c, x)

OrderInv(q, ordering) ==
  \A i \in 1..Len(q), c \in Channel, x \in Orderer :
    LastOrder(q, i, c, x) => (q[i].kind = "addOrderer" <=> <<c, x>> \in ordering)

Later == {"channelAdded", "peerGone", "ordererGone"}
Single == {"revise", "addChannel", "channelAdded", "addOrderer", "removeOrdererIn"}

LaterLast(q) ==
  \A i, j \in 1..Len(q) : i < j /\ q[i].kind \in Later => q[j].kind \in Later
NoLater(q) == \A t \in ToSet(q) : t.kind \notin Later

InChannels(t, cs) ==
  t.channels \subseteq cs /\ (t.kind \in Single => \E c \in Channel : t.channels = {c})

TasksInv(q, g) ==
  /\ \A t \in ToSet(q) : InChannels(t, g.channels)
  /\ LaterLast(q) /\ OrderInv(q, g.ordering)

Follows(c) ==
  /\ sdk.object[c] # None
  /\ sdk.object[c].peers = PeersOf(config, c)
  /\ \A x \in Orderer : ~Ordering(queue, c, x) =>
       (x \in sdk.object[c].orderers <=> x \in OrderersOf(config, c) \cap config.orderers)
  /\ phase = "ready" => sdk.on[c] = OwnPeersOf(config, c)

ChannelInv(c) ==
  c \notin failed =>
    /\ Slotted(sdk, c)
    /\ ~Remaking(queue, c) => sdk.on[c] \subseteq OwnPeersOf(config, c)
    /\ c \in config.channels \ behind /\ ~Remaking(queue, c) /\ ~Adding(queue, c) => Follows(c)

SdkInv ==
  /\ sdk \in Sdk /\ ~sdk.threw
  /\ Ordered(config)
  /\ TasksInv(queue, config) /\ (~draining => NoLater(queue))
  /\ \A c \in Channel : ChannelInv(c)

(***************************************************************************)
(* The queue                                                               *)
(***************************************************************************)

LEMMA AppendTasks ==
  ASSUME NEW q \in Seq(Tasks), NEW t \in Tasks
  PROVE  /\ ToSet(Append(q, t)) = ToSet(q) \cup {t}
         /\ \A c : Remaking(Append(q, t), c) <=> Remaking(q, c) \/ Remakes(t, c)
         /\ \A c : Adding(Append(q, t), c) <=> Adding(q, c) \/ Adds(t, c)
         /\ \A c, x : Ordering(Append(q, t), c, x) <=> Ordering(q, c, x) \/ Orders(t, c, x)
<1> DEFINE r == Append(q, t)
<1>1. /\ r \in Seq(Tasks) /\ Len(r) = Len(q) + 1 /\ Len(q) \in Nat
      /\ r[Len(q) + 1] = t /\ \A i \in 1..Len(q) : r[i] = q[i]
  OBVIOUS
<1> HIDE DEF r
<1>2. ToSet(r) = {r[i] : i \in 1..Len(r)} /\ ToSet(q) = {q[i] : i \in 1..Len(q)}
  BY <1>1 DEF ToSet
<1>3. 1..Len(r) = 1..Len(q) \cup {Len(q) + 1}
  BY <1>1
<1>4. ToSet(r) = {r[i] : i \in 1..Len(q)} \cup {r[Len(q) + 1]}
  BY <1>2, <1>3
<1>5. {r[i] : i \in 1..Len(q)} = {q[i] : i \in 1..Len(q)}
  BY <1>1
<1>6. ToSet(r) = ToSet(q) \cup {t}
  BY <1>1, <1>2, <1>4, <1>5
<1>7. \A c : Remaking(r, c) <=> Remaking(q, c) \/ Remakes(t, c)
  BY <1>6 DEF Remaking
<1>8. \A c : Adding(r, c) <=> Adding(q, c) \/ Adds(t, c)
  BY <1>6 DEF Adding
<1>9. \A c, x : Ordering(r, c, x) <=> Ordering(q, c, x) \/ Orders(t, c, x)
  BY <1>6 DEF Ordering
<1> QED BY <1>6, <1>7, <1>8, <1>9 DEF r

LEMMA TailTasks ==
  ASSUME NEW q \in Seq(Tasks), q # <<>>
  PROVE  /\ Head(q) \in Tasks /\ Tail(q) \in Seq(Tasks)
         /\ Head(q) \in ToSet(q) /\ ToSet(q) = ToSet(Tail(q)) \cup {Head(q)}
         /\ \A c : Remaking(q, c) <=> Remaking(Tail(q), c) \/ Remakes(Head(q), c)
         /\ \A c : Adding(q, c) <=> Adding(Tail(q), c) \/ Adds(Head(q), c)
         /\ \A c, x : Ordering(q, c, x) <=> Ordering(Tail(q), c, x) \/ Orders(Head(q), c, x)
<1> DEFINE r == Tail(q)
           h == Head(q)
<1>1. /\ r \in Seq(Tasks) /\ Len(q) = Len(r) + 1 /\ Len(r) \in Nat /\ h \in Tasks
      /\ h = q[1] /\ \A i \in 1..Len(r) : r[i] = q[i + 1]
  OBVIOUS
<1> HIDE DEF r, h
<1>2. ToSet(r) = {r[i] : i \in 1..Len(r)} /\ ToSet(q) = {q[i] : i \in 1..Len(q)}
  <2>1. r \in Seq(Tasks)
    BY <1>1
  <2> QED BY <2>1 DEF ToSet
<1>3. ASSUME NEW t \in ToSet(q) PROVE t \in ToSet(r) \cup {h}
  <2>1. PICK i \in 1..Len(q) : t = q[i]
    BY <1>2
  <2>2. CASE i = 1
    BY <1>1, <2>1, <2>2
  <2>3. CASE i # 1
    <3>1. i - 1 \in 1..Len(r) /\ r[i - 1] = q[i - 1 + 1] /\ i - 1 + 1 = i
      BY <1>1, <2>3
    <3> QED BY <1>2, <2>1, <3>1
  <2> QED BY <2>2, <2>3
<1>4. ASSUME NEW t \in ToSet(r) PROVE t \in ToSet(q)
  <2>1. PICK i \in 1..Len(r) : t = r[i]
    BY <1>2
  <2>2. i + 1 \in 1..Len(q) /\ t = q[i + 1]
    BY <1>1, <2>1
  <2> QED BY <1>2, <2>2
<1>5. h \in ToSet(q)
  <2>1. 1 \in 1..Len(q)
    BY <1>1
  <2> QED BY <1>1, <1>2, <2>1
<1>6. ToSet(q) = ToSet(r) \cup {h}
  BY <1>3, <1>4, <1>5
<1>7. \A c : Remaking(q, c) <=> Remaking(r, c) \/ Remakes(h, c)
  BY <1>6 DEF Remaking
<1>8. \A c : Adding(q, c) <=> Adding(r, c) \/ Adds(h, c)
  BY <1>6 DEF Adding
<1>9. \A c, x : Ordering(q, c, x) <=> Ordering(r, c, x) \/ Orders(h, c, x)
  BY <1>6 DEF Ordering
<1> QED BY <1>1, <1>5, <1>6, <1>7, <1>8, <1>9 DEF r, h

\* A task is appended, and says of its orderer what the configuration then says.
LEMMA AppendKeeps ==
  ASSUME NEW q \in Seq(Tasks), NEW t \in Tasks, NEW g, NEW g2, TasksInv(q, g),
         g.channels \subseteq g2.channels, InChannels(t, g2.channels),
         NoLater(q) \/ t.kind \in Later,
         \A c \in Channel, x \in Orderer :
           IF Orders(t, c, x) THEN t.kind = "addOrderer" <=> <<c, x>> \in g2.ordering
           ELSE (<<c, x>> \in g.ordering <=> <<c, x>> \in g2.ordering) \/ ~Ordering(q, c, x)
  PROVE  TasksInv(Append(q, t), g2)
<1> DEFINE r == Append(q, t)
<1>1. /\ r \in Seq(Tasks) /\ Len(r) = Len(q) + 1 /\ Len(q) \in Nat
      /\ r[Len(q) + 1] = t /\ \A i \in 1..Len(q) : r[i] = q[i]
  OBVIOUS
<1>2. ToSet(r) = ToSet(q) \cup {t}
  BY AppendTasks
<1>0. \A i \in 1..Len(q) : q[i] \in ToSet(q)
  BY DEF ToSet
<1> HIDE DEF r
<1>3. \A u \in ToSet(r) : InChannels(u, g2.channels)
  BY <1>2 DEF TasksInv, InChannels
<1>4. LaterLast(r)
  <2> SUFFICES ASSUME NEW i \in 1..Len(r), NEW j \in 1..Len(r), i < j, r[i].kind \in Later
               PROVE  r[j].kind \in Later
    BY DEF LaterLast
  <2>1. i \in 1..Len(q) /\ r[i] = q[i]
    BY <1>1
  <2>2. CASE j \in 1..Len(q)
    BY <1>1, <2>1, <2>2 DEF TasksInv, LaterLast
  <2>3. CASE j = Len(q) + 1
    <3>1. ~NoLater(q)
      BY <1>0, <2>1 DEF NoLater
    <3> QED BY <1>1, <2>3, <3>1
  <2> QED BY <1>1, <2>2, <2>3
<1>5. OrderInv(r, g2.ordering)
  <2> SUFFICES ASSUME NEW i \in 1..Len(r), NEW c \in Channel, NEW x \in Orderer,
                      LastOrder(r, i, c, x)
               PROVE  r[i].kind = "addOrderer" <=> <<c, x>> \in g2.ordering
    BY DEF OrderInv
  <2>1. CASE i \in 1..Len(q)
    <3>1. r[i] = q[i] /\ Len(q) + 1 \in 1..Len(r) /\ Len(q) + 1 > i
      BY <1>1, <2>1
    <3>2. ~Orders(t, c, x) /\ Orders(q[i], c, x)
      BY <1>1, <3>1 DEF LastOrder
    <3>3. LastOrder(q, i, c, x)
      BY <1>1, <3>2 DEF LastOrder
    <3>4. Ordering(q, c, x)
      BY <1>0, <2>1, <3>2 DEF Ordering
    <3> QED BY <2>1, <3>1, <3>2, <3>3, <3>4 DEF TasksInv, OrderInv
  <2>2. CASE i = Len(q) + 1
    BY <1>1, <2>2 DEF LastOrder
  <2> QED BY <1>1, <2>1, <2>2
<1> QED BY <1>3, <1>4, <1>5 DEF TasksInv, r

LEMMA TailKeeps ==
  ASSUME NEW q \in Seq(Tasks), q # <<>>, NEW g, TasksInv(q, g)
  PROVE  TasksInv(Tail(q), g)
<1> DEFINE r == Tail(q)
<1>1. /\ r \in Seq(Tasks) /\ Len(q) = Len(r) + 1 /\ Len(r) \in Nat
      /\ \A i \in 1..Len(r) : r[i] = q[i + 1]
  OBVIOUS
<1>2. ToSet(r) \subseteq ToSet(q)
  BY TailTasks
<1> HIDE DEF r
<1>3. \A t \in ToSet(r) : InChannels(t, g.channels)
  BY <1>2 DEF TasksInv
<1>4. LaterLast(r)
  <2> SUFFICES ASSUME NEW i \in 1..Len(r), NEW j \in 1..Len(r), i < j, r[i].kind \in Later
               PROVE  r[j].kind \in Later
    BY DEF LaterLast
  <2>1. i + 1 \in 1..Len(q) /\ j + 1 \in 1..Len(q) /\ i + 1 < j + 1
        /\ r[i] = q[i + 1] /\ r[j] = q[j + 1]
    BY <1>1
  <2> QED BY <2>1 DEF TasksInv, LaterLast
<1>5. OrderInv(r, g.ordering)
  <2> SUFFICES ASSUME NEW i \in 1..Len(r), NEW c \in Channel, NEW x \in Orderer,
                      LastOrder(r, i, c, x)
               PROVE  r[i].kind = "addOrderer" <=> <<c, x>> \in g.ordering
    BY DEF OrderInv
  <2>1. i + 1 \in 1..Len(q) /\ r[i] = q[i + 1]
    BY <1>1
  <2>2. ASSUME NEW j \in 1..Len(q), j > i + 1 PROVE ~Orders(q[j], c, x)
    <3>1. j - 1 \in 1..Len(r) /\ j - 1 > i /\ r[j - 1] = q[j - 1 + 1] /\ j - 1 + 1 = j
      BY <1>1, <2>2
    <3> QED BY <3>1 DEF LastOrder
  <2>3. LastOrder(q, i + 1, c, x)
    BY <2>1, <2>2 DEF LastOrder
  <2> QED BY <2>1, <2>3 DEF TasksInv, OrderInv
<1> QED BY <1>3, <1>4, <1>5 DEF TasksInv, r

\* No task, or none that says otherwise.
LEMMA SameKeeps ==
  ASSUME NEW q, NEW g, NEW g2, TasksInv(q, g),
         g.channels \subseteq g2.channels, g2.ordering = g.ordering
  PROVE  TasksInv(q, g2)
BY DEF TasksInv, InChannels

LEMMA HeadIsLater ==
  ASSUME NEW q \in Seq(Tasks), q # <<>>, NEW g, TasksInv(q, g), Head(q).kind \in Later
  PROVE  \A t \in ToSet(q) : t.kind \in Later
<1>1. ToSet(q) = {q[i] : i \in 1..Len(q)} /\ Head(q) = q[1] /\ Len(q) \in Nat /\ 1 \in 1..Len(q)
  BY DEF ToSet
<1>2. ASSUME NEW i \in 1..Len(q) PROVE q[i].kind \in Later
  BY <1>1 DEF TasksInv, LaterLast
<1> QED BY <1>1, <1>2

\* What the head says of its orderer, if no task after it does.
LEMMA HeadIsLast ==
  ASSUME NEW q \in Seq(Tasks), q # <<>>, NEW g, TasksInv(q, g),
         NEW c \in Channel, NEW x \in Orderer, Orders(Head(q), c, x), ~Ordering(Tail(q), c, x)
  PROVE  Head(q).kind = "addOrderer" <=> <<c, x>> \in g.ordering
<1> DEFINE r == Tail(q)
<1>1. /\ r \in Seq(Tasks) /\ Len(q) = Len(r) + 1 /\ Len(r) \in Nat /\ Head(q) = q[1]
      /\ 1 \in 1..Len(q) /\ \A i \in 1..Len(r) : r[i] = q[i + 1]
  OBVIOUS
<1>2. \A t \in ToSet(r) : ~Orders(t, c, x)
  BY DEF Ordering
<1> HIDE DEF r
<1>5. \A i \in 1..Len(r) : r[i] \in ToSet(r)
  <2>1. r \in Seq(Tasks)
    BY <1>1
  <2> QED BY <2>1 DEF ToSet
<1>3. ASSUME NEW j \in 1..Len(q), j > 1 PROVE ~Orders(q[j], c, x)
  <2>1. j - 1 \in 1..Len(r) /\ r[j - 1] = q[j - 1 + 1] /\ j - 1 + 1 = j
    BY <1>1, <1>3
  <2> QED BY <1>2, <1>5, <2>1
<1>4. LastOrder(q, 1, c, x)
  BY <1>1, <1>3 DEF LastOrder
<1> QED BY <1>1, <1>4 DEF TasksInv, OrderInv

(***************************************************************************)
(* A channel in a step                                                     *)
(***************************************************************************)

LEMMA OwnOf ==
  ASSUME NEW g, NEW h, NEW c, PeersOf(g, c) = PeersOf(h, c)
  PROVE  OwnPeersOf(g, c) = OwnPeersOf(h, c)
<1>1. \A p \in Peer : <<c, myOrgIndex, p>> \in g.peers <=> <<myOrgIndex, p>> \in PeersOf(g, c)
  BY OwnOrg DEF PeersOf
<1>2. \A p \in Peer : <<c, myOrgIndex, p>> \in h.peers <=> <<myOrgIndex, p>> \in PeersOf(h, c)
  BY OwnOrg DEF PeersOf
<1> QED BY <1>1, <1>2 DEF OwnPeersOf

\* What was right about c stays right.
Still(c) ==
  /\ c \in config.channels \ behind /\ ~Adding(queue, c)
  /\ PeersOf(config', c) = PeersOf(config, c)
  /\ \A x \in Orderer : ~Ordering(queue', c, x) =>
       /\ ~Ordering(queue, c, x)
       /\ x \in OrderersOf(config', c) \cap config'.orderers
          <=> x \in OrderersOf(config, c) \cap config.orderers
  /\ phase' = "ready" => phase = "ready"

LEMMA Untouched ==
  ASSUME NEW c \in Channel, ChannelInv(c), c \in failed => c \in failed',
         SameAt(sdk, sdk', c), Remaking(queue, c) => Remaking(queue', c),
         OwnPeersOf(config, c) \subseteq OwnPeersOf(config', c) \/ Remaking(queue', c),
         c \in config'.channels \ behind' /\ ~Remaking(queue', c) /\ ~Adding(queue', c) => Still(c)
  PROVE  ChannelInv(c)'
<1> SUFFICES ASSUME c \notin failed'
             PROVE  /\ Slotted(sdk', c)
                    /\ ~Remaking(queue', c) => sdk'.on[c] \subseteq OwnPeersOf(config', c)
                    /\ c \in config'.channels \ behind' /\ ~Remaking(queue', c) /\ ~Adding(queue', c)
                       => Follows(c)'
  BY DEF ChannelInv, Slotted, Remaking, Adding, OwnPeersOf, Remakes, Adds, ToSet
<1>1. Slotted(sdk', c)
  BY DEF ChannelInv, Slotted, SameAt
<1>2. ~Remaking(queue', c) => sdk'.on[c] \subseteq OwnPeersOf(config', c)
  BY DEF ChannelInv, SameAt
<1>3. ASSUME c \in config'.channels \ behind', ~Remaking(queue', c), ~Adding(queue', c)
      PROVE  Follows(c)'
  <2>1. Still(c)
    BY <1>3
  <2>2. Follows(c)
    BY <1>3, <2>1 DEF ChannelInv, Still
  <2>3. PeersOf(config', c) = PeersOf(config, c) /\ OwnPeersOf(config', c) = OwnPeersOf(config, c)
    BY <2>1, OwnOf DEF Still
  <2>4. sdk'.object[c] = sdk.object[c] /\ sdk'.on[c] = sdk.on[c]
    BY DEF SameAt
  <2>5. sdk'.object[c] # None /\ sdk'.object[c].peers = PeersOf(config', c)
    BY <2>2, <2>3, <2>4 DEF Follows
  <2>6. ASSUME NEW x \in Orderer, ~Ordering(queue', c, x)
        PROVE  x \in sdk'.object[c].orderers <=> x \in OrderersOf(config', c) \cap config'.orderers
    BY <2>1, <2>2, <2>4, <2>6 DEF Follows, Still
  <2>7. phase' = "ready" => sdk'.on[c] = OwnPeersOf(config', c)
    BY <2>1, <2>2, <2>3, <2>4 DEF Follows, Still
  <2> QED BY <2>5, <2>6, <2>7 DEF Follows, Ordering, Orders, OrderersOf, PeersOf, OwnPeersOf, ToSet
<1> QED BY <1>1, <1>2, <1>3
LEMMA ObjectIsNotNone == ASSUME NEW g, NEW c PROVE Built(g, c) # None
<1>1. Built(g, c) \in Objects
  BY BuiltType
<1> QED BY <1>1, NoneIsNoSet DEF Objects

\* Two configurations that have the same of c.
Alike(g, h, c) == PeersOf(g, c) = PeersOf(h, c) /\ Built(g, c) = Built(h, c)

LEMMA Remade ==
  ASSUME NEW c \in Channel, NEW g, Rebuilt(sdk', g, c), Alike(g, config', c)
  PROVE  ChannelInv(c)'
<1>1. Rebuilt(sdk', config', c)
  BY OwnOf DEF Rebuilt, Alike
<1>2. Slotted(sdk', c) /\ sdk'.on[c] = OwnPeersOf(config', c)
      /\ sdk'.object[c] = Built(config', c)
  BY <1>1 DEF Rebuilt
<1>3. /\ sdk'.object[c] # None
      /\ sdk'.object[c].peers = PeersOf(config', c)
      /\ sdk'.object[c].orderers = OrderersOf(config', c) \cap config'.orderers
  BY <1>2, ObjectIsNotNone DEF Built
<1>4. Follows(c)'
  BY <1>2, <1>3 DEF Follows, Ordering, Orders, OrderersOf, PeersOf, OwnPeersOf, ToSet
<1> QED BY <1>2, <1>4
        DEF ChannelInv, Slotted, Remaking, Adding, OwnPeersOf, Remakes, Adds, ToSet

LEMMA Outcomes ==
  ASSUME NEW s, NEW g, NEW cs \in SUBSET Channel, Handles(s, g, cs), sdk' = Calm(s)
  PROVE  /\ sdk' \in Sdk /\ ~sdk'.threw
         /\ \A c \in Channel \ s.reached : SameAt(sdk, sdk', c)
         /\ \A c \in s.reached \ s.bad : Slotted(sdk, c) => Rebuilt(sdk', g, c)
<1>0. s \in Sdk
  BY DEF Handles
<1>1. /\ sdk' \in Sdk /\ sdk'.threw = FALSE
      /\ sdk'.object = s.object /\ sdk'.slots = s.slots /\ sdk'.on = s.on
  BY <1>0, CalmType
<1> QED BY <1>1 DEF Handles, SameAt, Rebuilt, Slotted

\* A channel whose handlers were called, or an other one.
LEMMA OutcomeInv ==
  ASSUME NEW s, NEW g, NEW cs \in SUBSET Channel, Handles(s, g, cs), Outcome(s),
         NEW c \in Channel, ChannelInv(c),
         c \in s.reached => Alike(g, config', c),
         Remaking(queue, c) => Remaking(queue', c) \/ c \in s.reached,
         c \notin s.reached =>
           /\ OwnPeersOf(config, c) \subseteq OwnPeersOf(config', c)
           /\ c \in config'.channels \ behind /\ ~Remaking(queue', c) /\ ~Adding(queue', c)
              => Still(c)
  PROVE  ChannelInv(c)'
<1>1. /\ \A d \in Channel \ s.reached : SameAt(sdk, sdk', d)
      /\ \A d \in s.reached \ s.bad : Slotted(sdk, d) => Rebuilt(sdk', g, d)
      /\ failed' = failed \cup s.bad /\ behind' = behind \ s.reached
  BY Outcomes DEF Outcome
<1>2. CASE c \in s.reached /\ c \in failed'
  BY <1>2 DEF ChannelInv
<1>3. CASE c \in s.reached /\ c \notin failed'
  <2>1. Slotted(sdk, c)
    BY <1>1, <1>3 DEF ChannelInv
  <2>2. Rebuilt(sdk', g, c)
    BY <1>1, <1>3, <2>1
  <2> QED BY <1>3, <2>2, Remade
<1>4. CASE c \notin s.reached
  BY <1>1, <1>4, Untouched
<1> QED BY <1>2, <1>3, <1>4

LEMMA HoldsEverywhere ==
  ASSUME NEW g, Nested(g) PROVE \A c \in Channel : Holds(g, c)
BY DEF Nested, Holds, OwnPeersOf

(***************************************************************************)
(* The queue in a step                                                     *)
(***************************************************************************)

TaskAdded(t) ==
  /\ TasksInv(queue', config') /\ (~draining' => NoLater(queue'))
  /\ \A c : Remaking(queue', c) <=> Remaking(queue, c) \/ Remakes(t, c)
  /\ \A c : Adding(queue', c) <=> Adding(queue, c) \/ Adds(t, c)
  /\ \A c, x : Ordering(queue', c, x) <=> Ordering(queue, c, x) \/ Orders(t, c, x)

LEMMA NoTask ==
  ASSUME SdkInv, queue' = queue, draining' = draining,
         config.channels \subseteq config'.channels, config'.ordering = config.ordering
  PROVE  TasksInv(queue', config') /\ (~draining' => NoLater(queue'))
BY SameKeeps DEF SdkInv

LEMMA NewTask ==
  ASSUME Inv, SdkInv, ~draining, draining' = draining,
         NEW t \in Tasks, queue' = Append(queue, t), t.kind \notin Later,
         config.channels \subseteq config'.channels, InChannels(t, config'.channels),
         \A c \in Channel, x \in Orderer :
           IF Orders(t, c, x) THEN t.kind = "addOrderer" <=> <<c, x>> \in config'.ordering
           ELSE (<<c, x>> \in config.ordering <=> <<c, x>> \in config'.ordering)
                \/ ~Ordering(queue, c, x)
  PROVE  TaskAdded(t)
<1>1. queue \in Seq(Tasks) /\ NoLater(queue) /\ TasksInv(queue, config)
  BY DEF Inv, QueueInv, SdkInv
<1>2. TasksInv(queue', config')
  BY <1>1, AppendKeeps
<1>3. NoLater(queue')
  BY <1>1, AppendTasks DEF NoLater
<1> QED BY <1>1, <1>2, <1>3, AppendTasks DEF TaskAdded

LEMMA NoMore == NoLater(<<>>) /\ ToSet(<<>>) = {}
BY DEF NoLater, ToSet

\* A continuation is the last, or is followed by one.
LEMMA TaskEnds ==
  ASSUME Inv, SdkInv, queue # <<>>, draining' = (queue' # <<>>),
         config'.channels = config.channels, config'.ordering = config.ordering,
         queue' = Tail(queue)
         \/ \E t \in Tasks : /\ queue' = Append(Tail(queue), t)
                             /\ t.kind \in Later /\ InChannels(t, config.channels)
  PROVE  /\ Head(queue) \in Tasks /\ InChannels(Head(queue), config.channels)
         /\ TasksInv(queue', config') /\ (~draining' => NoLater(queue'))
         /\ \A c : Remaking(queue, c) <=> Remaking(queue', c) \/ Remakes(Head(queue), c)
         /\ \A c : Adding(queue, c) => Adding(queue', c) \/ Adds(Head(queue), c)
         /\ \A c, x : Ordering(queue, c, x) <=> Ordering(queue', c, x) \/ Orders(Head(queue), c, x)
<1> PICK r : r = Tail(queue)
  OBVIOUS
<1> PICK h : h = Head(queue)
  OBVIOUS
<1>1. queue \in Seq(Tasks) /\ TasksInv(queue, config)
  BY DEF Inv, QueueInv, SdkInv
<1>2. /\ h \in Tasks /\ r \in Seq(Tasks) /\ h \in ToSet(queue)
      /\ \A c : Remaking(queue, c) <=> Remaking(r, c) \/ Remakes(h, c)
      /\ \A c : Adding(queue, c) <=> Adding(r, c) \/ Adds(h, c)
      /\ \A c, x : Ordering(queue, c, x) <=> Ordering(r, c, x) \/ Orders(h, c, x)
  BY <1>1, TailTasks
<1>3. TasksInv(r, config') /\ InChannels(h, config.channels)
  <2>1. TasksInv(r, config)
    BY <1>1, TailKeeps
  <2> QED BY <1>1, <1>2, <2>1, SameKeeps DEF TasksInv
<1>4. ~draining' => NoLater(queue')
  BY NoMore
<1>5. CASE queue' = r
  BY <1>2, <1>3, <1>4, <1>5
<1>6. ASSUME NEW t \in Tasks, queue' = Append(r, t), t.kind \in Later, InChannels(t, config.channels)
      PROVE  /\ TasksInv(queue', config')
             /\ \A c : Remaking(queue', c) <=> Remaking(r, c)
             /\ \A c : Adding(queue', c) <=> Adding(r, c) \/ Adds(t, c)
             /\ \A c, x : Ordering(queue', c, x) <=> Ordering(r, c, x)
  <2>1. \A c, x : ~Remakes(t, c) /\ ~Orders(t, c, x)
    BY <1>6 DEF Remakes, Orders, Later
  <2>2. TasksInv(queue', config')
    BY <1>2, <1>3, <1>6, <2>1, AppendKeeps
  <2> QED BY <1>2, <1>6, <2>1, <2>2, AppendTasks
<1> QED BY <1>2, <1>3, <1>4, <1>5, <1>6

(***************************************************************************)
(* The calls                                                               *)
(***************************************************************************)

LEMMA SdkFacts ==
  ASSUME Inv, SdkInv
  PROVE  /\ sdk \in Sdk /\ ~sdk.threw /\ Ordered(config) /\ config \in Config /\ Nested(config)
         /\ queue \in Seq(Tasks) /\ TasksInv(queue, config) /\ (~draining => NoLater(queue))
         /\ \A c \in Channel : ChannelInv(c) /\ Holds(config, c)
BY HoldsEverywhere DEF Inv, SdkInv, QueueInv

LEMMA SdkInvAfter ==
  ASSUME sdk' \in Sdk, ~sdk'.threw, Ordered(config'), TasksInv(queue', config'),
         ~draining' => NoLater(queue'), \A c \in Channel : ChannelInv(c)'
  PROVE  SdkInv'
<1>1. Ordered(config)' <=> Ordered(config')
  BY DEF Ordered
<1>2. /\ TasksInv(queue, config)' <=> TasksInv(queue', config')
      /\ NoLater(queue)' <=> NoLater(queue')
      /\ Sdk' = Sdk
  BY DEF TasksInv, NoLater, LaterLast, OrderInv, LastOrder, InChannels, Orders, Later, Single,
         ToSet, Sdk, Objects
<1> QED BY <1>1, <1>2 DEF SdkInv

\* A call that leaves the objects to its tasks.
LEMMA QuietCall ==
  ASSUME Inv, SdkInv, UNCHANGED <<sdk, phase>>, failed \subseteq failed', Ordered(config'),
         TasksInv(queue', config'), ~draining' => NoLater(queue'),
         \A c \in Channel :
           /\ Remaking(queue, c) => Remaking(queue', c)
           /\ OwnPeersOf(config, c) \subseteq OwnPeersOf(config', c) \/ Remaking(queue', c)
           /\ c \in config'.channels \ behind' /\ ~Remaking(queue', c) /\ ~Adding(queue', c)
              => Still(c)
  PROVE  SdkInv'
<1>1. sdk' \in Sdk /\ ~sdk'.threw
  BY SdkFacts
<1>2. ASSUME NEW c \in Channel PROVE ChannelInv(c)'
  <2>1. SameAt(sdk, sdk', c) /\ ChannelInv(c)
    BY SdkFacts DEF SameAt
  <2> QED BY <2>1, Untouched
<1> QED BY <1>1, <1>2, SdkInvAfter

\* A call that only changes the network, and leaves orderers in the channels that
\* are not behind.
LEMMA NetworkOnly ==
  ASSUME Inv, SdkInv, UNCHANGED <<sdk, queue, draining, phase, failed>>,
         NEW orgs, NEW known, NEW orderers,
         config' = [config EXCEPT !.orgs = orgs, !.known = known, !.orderers = orderers],
         behind \subseteq behind',
         \A c \in Channel \ behind', x \in Orderer :
           <<c, x>> \in config.ordering => (x \in orderers <=> x \in config.orderers)
  PROVE  SdkInv'
<1>1. /\ config'.channels = config.channels /\ config'.ordering = config.ordering
      /\ config'.peers = config.peers /\ config'.orderers = orderers
  BY SdkFacts DEF Config
<1>2. Ordered(config')
  BY <1>1, SdkFacts DEF Ordered
<1>3. TasksInv(queue', config') /\ (~draining' => NoLater(queue'))
  BY <1>1, NoTask
<1>4. ASSUME NEW c \in Channel
      PROVE  /\ OwnPeersOf(config, c) = OwnPeersOf(config', c)
             /\ c \in config'.channels \ behind' /\ ~Adding(queue', c) => Still(c)
  <2>1. PeersOf(config', c) = PeersOf(config, c) /\ OwnPeersOf(config', c) = OwnPeersOf(config, c)
    BY <1>1 DEF PeersOf, OwnPeersOf
  <2>2. \A x \in Orderer : c \notin behind' =>
          (x \in OrderersOf(config', c) \cap config'.orderers
           <=> x \in OrderersOf(config, c) \cap config.orderers)
    BY <1>1 DEF OrderersOf
  <2> QED BY <1>1, <2>1, <2>2 DEF Still
<1> QED BY <1>2, <1>3, <1>4, QuietCall

LEMMA NetworkAddsFollow ==
  ASSUME Inv, SdkInv,
         \/ \E o \in Org, ps \in SUBSET Peer : nAddOrg(o, ps) \/ nAddPeers(o, ps)
         \/ \E x \in Orderer : nAddOrderer(x)
         \/ nReviseAttribute
  PROVE  SdkInv'
<1>0. config \in Config
  BY SdkFacts
<1>1. UNCHANGED <<sdk, queue, draining, phase, failed>>
  BY DEF nAddOrg, nAddPeers, nAddOrderer, nReviseAttribute, Quiet
<1>2. ASSUME NEW orgs, NEW known, behind' = behind,
             config' = [config EXCEPT !.orgs = orgs, !.known = known]
      PROVE  SdkInv'
  <2>1. config' = [config EXCEPT !.orgs = orgs, !.known = known, !.orderers = config.orderers]
    BY <1>0, <1>2 DEF Config
  <2> QED BY <1>1, <1>2, <2>1, NetworkOnly
<1>3. CASE \E o \in Org, ps \in SUBSET Peer : nAddOrg(o, ps) \/ nAddPeers(o, ps)
  <2> PICK o \in Org, ps \in SUBSET Peer : nAddOrg(o, ps) \/ nAddPeers(o, ps)
    BY <1>3
  <2>1. CASE nAddOrg(o, ps)
    BY <1>2, <2>1 DEF nAddOrg, Quiet
  <2>2. CASE nAddPeers(o, ps)
    <3>1. config' = [config EXCEPT !.orgs = config.orgs, !.known = config.known \cup ({o} \X ps)]
          /\ behind' = behind
      BY <1>0, <2>2 DEF nAddPeers, Quiet, Config
    <3> QED BY <1>2, <3>1
  <2> QED BY <2>1, <2>2
<1>4. CASE \E x \in Orderer : nAddOrderer(x)
  <2> PICK x \in Orderer : nAddOrderer(x)
    BY <1>4
  <2> PICK orderers : orderers = config.orderers \cup {x}
    OBVIOUS
  <2>1. /\ config' = [config EXCEPT !.orderers = orderers]
        /\ behind' = behind \cup {c \in Channel : <<c, x>> \in config.ordering}
    BY DEF nAddOrderer
  <2>2. config' = [config EXCEPT !.orgs = config.orgs, !.known = config.known, !.orderers = orderers]
    BY <1>0, <2>1 DEF Config
  <2>3. \A c \in Channel \ behind', y \in Orderer :
          <<c, y>> \in config.ordering => (y \in orderers <=> y \in config.orderers)
    BY <2>1
  <2>4. behind \subseteq behind'
    BY <2>1
  <2> QED BY <1>1, <2>2, <2>3, <2>4, NetworkOnly
<1>5. CASE nReviseAttribute
  <2>1. config' = [config EXCEPT !.orgs = config.orgs, !.known = config.known] /\ behind' = behind
    BY <1>0, <1>5 DEF nReviseAttribute, Quiet, Config
  <2> QED BY <1>2, <2>1
<1> QED BY <1>3, <1>4, <1>5

LEMMA nRemovePeerFollows ==
  ASSUME Inv, SdkInv, NEW o \in Org, NEW p \in Peer, nRemovePeer(o, p) PROVE SdkInv'
<1> PICK cs : cs = ChannelsOf(o, p)
  OBVIOUS
<1> PICK t : t = Task("removePeer", cs, {o}, {p}, None)
  OBVIOUS
<1>1. /\ config' = [config EXCEPT !.peers = @ \ (cs \X {o} \X {p})]
      /\ queue' = Append(queue, t)
      /\ behind' = IF o = myOrgIndex THEN behind ELSE behind \cup cs
      /\ UNCHANGED <<sdk, draining, phase, failed>> /\ ~draining
  BY DEF nRemovePeer, RemovePeerFrom, Waits, Call
<1>2. /\ config'.channels = config.channels /\ config'.ordering = config.ordering
      /\ config'.peers = config.peers \ (cs \X {o} \X {p})
      /\ config'.orderers = config.orderers /\ cs \subseteq config.channels
      /\ config.channels \subseteq Channel
  BY <1>1, SdkFacts DEF Config, ChannelsOf
<1>3. t \in Tasks
  <2>1. "removePeer" \in Kinds /\ {o} \in SUBSET Org /\ {p} \in SUBSET Peer
    BY DEF Kinds
  <2> QED BY <1>2, <2>1, TaskType
<1>4. t.kind = "removePeer" /\ t.channels = cs /\ t.orgs = {o}
  BY DEF Task
<1>5. \A c, x : Remakes(t, c) <=> c \in cs /\ o = myOrgIndex
  BY <1>4 DEF Remakes
<1>6. \A c, x : ~Orders(t, c, x) /\ ~Adds(t, c)
  BY <1>4 DEF Orders, Adds
<1>7. TaskAdded(t)
  <2>1. t.kind \notin Later /\ InChannels(t, config'.channels)
    BY <1>2, <1>4 DEF Later, Single, InChannels
  <2> QED BY <1>1, <1>2, <1>3, <1>6, <2>1, NewTask
<1>8. ASSUME NEW c \in Channel
      PROVE  /\ OwnPeersOf(config, c) \subseteq OwnPeersOf(config', c) \/ Remakes(t, c)
             /\ c \in config'.channels \ behind' /\ ~Remakes(t, c) /\ ~Adding(queue', c) => Still(c)
  <2>1. CASE c \notin cs
    <3>1. PeersOf(config', c) = PeersOf(config, c) /\ OwnPeersOf(config', c) = OwnPeersOf(config, c)
      BY <1>2, <2>1 DEF PeersOf, OwnPeersOf
    <3> QED BY <1>1, <1>2, <1>6, <1>7, <3>1 DEF Still, OrderersOf, TaskAdded
  <2>2. CASE c \in cs /\ o # myOrgIndex
    <3>1. OwnPeersOf(config', c) = OwnPeersOf(config, c)
      BY <1>2, <2>2 DEF OwnPeersOf
    <3> QED BY <1>1, <2>2, <3>1
  <2> QED BY <1>5, <2>1, <2>2
<1>9. Ordered(config')
  BY <1>2, SdkFacts DEF Ordered
<1> QED BY <1>1, <1>7, <1>8, <1>9, QuietCall DEF TaskAdded

Others(c, o) == PeersOf(config, c) \ ({o} \X Peer)

LEMMA Without ==
  ASSUME Inv, NEW o \in Org \ {myOrgIndex}, NEW ds, NEW g, g = WithoutOrg(config, ds, o)
  PROVE  /\ g.channels = config.channels /\ g.ordering = config.ordering
         /\ g.orderers = config.orderers
         /\ \A c \in Channel : OwnPeersOf(g, c) = OwnPeersOf(config, c) /\ Holds(g, c)
         /\ \A c \in Channel \cap ds : PeersOf(g, c) = Others(c, o)
         /\ \A c \in Channel \ ds : PeersOf(g, c) = PeersOf(config, c)
<1>0. config \in Config /\ \A c \in Channel : Holds(config, c)
  BY HoldsEverywhere DEF Inv
<1>1. /\ g.channels = config.channels /\ g.ordering = config.ordering
      /\ g.orderers = config.orderers
      /\ g.peers = config.peers \ (ds \X {o} \X Peer)
      /\ g.members = config.members \ (ds \X {o})
  BY <1>0 DEF WithoutOrg, Config
<1>2. ASSUME NEW c \in Channel PROVE OwnPeersOf(g, c) = OwnPeersOf(config, c) /\ Holds(g, c)
  <2>1. OwnPeersOf(g, c) = OwnPeersOf(config, c)
    BY <1>1 DEF OwnPeersOf
  <2>2. <<c, myOrgIndex>> \in g.members <=> <<c, myOrgIndex>> \in config.members
    BY <1>1
  <2> QED BY <1>0, <2>1, <2>2 DEF Holds
<1>3. ASSUME NEW c \in Channel
      PROVE  /\ c \in ds => PeersOf(g, c) = Others(c, o)
             /\ c \notin ds => PeersOf(g, c) = PeersOf(config, c)
  BY <1>1 DEF PeersOf, Others
<1> QED BY <1>1, <1>2, <1>3

LEMMA nRemoveOrgFollows == ASSUME Inv, SdkInv, NEW o \in Org, nRemoveOrg(o) PROVE SdkInv'
<1>0. sdk \in Sdk /\ o \in Org \ {myOrgIndex} /\ config \in Config
  BY SdkFacts DEF nRemoveOrg
<1> PICK cs : cs = {c \in config.channels : <<c, o>> \in config.members}
  OBVIOUS
<1> PICK g : g = WithoutOrg(config, cs, o)
  OBVIOUS
<1> PICK t : t = Task("orgGone", {}, {o}, {}, None)
  OBVIOUS
<1>1. PICK order \in SetToSeqs(cs), some \in SUBSET Peer :
        LET s == ChannelsRevised(g, order, some)
        IN  /\ config' = WithoutOrg(config, IF s.threw THEN s.reached ELSE cs, o)
            /\ Outcome(s)
            /\ IF s.threw THEN UNCHANGED queue ELSE Waits(t)
  BY DEF nRemoveOrg
<1>2. ~draining /\ UNCHANGED <<draining, phase>>
  BY DEF nRemoveOrg, Call
<1> PICK s : s = ChannelsRevised(g, order, some)
  OBVIOUS
<1>3. cs \in SUBSET Channel
  BY <1>0 DEF Config
<1>4. Handles(s, g, cs) /\ (~s.threw => s.reached = cs)
  <2>1. \A c \in Channel : Holds(g, c)
    BY <1>0, Without
  <2>2. AllHandled(s, g, cs)
    BY <1>0, <1>3, <2>1, ChannelsRevisedHandles
  <2> QED BY <2>2 DEF AllHandled
<1>5. config' = WithoutOrg(config, s.reached, o) /\ Outcome(s)
  <2>1. config' = WithoutOrg(config, IF s.threw THEN s.reached ELSE cs, o) /\ Outcome(s)
    BY <1>1
  <2>2. (IF s.threw THEN s.reached ELSE cs) = s.reached
    BY <1>4
  <2> QED BY <2>1, <2>2
<1>6. queue' = queue \/ queue' = Append(queue, t)
  BY <1>1 DEF Waits
<1>7. /\ config'.channels = config.channels /\ config'.ordering = config.ordering
      /\ config'.orderers = config.orderers
      /\ \A c \in Channel : OwnPeersOf(config', c) = OwnPeersOf(config, c)
      /\ \A c \in Channel \ s.reached : PeersOf(config', c) = PeersOf(config, c)
      /\ \A c \in s.reached : PeersOf(config', c) = PeersOf(g, c)
      /\ g.orderers = config.orderers /\ g.ordering = config.ordering
  <2>1. s.reached \subseteq cs
    BY <1>4 DEF Handles
  <2>2. /\ config'.channels = config.channels /\ config'.ordering = config.ordering
        /\ config'.orderers = config.orderers
        /\ \A c \in Channel : OwnPeersOf(config', c) = OwnPeersOf(config, c)
        /\ \A c \in Channel \cap s.reached : PeersOf(config', c) = Others(c, o)
        /\ \A c \in Channel \ s.reached : PeersOf(config', c) = PeersOf(config, c)
    <3> PICK ds : ds = s.reached
      OBVIOUS
    <3> PICK h : h = WithoutOrg(config, ds, o)
      OBVIOUS
    <3>1. config' = h
      BY <1>5
    <3>2. h.channels = config.channels /\ h.ordering = config.ordering
          /\ h.orderers = config.orderers
      BY <1>0, Without
    <3>3. \A c \in Channel : OwnPeersOf(h, c) = OwnPeersOf(config, c)
      BY <1>0, Without
    <3>4. \A c \in Channel \cap ds : PeersOf(h, c) = Others(c, o)
      BY <1>0, Without
    <3>5. \A c \in Channel \ ds : PeersOf(h, c) = PeersOf(config, c)
      BY <1>0, Without
    <3> QED BY <3>1, <3>2, <3>3, <3>4, <3>5
  <2>3. /\ g.orderers = config.orderers /\ g.ordering = config.ordering
        /\ \A c \in cs : PeersOf(g, c) = Others(c, o)
    BY <1>0, <1>3, Without
  <2> QED BY <1>3, <2>1, <2>2, <2>3
<1>8. /\ TasksInv(queue', config') /\ (~draining' => NoLater(queue'))
      /\ \A c : Remaking(queue', c) <=> Remaking(queue, c)
      /\ \A c : Adding(queue', c) <=> Adding(queue, c)
      /\ \A c, x : Ordering(queue', c, x) <=> Ordering(queue, c, x)
  <2>1. CASE queue' = queue
    BY <1>2, <1>7, <2>1, NoTask
  <2>2. CASE queue' = Append(queue, t)
    <3>1. t \in Tasks
      <4>1. "orgGone" \in Kinds /\ {o} \in SUBSET Org
        BY DEF Kinds
      <4> QED BY <4>1, TaskType
    <3>2. t.kind = "orgGone" /\ t.channels = {}
      BY DEF Task
    <3>3. \A c, x : ~Remakes(t, c) /\ ~Adds(t, c) /\ ~Orders(t, c, x)
      BY <3>2 DEF Remakes, Adds, Orders
    <3>4. t.kind \notin Later /\ InChannels(t, config'.channels)
      BY <3>2 DEF Later, Single, InChannels
    <3>5. TaskAdded(t)
      BY <1>2, <1>7, <2>2, <3>1, <3>3, <3>4, NewTask
    <3> QED BY <3>3, <3>5 DEF TaskAdded
  <2> QED BY <1>6, <2>1, <2>2
<1>9. ASSUME NEW c \in Channel PROVE ChannelInv(c)'
  <2>1. c \in s.reached => Alike(g, config', c)
    BY <1>7 DEF Alike, Built, OrderersOf
  <2>2. c \notin s.reached /\ c \in config'.channels \ behind /\ ~Adding(queue', c) => Still(c)
    BY <1>2, <1>7, <1>8 DEF Still, OrderersOf
  <2>3. ChannelInv(c)
    BY SdkFacts
  <2> QED BY <1>3, <1>4, <1>5, <1>7, <1>8, <2>1, <2>2, <2>3, OutcomeInv
<1>10. sdk' \in Sdk /\ ~sdk'.threw
  BY <1>3, <1>4, <1>5, Outcomes DEF Outcome
<1>11. Ordered(config')
  BY <1>7, SdkFacts DEF Ordered
<1> QED BY <1>8, <1>9, <1>10, <1>11, SdkInvAfter

LEMMA nRemoveOrdererFollows ==
  ASSUME Inv, SdkInv, NEW x \in Orderer, nRemoveOrderer(x) PROVE SdkInv'
<1> PICK cs : cs = {c \in config.channels : <<c, x>> \in config.ordering}
  OBVIOUS
<1> PICK t : t = Task("removeOrderer", cs, {}, {}, x)
  OBVIOUS
<1>1. /\ config' = [config EXCEPT !.ordering = @ \ (cs \X {x})]
      /\ queue' = Append(queue, t) /\ ~draining
      /\ UNCHANGED <<sdk, draining, phase, behind, failed>>
  BY DEF nRemoveOrderer, Waits, Call, Quiet
<1>2. /\ config'.channels = config.channels /\ config'.peers = config.peers
      /\ config'.ordering = config.ordering \ (cs \X {x})
      /\ config'.orderers = config.orderers /\ cs \subseteq config.channels
      /\ config.channels \subseteq Channel
  BY <1>1, SdkFacts DEF Config
<1>3. \A c \in Channel : <<c, x>> \in config.ordering => c \in cs
  BY SdkFacts DEF Ordered
<1>4. t \in Tasks
  <2>1. "removeOrderer" \in Kinds
    BY DEF Kinds
  <2> QED BY <1>2, <2>1, TaskType
<1>5. t.kind = "removeOrderer" /\ t.channels = cs /\ t.orderer = x
  BY DEF Task
<1>6. /\ \A c : ~Remakes(t, c) /\ ~Adds(t, c)
      /\ \A c, y : Orders(t, c, y) <=> c \in cs /\ y = x
  BY <1>5 DEF Remakes, Adds, Orders
<1>7. TaskAdded(t)
  <2>1. t.kind \notin Later /\ InChannels(t, config'.channels)
    BY <1>2, <1>5 DEF Later, Single, InChannels
  <2>2. ASSUME NEW c \in Channel, NEW y \in Orderer
        PROVE  IF Orders(t, c, y) THEN t.kind = "addOrderer" <=> <<c, y>> \in config'.ordering
               ELSE (<<c, y>> \in config.ordering <=> <<c, y>> \in config'.ordering)
                    \/ ~Ordering(queue, c, y)
    BY <1>2, <1>5, <1>6
  <2> QED BY <1>1, <1>2, <1>4, <2>1, <2>2, NewTask
<1>8. ASSUME NEW c \in Channel
      PROVE  /\ OwnPeersOf(config, c) = OwnPeersOf(config', c)
             /\ c \in config'.channels \ behind' /\ ~Adding(queue', c) => Still(c)
  <2>1. PeersOf(config', c) = PeersOf(config, c) /\ OwnPeersOf(config', c) = OwnPeersOf(config, c)
    BY <1>2 DEF PeersOf, OwnPeersOf
  <2>2. \A y \in Orderer : ~Ordering(queue', c, y) =>
          ~Ordering(queue, c, y) /\ (<<c, y>> \in config.ordering <=> <<c, y>> \in config'.ordering)
    BY <1>2, <1>3, <1>6, <1>7 DEF TaskAdded
  <2> QED BY <1>1, <1>2, <1>6, <1>7, <2>1, <2>2 DEF Still, OrderersOf, TaskAdded
<1>9. Ordered(config')
  BY <1>2, SdkFacts DEF Ordered
<1> QED BY <1>1, <1>6, <1>7, <1>8, <1>9, QuietCall DEF TaskAdded

LEMMA cAddChannelFollows ==
  ASSUME Inv, SdkInv, NEW c \in Channel, NEW xs \in SUBSET Orderer, NEW os \in SUBSET Org,
         NEW ps \in SUBSET Peer, cAddChannel(c, xs, os, ps)
  PROVE  SdkInv'
<1> PICK t : t = Task("addChannel", {c}, os, ps, None)
  OBVIOUS
<1>1. /\ c \notin config.channels
      /\ config' = [config EXCEPT !.channels = @ \cup {c},
                                  !.ordering = @ \cup ({c} \X xs)]
      /\ queue' = Append(queue, t) /\ behind' = behind \cup {c} /\ ~draining
      /\ UNCHANGED <<sdk, draining, phase, failed>>
  BY DEF cAddChannel, Waits, Call
<1>2. /\ config'.channels = config.channels \cup {c} /\ config'.peers = config.peers
      /\ config'.ordering = config.ordering \cup ({c} \X xs)
      /\ config'.orderers = config.orderers
  BY <1>1, SdkFacts DEF Config
<1>4. t \in Tasks
  <2>1. "addChannel" \in Kinds /\ {c} \in SUBSET Channel
    BY DEF Kinds
  <2> QED BY <2>1, TaskType
<1>5. t.kind = "addChannel" /\ t.channels = {c}
  BY DEF Task
<1>6. /\ \A d : ~Remakes(t, d) /\ (Adds(t, d) <=> d = c)
      /\ \A d, x : ~Orders(t, d, x)
  BY <1>5 DEF Remakes, Adds, Orders
<1>7. TaskAdded(t)
  <2>1. t.kind \notin Later /\ InChannels(t, config'.channels)
    BY <1>2, <1>5 DEF Later, Single, InChannels
  <2>2. \A x : ~Ordering(queue, c, x)
    BY <1>1, SdkFacts DEF TasksInv, InChannels, Ordering, Orders
  <2>3. ASSUME NEW d \in Channel, NEW x \in Orderer
        PROVE  (<<d, x>> \in config.ordering <=> <<d, x>> \in config'.ordering)
               \/ ~Ordering(queue, d, x)
    BY <1>2, <2>2
  <2> QED BY <1>1, <1>2, <1>4, <1>6, <2>1, <2>3, NewTask
<1>8. ASSUME NEW d \in Channel
      PROVE  /\ OwnPeersOf(config, d) = OwnPeersOf(config', d)
             /\ d \in config'.channels \ behind' /\ ~Adding(queue', d) => Still(d)
  <2>1. PeersOf(config', d) = PeersOf(config, d) /\ OwnPeersOf(config', d) = OwnPeersOf(config, d)
    BY <1>2 DEF PeersOf, OwnPeersOf
  <2>2. d # c => OrderersOf(config', d) = OrderersOf(config, d)
    BY <1>2 DEF OrderersOf
  <2>3. d # c => (Adding(queue', d) <=> Adding(queue, d))
                 /\ \A x : Ordering(queue', d, x) <=> Ordering(queue, d, x)
    BY <1>6, <1>7 DEF TaskAdded
  <2> QED BY <1>1, <1>2, <2>1, <2>2, <2>3 DEF Still
<1>9. Ordered(config')
  BY <1>2, SdkFacts DEF Ordered
<1> QED BY <1>1, <1>6, <1>7, <1>8, <1>9, QuietCall DEF TaskAdded

\* A call that adds or removes an organisation's peers in c: the channel is behind,
\* or it is to be remade.
LEMMA InOneChannel ==
  ASSUME Inv, SdkInv, NEW c \in Channel, c \in config.channels, ~draining,
         UNCHANGED <<sdk, draining, phase, failed>>, behind \subseteq behind',
         NEW members, NEW peers,
         config' = [config EXCEPT !.members = members, !.peers = peers],
         \A x \in Channel \X Org \X Peer : x[1] # c => (x \in peers <=> x \in config.peers),
         \/ /\ queue' = Append(queue, Task("revise", {c}, {}, {}, None))
         \/ /\ queue' = queue
            /\ OwnPeersOf(config, c) \subseteq OwnPeersOf(config', c)
            /\ c \in behind' \/ PeersOf(config', c) = PeersOf(config, c)
  PROVE  SdkInv'
<1> PICK t : t = Task("revise", {c}, {}, {}, None)
  OBVIOUS
<1>2. /\ config'.channels = config.channels /\ config'.ordering = config.ordering
      /\ config'.orderers = config.orderers /\ config'.peers = peers
  BY SdkFacts DEF Config
<1>3. ASSUME NEW d \in Channel, d # c
      PROVE  /\ PeersOf(config', d) = PeersOf(config, d)
             /\ OwnPeersOf(config', d) = OwnPeersOf(config, d)
  <2>1. PeersOf(config', d) = PeersOf(config, d)
    BY <1>2, <1>3 DEF PeersOf
  <2> QED BY <2>1, OwnOf
<1>4. \A d \in Channel : OrderersOf(config', d) = OrderersOf(config, d)
  BY <1>2 DEF OrderersOf
<1>5. CASE queue' = queue
  <2>1. ASSUME NEW d \in Channel
        PROVE  /\ OwnPeersOf(config, d) \subseteq OwnPeersOf(config', d)
                  \/ Remaking(queue', d)
               /\ d \in config'.channels \ behind' /\ ~Remaking(queue', d) /\ ~Adding(queue', d)
                  => Still(d)
    <3>1. CASE d # c
      BY <1>2, <1>3, <1>4, <1>5, <3>1 DEF Still
    <3>2. CASE d = c /\ queue' # Append(queue, t)
      BY <1>2, <1>4, <1>5, <3>2 DEF Still
    <3>3. CASE d = c /\ queue' = Append(queue, t)
      <4>1. FALSE
        BY <1>5, <3>3, SdkFacts
      <4> QED BY <4>1
    <3> QED BY <3>1, <3>2, <3>3
  <2>2. TasksInv(queue', config') /\ (~draining' => NoLater(queue'))
    BY <1>2, <1>5, NoTask
  <2>3. Ordered(config')
    BY <1>2, SdkFacts DEF Ordered
  <2> QED BY <1>5, <2>1, <2>2, <2>3, QuietCall
<1>6. CASE queue' = Append(queue, t)
  <2>1. t \in Tasks
    <3>1. "revise" \in Kinds /\ {c} \in SUBSET Channel
      BY DEF Kinds
    <3> QED BY <3>1, TaskType
  <2>2. t.kind = "revise" /\ t.channels = {c}
    BY DEF Task
  <2>3. /\ \A d : ~Adds(t, d) /\ (Remakes(t, d) <=> d = c)
        /\ \A d, x : ~Orders(t, d, x)
    BY <2>2 DEF Remakes, Adds, Orders
  <2>4. TaskAdded(t)
    <3>1. t.kind \notin Later /\ InChannels(t, config'.channels)
      BY <1>2, <2>2 DEF Later, Single, InChannels
    <3> QED BY <1>2, <1>6, <2>1, <2>3, <3>1, NewTask
  <2>5. ASSUME NEW d \in Channel
        PROVE  /\ OwnPeersOf(config, d) \subseteq OwnPeersOf(config', d)
                  \/ Remaking(queue', d)
               /\ d \in config'.channels \ behind' /\ ~Remaking(queue', d) /\ ~Adding(queue', d)
                  => Still(d)
    <3>1. CASE d # c
      BY <1>2, <1>3, <1>4, <2>3, <2>4, <3>1 DEF Still, TaskAdded
    <3>2. CASE d = c
      BY <2>3, <2>4, <3>2 DEF TaskAdded
    <3> QED BY <3>1, <3>2
  <2>6. Ordered(config')
    BY <1>2, SdkFacts DEF Ordered
  <2> QED BY <2>4, <2>5, <2>6, QuietCall DEF TaskAdded
<1> QED BY <1>5, <1>6

LEMMA AddedPeers ==
  ASSUME NEW c \in Channel, NEW os \in SUBSET Org, NEW ps \in SUBSET Peer, AddPeers(c, os, ps),
         config \in Config
  PROVE  /\ config' = [config EXCEPT !.members = config'.members, !.peers = config'.peers]
         /\ config'.channels = config.channels /\ config'.ordering = config.ordering
         /\ config'.orderers = config.orderers
         /\ \A x \in Channel \X Org \X Peer : x[1] # c => (x \in config'.peers <=> x \in config.peers)
         /\ \A d \in Channel : OwnPeersOf(config, d) \subseteq OwnPeersOf(config', d)
         /\ myOrgIndex \notin os => OwnPeersOf(config', c) = OwnPeersOf(config, c)
<1> PICK members : members = config.members \cup ({c} \X os)
  OBVIOUS
<1> PICK peers : peers = config.peers \cup ({c} \X os \X ps)
  OBVIOUS
<1>1. config' = [config EXCEPT !.members = members, !.peers = peers]
  BY DEF AddPeers, Config
<1>2. /\ config'.channels = config.channels /\ config'.ordering = config.ordering
      /\ config'.orderers = config.orderers
      /\ config'.members = members /\ config'.peers = peers
  BY <1>1 DEF Config
<1>3. \A x \in Channel \X Org \X Peer : x[1] # c => (x \in peers <=> x \in config.peers)
  OBVIOUS
<1>4. \A d \in Channel : OwnPeersOf(config, d) \subseteq OwnPeersOf(config', d)
  BY <1>2 DEF OwnPeersOf
<1>5. myOrgIndex \notin os => OwnPeersOf(config', c) = OwnPeersOf(config, c)
  BY <1>2 DEF OwnPeersOf
<1> QED BY <1>1, <1>2, <1>3, <1>4, <1>5

LEMMA cAddOrgInChannelFollows ==
  ASSUME Inv, SdkInv, NEW c \in Channel, NEW o \in Org, NEW ps \in SUBSET Peer,
         cAddOrgInChannel(c, o, ps)
  PROVE  SdkInv'
<1>1. /\ c \in config.channels /\ AddPeers(c, {o}, ps) /\ ~draining
      /\ UNCHANGED <<sdk, draining, phase, failed>>
      /\ IF o = myOrgIndex
         THEN queue' = Append(queue, Task("revise", {c}, {}, {}, None)) /\ behind' = behind
         ELSE queue' = queue /\ behind' = behind \cup {c}
  BY DEF cAddOrgInChannel, cReviseOrgInChannel, Waits, Call
<1>2. /\ config' = [config EXCEPT !.members = config'.members, !.peers = config'.peers]
      /\ \A x \in Channel \X Org \X Peer : x[1] # c => (x \in config'.peers <=> x \in config.peers)
      /\ OwnPeersOf(config, c) \subseteq OwnPeersOf(config', c)
  <2>1. {o} \in SUBSET Org /\ config \in Config
    BY SdkFacts
  <2> QED BY <1>1, <2>1, AddedPeers
<1> QED BY <1>1, <1>2, InOneChannel

LEMMA cRemovePeerInChannelFollows ==
  ASSUME Inv, SdkInv, NEW c \in Channel, NEW o \in Org, NEW p \in Peer,
         cRemovePeerInChannel(c, o, p)
  PROVE  SdkInv'
<1> PICK peers : peers = config.peers \ {<<c, o, p>>}
  OBVIOUS
<1>1. /\ <<c, o, p>> \in config.peers /\ ~draining
      /\ config' = [config EXCEPT !.peers = peers]
      /\ UNCHANGED <<sdk, draining, phase, failed>>
      /\ IF o = myOrgIndex
         THEN queue' = Append(queue, Task("revise", {c}, {}, {}, None)) /\ behind' = behind
         ELSE queue' = queue /\ behind' = behind \cup {c}
  BY DEF cRemovePeerInChannel, Waits, Call
<1>2. c \in config.channels
  BY <1>1, InvFacts
<1>3. config' = [config EXCEPT !.members = config.members, !.peers = peers]
      /\ config'.peers = peers
  BY <1>1, SdkFacts DEF Config
<1>4. \A x \in Channel \X Org \X Peer : x[1] # c => (x \in peers <=> x \in config.peers)
  OBVIOUS
<1>5. o # myOrgIndex => OwnPeersOf(config, c) \subseteq OwnPeersOf(config', c)
  BY <1>3 DEF OwnPeersOf
<1> QED BY <1>1, <1>2, <1>3, <1>4, <1>5, InOneChannel

LEMMA cChangePeerTypeChannelFollows ==
  ASSUME Inv, SdkInv, NEW c \in Channel, NEW o \in Org, NEW p \in Peer,
         cChangePeerTypeChannel(c, o, p)
  PROVE  SdkInv'
<1>1. /\ <<c, o, p>> \in config.peers /\ AddPeers(c, {o}, {p}) /\ ~draining
      /\ UNCHANGED <<sdk, queue, draining, phase, failed, behind>>
  BY DEF cChangePeerTypeChannel, cReviseOrgInChannel, Call
<1>2. c \in config.channels
  BY <1>1, InvFacts
<1>3. /\ config' = [config EXCEPT !.members = config'.members, !.peers = config'.peers]
      /\ \A x \in Channel \X Org \X Peer : x[1] # c => (x \in config'.peers <=> x \in config.peers)
      /\ OwnPeersOf(config, c) \subseteq OwnPeersOf(config', c)
  <2>1. {o} \in SUBSET Org /\ {p} \in SUBSET Peer /\ config \in Config
    BY SdkFacts
  <2> QED BY <1>1, <2>1, AddedPeers
<1>4. config'.peers = config.peers
  BY <1>1, SdkFacts DEF AddPeers, Config
<1>5. PeersOf(config', c) = PeersOf(config, c)
  BY <1>4 DEF PeersOf
<1> QED BY <1>1, <1>2, <1>3, <1>5, InOneChannel

LEMMA cAddPeerInChannelFollows ==
  ASSUME Inv, SdkInv, NEW c \in Channel, NEW o \in Org, NEW p \in Peer,
         cAddPeerInChannel(c, o, p)
  PROVE  SdkInv'
<1>0. /\ sdk \in Sdk /\ config \in Config /\ Ordered(config) /\ Holds(config, c)
      /\ \A d \in Channel : ChannelInv(d)
  BY SdkFacts
<1>1. PICK some \in SUBSET Peer :
        LET s == ChannelRevised(Calm(sdk), config, c, some)
        IN  IF o # myOrgIndex
            THEN cReviseOrgInChannel(c, {o}, {p}) /\ behind' = behind \cup {c}
                 /\ UNCHANGED <<sdk, failed>>
            ELSE IF s.threw THEN Outcome(s) /\ UNCHANGED <<config, file, careless>>
                 ELSE cReviseOrgInChannel(c, {o}, {p}) /\ behind' = behind \cup {c}
                      /\ sdk' = Calm(s) /\ UNCHANGED failed
  BY DEF cAddPeerInChannel
<1>2. ~draining /\ UNCHANGED <<draining, phase, queue>> /\ c \in config.channels
  BY DEF cAddPeerInChannel, Call
<1> PICK s : s = ChannelRevised(Calm(sdk), config, c, some)
  OBVIOUS
<1>3. Handles(s, config, {c}) /\ s.reached = {c} /\ (~s.threw => s.bad = {})
  <2>1. Handles(Calm(sdk), config, {}) /\ ~Calm(sdk).threw /\ Calm(sdk).reached = {}
        /\ Calm(sdk) \in Sdk /\ Calm(sdk).bad = {}
    BY <1>0, HandlesNone, CalmType
  <2>2. Handles(s, config, {} \cup {c}) /\ s.reached = {} \cup {c}
    BY <1>0, <2>1, HandlesMore
  <2>3. s.bad = IF s.threw THEN {} \cup {c} ELSE {}
    BY <1>0, <2>1, Revises1
  <2> QED BY <2>2, <2>3
<1>4. CASE o # myOrgIndex
  <2>1. AddPeers(c, {o}, {p}) /\ behind' = behind \cup {c} /\ UNCHANGED <<sdk, failed>>
    BY <1>1, <1>4 DEF cReviseOrgInChannel
  <2>2. /\ config' = [config EXCEPT !.members = config'.members, !.peers = config'.peers]
        /\ \A x \in Channel \X Org \X Peer : x[1] # c => (x \in config'.peers <=> x \in config.peers)
        /\ OwnPeersOf(config, c) \subseteq OwnPeersOf(config', c)
    <3>1. {o} \in SUBSET Org /\ {p} \in SUBSET Peer
      OBVIOUS
    <3> QED BY <1>0, <2>1, <3>1, AddedPeers
  <2> QED BY <1>2, <2>1, <2>2, InOneChannel
<1>5. CASE o = myOrgIndex /\ s.threw
  <2>1. Outcome(s) /\ config' = config
    BY <1>1, <1>5
  <2>2. ASSUME NEW d \in Channel PROVE ChannelInv(d)'
    <3>1. Alike(config, config', d)
      BY <2>1 DEF Alike
    <3>2. d \in config'.channels \ behind /\ ~Adding(queue', d) => Still(d)
      BY <1>2, <2>1 DEF Still
    <3>3. Remaking(queue, d) => Remaking(queue', d)
      BY <1>2
    <3>4. OwnPeersOf(config, d) \subseteq OwnPeersOf(config', d)
      BY <2>1
    <3> QED BY <1>0, <1>3, <2>1, <3>1, <3>2, <3>3, <3>4, OutcomeInv
  <2>3. TasksInv(queue', config') /\ (~draining' => NoLater(queue'))
    BY <1>2, <2>1, NoTask
  <2>4. sdk' \in Sdk /\ ~sdk'.threw
    BY <1>3, <2>1, Outcomes DEF Outcome
  <2> QED BY <1>0, <2>1, <2>2, <2>3, <2>4, SdkInvAfter
<1>6. CASE o = myOrgIndex /\ ~s.threw
  <2>1. AddPeers(c, {o}, {p}) /\ behind' = behind \cup {c} /\ failed' = failed /\ sdk' = Calm(s)
    BY <1>1, <1>6 DEF cReviseOrgInChannel
  <2>2. /\ config'.channels = config.channels /\ config'.ordering = config.ordering
        /\ config'.orderers = config.orderers
        /\ \A x \in Channel \X Org \X Peer : x[1] # c => (x \in config'.peers <=> x \in config.peers)
        /\ \A d \in Channel : OwnPeersOf(config, d) \subseteq OwnPeersOf(config', d)
    <3>1. {o} \in SUBSET Org /\ {p} \in SUBSET Peer
      OBVIOUS
    <3> QED BY <1>0, <2>1, <3>1, AddedPeers
  <2>3. /\ sdk' \in Sdk /\ ~sdk'.threw
        /\ \A d \in Channel \ {c} : SameAt(sdk, sdk', d)
        /\ Slotted(sdk, c) => Rebuilt(sdk', config, c)
    BY <1>3, <1>6, <2>1, Outcomes
  <2>4. ASSUME NEW d \in Channel, d # c PROVE ChannelInv(d)'
    <3>1. PeersOf(config', d) = PeersOf(config, d) /\ OrderersOf(config', d) = OrderersOf(config, d)
      BY <2>2, <2>4 DEF PeersOf, OrderersOf
    <3>2. d \in config'.channels \ behind' /\ ~Adding(queue', d) => Still(d)
      BY <1>2, <2>1, <2>2, <3>1 DEF Still
    <3>3. SameAt(sdk, sdk', d) /\ ChannelInv(d)
      BY <1>0, <2>3, <2>4
    <3> QED BY <1>2, <2>1, <2>2, <3>2, <3>3, Untouched
  <2>5. ChannelInv(c)'
    <3>1. CASE c \in failed'
      BY <3>1 DEF ChannelInv
    <3>2. CASE c \notin failed'
      <4>1. Rebuilt(sdk', config, c)
        BY <1>0, <2>1, <2>3, <3>2 DEF ChannelInv
      <4>2. Slotted(sdk', c) /\ sdk'.on[c] \subseteq OwnPeersOf(config', c) /\ c \in behind'
        BY <2>1, <2>2, <4>1 DEF Rebuilt
      <4> QED BY <4>2 DEF ChannelInv, Slotted, Remaking, Adding, OwnPeersOf, Remakes, Adds, ToSet
    <3> QED BY <3>1, <3>2
  <2>6. TasksInv(queue', config') /\ (~draining' => NoLater(queue'))
    BY <1>2, <2>2, NoTask
  <2>7. Ordered(config')
    BY <1>0, <2>2 DEF Ordered
  <2> QED BY <2>3, <2>4, <2>5, <2>6, <2>7, SdkInvAfter
<1> QED BY <1>4, <1>5, <1>6

LEMMA OneRevised ==
  ASSUME sdk \in Sdk, NEW c \in Channel, NEW g, Holds(g, c), NEW some, NEW s,
         s = ChannelRevised(Calm(sdk), g, c, some)
  PROVE  Handles(s, g, {c}) /\ s.reached = {c}
<1>1. Handles(Calm(sdk), g, {}) /\ ~Calm(sdk).threw /\ Calm(sdk).reached = {}
  BY HandlesNone, CalmType
<1>2. Handles(s, g, {} \cup {c}) /\ s.reached = {} \cup {c}
  BY <1>1, HandlesMore
<1> QED BY <1>2

LEMMA cRemoveOrgInChannelFollows ==
  ASSUME Inv, SdkInv, NEW c \in Channel, NEW o \in Org, cRemoveOrgInChannel(c, o) PROVE SdkInv'
<1> PICK g : g = WithoutOrg(config, {c}, o)
  OBVIOUS
<1>1. PICK some \in SUBSET Peer : Outcome(ChannelRevised(Calm(sdk), g, c, some))
  BY DEF cRemoveOrgInChannel
<1> PICK s : s = ChannelRevised(Calm(sdk), g, c, some)
  OBVIOUS
<1>2. /\ config' = g /\ ~draining /\ UNCHANGED <<draining, phase, queue>>
  BY DEF cRemoveOrgInChannel, Call
<1>3. /\ sdk \in Sdk /\ config \in Config /\ Ordered(config) /\ \A d \in Channel : ChannelInv(d)
  BY SdkFacts
<1>4. /\ g.channels = config.channels /\ g.ordering = config.ordering
      /\ g.orderers = config.orderers
      /\ g.peers = config.peers \ ({c} \X {o} \X Peer)
  BY <1>3 DEF WithoutOrg, Config
<1>5. Holds(g, c)
  <2>1. Nested(config)' <=> Nested(config')
    BY DEF Nested
  <2>2. Nested(config')
    BY <2>1, cRemoveOrgInChannelInv DEF Inv
  <2> QED BY <1>2, <2>2, HoldsEverywhere
<1>6. Handles(s, g, {c}) /\ s.reached = {c} /\ Outcome(s)
  BY <1>1, <1>3, <1>5, OneRevised
<1>7. ASSUME NEW d \in Channel PROVE ChannelInv(d)'
  <2>1. Alike(g, config', d)
    BY <1>2 DEF Alike
  <2>2. d # c => PeersOf(config', d) = PeersOf(config, d)
    BY <1>2, <1>4 DEF PeersOf
  <2>3. d # c => OwnPeersOf(config', d) = OwnPeersOf(config, d)
    BY <2>2, OwnOf
  <2>4. OrderersOf(config', d) = OrderersOf(config, d)
    BY <1>2, <1>4 DEF OrderersOf
  <2>5. d # c /\ d \in config'.channels \ behind /\ ~Adding(queue', d) => Still(d)
    BY <1>2, <1>4, <2>2, <2>4 DEF Still
  <2>6. d \notin s.reached => d # c
    BY <1>6
  <2> QED BY <1>2, <1>3, <1>6, <2>1, <2>3, <2>5, <2>6, OutcomeInv
<1>8. TasksInv(queue', config') /\ (~draining' => NoLater(queue'))
  BY <1>2, <1>4, NoTask
<1>9. sdk' \in Sdk /\ ~sdk'.threw
  BY <1>6, Outcomes DEF Outcome
<1>10. Ordered(config')
  BY <1>2, <1>3, <1>4 DEF Ordered
<1> QED BY <1>7, <1>8, <1>9, <1>10, SdkInvAfter

LEMMA cOrdererInChannelFollows ==
  ASSUME Inv, SdkInv, NEW c \in Channel, NEW x \in Orderer,
         cAddOrdererInChannel(c, x) \/ cRemoveOrdererInChannel(c, x)
  PROVE  SdkInv'
<1>0. PICK kind \in {"addOrderer", "removeOrdererIn"} :
        /\ config' = [config EXCEPT !.ordering = IF kind = "addOrderer" THEN @ \cup {<<c, x>>}
                                                 ELSE @ \ {<<c, x>>}]
        /\ queue' = Append(queue, Task(kind, {c}, {}, {}, x))
        /\ c \in config.channels
  <2>1. CASE cAddOrdererInChannel(c, x)
    BY <2>1 DEF cAddOrdererInChannel, cReviseChannelOrderer, Waits
  <2>2. CASE cRemoveOrdererInChannel(c, x)
    <3>1. <<c, x>> \in config.ordering
      BY <2>2 DEF cRemoveOrdererInChannel
    <3>2. c \in config.channels
      BY <3>1, SdkFacts DEF Ordered
    <3> QED BY <2>2, <3>2 DEF cRemoveOrdererInChannel, cReviseChannelOrderer, Waits
  <2> QED BY <2>1, <2>2
<1> PICK ordering : ordering = IF kind = "addOrderer" THEN config.ordering \cup {<<c, x>>}
                               ELSE config.ordering \ {<<c, x>>}
  OBVIOUS
<1>1. /\ config' = [config EXCEPT !.ordering = ordering]
      /\ queue' = Append(queue, Task(kind, {c}, {}, {}, x)) /\ c \in config.channels
      /\ ordering = IF kind = "addOrderer" THEN config.ordering \cup {<<c, x>>}
                    ELSE config.ordering \ {<<c, x>>}
  BY <1>0
<1> PICK t : t = Task(kind, {c}, {}, {}, x)
  OBVIOUS
<1>2. ~draining /\ UNCHANGED <<sdk, draining, phase, behind, failed>>
  BY DEF cAddOrdererInChannel, cRemoveOrdererInChannel, Call, Quiet
<1>3. /\ config'.channels = config.channels /\ config'.peers = config.peers
      /\ config'.orderers = config.orderers /\ config'.ordering = ordering
  BY <1>1, SdkFacts DEF Config
<1>4. t \in Tasks
  <2>1. kind \in Kinds /\ {c} \in SUBSET Channel
    BY DEF Kinds
  <2> QED BY <2>1, TaskType
<1>5. t.kind = kind /\ t.channels = {c} /\ t.orderer = x
  BY DEF Task
<1>6. /\ \A d : ~Remakes(t, d) /\ ~Adds(t, d)
      /\ \A d, y : Orders(t, d, y) <=> d = c /\ y = x
  BY <1>5 DEF Remakes, Adds, Orders
<1>7. \A d \in Channel, y \in Orderer :
        (d # c \/ y # x) => (<<d, y>> \in config.ordering <=> <<d, y>> \in config'.ordering)
  BY <1>1, <1>3
<1>8. TaskAdded(t)
  <2>1. t.kind \notin Later /\ InChannels(t, config'.channels)
    BY <1>1, <1>3, <1>5 DEF Later, Single, InChannels
  <2>2. ASSUME NEW d \in Channel, NEW y \in Orderer
        PROVE  IF Orders(t, d, y) THEN t.kind = "addOrderer" <=> <<d, y>> \in config'.ordering
               ELSE (<<d, y>> \in config.ordering <=> <<d, y>> \in config'.ordering)
                    \/ ~Ordering(queue, d, y)
    <3>1. CASE d = c /\ y = x
      <4>1. <<c, x>> \in ordering <=> kind = "addOrderer"
        BY <1>1
      <4> QED BY <1>3, <1>5, <1>6, <3>1, <4>1
    <3>2. CASE ~(d = c /\ y = x)
      BY <1>6, <1>7, <3>2
    <3> QED BY <3>1, <3>2
  <2> QED BY <1>1, <1>2, <1>3, <1>4, <2>1, <2>2, NewTask
<1>9. ASSUME NEW d \in Channel
      PROVE  /\ OwnPeersOf(config, d) = OwnPeersOf(config', d)
             /\ d \in config'.channels \ behind' /\ ~Adding(queue', d) => Still(d)
  <2>1. PeersOf(config', d) = PeersOf(config, d) /\ OwnPeersOf(config', d) = OwnPeersOf(config, d)
    BY <1>3 DEF PeersOf, OwnPeersOf
  <2>2. \A y \in Orderer : ~Ordering(queue', d, y) =>
          ~Ordering(queue, d, y) /\ (<<d, y>> \in config.ordering <=> <<d, y>> \in config'.ordering)
    BY <1>6, <1>7, <1>8 DEF TaskAdded
  <2> QED BY <1>2, <1>3, <1>6, <1>8, <2>1, <2>2 DEF Still, OrderersOf, TaskAdded
<1>10. Ordered(config')
  BY <1>1, <1>3, SdkFacts DEF Ordered
<1> QED BY <1>2, <1>6, <1>8, <1>9, <1>10, QuietCall DEF TaskAdded

LEMMA NetworkCallFollows == ASSUME Inv, SdkInv, NetworkCall PROVE SdkInv'
<1>1. CASE \E o \in Org : nRemoveOrg(o)
  BY <1>1, nRemoveOrgFollows
<1>2. CASE \E o \in Org, p \in Peer : nRemovePeer(o, p)
  BY <1>2, nRemovePeerFollows
<1>3. CASE \E x \in Orderer : nRemoveOrderer(x)
  BY <1>3, nRemoveOrdererFollows
<1>4. CASE \/ \E o \in Org, ps \in SUBSET Peer : nAddOrg(o, ps) \/ nAddPeers(o, ps)
           \/ \E x \in Orderer : nAddOrderer(x)
           \/ nReviseAttribute
  BY <1>4, NetworkAddsFollow
<1> QED BY <1>1, <1>2, <1>3, <1>4 DEF NetworkCall

LEMMA ChannelCallFollows == ASSUME Inv, SdkInv, ChannelCall PROVE SdkInv'
<1> PICK c \in Channel :
      \/ \E xs \in SUBSET Orderer, os \in SUBSET Org, ps \in SUBSET Peer :
           cAddChannel(c, xs, os, ps)
      \/ \E o \in Org, ps \in SUBSET Peer : cAddOrgInChannel(c, o, ps)
      \/ \E o \in Org : cRemoveOrgInChannel(c, o)
      \/ \E o \in Org, p \in Peer :
           cAddPeerInChannel(c, o, p) \/ cRemovePeerInChannel(c, o, p)
           \/ cChangePeerTypeChannel(c, o, p)
      \/ \E x \in Orderer : cAddOrdererInChannel(c, x) \/ cRemoveOrdererInChannel(c, x)
  BY DEF ChannelCall
<1> QED BY cAddChannelFollows, cAddOrgInChannelFollows, cRemoveOrgInChannelFollows,
           cAddPeerInChannelFollows, cRemovePeerInChannelFollows,
           cChangePeerTypeChannelFollows, cOrdererInChannelFollows

(***************************************************************************)
(* The continuations                                                       *)
(***************************************************************************)

\* The continuation h is the last, or is followed by one.
Continues(h) ==
  /\ queue # <<>> /\ h = Head(queue) /\ draining' = (queue' # <<>>) /\ phase' = phase
  /\ config'.channels = config.channels /\ config'.ordering = config.ordering
  /\ \/ queue' = Tail(queue)
     \/ \E t \in Tasks : /\ queue' = Append(Tail(queue), t)
                         /\ t.kind \in Later /\ InChannels(t, config.channels)

LEMMA QueueAfter ==
  ASSUME Inv, SdkInv, NEW h, Continues(h)
  PROVE  /\ h \in Tasks /\ InChannels(h, config.channels)
         /\ TasksInv(queue', config') /\ (~draining' => NoLater(queue'))
         /\ \A c : Remaking(queue, c) <=> Remaking(queue', c) \/ Remakes(h, c)
         /\ \A c : Adding(queue, c) => Adding(queue', c) \/ Adds(h, c)
         /\ \A c, x : Ordering(queue, c, x) <=> Ordering(queue', c, x) \/ Orders(h, c, x)
BY TaskEnds DEF Continues

\* The handlers of what the continuation's event is about were called.
LEMMA HandlersCalled ==
  ASSUME Inv, SdkInv, NEW h, Continues(h), config' = config,
         NEW s, NEW cs \in SUBSET Channel, Handles(s, config, cs), Outcome(s),
         \A c \in Channel : Remakes(h, c) \/ Adds(h, c) => c \in s.reached,
         \A c \in Channel, x \in Orderer : ~Orders(h, c, x)
  PROVE  SdkInv'
<1>1. /\ TasksInv(queue', config') /\ (~draining' => NoLater(queue'))
      /\ \A c : Remaking(queue, c) <=> Remaking(queue', c) \/ Remakes(h, c)
      /\ \A c : Adding(queue, c) => Adding(queue', c) \/ Adds(h, c)
      /\ \A c, x : Ordering(queue, c, x) <=> Ordering(queue', c, x) \/ Orders(h, c, x)
  BY QueueAfter
<1>2. ASSUME NEW c \in Channel PROVE ChannelInv(c)'
  <2>1. Alike(config, config', c) /\ OwnPeersOf(config', c) = OwnPeersOf(config, c)
    BY DEF Alike
  <2>2. c \notin s.reached /\ c \in config'.channels \ behind /\ ~Adding(queue', c) => Still(c)
    BY <1>1 DEF Still, Continues
  <2>3. Remaking(queue, c) => Remaking(queue', c) \/ c \in s.reached
    BY <1>1
  <2>4. ChannelInv(c)
    BY SdkFacts
  <2> QED BY <2>1, <2>2, <2>3, <2>4, OutcomeInv
<1>3. sdk' \in Sdk /\ ~sdk'.threw
  BY Outcomes DEF Outcome
<1>4. Ordered(config')
  BY SdkFacts
<1> QED BY <1>1, <1>2, <1>3, <1>4, SdkInvAfter

\* Nothing that the channels have changes, unless they are behind.
LEMMA QuietContinuation ==
  ASSUME Inv, SdkInv, NEW h, Continues(h), UNCHANGED <<sdk, failed>>, behind \subseteq behind',
         \A c \in Channel : ~Remakes(h, c) /\ (Adds(h, c) => Adding(queue', c)),
         \A c \in Channel, x \in Orderer : ~Orders(h, c, x),
         \A c \in Channel : OwnPeersOf(config, c) \subseteq OwnPeersOf(config', c),
         \A c \in Channel : c \notin behind' /\ ~Adding(queue', c) =>
           /\ PeersOf(config', c) = PeersOf(config, c)
           /\ OrderersOf(config', c) \cap config'.orderers
              = OrderersOf(config, c) \cap config.orderers
  PROVE  SdkInv'
<1>1. /\ TasksInv(queue', config') /\ (~draining' => NoLater(queue'))
      /\ \A c : Remaking(queue, c) <=> Remaking(queue', c) \/ Remakes(h, c)
      /\ \A c : Adding(queue, c) => Adding(queue', c) \/ Adds(h, c)
      /\ \A c, x : Ordering(queue, c, x) <=> Ordering(queue', c, x) \/ Orders(h, c, x)
  BY QueueAfter
<1>2. ASSUME NEW c \in Channel
      PROVE  c \in config'.channels \ behind' /\ ~Adding(queue', c) => Still(c)
  BY <1>1 DEF Still, Continues
<1>3. Ordered(config') /\ phase' = phase
  BY SdkFacts DEF Ordered, Continues
<1>4. \A c \in Channel : Remaking(queue, c) => Remaking(queue', c)
  BY <1>1
<1> QED BY <1>1, <1>2, <1>3, <1>4, QuietCall

LEMMA EmitChannelReviseFollows ==
  ASSUME Inv, SdkInv, EmitChannelRevise, draining' = (queue' # <<>>), phase' = phase
  PROVE  SdkInv'
<1> PICK h : h = Head(queue)
  OBVIOUS
<1>1. Continues(h) /\ h.kind = "revise" /\ config' = config
  BY DEF EmitChannelRevise, Run, Ends, Continues
<1>2. PICK c \in Channel : h.channels = {c}
  BY <1>1, QueueAfter DEF InChannels, Single
<1>3. ItsChannel = c
  BY <1>2 DEF ItsChannel
<1> PICK some \in SUBSET Peer : Outcome(ChannelRevised(Calm(sdk), config, c, some))
  BY <1>3 DEF EmitChannelRevise
<1> PICK s : s = ChannelRevised(Calm(sdk), config, c, some)
  OBVIOUS
<1>4. Handles(s, config, {c}) /\ s.reached = {c}
  BY OneRevised, SdkFacts
<1>5. \A d \in Channel : Remakes(h, d) \/ Adds(h, d) => d \in s.reached
  BY <1>2, <1>4 DEF Remakes, Adds
<1>6. \A d \in Channel, x \in Orderer : ~Orders(h, d, x)
  BY <1>1 DEF Orders
<1> QED BY <1>1, <1>4, <1>5, <1>6, HandlersCalled

LEMMA EmitChannelAddFollows ==
  ASSUME Inv, SdkInv, EmitChannelAdd, draining' = (queue' # <<>>), phase' = phase
  PROVE  SdkInv'
<1> PICK h : h = Head(queue)
  OBVIOUS
<1>1. Continues(h) /\ h.kind = "channelAdded" /\ config' = config
  BY DEF EmitChannelAdd, Run, Ends, Continues
<1>2. PICK c \in Channel : h.channels = {c}
  BY <1>1, QueueAfter DEF InChannels, Single
<1>3. ItsChannel = c
  BY <1>2 DEF ItsChannel
<1> PICK some \in SUBSET Peer : Outcome(ChannelAdded(Calm(sdk), config, c, some))
  BY <1>3 DEF EmitChannelAdd
<1> PICK s : s = ChannelAdded(Calm(sdk), config, c, some)
  OBVIOUS
<1>4. ~Remaking(queue, c)
  <2>1. \A t \in ToSet(queue) : t.kind \in Later
    <3>1. queue \in Seq(Tasks) /\ queue # <<>> /\ TasksInv(queue, config) /\ Head(queue).kind \in Later
      BY <1>1, SdkFacts DEF Continues, Later
    <3> QED BY <3>1, HeadIsLater
  <2> QED BY <2>1 DEF Remaking, Remakes, Later
<1>5. /\ s \in Sdk /\ s.reached = {c} /\ s.bad = IF s.threw THEN {c} ELSE {}
      /\ \A d \in Channel \ {c} : SameAt(sdk, s, d)
      /\ ~s.threw /\ Slotted(sdk, c) /\ sdk.on[c] \subseteq OwnPeersOf(config, c)
           => Rebuilt(s, config, c)
  <2> PICK q : q = Calm(sdk)
    OBVIOUS
  <2>1. /\ q \in Sdk /\ q.reached = {} /\ q.bad = {}
        /\ q.object = sdk.object /\ q.slots = sdk.slots /\ q.on = sdk.on
    BY SdkFacts, CalmType
  <2>2. Holds(config, c)
    BY SdkFacts
  <2>3. AddedTo(q, s, config, c)
    BY <2>1, <2>2, Adds1
  <2> QED BY <2>1, <2>3 DEF AddedTo, SameAt, Slotted
\* A channel that had failed stays so.
<1>6. PICK r : /\ Handles(r, config, {c}) /\ r.reached = {c} /\ Outcome(r)
  <2>1. CASE c \notin failed
    <3>1. sdk.on[c] \subseteq OwnPeersOf(config, c)
      BY <1>4, <2>1, SdkFacts DEF ChannelInv
    <3>2. Handles(s, config, {c})
      BY <1>5, <3>1 DEF Handles
    <3> QED BY <1>5, <3>2
  <2>2. CASE c \in failed
    <3> PICK r : r = [s EXCEPT !.bad = {c}]
      OBVIOUS
    <3>1. /\ r \in Sdk /\ r.reached = {c} /\ r.bad = {c}
          /\ r.object = s.object /\ r.slots = s.slots /\ r.on = s.on
      BY <1>5 DEF Sdk
    <3>2. Handles(r, config, {c})
      BY <1>5, <3>1 DEF Handles, SameAt
    <3>3. Calm(r) = Calm(s)
      BY <1>5 DEF Calm, Sdk
    <3>4. Outcome(r)
      BY <1>5, <2>2, <3>1, <3>3 DEF Outcome
    <3> QED BY <3>1, <3>2, <3>4
  <2> QED BY <2>1, <2>2
<1>7. \A d \in Channel : Remakes(h, d) \/ Adds(h, d) => d \in r.reached
  BY <1>2, <1>6 DEF Remakes, Adds
<1>8. \A d \in Channel, x \in Orderer : ~Orders(h, d, x)
  BY <1>1 DEF Orders
<1> QED BY <1>1, <1>6, <1>7, <1>8, HandlersCalled

LEMMA AddChannelOrgsFollows ==
  ASSUME Inv, SdkInv, AddChannelOrgs, draining' = (queue' # <<>>), phase' = phase
  PROVE  SdkInv'
<1> PICK h : h = Head(queue)
  OBVIOUS
<1> PICK u : u = [h EXCEPT !.kind = "channelAdded"]
  OBVIOUS
<1>1. /\ queue # <<>> /\ h.kind = "addChannel" /\ queue' = Append(Tail(queue), u)
      /\ AddPeers(ItsChannel, h.orgs, h.peers) /\ UNCHANGED <<sdk, behind, failed>>
  BY DEF AddChannelOrgs, Run, GoesOnWith, cReviseOrgInChannel
<1>2. h \in Tasks /\ InChannels(h, config.channels) /\ queue \in Seq(Tasks)
  BY <1>1, SdkFacts, TailTasks DEF TasksInv
<1>3. PICK c \in Channel : h.channels = {c}
  BY <1>1, <1>2 DEF InChannels, Single
<1>4. ItsChannel = c
  BY <1>3 DEF ItsChannel
<1>5. u \in Tasks /\ u.kind = "channelAdded" /\ u.channels = {c}
  BY <1>2, <1>3 DEF Tasks, Kinds
<1>6. /\ config'.channels = config.channels /\ config'.ordering = config.ordering
      /\ config'.orderers = config.orderers
      /\ config'.peers = config.peers \cup ({c} \X h.orgs \X h.peers)
  BY <1>1, <1>4, SdkFacts DEF AddPeers, Config
<1>7. Continues(h)
  <2>1. u.kind \in Later /\ InChannels(u, config.channels)
    BY <1>2, <1>3, <1>5 DEF Later, InChannels
  <2> QED BY <1>1, <1>5, <1>6, <2>1 DEF Continues
<1>8. \A d \in Channel : ~Remakes(h, d) /\ (Adds(h, d) => d = c)
  BY <1>1, <1>3 DEF Remakes, Adds
<1>9. \A d \in Channel, x \in Orderer : ~Orders(h, d, x)
  BY <1>1 DEF Orders
<1>10. Adding(queue', c)
  <2> PICK r : r = Tail(queue)
    OBVIOUS
  <2>1. r \in Seq(Tasks)
    BY <1>1, <1>2, TailTasks
  <2>2. ToSet(Append(r, u)) = ToSet(r) \cup {u}
    BY <1>5, <2>1, AppendTasks
  <2>3. u \in ToSet(queue')
    BY <1>1, <2>2
  <2> QED BY <1>5, <2>3 DEF Adding, Adds
<1>11. ASSUME NEW d \in Channel
       PROVE  /\ OwnPeersOf(config, d) \subseteq OwnPeersOf(config', d)
              /\ OrderersOf(config', d) = OrderersOf(config, d)
              /\ d # c => PeersOf(config', d) = PeersOf(config, d)
  <2>1. d # c => PeersOf(config', d) = PeersOf(config, d)
    BY <1>6 DEF PeersOf
  <2> QED BY <1>6, <2>1 DEF OwnPeersOf, OrderersOf
<1> QED BY <1>1, <1>6, <1>7, <1>8, <1>9, <1>10, <1>11, QuietContinuation

LEMMA EmitPeerRemovedFollows ==
  ASSUME Inv, SdkInv, EmitPeerRemoved, draining' = (queue' # <<>>), phase' = phase
  PROVE  SdkInv'
<1> PICK h : h = Head(queue)
  OBVIOUS
<1> PICK u : u = [h EXCEPT !.kind = "peerGone"]
  OBVIOUS
<1>1. /\ queue # <<>> /\ h.kind = "removePeer" /\ config' = config
      /\ queue' = Tail(queue) \/ queue' = Append(Tail(queue), u)
  BY DEF EmitPeerRemoved, Run, Ends, GoesOnWith
<1>2. h \in Tasks /\ InChannels(h, config.channels) /\ h.channels \in SUBSET Channel
  <2>1. h \in Tasks /\ InChannels(h, config.channels)
    BY <1>1, SdkFacts, TailTasks DEF TasksInv
  <2> QED BY <2>1 DEF Tasks
<1>3. u \in Tasks /\ u.kind = "peerGone" /\ u.channels = h.channels
  BY <1>2 DEF Tasks, Kinds
<1>4. Continues(h)
  <2>1. u.kind \in Later /\ InChannels(u, config.channels)
    BY <1>2, <1>3 DEF Later, InChannels, Single
  <2> QED BY <1>1, <1>3, <2>1 DEF Continues
<1>5. \A c \in Channel : ~Adds(h, c) /\ (Remakes(h, c) => c \in h.channels /\ myOrgIndex \in h.orgs)
  BY <1>1 DEF Remakes, Adds
<1>6. \A c \in Channel, x \in Orderer : ~Orders(h, c, x)
  BY <1>1 DEF Orders
<1>7. CASE myOrgIndex \in h.orgs
  <2>1. PICK order \in SetToSeqs(h.channels), some \in SUBSET Peer :
          Outcome(EachRevised(order, some))
    BY <1>7 DEF EmitPeerRemoved
  <2> PICK s : s = EachRevised(order, some)
    OBVIOUS
  <2>2. Handles(s, config, h.channels) /\ s.reached = h.channels
    BY <1>2, SdkFacts, EachRevisedHandles
  <2> QED BY <1>1, <1>2, <1>4, <1>5, <1>6, <2>1, <2>2, HandlersCalled
<1>8. CASE myOrgIndex \notin h.orgs
  <2>1. UNCHANGED <<sdk, behind, failed>>
    BY <1>8 DEF EmitPeerRemoved
  <2> QED BY <1>1, <1>4, <1>5, <1>6, <1>8, <2>1, QuietContinuation
<1> QED BY <1>7, <1>8

\* The listeners of a hub that is forgotten are gone, and their channels behind.
LEMMA PeerGoneFollows ==
  ASSUME Inv, SdkInv, PeerGone, draining' = (queue' # <<>>), phase' = phase
  PROVE  SdkInv'
<1> PICK h : h = Head(queue)
  OBVIOUS
<1> PICK gone : gone = IF myOrgIndex \in h.orgs THEN h.peers ELSE {}
  OBVIOUS
<1>1. /\ queue # <<>> /\ h.kind = "peerGone" /\ queue' = Tail(queue) /\ failed' = failed
      /\ sdk' = [sdk EXCEPT !.hubs = @ \ gone, !.on = [c \in Channel |-> @[c] \ gone]]
      /\ behind' = behind \cup {c \in Channel : sdk.on[c] \cap gone # {}}
      /\ config' = [config EXCEPT !.known = @ \ (h.orgs \X h.peers)]
  BY DEF PeerGone, Run, Ends
<1>2. /\ config'.channels = config.channels /\ config'.ordering = config.ordering
      /\ config'.orderers = config.orderers /\ config'.peers = config.peers
  BY <1>1, SdkFacts DEF Config
<1>3. Continues(h)
  BY <1>1, <1>2 DEF Continues
<1>4. /\ TasksInv(queue', config') /\ (~draining' => NoLater(queue'))
      /\ \A c : Remaking(queue, c) <=> Remaking(queue', c) \/ Remakes(h, c)
      /\ \A c : Adding(queue, c) => Adding(queue', c) \/ Adds(h, c)
      /\ \A c, x : Ordering(queue, c, x) <=> Ordering(queue', c, x) \/ Orders(h, c, x)
  BY <1>3, QueueAfter
<1>5. \A c, x : ~Remakes(h, c) /\ ~Adds(h, c) /\ ~Orders(h, c, x)
  BY <1>1 DEF Remakes, Adds, Orders
<1>6. /\ sdk' \in Sdk /\ ~sdk'.threw /\ sdk'.object = sdk.object /\ sdk'.slots = sdk.slots
      /\ \A c \in Channel : sdk'.on[c] = sdk.on[c] \ gone
  <2>1. sdk \in Sdk /\ ~sdk.threw
    BY SdkFacts
  <2>2. /\ sdk.on \in [Channel -> SUBSET Peer] /\ sdk.hubs \in SUBSET Peer
    BY <2>1 DEF Sdk
  <2> PICK on : on = [c \in Channel |-> sdk.on[c] \ gone]
    OBVIOUS
  <2> PICK hubs : hubs = sdk.hubs \ gone
    OBVIOUS
  <2>3. on \in [Channel -> SUBSET Peer] /\ hubs \in SUBSET Peer
    BY <2>2
  <2>4. sdk' = [sdk EXCEPT !.hubs = hubs, !.on = on]
    BY <1>1, <2>1 DEF Sdk
  <2>5. /\ sdk' \in Sdk /\ ~sdk'.threw /\ sdk'.object = sdk.object
        /\ sdk'.slots = sdk.slots /\ sdk'.on = on
    BY <2>1, <2>3, <2>4 DEF Sdk
  <2> QED BY <2>5
<1>7. ASSUME NEW c \in Channel PROVE ChannelInv(c)'
  <2>1. /\ PeersOf(config', c) = PeersOf(config, c) /\ OrderersOf(config', c) = OrderersOf(config, c)
        /\ OwnPeersOf(config', c) = OwnPeersOf(config, c)
    BY <1>2 DEF PeersOf, OrderersOf, OwnPeersOf
  <2>2. ChannelInv(c)
    BY SdkFacts
  <2>3. CASE c \in behind'
    <3>1. c \notin failed => Slotted(sdk', c)
      BY <1>6, <2>2 DEF ChannelInv, Slotted
    <3>2. c \notin failed /\ ~Remaking(queue', c) => sdk'.on[c] \subseteq OwnPeersOf(config', c)
      BY <1>4, <1>5, <1>6, <2>1, <2>2 DEF ChannelInv
    <3> QED BY <1>1, <2>3, <3>1, <3>2
            DEF ChannelInv, Slotted, Remaking, OwnPeersOf, Remakes, ToSet
  <2>4. CASE c \notin behind'
    <3>1. SameAt(sdk, sdk', c)
      BY <1>1, <1>6, <2>4 DEF SameAt
    <3>2. c \in config'.channels \ behind' /\ ~Adding(queue', c) => Still(c)
      BY <1>1, <1>2, <1>4, <1>5, <2>1 DEF Still
    <3> QED BY <1>1, <1>4, <1>5, <2>1, <2>2, <3>1, <3>2, Untouched
  <2> QED BY <2>3, <2>4
<1>8. Ordered(config')
  BY <1>2, SdkFacts DEF Ordered
<1> QED BY <1>4, <1>6, <1>7, <1>8, SdkInvAfter

\* What is removed from the network, but orderers that channels have, is not in them.
LEMMA NetworkShrinks ==
  ASSUME Inv, SdkInv, NEW h, Continues(h), h.kind \in {"orgGone", "ordererGone"},
         UNCHANGED <<sdk, failed>>, behind \subseteq behind',
         NEW orgs, NEW known, NEW orderers,
         config' = [config EXCEPT !.orgs = orgs, !.known = known, !.orderers = orderers],
         \A c \in Channel \ behind', x \in Orderer :
           <<c, x>> \in config.ordering => (x \in orderers <=> x \in config.orderers)
  PROVE  SdkInv'
<1>1. /\ config'.channels = config.channels /\ config'.ordering = config.ordering
      /\ config'.peers = config.peers /\ config'.orderers = orderers
  BY SdkFacts DEF Config
<1>2. \A c \in Channel : ~Remakes(h, c) /\ ~Adds(h, c)
  BY DEF Remakes, Adds
<1>3. \A c \in Channel, x \in Orderer : ~Orders(h, c, x)
  BY DEF Orders
<1>4. ASSUME NEW c \in Channel
      PROVE  /\ OwnPeersOf(config', c) = OwnPeersOf(config, c)
             /\ PeersOf(config', c) = PeersOf(config, c)
             /\ c \notin behind' => OrderersOf(config', c) \cap config'.orderers
                                    = OrderersOf(config, c) \cap config.orderers
  <2>1. PeersOf(config', c) = PeersOf(config, c) /\ OwnPeersOf(config', c) = OwnPeersOf(config, c)
    BY <1>1 DEF PeersOf, OwnPeersOf
  <2>2. c \notin behind' => OrderersOf(config', c) \cap config'.orderers
                            = OrderersOf(config, c) \cap config.orderers
    BY <1>1 DEF OrderersOf
  <2> QED BY <2>1, <2>2
<1> QED BY <1>2, <1>3, <1>4, QuietContinuation

LEMMA OrgGoneFollows ==
  ASSUME Inv, SdkInv, OrgGone, draining' = (queue' # <<>>), phase' = phase PROVE SdkInv'
<1>a. PICK h : h = Head(queue)
  OBVIOUS
<1>b. PICK known : known = config.known \ (h.orgs \X Peer)
  OBVIOUS
<1>c. PICK orgs : orgs = config.orgs \ h.orgs
  OBVIOUS
<1>d. PICK orderers : orderers = config.orderers
  OBVIOUS
<1>1. /\ queue # <<>> /\ h.kind = "orgGone" /\ queue' = Tail(queue)
      /\ UNCHANGED <<sdk, behind, failed>>
  BY <1>a DEF OrgGone, Run, Ends
<1>2. config' = [config EXCEPT !.orgs = orgs, !.known = known, !.orderers = orderers]
  <2>1. config' = [config EXCEPT !.orgs = orgs, !.known = known]
    BY <1>a, <1>b, <1>c DEF OrgGone
  <2> QED BY <1>d, <2>1, SdkFacts DEF Config
<1>3. config'.channels = config.channels /\ config'.ordering = config.ordering
  BY <1>2, SdkFacts DEF Config
<1>4. Continues(h)
  BY <1>a, <1>1, <1>3 DEF Continues
<1>5. \A x : x \in orderers <=> x \in config.orderers
  BY <1>d
<1> QED BY <1>1, <1>2, <1>4, <1>5, NetworkShrinks

LEMMA OrdererGoneFollows ==
  ASSUME Inv, SdkInv, OrdererGone, draining' = (queue' # <<>>), phase' = phase PROVE SdkInv'
<1>a. PICK h : h = Head(queue)
  OBVIOUS
<1>b. PICK orgs, known : orgs = config.orgs /\ known = config.known
  OBVIOUS
<1>c. PICK orderers : orderers = config.orderers \ {h.orderer}
  OBVIOUS
<1>1. /\ queue # <<>> /\ h.kind = "ordererGone" /\ queue' = Tail(queue)
      /\ UNCHANGED <<sdk, failed>>
      /\ behind' = behind \cup {c \in Channel : <<c, h.orderer>> \in config.ordering}
  BY <1>a DEF OrdererGone, Run, Ends
<1>2. config' = [config EXCEPT !.orgs = orgs, !.known = known, !.orderers = orderers]
  <2>1. config' = [config EXCEPT !.orderers = orderers]
    BY <1>a, <1>c DEF OrdererGone
  <2> QED BY <1>b, <2>1, SdkFacts DEF Config
<1>3. config'.channels = config.channels /\ config'.ordering = config.ordering
  BY <1>2, SdkFacts DEF Config
<1>4. Continues(h)
  BY <1>a, <1>1, <1>3 DEF Continues
<1>5. /\ behind \subseteq behind'
      /\ \A c \in Channel \ behind', y \in Orderer :
           <<c, y>> \in config.ordering => (y \in orderers <=> y \in config.orderers)
  BY <1>c, <1>1
<1>6. h.kind \in {"orgGone", "ordererGone"} /\ UNCHANGED <<sdk, failed>>
  BY <1>1
<1> QED BY <1>2, <1>4, <1>5, <1>6, NetworkShrinks

\* x was added to the objects of cs, or removed, but where the handler threw.
ChangesOrderer(cs, x, added) ==
  /\ sdk' \in Sdk /\ ~sdk'.threw /\ sdk'.slots = sdk.slots /\ sdk'.on = sdk.on
  /\ \A c \in Channel : c \notin cs => sdk'.object[c] = sdk.object[c]
  /\ \A c \in Channel : c \in cs \ failed' =>
       /\ sdk.object[c] # None /\ x \in config.orderers
       /\ sdk'.object[c] = IF added THEN [sdk.object[c] EXCEPT !.orderers = @ \cup {x}]
                           ELSE [sdk.object[c] EXCEPT !.orderers = @ \ {x}]

\* The orderer x of the continuation's event is added to the objects, or removed.
LEMMA OrdererHandled ==
  ASSUME Inv, SdkInv, NEW h, Continues(h), UNCHANGED <<config, behind>>,
         failed \subseteq failed', NEW x, x = h.orderer,
         h.kind \in {"addOrderer", "removeOrdererIn", "removeOrderer"},
         ChangesOrderer(h.channels, x, h.kind = "addOrderer")
  PROVE  SdkInv'
<1>0. /\ sdk' \in Sdk /\ ~sdk'.threw /\ sdk'.slots = sdk.slots /\ sdk'.on = sdk.on
      /\ \A c \in Channel : c \notin h.channels => sdk'.object[c] = sdk.object[c]
      /\ \A c \in Channel : c \in h.channels \ failed' =>
           /\ sdk.object[c] # None /\ x \in config.orderers
           /\ sdk'.object[c] = IF h.kind = "addOrderer"
                               THEN [sdk.object[c] EXCEPT !.orderers = @ \cup {x}]
                               ELSE [sdk.object[c] EXCEPT !.orderers = @ \ {x}]
  BY DEF ChangesOrderer
<1>1. /\ h \in Tasks /\ TasksInv(queue', config') /\ (~draining' => NoLater(queue'))
      /\ \A c : Remaking(queue, c) <=> Remaking(queue', c) \/ Remakes(h, c)
      /\ \A c : Adding(queue, c) => Adding(queue', c) \/ Adds(h, c)
      /\ \A c, y : Ordering(queue, c, y) <=> Ordering(queue', c, y) \/ Orders(h, c, y)
  BY QueueAfter
<1>2. /\ \A c : ~Remakes(h, c) /\ ~Adds(h, c)
      /\ \A c, y : Orders(h, c, y) <=> c \in h.channels /\ y = x
  BY DEF Remakes, Adds, Orders
<1>3. \A c \in Channel : ChannelInv(c)
  BY SdkFacts
<1>4. ASSUME NEW c \in Channel PROVE ChannelInv(c)'
  <2>1. CASE c \notin h.channels
    <3>1. SameAt(sdk, sdk', c)
      BY <1>0, <2>1 DEF SameAt
    <3>2. c \in config'.channels \ behind' /\ ~Adding(queue', c) => Still(c)
      BY <1>1, <1>2, <2>1 DEF Still, Continues
    <3>3. OwnPeersOf(config', c) = OwnPeersOf(config, c)
      OBVIOUS
    <3> QED BY <1>1, <1>2, <1>3, <3>1, <3>2, <3>3, Untouched
  <2>2. CASE c \in failed'
    BY <2>2 DEF ChannelInv
  <2>3. CASE c \in h.channels /\ c \notin failed'
    <3>1. /\ sdk.object[c] # None /\ x \in config.orderers
          /\ sdk'.object[c] = IF h.kind = "addOrderer"
                              THEN [sdk.object[c] EXCEPT !.orderers = @ \cup {x}]
                              ELSE [sdk.object[c] EXCEPT !.orderers = @ \ {x}]
      BY <1>0, <2>3
    <3>2. sdk.object[c] \in Objects /\ x \in Orderer
      BY <3>1, SdkFacts DEF Sdk, Config
    <3>3. /\ sdk'.object[c] \in Objects /\ sdk'.object[c].peers = sdk.object[c].peers
          /\ sdk'.object[c].orderers = IF h.kind = "addOrderer" THEN sdk.object[c].orderers \cup {x}
                                       ELSE sdk.object[c].orderers \ {x}
      BY <3>1, <3>2 DEF Objects
    <3>4. sdk'.object[c] # None
      BY <3>3, NoneIsNoSet DEF Objects
    <3>5. /\ Slotted(sdk', c)
          /\ ~Remaking(queue', c) => sdk'.on[c] \subseteq OwnPeersOf(config', c)
      BY <1>0, <1>1, <1>2, <1>3, <2>3 DEF ChannelInv, Slotted
    <3>6. ASSUME c \in config'.channels \ behind', ~Remaking(queue', c), ~Adding(queue', c)
          PROVE  Follows(c)'
      <4>1. Follows(c)
        BY <1>1, <1>2, <1>3, <2>3, <3>6 DEF ChannelInv
      <4>2. ASSUME NEW y \in Orderer, ~Ordering(queue', c, y)
            PROVE  y \in sdk'.object[c].orderers <=> y \in OrderersOf(config', c) \cap config'.orderers
        <5>1. CASE y # x
          <6>1. ~Ordering(queue, c, y)
            BY <1>1, <1>2, <4>2, <5>1
          <6> QED BY <3>3, <4>1, <5>1, <6>1 DEF Follows
        <5>2. CASE y = x
          <6> PICK r : r = Tail(queue)
            OBVIOUS
          <6>1. queue \in Seq(Tasks) /\ TasksInv(queue, config) /\ queue # <<>> /\ h = Head(queue)
            BY SdkFacts DEF Continues
          <6>2. r \in Seq(Tasks)
            BY <6>1, TailTasks
          <6>3. ~Ordering(r, c, x)
            <7>1. CASE queue' = r
              BY <4>2, <5>2, <7>1
            <7>2. ASSUME NEW t \in Tasks, queue' = Append(r, t) PROVE ~Ordering(r, c, x)
              BY <4>2, <5>2, <6>2, <7>2, AppendTasks
            <7> QED BY <7>1, <7>2 DEF Continues
          <6>4. h.kind = "addOrderer" <=> <<c, x>> \in config.ordering
            BY <1>2, <2>3, <3>2, <6>1, <6>3, HeadIsLast
          <6> QED BY <3>1, <3>3, <5>2, <6>4 DEF OrderersOf
        <5> QED BY <5>1, <5>2
      <4>3. /\ sdk'.object[c].peers = PeersOf(config', c)
            /\ phase' = "ready" => sdk'.on[c] = OwnPeersOf(config', c)
        BY <1>0, <3>3, <4>1 DEF Follows, Continues
      <4> QED BY <3>4, <4>2, <4>3 DEF Follows, Ordering, Orders, OrderersOf, PeersOf, OwnPeersOf, ToSet
    <3> QED BY <3>5, <3>6 DEF ChannelInv, Slotted, Remaking, Adding, OwnPeersOf, Remakes, Adds, ToSet
  <2> QED BY <2>1, <2>2, <2>3
<1>5. Ordered(config')
  BY SdkFacts
<1> QED BY <1>0, <1>1, <1>4, <1>5, SdkInvAfter

\* x was added to the objects of cs since s, or removed.
OrdererChanged(s, t, cs, x, added) ==
  /\ t \in Sdk /\ t.slots = s.slots /\ t.on = s.on
  /\ \A c \in Channel : c \notin cs => t.object[c] = s.object[c]
  /\ \A c \in cs \ t.bad :
       /\ s.object[c] # None /\ x \in config.orderers
       /\ t.object[c] = IF added THEN [s.object[c] EXCEPT !.orderers = @ \cup {x}]
                        ELSE [s.object[c] EXCEPT !.orderers = @ \ {x}]

LEMMA OrdererAdds ==
  ASSUME NEW s \in Sdk, s.bad = {}, NEW x, config.orderers \subseteq Orderer,
         NEW c \in Channel, NEW t, t = OrdererAdded(s, config, c, x)
  PROVE  OrdererChanged(s, t, {c}, x, TRUE)
<1>0. s.object \in [Channel -> Objects \cup {None}]
  BY DEF Sdk
<1>1. CASE s.object[c] = None \/ x \notin config.orderers
  <2>1. t = [s EXCEPT !.bad = {c}]
    BY <1>1 DEF OrdererAdded, Sdk
  <2> QED BY <2>1 DEF OrdererChanged, Sdk
<1>2. CASE s.object[c] # None /\ x \in config.orderers
  <2> PICK b : b = [s.object[c] EXCEPT !.orderers = @ \cup {x}]
    OBVIOUS
  <2> PICK f : f = [s.object EXCEPT ![c] = b]
    OBVIOUS
  <2>1. t = [s EXCEPT !.object = f]
    BY <1>2 DEF OrdererAdded, Sdk
  <2>2. b \in Objects \cup {None}
    BY <1>0, <1>2 DEF Objects
  <2>3. /\ f \in [Channel -> Objects \cup {None}] /\ f[c] = b
        /\ \A d \in Channel \ {c} : f[d] = s.object[d]
    BY <1>0, <2>2, ChangedAt
  <2>4. t \in Sdk /\ t.slots = s.slots /\ t.on = s.on /\ t.object = f /\ t.bad = {}
    BY <2>1, <2>3 DEF Sdk
  <2> QED BY <1>2, <2>3, <2>4 DEF OrdererChanged
<1> QED BY <1>1, <1>2

LEMMA OrdererRemoves ==
  ASSUME NEW s \in Sdk, s.bad = {}, NEW x, config.orderers \subseteq Orderer,
         NEW cs \in SUBSET Channel, NEW t, t = OrdererRemoved(s, config, cs, x)
  PROVE  OrdererChanged(s, t, cs, x, FALSE)
<1>0. s.object \in [Channel -> Objects \cup {None}]
  BY DEF Sdk
<1> PICK bad : bad = {c \in cs : s.object[c] = None \/ x \notin config.orderers}
  OBVIOUS
<1> PICK f : f = [c \in Channel |-> IF c \in cs \ bad
                                    THEN [s.object[c] EXCEPT !.orderers = @ \ {x}]
                                    ELSE s.object[c]]
  OBVIOUS
<1>1. t = [s EXCEPT !.bad = bad, !.object = f]
  BY DEF OrdererRemoved, Sdk
<1>2. f \in [Channel -> Objects \cup {None}]
  <2>1. ASSUME NEW c \in Channel PROVE f[c] \in Objects \cup {None}
    <3>1. CASE c \in cs \ bad
      <4>1. s.object[c] \in Objects
        BY <1>0, <3>1
      <4> QED BY <3>1, <4>1 DEF Objects
    <3>2. CASE c \notin cs \ bad
      BY <1>0, <3>2
    <3> QED BY <3>1, <3>2
  <2> QED BY <2>1
<1>3. bad \in SUBSET Channel
  OBVIOUS
<1>4. t \in Sdk /\ t.slots = s.slots /\ t.on = s.on /\ t.object = f /\ t.bad = bad
  BY <1>1, <1>2, <1>3 DEF Sdk
<1>5. \A c \in Channel : c \notin cs => f[c] = s.object[c]
  OBVIOUS
<1>6. \A c \in cs \ bad : /\ s.object[c] # None /\ x \in config.orderers
                          /\ f[c] = [s.object[c] EXCEPT !.orderers = @ \ {x}]
  OBVIOUS
<1> QED BY <1>4, <1>5, <1>6 DEF OrdererChanged

LEMMA EmitOrdererEventFollows ==
  ASSUME Inv, SdkInv, EmitOrdererEvent, draining' = (queue' # <<>>), phase' = phase
  PROVE  SdkInv'
<1> PICK h : h = Head(queue)
  OBVIOUS
<1>1. /\ Continues(h) /\ UNCHANGED <<config, behind>>
      /\ h.kind \in {"addOrderer", "removeOrdererIn"}
  BY DEF EmitOrdererEvent, Run, Ends, Continues
<1>2. PICK c \in Channel : h.channels = {c}
  BY <1>1, QueueAfter DEF InChannels, Single
<1>3. ItsChannel = c
  BY <1>2 DEF ItsChannel
<1> PICK x : x = h.orderer
  OBVIOUS
<1> PICK added \in BOOLEAN : added <=> h.kind = "addOrderer"
  OBVIOUS
<1> PICK q : q = Calm(sdk)
  OBVIOUS
<1>4. PICK t : /\ sdk' = Calm(t) /\ failed' = failed \cup t.bad
               /\ \/ added /\ t = OrdererAdded(q, config, c, x)
                  \/ ~added /\ t = OrdererRemoved(q, config, {c}, x)
  BY <1>1, <1>3 DEF EmitOrdererEvent, Run, Continues
<1>5. /\ q \in Sdk /\ q.bad = {} /\ q.object = sdk.object /\ q.slots = sdk.slots /\ q.on = sdk.on
  BY SdkFacts, CalmType
<1>6. config.orderers \subseteq Orderer /\ {c} \in SUBSET Channel
  BY SdkFacts DEF Config
<1>7. OrdererChanged(q, t, {c}, x, added)
  <2>1. CASE added
    <3>1. OrdererChanged(q, t, {c}, x, TRUE)
      BY <1>4, <1>5, <1>6, <2>1, OrdererAdds
    <3> QED BY <2>1, <3>1 DEF OrdererChanged
  <2>2. CASE ~added
    <3>1. OrdererChanged(q, t, {c}, x, FALSE)
      BY <1>4, <1>5, <1>6, <2>2, OrdererRemoves
    <3> QED BY <2>2, <3>1 DEF OrdererChanged
  <2> QED BY <2>1, <2>2
<1>8. /\ sdk' \in Sdk /\ ~sdk'.threw /\ sdk'.object = t.object
      /\ sdk'.slots = sdk.slots /\ sdk'.on = sdk.on
  BY <1>4, <1>5, <1>7, CalmType DEF OrdererChanged
<1>9. \A d \in Channel : d \in h.channels \ failed' =>
        /\ sdk.object[d] # None /\ x \in config.orderers
        /\ sdk'.object[d] = IF h.kind = "addOrderer"
                            THEN [sdk.object[d] EXCEPT !.orderers = @ \cup {x}]
                            ELSE [sdk.object[d] EXCEPT !.orderers = @ \ {x}]
  BY <1>2, <1>4, <1>5, <1>7, <1>8 DEF OrdererChanged
<1>10. \A d \in Channel : d \notin h.channels => sdk'.object[d] = sdk.object[d]
  BY <1>2, <1>5, <1>7, <1>8 DEF OrdererChanged
<1>11. /\ UNCHANGED <<config, behind>> /\ failed \subseteq failed' /\ x = h.orderer
       /\ h.kind \in {"addOrderer", "removeOrdererIn", "removeOrderer"}
  BY <1>1, <1>4
<1>12. ChangesOrderer(h.channels, x, h.kind = "addOrderer")
  BY <1>8, <1>9, <1>10 DEF ChangesOrderer
<1> QED BY <1>1, <1>11, <1>12, OrdererHandled

LEMMA EmitOrderersRemovedFollows ==
  ASSUME Inv, SdkInv, EmitOrderersRemoved, draining' = (queue' # <<>>), phase' = phase
  PROVE  SdkInv'
<1> PICK h : h = Head(queue)
  OBVIOUS
<1> PICK u : u = [h EXCEPT !.kind = "ordererGone"]
  OBVIOUS
<1> PICK x : x = h.orderer
  OBVIOUS
<1> PICK q : q = Calm(sdk)
  OBVIOUS
<1> PICK t : t = OrdererRemoved(q, config, h.channels, x)
  OBVIOUS
<1>1. /\ queue # <<>> /\ h.kind = "removeOrderer" /\ UNCHANGED <<config, behind>>
      /\ queue' = Tail(queue) \/ queue' = Append(Tail(queue), u)
      /\ sdk' = Calm(t) /\ failed' = failed \cup t.bad
  BY DEF EmitOrderersRemoved, Run, Ends, GoesOnWith
<1>2. h \in Tasks /\ InChannels(h, config.channels) /\ h.channels \in SUBSET Channel
  <2>1. h \in Tasks /\ InChannels(h, config.channels)
    BY <1>1, SdkFacts, TailTasks DEF TasksInv
  <2> QED BY <2>1 DEF Tasks
<1>3. u \in Tasks /\ u.kind = "ordererGone" /\ u.channels = h.channels
  BY <1>2 DEF Tasks, Kinds
<1>4. Continues(h)
  <2>1. u.kind \in Later /\ InChannels(u, config.channels)
    BY <1>2, <1>3 DEF Later, InChannels, Single
  <2> QED BY <1>1, <1>3, <2>1 DEF Continues
<1>5. /\ q \in Sdk /\ q.bad = {} /\ q.object = sdk.object /\ q.slots = sdk.slots /\ q.on = sdk.on
  BY SdkFacts, CalmType
<1>6. config.orderers \subseteq Orderer
  BY SdkFacts DEF Config
<1>7. OrdererChanged(q, t, h.channels, x, FALSE)
  BY <1>2, <1>5, <1>6, OrdererRemoves
<1>8. /\ sdk' \in Sdk /\ ~sdk'.threw /\ sdk'.object = t.object
      /\ sdk'.slots = sdk.slots /\ sdk'.on = sdk.on
  BY <1>1, <1>5, <1>7, CalmType DEF OrdererChanged
<1>9. \A d \in Channel : d \in h.channels \ failed' =>
        /\ sdk.object[d] # None /\ x \in config.orderers
        /\ sdk'.object[d] = [sdk.object[d] EXCEPT !.orderers = @ \ {x}]
  BY <1>1, <1>5, <1>7, <1>8 DEF OrdererChanged
<1>10. \A d \in Channel : d \notin h.channels => sdk'.object[d] = sdk.object[d]
  BY <1>5, <1>7, <1>8 DEF OrdererChanged
<1>11. /\ UNCHANGED <<config, behind>> /\ failed \subseteq failed' /\ x = h.orderer
       /\ h.kind = "removeOrderer"
  BY <1>1
<1>12. ChangesOrderer(h.channels, x, h.kind = "addOrderer")
  BY <1>8, <1>9, <1>10, <1>11 DEF ChangesOrderer
<1> QED BY <1>4, <1>11, <1>12, OrdererHandled

LEMMA ContinueFollows == ASSUME Inv, SdkInv, Continue PROVE SdkInv'
<1>1. draining' = (queue' # <<>>) /\ phase' = phase
  BY DEF Continue
<1> QED BY <1>1, EmitChannelReviseFollows, EmitOrdererEventFollows, AddChannelOrgsFollows,
           EmitChannelAddFollows, EmitPeerRemovedFollows, PeerGoneFollows, OrgGoneFollows,
           EmitOrderersRemovedFollows, OrdererGoneFollows DEF Continue

(***************************************************************************)
(* All steps                                                               *)
(***************************************************************************)

IsLoaded ==
  /\ sdk = Loaded(config) /\ config \in Config /\ Ordered(config)
  /\ queue = <<>> /\ phase # "ready"

LEMMA LoadedFollows == IsLoaded => SdkInv
<1> SUFFICES ASSUME IsLoaded PROVE SdkInv
  OBVIOUS
<1>1. sdk \in Sdk /\ ~sdk.threw
  <2> PICK f : f = [c \in Channel |-> IF c \in config.channels THEN Built(config, c) ELSE None]
    OBVIOUS
  <2>1. f \in [Channel -> Objects \cup {None}]
    <3>1. \A c \in Channel : f[c] \in Objects \cup {None}
      BY BuiltType
    <3> QED BY <3>1
  <2>2. /\ [c \in Channel |-> None] \in [Channel -> (SUBSET Peer) \cup {None}]
        /\ [c \in Channel |-> {}] \in [Channel -> SUBSET Peer]
    OBVIOUS
  <2> QED BY <2>1, <2>2 DEF IsLoaded, Loaded, Sdk
<1>2. /\ TasksInv(queue, config) /\ NoLater(queue)
      /\ \A c, x : ~Remaking(queue, c) /\ ~Adding(queue, c) /\ ~Ordering(queue, c, x)
  <2>1. ToSet(queue) = {} /\ Len(queue) = 0
    BY NoMore DEF IsLoaded
  <2> QED BY <2>1 DEF TasksInv, NoLater, LaterLast, OrderInv, Remaking, Adding, Ordering
<1>3. ASSUME NEW c \in Channel PROVE ChannelInv(c)
  <2>1. /\ sdk.slots[c] = None /\ sdk.on[c] = {} /\ phase # "ready"
        /\ c \in config.channels => sdk.object[c] = Built(config, c)
    BY <1>3 DEF IsLoaded, Loaded
  <2>2. c \in config.channels => Follows(c)
    BY <2>1, ObjectIsNotNone DEF Follows, Built
  <2> QED BY <2>1, <2>2 DEF ChannelInv, Slotted
<1> QED BY <1>1, <1>2, <1>3 DEF SdkInv, IsLoaded

LEMMA LoadedAgain == IsLoaded' => SdkInv'
BY LoadedFollows, PTL

LEMMA InitFollows == Init => SdkInv
<1> SUFFICES ASSUME Init PROVE SdkInv
  OBVIOUS
<1>1. IsLoaded
  BY InitialIsConfig DEF Init, IsLoaded
<1> QED BY <1>1, LoadedFollows

LEMMA CrashFollows == ASSUME Inv, SdkInv, Crash PROVE SdkInv'
<1>1. /\ config' = file /\ sdk' = Loaded(file) /\ queue' = <<>> /\ phase' # "ready"
      /\ file \in Config
  BY DEF Crash, Inv
<1>2. file.ordering = config.ordering /\ file.channels = config.channels
  BY DEF Inv, FileFollows, Config
<1>3. Ordered(config')
  BY <1>1, <1>2, SdkFacts DEF Ordered
<1>4. IsLoaded'
  <2>1. Loaded(config)' = Loaded(file) /\ Ordered(config)'
    BY <1>1, <1>3 DEF Loaded, Ordered, Built, PeersOf, OrderersOf
  <2> QED BY <1>1, <2>1 DEF IsLoaded
<1> QED BY <1>4, LoadedAgain

LEMMA initFollows == ASSUME Inv, SdkInv, init PROVE SdkInv'
<1>1. PICK order \in SetToSeqs(config.channels), some \in SUBSET Peer :
        LET s == ListensToAll(order, some)
        IN  /\ sdk' = Calm(s)
            /\ failed' = failed \cup {c \in config.channels : sdk.slots[c] # None}
                                \cup IF s.threw THEN config.channels ELSE {}
  BY DEF init
<1> PICK s : s = ListensToAll(order, some)
  OBVIOUS
<1>2. UNCHANGED <<config, queue, draining, behind>>
  BY DEF init
<1>3. config.channels \in SUBSET Channel
  BY SdkFacts DEF Config
<1>4. ListensIn(s, config.channels)
  BY <1>3, SdkFacts, ListensToAllListens
<1>5. /\ sdk' \in Sdk /\ ~sdk'.threw /\ sdk'.object = sdk.object
      /\ sdk'.slots = s.slots /\ sdk'.on = s.on
  <2>1. s \in Sdk /\ s.object = sdk.object
    BY <1>4 DEF ListensIn
  <2> QED BY <1>1, <2>1, CalmType
<1>6. ASSUME NEW c \in Channel PROVE ChannelInv(c)'
  <2>1. ChannelInv(c)
    BY SdkFacts
  <2>2. CASE c \in failed'
    BY <2>2 DEF ChannelInv
  <2>3. CASE c \notin failed' /\ c \notin config.channels
    <3>1. SameAt(sdk, s, c)
      BY <1>4, <2>3 DEF ListensIn
    <3>2. c \notin failed
      BY <1>1, <2>3
    <3>3. /\ Slotted(sdk', c)
          /\ ~Remaking(queue', c) => sdk'.on[c] \subseteq OwnPeersOf(config', c)
      BY <1>2, <1>5, <2>1, <3>1, <3>2 DEF ChannelInv, Slotted, SameAt
    <3> QED BY <1>2, <2>3, <3>3 DEF ChannelInv, Slotted, Remaking, OwnPeersOf, Remakes, ToSet
  <2>4. CASE c \notin failed' /\ c \in config.channels
    <3>1. c \notin failed /\ sdk.slots[c] = None /\ ~s.threw
      BY <1>1, <2>4
    <3>2. sdk.on[c] = {}
      BY <2>1, <3>1 DEF ChannelInv, Slotted
    <3>3. sdk'.on[c] = OwnPeersOf(config', c) /\ Slotted(sdk', c)
      BY <1>2, <1>4, <1>5, <2>4, <3>1, <3>2 DEF ListensIn, Slotted
    <3>4. c \notin behind' /\ ~Remaking(queue', c) /\ ~Adding(queue', c) => Follows(c)'
      <4>1. SUFFICES ASSUME c \notin behind', ~Remaking(queue', c), ~Adding(queue', c)
                     PROVE  Follows(c)'
        OBVIOUS
      <4>2. Follows(c)
        BY <1>2, <2>1, <2>4, <3>1, <4>1 DEF ChannelInv
      <4>3. /\ sdk'.object[c] # None /\ sdk'.object[c].peers = PeersOf(config', c)
            /\ \A x \in Orderer : ~Ordering(queue', c, x) =>
                 (x \in sdk'.object[c].orderers
                  <=> x \in OrderersOf(config', c) \cap config'.orderers)
        BY <1>2, <1>5, <4>2 DEF Follows
      <4> QED BY <3>3, <4>3 DEF Follows, Ordering, Orders, OrderersOf, PeersOf, OwnPeersOf, ToSet
    <3> QED BY <3>3, <3>4 DEF ChannelInv, Slotted, Remaking, Adding, OwnPeersOf, Remakes, Adds, ToSet
  <2> QED BY <2>2, <2>3, <2>4
<1>7. TasksInv(queue', config') /\ (~draining' => NoLater(queue')) /\ Ordered(config')
  BY <1>2, SdkFacts
<1> QED BY <1>5, <1>6, <1>7, SdkInvAfter

LEMMA OtherFollows ==
  ASSUME Inv, SdkInv, (\E p \in Peer : HubCloses(p) \/ HubOpens(p)) \/ UNCHANGED vars
  PROVE  SdkInv'
<1>1. UNCHANGED <<sdk, config, queue, draining, phase, behind, failed>>
  BY DEF HubCloses, HubOpens, vars
<1>2. TasksInv(queue', config') /\ (~draining' => NoLater(queue')) /\ Ordered(config')
  BY <1>1, SdkFacts
<1>3. ASSUME NEW c \in Channel
      PROVE  c \in config'.channels \ behind' /\ ~Adding(queue', c) => Still(c)
  BY <1>1 DEF Still
<1> QED BY <1>1, <1>2, <1>3, QuietCall

LEMMA NextFollows == ASSUME Inv, SdkInv, [Next]_vars PROVE SdkInv'
BY NetworkCallFollows, ChannelCallFollows, ContinueFollows, CrashFollows, initFollows,
   OtherFollows DEF Next

LEMMA SdkInvariance == Spec => [](Inv /\ SdkInv)
<1>1. Init => Inv /\ SdkInv
  BY InitInv, InitFollows
<1>2. Inv /\ SdkInv /\ [Next]_vars => (Inv /\ SdkInv)'
  BY NextInv, NextFollows
<1> QED BY <1>1, <1>2, PTL DEF Spec

\* The SDK's channel object and the listeners of a channel are those of its
\* configuration whenever no continuation waits, in whatever order calls, events and
\* restarts came: channel-revise makes both anew, channel-add makes them, and the
\* orderers' events change the object (channels.js:30, index.js:29).  Left out are the
\* channels of which the code sends no event, or whose handler threw.
THEOREM ObjectsKeepUp == Spec => []ObjectsFollow
<1>1. ASSUME Inv, SdkInv PROVE ObjectsFollow
  <2> SUFFICES ASSUME queue = <<>>, NEW c \in config.channels \ (behind \cup failed)
               PROVE  /\ sdk.object[c] = Built(config, c)
                      /\ phase = "ready" => sdk.on[c] = OwnPeersOf(config, c)
    BY DEF ObjectsFollow
  <2>1. c \in Channel /\ sdk \in Sdk
    BY <1>1, SdkFacts DEF Config
  <2>2. \A x : ~Remaking(queue, c) /\ ~Adding(queue, c) /\ ~Ordering(queue, c, x)
    BY NoMore DEF Remaking, Adding, Ordering
  <2>3. Follows(c)
    BY <1>1, <2>1, <2>2, SdkFacts DEF ChannelInv
  <2>4. sdk.object[c] \in Objects
    BY <2>1, <2>3 DEF Follows, Sdk
  <2> PICK b : b = sdk.object[c]
    OBVIOUS
  <2>5. b.peers = PeersOf(config, c) /\ b.orderers = OrderersOf(config, c) \cap config.orderers
    <3>1. /\ b.orderers \subseteq Orderer
          /\ \A x \in Orderer : x \in b.orderers <=> x \in OrderersOf(config, c) \cap config.orderers
      BY <2>2, <2>3, <2>4 DEF Follows, Objects
    <3>2. OrderersOf(config, c) \subseteq Orderer
      BY DEF OrderersOf
    <3> QED BY <2>3, <3>1, <3>2 DEF Follows
  <2>6. b = [peers |-> b.peers, orderers |-> b.orderers]
    BY <2>4 DEF Objects
  <2> QED BY <2>3, <2>5, <2>6 DEF Follows, Built
<1> QED BY <1>1, SdkInvariance, PTL
================================================================================
