----------------------------- MODULE NetworkConfig -----------------------------
(***************************************************************************)
(* The network and channel configuration, hyperledgerUtil/networkConfig.js, *)
(* with what follows its events: the SDK's channel objects (channels.js)   *)
(* and the listeners for configuration blocks (index.js).                  *)
(*                                                                         *)
(* A call changes the configuration at once, and saves it to the file as   *)
(* far as the code does.  What it does in a promise's continuation (the    *)
(* events, and the removal of what was first removed from the channels)    *)
(* waits in a queue.  The continuations run in order, and no call comes    *)
(* between two of them; but calls can come before the first.               *)
(*                                                                         *)
(* A peer's or an orderer's attributes, and the type of a peer in a        *)
(* channel, are left out: a change of them only saves the configuration.   *)
(* A call that names several peers, organisations or orderers is as many   *)
(* calls.  The tables of the event hubs are the subject of EventHub; here  *)
(* a hub has the listeners that are registered with it.                    *)
(***************************************************************************)
EXTENDS Naturals, Sequences, FiniteSets, SequencesExt

CONSTANTS
  Org, Peer, Orderer, Channel,
  myOrgIndex,    (* The gateway's organisation.                            *)
  None,          (* A channel without an object, or without a listener.    *)
  Initial,       (* The configuration in the file at first.                *)
  MaxCalls,      (* Bound: calls of the API.                               *)
  MaxCloses,     (* Bound: event hubs that lose their connection.          *)
  MaxCrashes     (* Bound: crashes of the gateway.                         *)

ASSUME OwnOrg == myOrgIndex \in Org
ASSUME NoneIsNoSet ==
  /\ None \notin [peers : SUBSET (Org \X Peer), orderers : SUBSET Orderer]
  /\ \A ps \in SUBSET Peer : None # ps
ASSUME FiniteChannels == IsFiniteSet(Channel)

VARIABLES
  config,      (* networkConfig and channelConfig.                         *)
  file,        (* What saveNetworkConfigToFs wrote last.                   *)
  sdk,         (* Channel objects, hubs and listeners: see below.          *)
  closed,      (* The hubs that are not connected.                         *)
  queue,       (* Continuations that wait, in order.                       *)
  draining,    (* They have begun to run.                                  *)
  phase,       (* "loaded", "ready" after init, "dead": it cannot start.   *)
  careless,    (* Peers put into a channel while not in the network.       *)
  behind,      (* Channels changed without an event, see ObjectsFollow.    *)
  failed,      (* Channels whose listener was left in disorder.            *)
  count        (* How often what is bounded has happened.                  *)

vars == <<config, file, sdk, closed, queue, draining, phase, careless, behind, failed, count>>

Bounds == [call |-> MaxCalls, close |-> MaxCloses, crash |-> MaxCrashes]
Happens(kind) == count[kind] < Bounds[kind] /\ count' = [count EXCEPT ![kind] = @ + 1]

(***************************************************************************)
(* The network's organisations, their peers, and orderers; the channels,   *)
(* the organisations, peers and orderers in each.                          *)
(***************************************************************************)
Config ==
  [orgs : SUBSET Org, known : SUBSET (Org \X Peer), orderers : SUBSET Orderer,
   channels : SUBSET Channel, members : SUBSET (Channel \X Org),
   peers : SUBSET (Channel \X Org \X Peer), ordering : SUBSET (Channel \X Orderer)]

\* The configuration nests a channel's peers in its organisations, and both and its
\* orderers in the channel.
Nested(g) ==
  /\ \A x \in g.members : x[1] \in g.channels
  /\ \A x \in g.peers : <<x[1], x[2]>> \in g.members
Ordered(g) == \A x \in g.ordering : x[1] \in g.channels

PeersOf(g, c) == {x \in Org \X Peer : <<c, x[1], x[2]>> \in g.peers}
OwnPeersOf(g, c) == {p \in Peer : <<c, myOrgIndex, p>> \in g.peers}
OrderersOf(g, c) == {x \in Orderer : <<c, x>> \in g.ordering}

\* Every peer that a channel names is in the network: initChannel can be called.
Known(g, c) == PeersOf(g, c) \subseteq g.known
Loads(g) == \A c \in g.channels : Known(g, c)

ASSUME InitialIsConfig ==
  Initial \in Config /\ Nested(Initial) /\ Ordered(Initial) /\ Loads(Initial)

\* addOrderers skips an orderer that is not in the network.
Built(g, c) == [peers |-> PeersOf(g, c), orderers |-> OrderersOf(g, c) \cap g.orderers]

Task(kind, c, o, p, x) == [kind |-> kind, channels |-> c, orgs |-> o, peers |-> p, orderer |-> x]
Waits(t) == queue' = Append(queue, t)

-------------------------------------------------------------------------------
(***************************************************************************)
(* What follows an event.  sdk.object[c]: the channel object.              *)
(* sdk.hubs: the gateway's peers that have an event hub.                   *)
(* sdk.slots[c]: the hubs of the listener kept under channelInitEventUuid. *)
(* sdk.on[c]: the hubs that call a listener of the channel.                *)
(* While events are handled: threw, a handler threw; reached, the channels *)
(* whose handlers were called; bad, those whose handlers threw.            *)
(***************************************************************************)
Afresh(s) == [s EXCEPT !.threw = FALSE]
Calm(s) == [s EXCEPT !.threw = FALSE, !.reached = {}, !.bad = {}]
Handled(s, c) ==
  [s EXCEPT !.reached = @ \cup {c}, !.bad = IF s.threw THEN @ \cup {c} ELSE @]

cancelListenConfig_Keeps(s, c, some) ==
  IF s.slots[c] = None THEN [s EXCEPT !.threw = TRUE] ELSE s

\* some are the hubs it comes to before it throws.
unRegisterEventWithThreshold(s, c, some) ==
  IF s.slots[c] \subseteq s.hubs THEN [s EXCEPT !.on[c] = @ \ s.slots[c]]
  ELSE [s EXCEPT !.on[c] = @ \ (some \cap s.slots[c]), !.threw = TRUE]

cancelListenConfig(s, c, some) ==
  IF s.slots[c] = None THEN [s EXCEPT !.threw = TRUE]
  ELSE unRegisterEventWithThreshold(s, c, some)

\* A peer that is not in the network: the object gets no peers.
initChannel(s, g, c) ==
  IF s.threw THEN s
  ELSE IF Known(g, c) THEN [s EXCEPT !.object[c] = Built(g, c)]
       ELSE [s EXCEPT !.object[c] = [Built(g, c) EXCEPT !.peers = {}], !.threw = TRUE]

\* It makes the hubs that are not there; one that is not connected throws, after some
\* were registered.
registerEventWithThreshold(s, c, own, some) ==
  IF own \cap s.hubs \cap closed = {}
  THEN [s EXCEPT !.hubs = @ \cup own, !.on[c] = @ \cup own, !.slots[c] = own]
  ELSE LET done == (some \cap own) \ (s.hubs \cap closed)
       IN  [s EXCEPT !.hubs = @ \cup done, !.on[c] = @ \cup done, !.threw = TRUE]

\* A removed organisation's or an empty listener stays under the channel's uuid.
channelInitAndListenConfig(s, g, c, some) ==
  LET own == OwnPeersOf(g, c)
  IN  IF s.threw \/ <<c, myOrgIndex>> \notin g.members \/ own = {} THEN s
      ELSE registerEventWithThreshold(s, c, own, some)

\* A handler that throws ends the call that emitted the event.
ChannelRevised(s, g, c, some) ==
  IF s.threw THEN s
  ELSE Handled(channelInitAndListenConfig(
                 initChannel(cancelListenConfig(s, c, some), g, c), g, c, some), c)

ChannelAdded(s, g, c, some) ==
  Handled(channelInitAndListenConfig(initChannel(s, g, c), g, c, some), c)

OrdererAdded(s, g, c, x) ==
  IF s.object[c] = None \/ x \notin g.orderers THEN [s EXCEPT !.bad = @ \cup {c}]
  ELSE [s EXCEPT !.object[c].orderers = @ \cup {x}]

\* In each of the channels; one that throws leaves the others.
OrdererRemoved(s, g, cs, x) ==
  LET bad == {c \in cs : s.object[c] = None \/ x \notin g.orderers}
  IN  [s EXCEPT !.bad = @ \cup bad,
                !.object = [c \in Channel |->
                              IF c \in cs \ bad
                              THEN [s.object[c] EXCEPT !.orderers = @ \ {x}] ELSE s.object[c]]]

\* The events of several channels, one after another.
ChannelsRevised(g, order, some) ==
  LET s[i \in 0..Len(order)] ==
        IF i = 0 THEN Calm(sdk) ELSE ChannelRevised(s[i - 1], g, order[i], some)
  IN  s[Len(order)]

Outcome(s) ==
  /\ sdk' = Calm(s)
  /\ failed' = failed \cup s.bad
  /\ behind' = behind \ s.reached

-------------------------------------------------------------------------------
(* The network. *)

Call == phase # "dead" /\ ~draining /\ Happens("call")

saveNetworkConfigToFs == file' = config'

Quiet == UNCHANGED <<sdk, closed, draining, phase, careless, behind, failed>>

nAddOrg(o, ps) ==
  /\ Call /\ o \notin config.orgs
  /\ config' = [config EXCEPT !.orgs = @ \cup {o}, !.known = @ \cup ({o} \X ps)]
  /\ saveNetworkConfigToFs
  /\ Quiet /\ UNCHANGED queue

nAddPeers(o, ps) ==
  /\ Call /\ o \in config.orgs
  /\ config' = [config EXCEPT !.known = @ \cup ({o} \X ps)]
  /\ saveNetworkConfigToFs
  /\ Quiet /\ UNCHANGED queue

nAddOrderer(x) ==
  /\ Call /\ x \notin config.orderers
  /\ config' = [config EXCEPT !.orderers = @ \cup {x}]
  /\ saveNetworkConfigToFs
  /\ behind' = behind \cup {c \in Channel : <<c, x>> \in config.ordering}
  /\ UNCHANGED <<sdk, closed, queue, draining, phase, careless, failed>>

nReviseAttribute ==
  /\ Call /\ config.orgs \cup config.orderers # {}
  /\ UNCHANGED config
  /\ saveNetworkConfigToFs
  /\ Quiet /\ UNCHANGED queue

RemovePeerFrom(cs, o, p) ==
  /\ Call /\ <<o, p>> \in config.known
  /\ config' = [config EXCEPT !.peers = @ \ (cs \X {o} \X {p})]
  /\ saveNetworkConfigToFs
  /\ Waits(Task("removePeer", cs, {o}, {p}, None))
  /\ behind' = IF o = myOrgIndex THEN behind ELSE behind \cup cs
  /\ UNCHANGED <<sdk, closed, draining, phase, careless, failed>>

ChannelsOf(o, p) == {c \in config.channels : <<c, o, p>> \in config.peers}

nRemovePeer_OneChannel(o, p) ==
  IF ChannelsOf(o, p) = {} THEN RemovePeerFrom({}, o, p)
  ELSE \E c \in ChannelsOf(o, p) : RemovePeerFrom({c}, o, p)

\* The channels are looked through once, now.
nRemovePeer(o, p) == RemovePeerFrom(ChannelsOf(o, p), o, p)

WithoutOrg(g, cs, o) == [g EXCEPT !.members = @ \ (cs \X {o}), !.peers = @ \ (cs \X {o} \X Peer)]

\* cRemoveOrgInChannel in every channel: the events come at once, and nothing is
\* saved.  If a handler throws, the channels after it keep the organisation and
\* the organisation stays.
nRemoveOrg(o) ==
  /\ Call /\ o \in config.orgs \ {myOrgIndex}
  /\ LET cs == {c \in config.channels : <<c, o>> \in config.members}
     IN  \E order \in SetToSeqs(cs), some \in SUBSET Peer :
           LET s == ChannelsRevised(WithoutOrg(config, cs, o), order, some)
           IN  /\ config' = WithoutOrg(config, IF s.threw THEN s.reached ELSE cs, o)
               /\ Outcome(s)
               /\ IF s.threw THEN UNCHANGED queue
                  ELSE Waits(Task("orgGone", {}, {o}, {}, None))
  /\ UNCHANGED <<file, closed, draining, phase, careless>>

nRemoveOrderer(x) ==
  LET cs == {c \in config.channels : <<c, x>> \in config.ordering}
  IN  /\ Call /\ x \in config.orderers
      /\ config' = [config EXCEPT !.ordering = @ \ (cs \X {x})]
      /\ file' = IF cs = {} THEN file ELSE config'
      /\ Waits(Task("removeOrderer", cs, {}, {}, x))
      /\ Quiet

-------------------------------------------------------------------------------
(* The channels. *)

\* Whether o's p is in the network and no removal of it is under way.
Stays(o, p) ==
  /\ <<o, p>> \in config.known
  /\ \A i \in 1..Len(queue) :
       ~(queue[i].kind \in {"removePeer", "peerGone", "orgGone"} /\ o \in queue[i].orgs
         /\ (queue[i].kind = "orgGone" \/ p \in queue[i].peers))

Dangling(c, os, ps) == {x \in {c} \X os \X ps : ~Stays(x[2], x[3])}

\* An organisation's peers are added to those that it has.
AddPeers(c, os, ps) ==
  /\ config' = [config EXCEPT !.members = @ \cup ({c} \X os),
                              !.peers = @ \cup ({c} \X os \X ps)]
  /\ careless' = careless \cup Dangling(c, os, ps)

cReviseOrgInChannel_NoSave(c, os, ps) == AddPeers(c, os, ps) /\ UNCHANGED file

cReviseOrgInChannel(c, os, ps) == AddPeers(c, os, ps) /\ saveNetworkConfigToFs

cAddChannel(c, xs, os, ps) ==
  /\ Call /\ c \notin config.channels
  /\ config' = [config EXCEPT !.channels = @ \cup {c}, !.ordering = @ \cup ({c} \X xs)]
  /\ saveNetworkConfigToFs
  /\ Waits(Task("addChannel", {c}, os, ps, None))
  /\ behind' = behind \cup {c}
  /\ UNCHANGED <<sdk, closed, draining, phase, careless, failed>>

cAddOrgInChannel(c, o, ps) ==
  /\ Call /\ c \in config.channels /\ <<c, o>> \notin config.members
  /\ cReviseOrgInChannel(c, {o}, ps)
  /\ IF o = myOrgIndex
     THEN Waits(Task("revise", {c}, {}, {}, None)) /\ UNCHANGED behind
     ELSE UNCHANGED queue /\ behind' = behind \cup {c}
  /\ UNCHANGED <<sdk, closed, draining, phase, failed>>

\* Unlike the others it saves nothing.
cRemoveOrgInChannel(c, o) ==
  /\ Call /\ c \in config.channels /\ <<c, o>> \in config.members
  /\ config' = WithoutOrg(config, {c}, o)
  /\ \E some \in SUBSET Peer : Outcome(ChannelRevised(Calm(sdk), config', c, some))
  /\ UNCHANGED <<file, closed, queue, draining, phase, careless>>

\* The event of a peer of the gateway's own comes before the change, and if its
\* handler throws there is no change.
cAddPeerInChannel(c, o, p) ==
  /\ Call /\ c \in config.channels /\ <<c, o>> \in config.members
  /\ <<c, o, p>> \notin config.peers
  /\ \E some \in SUBSET Peer :
       LET s == ChannelRevised(Calm(sdk), config, c, some)
       IN  IF o # myOrgIndex
           THEN cReviseOrgInChannel(c, {o}, {p}) /\ behind' = behind \cup {c}
                /\ UNCHANGED <<sdk, failed>>
           ELSE IF s.threw THEN Outcome(s) /\ UNCHANGED <<config, file, careless>>
                ELSE cReviseOrgInChannel(c, {o}, {p}) /\ behind' = behind \cup {c}
                     /\ sdk' = Calm(s) /\ UNCHANGED failed
  /\ UNCHANGED <<closed, queue, draining, phase>>

cRemovePeerInChannel(c, o, p) ==
  /\ Call /\ <<c, o, p>> \in config.peers
  /\ config' = [config EXCEPT !.peers = @ \ {<<c, o, p>>}]
  /\ saveNetworkConfigToFs
  /\ IF o = myOrgIndex
     THEN Waits(Task("revise", {c}, {}, {}, None)) /\ UNCHANGED behind
     ELSE UNCHANGED queue /\ behind' = behind \cup {c}
  /\ UNCHANGED <<sdk, closed, draining, phase, careless, failed>>

cChangePeerTypeChannel(c, o, p) ==
  /\ Call /\ <<c, o, p>> \in config.peers
  /\ cReviseOrgInChannel(c, {o}, {p})
  /\ UNCHANGED <<sdk, closed, queue, draining, phase, behind, failed>>

cReviseChannelOrderer(ordering) ==
  /\ config' = [config EXCEPT !.ordering = ordering]
  /\ saveNetworkConfigToFs

cAddOrdererInChannel(c, x) ==
  /\ Call /\ c \in config.channels /\ x \in config.orderers
  /\ <<c, x>> \notin config.ordering
  /\ cReviseChannelOrderer(config.ordering \cup {<<c, x>>})
  /\ Waits(Task("addOrderer", {c}, {}, {}, x))
  /\ Quiet

cRemoveOrdererInChannel(c, x) ==
  /\ Call /\ x \in config.orderers /\ <<c, x>> \in config.ordering
  /\ cReviseChannelOrderer(config.ordering \ {<<c, x>>})
  /\ Waits(Task("removeOrdererIn", {c}, {}, {}, x))
  /\ Quiet

-------------------------------------------------------------------------------
(* The continuations. *)

Run(kind) == queue # <<>> /\ Head(queue).kind = kind
Ends == queue' = Tail(queue)
GoesOnWith(t) == queue' = Append(Tail(queue), t)
ItsChannel == CHOOSE c \in Head(queue).channels : TRUE

\* The continuation of cAddOrgInChannel and of cRemovePeerInChannel.
EmitChannelRevise ==
  /\ Run("revise") /\ Ends
  /\ \E some \in SUBSET Peer :
       Outcome(ChannelRevised(Calm(sdk), config, ItsChannel, some))
  /\ UNCHANGED <<config, file, careless>>

EmitOrdererEvent ==
  /\ Run("addOrderer") \/ Run("removeOrdererIn")
  /\ Ends
  /\ LET x == Head(queue).orderer
         s == IF Run("addOrderer") THEN OrdererAdded(Calm(sdk), config, ItsChannel, x)
              ELSE OrdererRemoved(Calm(sdk), config, {ItsChannel}, x)
     IN  sdk' = Calm(s) /\ failed' = failed \cup s.bad
  /\ UNCHANGED <<config, file, careless, behind>>

AddChannelOrgs ==
  LET t == Head(queue)
  IN  /\ Run("addChannel")
      /\ cReviseOrgInChannel(ItsChannel, t.orgs, t.peers)
      /\ GoesOnWith([t EXCEPT !.kind = "channelAdded"])
      /\ UNCHANGED <<sdk, behind, failed>>

EmitChannelAdd ==
  /\ Run("channelAdded") /\ Ends
  /\ \E some \in SUBSET Peer :
       Outcome(ChannelAdded(Calm(sdk), config, ItsChannel, some))
  /\ UNCHANGED <<config, file, careless>>

\* The events of the channels a peer was removed from.  They are continuations of
\* their own: one that throws leaves the others, but not the removal, to follow.
EachRevised(order, some) ==
  LET s[i \in 0..Len(order)] ==
        IF i = 0 THEN Calm(sdk)
        ELSE ChannelRevised(Afresh(s[i - 1]), config, order[i], some)
  IN  s[Len(order)]

EmitPeerRemoved ==
  LET t == Head(queue)
  IN  /\ Run("removePeer")
      /\ IF myOrgIndex \in t.orgs
         THEN \E order \in SetToSeqs(t.channels), some \in SUBSET Peer :
                LET s == EachRevised(order, some)
                IN  Outcome(s) /\ IF s.bad # {} THEN Ends ELSE GoesOnWith([t EXCEPT !.kind = "peerGone"])
         ELSE GoesOnWith([t EXCEPT !.kind = "peerGone"]) /\ UNCHANGED <<sdk, behind, failed>>
      /\ UNCHANGED <<config, file, careless>>

\* n-remove-peer disconnects and forgets the hub of a peer of the gateway's own.
PeerGone ==
  LET t == Head(queue)
      gone == IF myOrgIndex \in t.orgs THEN t.peers ELSE {}
  IN  /\ Run("peerGone") /\ Ends
      /\ sdk' = [sdk EXCEPT !.hubs = @ \ gone, !.on = [c \in Channel |-> @[c] \ gone]]
      /\ behind' = behind \cup {c \in Channel : sdk.on[c] \cap gone # {}}
      /\ config' = [config EXCEPT !.known = @ \ (t.orgs \X t.peers)]
      /\ saveNetworkConfigToFs
      /\ UNCHANGED <<careless, failed>>

OrgGone ==
  LET t == Head(queue)
  IN  /\ Run("orgGone") /\ Ends
      /\ config' = [config EXCEPT !.orgs = @ \ t.orgs, !.known = @ \ (t.orgs \X Peer)]
      /\ saveNetworkConfigToFs
      /\ UNCHANGED <<sdk, careless, behind, failed>>

\* As EmitPeerRemoved; the removal follows in a continuation of its own.
EmitOrderersRemoved ==
  LET t == Head(queue)
      s == OrdererRemoved(Calm(sdk), config, t.channels, t.orderer)
  IN  /\ Run("removeOrderer")
      /\ sdk' = Calm(s)
      /\ failed' = failed \cup s.bad
      /\ IF s.bad # {} THEN Ends ELSE GoesOnWith([t EXCEPT !.kind = "ordererGone"])
      /\ UNCHANGED <<config, file, careless, behind>>

OrdererGone ==
  LET x == Head(queue).orderer
  IN  /\ Run("ordererGone") /\ Ends
      /\ config' = [config EXCEPT !.orderers = @ \ {x}]
      /\ saveNetworkConfigToFs
      /\ behind' = behind \cup {c \in Channel : <<c, x>> \in config.ordering}
      /\ UNCHANGED <<sdk, careless, failed>>

Continue ==
  /\ \/ EmitChannelRevise \/ EmitOrdererEvent \/ AddChannelOrgs \/ EmitChannelAdd
     \/ EmitPeerRemoved \/ PeerGone \/ OrgGone \/ EmitOrderersRemoved \/ OrdererGone
  /\ draining' = (queue' # <<>>)
  /\ closed' = closed \cap sdk'.hubs
  /\ UNCHANGED <<phase, count>>

-------------------------------------------------------------------------------
(* The start of the gateway, and its event hubs. *)

Loaded(g) ==
  [object |-> [c \in Channel |-> IF c \in g.channels THEN Built(g, c) ELSE None],
   hubs |-> {}, slots |-> [c \in Channel |-> None], on |-> [c \in Channel |-> {}],
   threw |-> FALSE, reached |-> {}, bad |-> {}]

Init ==
  /\ config = Initial /\ file = Initial
  /\ sdk = Loaded(Initial) /\ closed = {}
  /\ queue = <<>> /\ draining = FALSE
  /\ phase = "loaded"
  /\ careless = {} /\ behind = {} /\ failed = {}
  /\ count = [k \in DOMAIN Bounds |-> 0]

ListensToAll(order, some) ==
  LET s[i \in 0..Len(order)] ==
        IF i = 0 THEN Calm(sdk)
        ELSE channelInitAndListenConfig(s[i - 1], config, order[i], some)
  IN  s[Len(order)]

\* init, when the administrator is enrolled; requests are answered before that.
\* A channel that listens already listens twice, the first time for ever.
init ==
  /\ phase = "loaded" /\ ~draining /\ phase' = "ready"
  /\ \E order \in SetToSeqs(config.channels), some \in SUBSET Peer :
       LET s == ListensToAll(order, some)
       IN  /\ sdk' = Calm(s)
           /\ failed' = failed \cup {c \in config.channels : sdk.slots[c] # None}
                               \cup IF s.threw THEN config.channels ELSE {}
  /\ UNCHANGED <<config, file, closed, queue, draining, careless, behind, count>>

HubCloses(p) ==
  /\ ~draining /\ p \in sdk.hubs \ closed /\ Happens("close") /\ closed' = closed \cup {p}
  /\ UNCHANGED <<config, file, sdk, queue, draining, phase, careless, behind, failed>>

\* A hub that is made again is connected.
HubOpens(p) ==
  /\ ~draining /\ p \in closed /\ closed' = closed \ {p}
  /\ UNCHANGED <<config, file, sdk, queue, draining, phase, careless, behind, failed, count>>

\* The gateway starts again from the file: initChannels throws if it names a peer
\* that is not there, and the process does not start.
Crash ==
  /\ phase # "dead" /\ Happens("crash")
  /\ config' = file /\ UNCHANGED file
  /\ sdk' = Loaded(file) /\ closed' = {}
  /\ queue' = <<>> /\ draining' = FALSE
  /\ phase' = IF Loads(file) THEN "loaded" ELSE "dead"
  /\ behind' = {} /\ failed' = {} /\ UNCHANGED careless

-------------------------------------------------------------------------------

NetworkCall ==
  \/ \E o \in Org, ps \in SUBSET Peer : nAddOrg(o, ps) \/ nAddPeers(o, ps)
  \/ \E o \in Org : nRemoveOrg(o)
  \/ \E o \in Org, p \in Peer : nRemovePeer(o, p)
  \/ \E x \in Orderer : nAddOrderer(x) \/ nRemoveOrderer(x)
  \/ nReviseAttribute

ChannelCall ==
  \E c \in Channel :
    \/ \E xs \in SUBSET Orderer, os \in SUBSET Org, ps \in SUBSET Peer :
         cAddChannel(c, xs, os, ps)
    \/ \E o \in Org, ps \in SUBSET Peer : cAddOrgInChannel(c, o, ps)
    \/ \E o \in Org : cRemoveOrgInChannel(c, o)
    \/ \E o \in Org, p \in Peer :
         cAddPeerInChannel(c, o, p) \/ cRemovePeerInChannel(c, o, p)
         \/ cChangePeerTypeChannel(c, o, p)
    \/ \E x \in Orderer : cAddOrdererInChannel(c, x) \/ cRemoveOrdererInChannel(c, x)

Next ==
  \/ NetworkCall \/ ChannelCall \/ Continue
  \/ init \/ Crash
  \/ \E p \in Peer : HubCloses(p) \/ HubOpens(p)

Spec == Init /\ [][Next]_vars

-------------------------------------------------------------------------------
(* Properties *)

TypeOK ==
  /\ config \in Config /\ file \in Config
  /\ \A c \in Channel :
       /\ sdk.object[c] = None \/ (/\ sdk.object[c].peers \subseteq Org \X Peer
                                   /\ sdk.object[c].orderers \subseteq Orderer)
       /\ sdk.slots[c] = None \/ sdk.slots[c] \subseteq Peer
       /\ sdk.on[c] \subseteq sdk.hubs
  /\ sdk.hubs \subseteq Peer /\ closed \subseteq sdk.hubs
  /\ draining \in BOOLEAN /\ (draining => queue # <<>>)
  /\ phase \in {"loaded", "ready", "dead"}
  /\ careless \subseteq Channel \X Org \X Peer
  /\ behind \subseteq Channel /\ failed \subseteq Channel
  /\ \A k \in DOMAIN Bounds : count[k] \in 0..Bounds[k]

\* The file is what a restart makes of the configuration: every change is in it at the
\* end of the call or the continuation that makes it, and all that can come back is
\* an organisation, with its peers, that was taken out of a channel.
FileFollows ==
  /\ file = [config EXCEPT !.members = file.members, !.peers = file.peers]
  /\ config.members \subseteq file.members /\ config.peers \subseteq file.peers
  /\ \A x \in file.peers \ config.peers : <<x[1], x[2]>> \in file.members \ config.members

\* The gateway can be started from its file at any time, whatever is removed from
\* the network: only a peer that was put into a channel when it was not in the
\* network, or when its removal had begun, keeps it from starting.
Starts ==
  \A x \in file.peers : <<x[2], x[3]>> \in file.known \/ x \in careless

\* When no continuation waits, the channel object and the listeners of a channel are
\* those of its configuration, whatever was changed in whatever order.  Behind are
\* channels whose last change came without an event, or after it, or before the
\* object was there; failed are those whose handler threw, or that were added before
\* init.
ObjectsFollow ==
  queue = <<>> /\ phase # "dead" =>
    \A c \in config.channels \ (behind \cup failed) :
      /\ sdk.object[c] = Built(config, c)
      /\ phase = "ready" => sdk.on[c] = OwnPeersOf(config, c)
===============================================================================
