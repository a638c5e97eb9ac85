--------------------------- MODULE ChannelOperations ---------------------------
(***************************************************************************)
(* Operations on channels, hyperledgerUtil/channelAPI.js: createChannel,   *)
(* joinChannel, updateChannel and the controller's addOrg, side by side.   *)
(*                                                                         *)
(* They share the SDK's client and its one user context, which every       *)
(* request sets, and sign with whatever it holds when they come to it.     *)
(* What happens within one turn of the event loop is one step.             *)
(***************************************************************************)
EXTENDS FiniteSets, Naturals

CONSTANTS
  Op,          (* Requests.                                                *)
  Name,        (* Names of users.                                          *)
  None,        (* JavaScript's undefined.                                  *)
  Channel,
  Peer,        (* The organisation's peers in the channels.                *)
  FirstKnown,  (* The configuration's channels at the start.               *)
  FirstCreated (* The orderer's channels at the start.                     *)

VARIABLES
  users,       (* Of user.js: the object of each name.                     *)
  context,     (* client._userContext.                                     *)
  ops,         (* ops[o]: the request, and what it waits for.              *)
  signers,     (* signers[o]: the objects that signed for it.              *)
  known,       (* The channels of the configuration.                       *)
  created,     (* The orderer's channels.                                  *)
  joined,      (* joined[c]: the peers that have the channel's ledger.     *)
  hubs         (* hubs[o]: the peers with a hub that joinChannel opened.   *)

opVars == <<ops, signers, known, created, joined, hubs>>
vars == <<opVars, users, context>>

(***************************************************************************)
(* json, database, config: createChannel waits for the configuration tool, *)
(* updateChannel for the sign request, addOrg for the configuration.       *)
(* ordering, updating, genesis: the orderer.  decode: the tool again.      *)
(* joining: the peers and their events.  hung: nothing will answer.        *)
(***************************************************************************)
Step == {"idle", "json", "database", "config", "ordering", "updating", "genesis", "decode",
         "joining", "hung", "success", "failed"}
Kind == {"create", "update", "addOrg", "join"}
Idle == [kind |-> "create", step |-> "idle", name |-> None, user |-> None, channel |-> None,
         json |-> FALSE, have |-> FALSE, targets |-> {}, took |-> {}, left |-> {}, sent |-> FALSE,
         tx |-> None]

Record ==
  [kind : Kind, step : Step, name : Name \cup {None}, user : Name \cup {None},
   channel : Channel \cup {None}, json : BOOLEAN, have : BOOLEAN,
   targets : SUBSET Peer, took : SUBSET Peer, left : SUBSET Peer, sent : BOOLEAN,
   tx : Name \cup {None}]

TypeOK ==
  /\ context \in Name \cup {None}
  /\ ops \in [Op -> Record]
  /\ signers \in [Op -> SUBSET Name]
  /\ known \subseteq Channel /\ created \subseteq Channel
  /\ joined \in [Channel -> SUBSET Peer]
  /\ hubs \in [Op -> SUBSET Peer]

Init ==
  /\ ops = [o \in Op |-> Idle] /\ signers = [o \in Op |-> {}]
  /\ known = FirstKnown /\ created = FirstCreated
  /\ joined = [c \in Channel |-> {}] /\ hubs = [o \in Op |-> {}]

To(o, step) == ops' = [ops EXCEPT ![o].step = step]

\* The controller has checked the password; getUser throws when there is no object.
Starts(o, n) == ops[o].step = "idle" /\ users[n] # None
Request(kind, step, n, c) ==
  [Idle EXCEPT !.kind = kind, !.step = step, !.name = n, !.user = users[n], !.channel = c]

Signs(o, u) == signers' = [signers EXCEPT ![o] = @ \cup {u}]

\* A request that is not one of these sets the context, and signs at once.
OtherRequest(n) ==
  /\ users[n] # None /\ context' = users[n]
  /\ UNCHANGED <<users, opVars>>

-------------------------------------------------------------------------------
(* createChannel *)

createChannel(o, n, c, json) ==
  /\ Starts(o, n) /\ context' = users[n]
  /\ ops' = [ops EXCEPT ![o] =
       [Request("create", IF json THEN "json" ELSE "ordering", n, c)
          EXCEPT !.json = json, !.have = c \in known]]
  /\ IF json THEN UNCHANGED signers ELSE Signs(o, users[n])
  /\ UNCHANGED <<users, known, created, joined, hubs>>

\* The tool's answer is signed with the context that the client has by then.
JsonMade(o) ==
  /\ ops[o].step = "json"
  /\ IF context = None THEN To(o, "failed") /\ UNCHANGED signers
     ELSE /\ ops' = [ops EXCEPT ![o].step = "ordering", ![o].have = ops[o].channel \in known]
          /\ Signs(o, context)
  /\ UNCHANGED <<users, context, known, created, joined, hubs>>

\* Nothing is told when the tool fails, or when the request lacks what it needs.
JsonNotMade(o) ==
  /\ ops[o].step = "json" /\ To(o, "hung")
  /\ UNCHANGED <<users, context, signers, known, created, joined, hubs>>

\* A channel that the configuration does not have yet is added to it.
Ordered_AlwaysDone(o) ==
  /\ ops[o].step = "ordering"
  /\ created' = created \cup {ops[o].channel} /\ To(o, "success")
  /\ UNCHANGED <<users, context, signers, known, joined, hubs>>

Ordered(o) ==
  /\ ops[o].step = "ordering"
  /\ \/ /\ ops[o].channel \notin created
        /\ created' = created \cup {ops[o].channel}
        /\ To(o, IF ops[o].have THEN "success" ELSE "decode")
     \/ To(o, "failed") /\ UNCHANGED created
  /\ UNCHANGED <<users, context, signers, known, joined, hubs>>

\* cAddChannel throws when the channel has come meanwhile.
AddChannelByConfigUpdate(o) ==
  /\ ops[o].step = "decode"
  /\ \/ ops[o].channel \notin known /\ known' = known \cup {ops[o].channel} /\ To(o, "success")
     \/ To(o, "failed") /\ UNCHANGED known
  /\ UNCHANGED <<users, context, signers, created, joined, hubs>>

-------------------------------------------------------------------------------
(* updateChannel *)

\* From a file or a buffer, it is signed at once; a sign request is read first.
updateChannel(o, n, c, signRequest) ==
  /\ Starts(o, n) /\ c \in known
  /\ ops' = [ops EXCEPT ![o] = Request("update", IF signRequest THEN "database" ELSE "updating", n, c)]
  /\ IF signRequest THEN UNCHANGED <<context, signers>>
     ELSE context' = users[n] /\ Signs(o, users[n])
  /\ UNCHANGED <<users, known, created, joined, hubs>>

SignRequestRead_KeepsContext(o) ==
  /\ ops[o].step = "database" /\ context # None
  /\ \/ To(o, "updating") /\ Signs(o, context)
     \/ To(o, "failed") /\ UNCHANGED signers
  /\ UNCHANGED <<users, context, known, created, joined, hubs>>

SignRequestRead(o) ==
  /\ ops[o].step = "database"
  /\ \/ context' = ops[o].user /\ To(o, "updating") /\ Signs(o, ops[o].user)
     \/ To(o, "failed") /\ UNCHANGED <<context, signers>>
  /\ UNCHANGED <<users, known, created, joined, hubs>>

Updated(o) ==
  /\ ops[o].step = "updating" /\ \E step \in {"success", "failed"} : To(o, step)
  /\ UNCHANGED <<users, context, signers, known, created, joined, hubs>>

addOrg(o, n, c) ==
  /\ Starts(o, n) /\ c \in known
  /\ ops' = [ops EXCEPT ![o] = Request("addOrg", "config", n, c)]
  /\ context' = users[n] /\ Signs(o, users[n])
  /\ UNCHANGED <<users, known, created, joined, hubs>>

\* The controller leaves out an argument of updateChannel: the user is undefined, and
\* so is the client's context then.  With notSend there is no update.
ConfigRead(o) ==
  /\ ops[o].step = "config"
  /\ \/ context' = None /\ To(o, "failed")
     \/ UNCHANGED context /\ \E step \in {"success", "failed"} : To(o, step)
  /\ UNCHANGED <<users, signers, known, created, joined, hubs>>

-------------------------------------------------------------------------------
(* joinChannel *)

joinChannel(o, n, c, targets) ==
  /\ Starts(o, n) /\ c \in known
  /\ ops' = [ops EXCEPT ![o] = [Request("join", "genesis", n, c) EXCEPT !.targets = targets]]
  /\ context' = users[n] /\ Signs(o, users[n])
  /\ UNCHANGED <<users, known, created, joined, hubs>>

\* The transaction's id is made with the context of the moment, the hubs and the
\* proposal with the caller's.
GenesisRead(o) ==
  /\ ops[o].step = "genesis"
  /\ \/ /\ ops[o].channel \in created /\ context # None
        /\ ops' = [ops EXCEPT ![o].step = "joining", ![o].left = ops[o].targets, ![o].tx = context]
        /\ hubs' = [hubs EXCEPT ![o] = ops[o].targets]
        /\ context' = ops[o].user /\ Signs(o, ops[o].user)
     \/ To(o, "failed") /\ UNCHANGED <<context, signers, hubs>>
  /\ UNCHANGED <<users, known, created, joined>>

\* A peer refuses an id that is not its creator's, and a channel that it has.
Joins(o, p) ==
  /\ ops[o].step = "joining" /\ ~ops[o].sent /\ p \in ops[o].targets \ joined[ops[o].channel]
  /\ ops[o].tx = ops[o].user
  /\ joined' = [joined EXCEPT ![ops[o].channel] = @ \cup {p}]
  /\ ops' = [ops EXCEPT ![o].took = @ \cup {p}]
  /\ UNCHANGED <<users, context, signers, known, created, hubs>>

\* Promise.all: all peers have answered well, and all events have come.
JoinDone(o) == ops[o].sent /\ ops[o].left = {}

Proposed(o) ==
  /\ ops[o].step = "joining" /\ ~ops[o].sent
  /\ \/ ops[o].took = ops[o].targets /\ ops' = [ops EXCEPT ![o].sent = TRUE]
     \/ To(o, "failed")
  /\ UNCHANGED <<users, context, signers, known, created, joined, hubs>>

\* The first block of the channel.
BlockCame_Race(o, p) ==
  /\ ops[o].step = "joining" /\ p \in ops[o].left \cap joined[ops[o].channel]
  /\ ops' = [ops EXCEPT ![o].left = {}, ![o].sent = TRUE]
  /\ UNCHANGED <<users, context, signers, known, created, joined, hubs>>

BlockCame(o, p) ==
  /\ ops[o].step = "joining" /\ p \in ops[o].left \cap joined[ops[o].channel]
  /\ ops' = [ops EXCEPT ![o].left = @ \ {p}]
  /\ UNCHANGED <<users, context, signers, known, created, joined, hubs>>

\* A block of another channel, or the timer: the hubs stay open.
OtherBlockOrTimeout(o) ==
  /\ ops[o].step = "joining" /\ ops[o].left # {} /\ To(o, "failed")
  /\ UNCHANGED <<users, context, signers, known, created, joined, hubs>>

Joined(o) ==
  /\ ops[o].step = "joining" /\ JoinDone(o)
  /\ To(o, "success") /\ hubs' = [hubs EXCEPT ![o] = {}]
  /\ UNCHANGED <<users, context, signers, known, created, joined>>

-------------------------------------------------------------------------------

\* The process ends; what others keep stays.
Restart ==
  /\ ops' = [o \in Op |-> IF ops[o].step \in {"idle", "success", "failed"} THEN ops[o]
                          ELSE [ops[o] EXCEPT !.step = "failed"]]
  /\ signers' = [o \in Op |-> {}] /\ hubs' = [o \in Op |-> {}]
  /\ UNCHANGED <<known, created, joined>>

Answer(o) ==
  \/ JsonMade(o) \/ JsonNotMade(o) \/ Ordered(o) \/ AddChannelByConfigUpdate(o)
  \/ SignRequestRead(o) \/ Updated(o) \/ ConfigRead(o)
  \/ GenesisRead(o) \/ Proposed(o) \/ OtherBlockOrTimeout(o) \/ Joined(o)
  \/ \E p \in Peer : Joins(o, p) \/ BlockCame(o, p)

Next ==
  \/ \E o \in Op, n \in Name, c \in Channel :
       \/ \E b \in BOOLEAN : createChannel(o, n, c, b) \/ updateChannel(o, n, c, b)
       \/ addOrg(o, n, c)
       \/ \E T \in {{p} : p \in Peer} \cup {Peer} : joinChannel(o, n, c, T)
  \/ \E n \in Name : OtherRequest(n)
  \/ \E o \in Op : Answer(o)

-------------------------------------------------------------------------------
(* Properties *)

\* A success was one: a created channel is there and is in the configuration, a joined
\* channel is at every peer that was asked, under an id of the caller's, and no hub
\* is left open.
SuccessIsDone ==
  \A o \in Op : ops[o].step = "success" =>
    /\ ops[o].kind = "create" => ops[o].channel \in created \cap known
    /\ ops[o].kind = "join" =>
         /\ ops[o].targets \subseteq joined[ops[o].channel]
         /\ ops[o].tx = ops[o].user /\ hubs[o] = {}
===============================================================================
