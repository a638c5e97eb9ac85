------------------------------- MODULE EventHub --------------------------------
(***************************************************************************)
(* The event hub of one peer, hyperledgerUtil/eventHub.js: the URLs that   *)
(* are sent its blocks, through lost streams, a peer that goes and comes   *)
(* back, changes of the configuration and restarts of the gateway.         *)
(*                                                                         *)
(* The SDK's hub keeps callbacks in tables under numbers it gives out.     *)
(* When its stream is lost it calls the error callbacks, of which the      *)
(* gateway's own one copies the tables aside, and then clears the tables.  *)
(* Once a second reconnectHandler compares the peer's state with what it   *)
(* was: a peer that came back gets the copied tables and is connected      *)
(* again; a hub of a peer that stayed is connected if it is not.           *)
(*                                                                         *)
(* Chaincode events differ only in the SDK's table they are kept in.       *)
(***************************************************************************)
EXTENDS Naturals, Sequences, SequencesExt

CONSTANTS
  Url,
  NaN,           (* JavaScript's undefined++.                              *)
  MaxUses,       (* Bound: calls of the register and unregister APIs.      *)
  MaxOutages,    (* Bound: times the peer goes away.                       *)
  MaxLost,       (* Bound: times the hub's stream is lost.                 *)
  MaxChanges,    (* Bound: changes of the administrator or of the peer.    *)
  MaxFailures,   (* Bound: writes that the database refuses.               *)
  MaxCrashes     (* Bound: crashes of the gateway.                         *)

ASSUME EventHubAssumption == NaN \notin Nat

VARIABLES
  hub,         (* peersEventHub[peer].eh, the SDK's object.                *)
  saved,       (* callbackSet: {} until something is copied.               *)
  alive,       (* peersEventHub[peer].alive: the state at the last tick.   *)
  timers,      (* Delayed connects of reconnectHandler.                    *)
  registered,  (* eventReturnMap: the numbers URLs are registered under.   *)
  rows,        (* The database's URLs, oldest first.                       *)
  writes,      (* Creations and removals of rows under way, oldest first.  *)
  strayed,     (* URLs of which a write failed or came too early: see below. *)
  resuming,    (* The gateway started and has not read the rows yet.       *)
  state,       (* peerAliveState of the peer, kept by peers.js.            *)
  up,          (* Whether the peer answers.                                *)
  disturbed,   (* Something went wrong since the start: see below.         *)
  count        (* How often what is bounded has happened.                  *)

vars == <<hub, saved, alive, timers, registered, rows, writes, strayed, resuming, state, up,
          disturbed, count>>

Kinds == [use |-> MaxUses, outage |-> MaxOutages, lost |-> MaxLost,
          change |-> MaxChanges, failure |-> MaxFailures, crash |-> MaxCrashes]
Happens(kind) == count[kind] < Kinds[kind] /\ count' = [count EXCEPT ![kind] = @ + 1]

Table == SUBSET ((Nat \cup {NaN}) \X Url)
Hub == [made : BOOLEAN, open : BOOLEAN, there : BOOLEAN, table : Table, notify : BOOLEAN,
        next : Nat \cup {NaN}, shared : BOOLEAN]
Copy == [there : BOOLEAN, table : Table, notify : BOOLEAN, next : Nat \cup {NaN}]
Write == [op : {"create", "remove"}, url : Url]

Absent == [made |-> FALSE, open |-> FALSE, there |-> TRUE, table |-> {}, notify |-> FALSE,
           next |-> 1, shared |-> FALSE]

(***************************************************************************)
(* table: pairs of a number and the URL whose callback is under it.        *)
(* there: the tables are objects, and not undefined.                       *)
(* notify: the gateway's error callback is in the hub's table.             *)
(* next: _block_registrant_count.  shared: the hub's tables are the very   *)
(* objects that callbackSet refers to.                                     *)
(***************************************************************************)
TypeOK ==
  /\ hub \in Hub /\ saved \subseteq Copy /\ \A s, t \in saved : s = t
  /\ alive \in BOOLEAN /\ state \in BOOLEAN /\ up \in BOOLEAN
  /\ timers \in Nat
  /\ registered \subseteq Nat \X Url
  /\ rows \in Seq(Url) /\ writes \in Seq(Write) /\ strayed \subseteq Url
  /\ resuming \in BOOLEAN /\ disturbed \in BOOLEAN
  /\ count \in [DOMAIN Kinds -> Nat]

Init ==
  /\ hub = Absent /\ saved = {} /\ alive = FALSE /\ timers = 0
  /\ registered = {}
  /\ rows = <<>> /\ writes = <<>> /\ strayed = {} /\ resuming = TRUE
  /\ state = FALSE /\ up = TRUE
  /\ disturbed = FALSE
  /\ count = [k \in DOMAIN Kinds |-> 0]

-------------------------------------------------------------------------------
(* The hub. *)

\* getOrNewEventHubObjFromMap: connected, with the gateway's error callback.
New == [Absent EXCEPT !.made = TRUE, !.open = TRUE, !.notify = TRUE]
Made == IF hub.made THEN hub ELSE New
MadeSaved == IF hub.made THEN saved ELSE {}
MadeAlive == alive \/ ~hub.made

\* copyCallBackSet copies references.
copyCallBackSet(h) ==
  {[there |-> h.there, table |-> h.table, notify |-> h.notify, next |-> h.next]}

\* resetCallbackSet: what was never copied is undefined.
resetCallbackSet_FreshNumbers(h, set) ==
  IF set = {} THEN [h EXCEPT !.there = FALSE, !.table = {}, !.notify = FALSE, !.next = NaN]
  ELSE LET s == CHOOSE s \in set : TRUE
       IN  [h EXCEPT !.there = s.there, !.table = s.table, !.notify = s.notify,
                     !.next = 1, !.shared = TRUE]

resetCallbackSet(h, set) ==
  IF set = {} THEN [h EXCEPT !.there = FALSE, !.table = {}, !.notify = FALSE, !.next = NaN]
  ELSE LET s == CHOOSE s \in set : TRUE
       IN  [h EXCEPT !.there = s.there, !.table = s.table, !.notify = s.notify,
                     !.next = s.next, !.shared = TRUE]

\* The SDK calls the error callbacks, then clears the tables.
Disconnected(h) ==
  [h EXCEPT !.open = FALSE, !.there = TRUE, !.table = {}, !.notify = FALSE, !.shared = FALSE]
SavedByError(h, set) == IF h.notify THEN copyCallBackSet(h) ELSE set

connect(h) == [h EXCEPT !.open = TRUE]

\* A change of a table that callbackSet refers to shows there too.
WithTable(h, t, set) ==
  IF h.shared THEN {[s EXCEPT !.table = t] : s \in set} ELSE set

\* A table without the numbers of others, and with others in their place.
Without(t, others) == {p \in t : \A q \in others : p[1] # q[1]}
Put(t, others) == Without(t, others) \cup others

IsRegistered(url) == \E p \in registered : p[2] = url

-------------------------------------------------------------------------------
(* Registration. *)

Refused(url) == IsRegistered(url) \/ ~Made.open \/ ~Made.there

Register_WritesAlways(url, write) ==
  /\ alive' = MadeAlive
  /\ writes' = writes \o write
  /\ IF Refused(url)
     THEN hub' = Made /\ saved' = MadeSaved /\ UNCHANGED registered
     ELSE LET t == Put(Made.table, {<<Made.next, url>>})
          IN  /\ hub' = [Made EXCEPT !.table = t, !.next = IF @ = NaN THEN NaN ELSE @ + 1]
              /\ saved' = WithTable(Made, t, MadeSaved)
              /\ registered' = IF Made.next = NaN THEN registered
                               ELSE registered \cup {<<Made.next, url>>}

\* The hub is made if it must be.  A URL that is registered, a hub that is not
\* connected and tables that are not there are errors.  The number NaN counts as
\* not registered.
Register(url, write) ==
  /\ alive' = MadeAlive
  /\ IF Refused(url)
     THEN hub' = Made /\ saved' = MadeSaved /\ UNCHANGED <<registered, writes>>
     ELSE LET t == Put(Made.table, {<<Made.next, url>>})
          IN  /\ hub' = [Made EXCEPT !.table = t, !.next = IF @ = NaN THEN NaN ELSE @ + 1]
              /\ saved' = WithTable(Made, t, MadeSaved)
              /\ registered' = IF Made.next = NaN THEN registered
                               ELSE registered \cup {<<Made.next, url>>}
              /\ writes' = writes \o write

registerEventToUrl(url) ==
  /\ Happens("use")
  /\ Register(url, <<[op |-> "create", url |-> url]>>)
  /\ UNCHANGED <<timers, rows, strayed, resuming, state, up, disturbed>>

unregisterEventToUrl(url) ==
  /\ Happens("use")
  /\ alive' = MadeAlive
  /\ IF ~IsRegistered(url) \/ ~Made.there
     THEN hub' = Made /\ saved' = MadeSaved /\ UNCHANGED <<registered, writes, disturbed>>
     ELSE LET its == {p \in registered : p[2] = url}
              t == Without(Made.table, its)
          IN  /\ hub' = [Made EXCEPT !.table = t]
              /\ saved' = WithTable(Made, t, MadeSaved)
              /\ registered' = registered \ its
              /\ writes' = Append(writes, [op |-> "remove", url |-> url])
              \* The tables are cleared: the URL is in the copy only.
              /\ disturbed' = (disturbed \/ ~Made.notify)
  /\ UNCHANGED <<timers, rows, strayed, resuming, state, up>>

\* rest[i]: what is left of the first i rows.
Remaining(us, url) ==
  LET rest[i \in 0..Len(us)] ==
        IF i = 0 THEN <<>>
        ELSE IF us[i] = url THEN rest[i - 1] ELSE Append(rest[i - 1], us[i])
  IN  rest[Len(us)]

Written(w) ==
  IF w.op = "create" THEN Append(rows, w.url) ELSE Remaining(rows, w.url)

\* Nobody waits for a write, and the driver sends them over a pool of connections: any
\* may be done next.  strayed: a later write of a URL came before an earlier one.
WriteDone == \E i \in 1..Len(writes) :
  /\ rows' = Written(writes[i]) /\ writes' = RemoveAt(writes, i)
  /\ strayed' = strayed \cup {writes[j].url : j \in {j \in 1..i - 1 : writes[j].url = writes[i].url}}
  /\ UNCHANGED <<hub, saved, alive, timers, registered, resuming, state, up, disturbed, count>>

\* Nobody catches it: what is in memory stays.
WriteFails == \E i \in 1..Len(writes) :
  /\ Happens("failure")
  /\ writes' = RemoveAt(writes, i) /\ strayed' = strayed \cup {writes[i].url}
  /\ UNCHANGED <<hub, saved, alive, timers, registered, rows, resuming, state, up, disturbed>>

(***************************************************************************)
(* resumeEventHubFromEventDbForUrl registers the rows one after another,   *)
(* up to one that is an error.                                             *)
(***************************************************************************)
Resumed(k) == {<<Made.next + i - 1, rows[i]>> : i \in 1..k}

Resumable(k) ==
  /\ \A i, j \in 1..k : rows[i] = rows[j] => i = j
  /\ \A i \in 1..k : ~IsRegistered(rows[i])
  /\ k > 0 => Made.open /\ Made.there /\ Made.next # NaN

Resume ==
  /\ resuming /\ resuming' = FALSE
  /\ \E k \in 0..Len(rows) :
       LET t == Put(Made.table, Resumed(k))
       IN  /\ Resumable(k) /\ (k < Len(rows) => ~Resumable(k + 1))
           /\ IF rows = <<>> THEN UNCHANGED <<hub, saved, alive, registered>>
              ELSE IF k = 0
              THEN alive' = MadeAlive /\ hub' = Made /\ saved' = MadeSaved /\ UNCHANGED registered
              ELSE /\ alive' = MadeAlive
                   /\ hub' = [Made EXCEPT !.table = t, !.next = @ + k]
                   /\ saved' = WithTable(Made, t, MadeSaved)
                   /\ registered' = registered \cup Resumed(k)
           /\ disturbed' = (disturbed \/ k < Len(rows) \/ \E w \in ToSet(writes) : w.op = "remove")
  /\ UNCHANGED <<timers, rows, writes, strayed, state, up, count>>

-------------------------------------------------------------------------------
(* The connection. *)

LoseStream ==
  /\ hub.open /\ Happens("lost")
  /\ hub' = Disconnected(hub) /\ saved' = SavedByError(hub, saved)
  /\ UNCHANGED <<alive, timers, registered, rows, writes, strayed, resuming, state, up, disturbed>>

PeerGoes ==
  /\ up /\ Happens("outage") /\ up' = FALSE
  /\ UNCHANGED <<hub, saved, alive, timers, registered, rows, writes, strayed, resuming, state, disturbed>>

PeerReturns ==
  /\ ~up /\ up' = TRUE
  /\ UNCHANGED <<hub, saved, alive, timers, registered, rows, writes, strayed, resuming, state, disturbed, count>>

\* peers.js, once a second.
checkAllAliveStatue ==
  /\ state' = up
  /\ UNCHANGED <<hub, saved, alive, timers, registered, rows, writes, strayed, resuming, up, disturbed, count>>

\* The tables are intact when the gateway's error callback is among them.
Reconnect ==
  /\ state /\ ~alive
  /\ hub' = resetCallbackSet(hub, saved)
  /\ timers' = timers + 1
  /\ disturbed' = (disturbed \/ hub.notify)

CheckConnection ==
  /\ state /\ alive
  /\ hub' = connect(hub)
  /\ disturbed' = (disturbed \/ (~hub.open /\ ~hub.notify))
  /\ UNCHANGED timers

reconnectHandler_NoCheck ==
  /\ hub.made
  /\ \/ Reconnect
     \/ ~(state /\ ~alive) /\ UNCHANGED <<hub, timers, disturbed>>
  /\ alive' = state
  /\ UNCHANGED <<saved, registered, rows, writes, strayed, resuming, state, up, count>>

reconnectHandler ==
  /\ hub.made
  /\ \/ Reconnect \/ CheckConnection
     \/ ~state /\ UNCHANGED <<hub, timers, disturbed>>
  /\ alive' = state
  /\ UNCHANGED <<saved, registered, rows, writes, strayed, resuming, state, up, count>>

DelayedConnect ==
  /\ timers > 0 /\ hub.made
  /\ timers' = timers - 1
  /\ hub' = connect(hub)
  /\ disturbed' = (disturbed \/ (~hub.open /\ ~hub.notify))
  /\ UNCHANGED <<saved, alive, registered, rows, writes, strayed, resuming, state, up, count>>

-------------------------------------------------------------------------------
(* The configuration, and crashes. *)

\* admin-changed and n-peer-revise: copy, disconnect, reset, connect.
AdminChanged ==
  /\ hub.made /\ Happens("change")
  /\ saved' = SavedByError(hub, copyCallBackSet(hub))
  /\ hub' = connect(resetCallbackSet(Disconnected(hub), copyCallBackSet(hub)))
  \* Of a hub that has lost its stream the cleared tables are copied.
  /\ disturbed' = (disturbed \/ ~hub.notify)
  /\ UNCHANGED <<alive, timers, registered, rows, writes, strayed, resuming, state, up>>

\* n-remove-peer forgets the hub, not what was registered with it.
RemovePeer ==
  /\ hub.made /\ Happens("change")
  /\ hub' = Absent /\ saved' = {} /\ alive' = FALSE
  /\ disturbed' = (disturbed \/ registered # {})
  /\ UNCHANGED <<timers, registered, rows, writes, strayed, resuming, state, up>>

\* What was not written yet is lost.
Stop ==
  /\ hub' = Absent /\ saved' = {} /\ alive' = FALSE /\ timers' = 0
  /\ registered' = {}
  /\ writes' = <<>> /\ strayed' = {} /\ resuming' = TRUE
  /\ state' = FALSE
  /\ disturbed' = FALSE
  /\ UNCHANGED <<rows, up>>

Crash == Happens("crash") /\ Stop

\* The delayed connect of a hub that is gone throws where nobody catches.
DelayedConnectFails == timers > 0 /\ ~hub.made /\ Stop /\ UNCHANGED count

Next ==
  \/ \E url \in Url : registerEventToUrl(url) \/ unregisterEventToUrl(url)
  \/ WriteDone \/ WriteFails \/ Resume
  \/ LoseStream \/ PeerGoes \/ PeerReturns \/ checkAllAliveStatue
  \/ reconnectHandler \/ DelayedConnect
  \/ AdminChanged \/ RemovePeer \/ Crash \/ DelayedConnectFails

\* The intervals of peers.js and eventHub.js and the timers go on for ever.
Spec ==
  /\ Init /\ [][Next]_vars
  /\ WF_vars(checkAllAliveStatue) /\ WF_vars(reconnectHandler)
  /\ WF_vars(DelayedConnect) /\ WF_vars(DelayedConnectFails)

-------------------------------------------------------------------------------
(* Properties *)

Delivers == hub.made /\ hub.open
Registered == {p[2] : p \in registered}

\* A connected hub sends blocks to the registered URLs, to each under its own number
\* and to nobody else, through outages the handler notices and changes of the
\* administrator.  It fails only after: a stream lost that no tick saw the peer
\* down for, a peer seen down whose stream was not lost, an unregistration or a
\* change while the stream is lost, a removed peer, and a use of the API before the
\* rows are read that they disagree with.
RegistrationsKept == Delivers /\ ~disturbed => hub.there /\ hub.table = registered

\* Once the rows are read and a URL's writes are done, database and gateway agree on it: if
\* it is registered, and only then, it is resumed after a restart (setEventUrlDb and
\* deleteEventUrlDb, for which nobody waits).  The two may part only over a write that the
\* database refuses, or does before an earlier one of the same URL.
StoreAgrees ==
  ~resuming /\ ~disturbed =>
    \A url \in Url \ strayed :
      (\A i \in 1..Len(writes) : writes[i].url # url) => (url \in ToSet(rows) <=> url \in Registered)

\* If the peer stays, so does the connection to it.
ComesBack == <>[]up => <>[](hub.made => hub.open)
===============================================================================
