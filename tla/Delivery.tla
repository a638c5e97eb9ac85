------------------------------- MODULE Delivery --------------------------------
(***************************************************************************)
(* What a block does that comes to a hub: the callbacks of                 *)
(* registerEventToUrl and sendPayloadToUrl in hyperledgerUtil/eventHub.js, *)
(* and the event history of the database.                                  *)
(*                                                                         *)
(* A block calls the callbacks of the URLs registered for blocks and, for  *)
(* the chaincode events in it, those registered for these.  A callback     *)
(* makes a row of the event history, and when the database has it posts    *)
(* the payload, which it takes from a variable that all callbacks share.   *)
(* resendHandler is not started: a post that fails is not repeated.        *)
(*                                                                         *)
(* A block that the peer commits while the hub's stream is lost calls      *)
(* nobody, and is not one of these; see EventHub.                          *)
(***************************************************************************)
EXTENDS Naturals

CONSTANTS
  Receiver,      (* The URLs that events are posted to.                    *)
  Topic,         (* Blocks, and the names of chaincode events.             *)
  Blocks,        (* The topic of every block.                              *)
  Subscribed,    (* The URLs of each topic.                                *)
  None,          (* JavaScript's undefined.                                *)
  MaxBlocks,     (* Bound: blocks that come to the hub.                    *)
  MaxFaults      (* Bound: failures of the database and restarts.          *)

ASSUME DeliveryAssumption ==
  /\ Blocks \in Topic /\ Subscribed \in [Topic -> SUBSET Receiver]
  /\ MaxBlocks \in Nat /\ MaxFaults \in Nat

VARIABLES
  blocks,      (* How many blocks have come.                               *)
  payloadobj,  (* The variable that the callbacks share.                   *)
  step,        (* What a delivery waits for.                               *)
  posted,      (* What was posted for a delivery.                          *)
  taken,       (* Deliveries whose URL took the post.                      *)
  refused,     (* Deliveries whose URL answered that it does not take it.  *)
  row,         (* The event history.                                       *)
  overtaken,   (* Deliveries during which another callback was called.     *)
  failing,     (* Deliveries that the database or a restart cut short.     *)
  faults

deliveryVars == <<blocks, payloadobj, step, posted, taken, refused, row, overtaken, failing,
                  faults>>

Payload == (1..MaxBlocks) \X Topic
Delivery == {d \in Payload \X Receiver : d[2] \in Subscribed[d[1][2]]}

\* creating, created: the row is under way, is there.  posting: the post is under way.
\* good, bad: it was answered, or went wrong, and the row is being updated.
Step == {"none", "creating", "created", "posting", "good", "bad", "ended"}
Row == [retryTimes : 0..1, success : BOOLEAN]

ASSUME NoneAssumption == None \notin Row

DeliveryTypeOK ==
  /\ blocks \in 0..MaxBlocks
  /\ payloadobj \in Payload \cup {None}
  /\ step \in [Delivery -> Step]
  /\ posted \in [Delivery -> Payload \cup {None}]
  /\ taken \subseteq Delivery /\ refused \subseteq Delivery
  /\ overtaken \subseteq Delivery /\ failing \subseteq Delivery
  /\ row \in [Delivery -> Row \cup {None}]
  /\ faults \in 0..MaxFaults

DeliveryInit ==
  /\ blocks = 0 /\ payloadobj = None
  /\ step = [d \in Delivery |-> "none"] /\ posted = [d \in Delivery |-> None]
  /\ taken = {} /\ refused = {} /\ row = [d \in Delivery |-> None]
  /\ overtaken = {} /\ failing = {} /\ faults = 0

-------------------------------------------------------------------------------

Early == {d \in Delivery : step[d] \in {"creating", "created"}}
Raised(b, topics) == {<<b, t>> : t \in {t \in topics : Subscribed[t] # {}}}
To(d, s) == step' = [step EXCEPT ![d] = s]

\* All callbacks of a block and of its chaincode events are called in one turn, and any
\* may be the last to set payloadobj.
Callbacks_KeepFirst(topics) ==
  LET b == blocks + 1
      now == {d \in Delivery : d[1] \in Raised(b, topics)}
  IN  /\ step' = [d \in Delivery |-> IF d \in now THEN "creating" ELSE step[d]]
      /\ \/ Raised(b, topics) = {} /\ UNCHANGED payloadobj
         \/ \E p \in Raised(b, topics) : payloadobj' = IF payloadobj = None THEN p ELSE payloadobj
      /\ overtaken' = overtaken
           \cup (IF Raised(b, topics) = {} THEN {} ELSE Early)
           \cup (IF \A p, q \in Raised(b, topics) : p = q THEN {} ELSE now)

Callbacks(topics) ==
  LET b == blocks + 1
      now == {d \in Delivery : d[1] \in Raised(b, topics)}
  IN  /\ step' = [d \in Delivery |-> IF d \in now THEN "creating" ELSE step[d]]
      /\ \/ Raised(b, topics) = {} /\ UNCHANGED payloadobj
         \/ \E p \in Raised(b, topics) : payloadobj' = p
      /\ overtaken' = overtaken
           \cup (IF Raised(b, topics) = {} THEN {} ELSE Early)
           \cup (IF \A p, q \in Raised(b, topics) : p = q THEN {} ELSE now)

BlockEvent(topics) ==
  /\ blocks < MaxBlocks /\ blocks' = blocks + 1
  /\ Callbacks(topics)
  /\ UNCHANGED <<posted, taken, refused, row, failing, faults>>

creatEventHistory(d) ==
  /\ step[d] = "creating" /\ To(d, "created")
  /\ row' = [row EXCEPT ![d] = [retryTimes |-> 0, success |-> FALSE]]
  /\ UNCHANGED <<blocks, payloadobj, posted, taken, refused, overtaken, failing, faults>>

\* Nobody catches it: nothing is posted.
NotCreated(d) ==
  /\ step[d] = "creating" /\ To(d, "ended")
  /\ faults < MaxFaults /\ faults' = faults + 1
  /\ failing' = failing \cup {d}
  /\ UNCHANGED <<blocks, payloadobj, posted, taken, refused, row, overtaken>>

sendPayloadToUrl(d) ==
  /\ step[d] = "created" /\ To(d, "posting")
  /\ posted' = [posted EXCEPT ![d] = payloadobj]
  /\ UNCHANGED <<blocks, payloadobj, taken, refused, row, overtaken, failing, faults>>

\* The URL's server takes the post, or refuses it with a status of 400 or more; the
\* answer may be lost.
Taken(d) ==
  /\ step[d] = "posting" /\ d \notin taken \cup refused
  /\ taken' = taken \cup {d}
  /\ UNCHANGED <<blocks, payloadobj, step, posted, refused, row, overtaken, failing, faults>>

Refuses(d) ==
  /\ step[d] = "posting" /\ d \notin taken \cup refused
  /\ refused' = refused \cup {d}
  /\ UNCHANGED <<blocks, payloadobj, step, posted, taken, row, overtaken, failing, faults>>

\* Any answer is a good one: nobody looks at its status.
Answered(d) ==
  /\ step[d] = "posting" /\ \/ d \in taken \cup refused /\ To(d, "good")
                            \/ To(d, "bad")
  /\ UNCHANGED <<blocks, payloadobj, posted, taken, refused, row, overtaken, failing, faults>>

\* The row is updated whether the post was good or not; nobody waits for it.
updateEventHistory_GoodOnly(d) ==
  /\ step[d] \in {"good", "bad"} /\ To(d, "ended")
  /\ row' = IF step[d] = "good" THEN [row EXCEPT ![d] = [retryTimes |-> 1, success |-> TRUE]] ELSE row
  /\ UNCHANGED <<blocks, payloadobj, posted, taken, refused, overtaken, failing, faults>>

updateEventHistory(d) ==
  /\ step[d] \in {"good", "bad"} /\ To(d, "ended")
  /\ row' = [row EXCEPT ![d] = [retryTimes |-> 1, success |-> step[d] = "good"]]
  /\ UNCHANGED <<blocks, payloadobj, posted, taken, refused, overtaken, failing, faults>>

NotUpdated(d) ==
  /\ step[d] \in {"good", "bad"} /\ To(d, "ended")
  /\ faults < MaxFaults /\ faults' = faults + 1
  /\ failing' = failing \cup {d}
  /\ UNCHANGED <<blocks, payloadobj, posted, taken, refused, row, overtaken>>

\* The callbacks are registered anew from the database; see EventHub.
Restart ==
  /\ faults < MaxFaults /\ faults' = faults + 1
  /\ failing' = failing \cup {d \in Delivery : step[d] \notin {"none", "ended"}}
  /\ step' = [d \in Delivery |-> IF step[d] = "none" THEN "none" ELSE "ended"]
  /\ payloadobj' = None
  /\ UNCHANGED <<blocks, posted, taken, refused, row, overtaken>>

Moves(d) ==
  \/ creatEventHistory(d) \/ NotCreated(d) \/ sendPayloadToUrl(d)
  \/ Answered(d) \/ updateEventHistory(d) \/ NotUpdated(d)

DeliveryNext ==
  \/ \E topics \in SUBSET Topic : Blocks \in topics /\ BlockEvent(topics)
  \/ \E d \in Delivery : Moves(d) \/ Taken(d) \/ Refuses(d)
  \/ Restart

DeliverySpec == DeliveryInit /\ [][DeliveryNext]_deliveryVars

-------------------------------------------------------------------------------
(* Properties *)

\* A URL is posted the payload of its own event, unless another callback was called
\* before its row was there: then that one's.
OwnPayload == \A d \in Delivery : posted[d] \in {None, d[1]} \/ d \in overtaken

\* The event history knows of every event that was posted, whatever fails and though the
\* gateway stops; of one whose delivery is over, that it was tried, unless the database
\* failed or the gateway stopped meanwhile.
Accounted ==
  \A d \in Delivery :
    /\ posted[d] # None => row[d] # None
    /\ step[d] = "ended" /\ d \notin failing => row[d] # None /\ row[d].retryTimes = 1
===============================================================================
