------------------------------ MODULE MCDelivery -------------------------------
(* A URL for blocks and one for an event, for TLC.                             *)
EXTENDS Delivery, TLC

CONSTANTS u, v

MCReceiver == {u, v}
MCTopic == {"block", "event"}
MCSubscribed == ("block" :> {u}) @@ ("event" :> {v})
===============================================================================
