------------------------------ MODULE MCEventHub -------------------------------
(* The URLs of a small event hub, for TLC. *)
EXTENDS EventHub

MCOne == {"u"}
MCTwo == {"u", "v"}
===============================================================================
