------------------------------ MODULE AtLeastOnce ------------------------------
(***************************************************************************)
(* What a message sent with retries promises: the receiver may handle it   *)
(* several times, but never more often than the sender tries, and the      *)
(* sender reports success only for a message that was handled.  A copy may *)
(* still be handled after the sender stopped trying or crashed.            *)
(***************************************************************************)
EXTENDS Naturals

CONSTANTS
  Message,   (* The messages.                                             *)
  Tries      (* How often the sender of a message tries, at most.         *)

VARIABLES
  handledBy, (* handledBy[m]: numbers of the copies of m that were handled. *)
  outcome    (* outcome[m]: what the sender knows.                        *)

avars == <<handledBy, outcome>>

AbsInit ==
  /\ handledBy = [m \in Message |-> {}]
  /\ outcome = [m \in Message |-> "none"]

Send(m) ==
  /\ outcome[m] = "none"
  /\ outcome' = [outcome EXCEPT ![m] = "pending"]
  /\ UNCHANGED handledBy

\* A copy the sender made arrives, in any order and whatever became of the sender.
Handle(m, c) ==
  /\ outcome[m] # "none"
  /\ c \in (1..Tries) \ handledBy[m]
  /\ handledBy' = [handledBy EXCEPT ![m] = @ \cup {c}]
  /\ UNCHANGED outcome

Succeed(m) ==
  /\ outcome[m] = "pending"
  /\ handledBy[m] # {}
  /\ outcome' = [outcome EXCEPT ![m] = "sent"]
  /\ UNCHANGED handledBy

GiveUp(m) ==
  /\ outcome[m] = "pending"
  /\ outcome' = [outcome EXCEPT ![m] = "givenUp"]
  /\ UNCHANGED handledBy

\* The process crashes: nobody sends its pending messages any more.
Forget ==
  /\ outcome' = [m \in Message |-> IF outcome[m] = "pending" THEN "lost" ELSE outcome[m]]
  /\ UNCHANGED handledBy

AbsNext ==
  \/ \E m \in Message :
       \/ Send(m) \/ Succeed(m) \/ GiveUp(m)
       \/ \E c \in 1..Tries : Handle(m, c)
  \/ Forget

AbsSpec == AbsInit /\ [][AbsNext]_avars
===============================================================================
