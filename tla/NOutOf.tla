-------------------------------- MODULE NOutOf --------------------------------
(***************************************************************************)
(* What an n-out-of policy promises, whatever the order in which its rules *)
(* are tried: the answer is "done" only when at least n rules were         *)
(* fulfilled, and "failed" only when every rule was tried and fewer than n *)
(* were fulfilled.  Sender is shown to implement it.                       *)
(***************************************************************************)
EXTENDS Naturals, FiniteSets

CONSTANTS
  Rule,     (* The rules of the policy.           *)
  Need      (* How many of them must be fulfilled. *)

VARIABLES
  good,     (* Rules that were fulfilled.                        *)
  bad,      (* Rules that were tried and could not be fulfilled. *)
  verdict   (* What the caller of the policy was told.           *)

absVars == <<good, bad, verdict>>

AbsInit ==
  /\ good = {}
  /\ bad = {}
  /\ verdict = "pending"

Fulfil(r) ==
  /\ verdict = "pending"
  /\ r \in Rule \ (good \cup bad)
  /\ good' = good \cup {r}
  /\ UNCHANGED <<bad, verdict>>

GiveUp(r) ==
  /\ verdict = "pending"
  /\ r \in Rule \ (good \cup bad)
  /\ bad' = bad \cup {r}
  /\ UNCHANGED <<good, verdict>>

Accept ==
  /\ verdict = "pending"
  /\ Cardinality(good) >= Need
  /\ verdict' = "done"
  /\ UNCHANGED <<good, bad>>

Refuse ==
  /\ verdict = "pending"
  /\ good \cup bad = Rule
  /\ Cardinality(good) < Need
  /\ verdict' = "failed"
  /\ UNCHANGED <<good, bad>>

AbsNext ==
  \/ \E r \in Rule : Fulfil(r) \/ GiveUp(r)
  \/ Accept
  \/ Refuse

AbsSpec == AbsInit /\ [][AbsNext]_absVars
===============================================================================
