-------------------------------- MODULE Sender --------------------------------
(***************************************************************************)
(* The endorsement sender, hyperledgerUtil/sender.js: a chaincode's        *)
(* endorsement policy is a tree of n_out_of and signed_by rules.  Each     *)
(* n_out_of rule opens n "endorse threads" (promise chains) that share     *)
(* progressInfo = {number, rulesIndex}; a thread takes the next rule,      *)
(* waits for it, counts it when it was fulfilled and goes on.  A signed_by *)
(* rule sends the proposal to the endorsing peers of its organisation, one *)
(* after the other.                                                        *)
(*                                                                         *)
(* One action is one callback of the event loop.  A rule that settles and  *)
(* the thread that learns of it are two callbacks, so other threads may    *)
(* run between them.                                                       *)
(*                                                                         *)
(* A definition whose name ends in _Something is not part of the model: it *)
(* is a plausible bug in the definition that follows it, which a property  *)
(* below must notice (the README says which).                              *)
(***************************************************************************)
EXTENDS Integers, Sequences, FiniteSets

CONSTANTS
  Rule,      (* All rules of the policy tree.                              *)
  NOf,       (* The n_out_of ones; the others are signed_by rules.         *)
  Root,      (* initPolicy.rule                                            *)
  Rules,     (* Rules[x]: the sub-rules of the n_out_of rule x, in order.  *)
  N,         (* N[x]: how many of them x needs.                            *)
  Targets    (* Targets[l]: the endorsing peers a signed_by rule tries; <<>> when
                its MSP is unknown or has no endorsing peer in the channel. *)

SignedBy == Rule \ NOf

ASSUME PolicyAssumption ==
  /\ NOf \subseteq Rule
  /\ Root \in NOf
  /\ Rules \in [NOf -> Seq(Rule \ {Root})]
  /\ N \in [NOf -> Nat \ {0}]

\* Every rule is listed once, under one n_out_of rule: the policy is a tree.
ASSUME TreeAssumption ==
  \A x, y \in NOf : \A j \in 1..Len(Rules[x]), k \in 1..Len(Rules[y]) :
    Rules[x][j] = Rules[y][k] => x = y /\ j = k

ASSUME TargetsAssumption == \A l \in SignedBy : Len(Targets[l]) \in Nat

VARIABLES
  state,       (* state[r]: the promise of executePolicy(r).              *)
  number,      (* number[x]: progressInfo.number, sub-rules still needed. *)
  rulesIndex,  (* rulesIndex[x]: progressInfo.rulesIndex, sub-rules taken. *)
  thread,      (* thread[x][i]: where endorse thread i of x is.           *)
  on,          (* on[x][i]: position of the sub-rule that thread awaits.  *)
  tried,       (* tried[l]: targets of l that were asked in vain.         *)
  results      (* this.results[0]: the endorsements kept, <<rule, peer>>. *)

vars == <<state, number, rulesIndex, thread, on, tried, results>>

Settled == {"done", "failed"}

Threads(x) == 1..N[x]

TypeOK ==
  /\ state \in [Rule -> {"idle", "started", "open"} \cup Settled]
  /\ number \in [NOf -> Int]
  /\ rulesIndex \in [NOf -> Nat]
  /\ DOMAIN thread = NOf
  /\ DOMAIN on = NOf
  /\ \A x \in NOf :
       /\ rulesIndex[x] \in 0..Len(Rules[x])
       /\ thread[x] \in [Threads(x) -> {"none", "waiting", "Done", "exhausted"}]
       /\ on[x] \in [Threads(x) -> 0..Len(Rules[x])]
  /\ tried \in [SignedBy -> Nat]
  /\ \A l \in SignedBy : tried[l] <= Len(Targets[l])
  /\ results \subseteq SignedBy \X (Nat \ {0})

Init ==
  /\ state = [r \in Rule |-> IF r = Root THEN "started" ELSE "idle"]
  /\ number = N
  /\ rulesIndex = [x \in NOf |-> 0]
  /\ thread = [x \in NOf |-> [i \in Threads(x) |-> "none"]]
  /\ on = [x \in NOf |-> [i \in Threads(x) |-> 0]]
  /\ tried = [l \in SignedBy |-> 0]
  /\ results = {}

(***************************************************************************)
(* executeNOutOf opens the n threads in one go.  Thread i takes sub-rule i *)
(* when there is one, and is exhausted at once when there is none.         *)
(***************************************************************************)
Opened(x) == IF N[x] <= Len(Rules[x]) THEN N[x] ELSE Len(Rules[x])

executeNOutOf(x) ==
  /\ state[x] = "started"
  /\ rulesIndex' = [rulesIndex EXCEPT ![x] = Opened(x)]
  /\ thread' = [thread EXCEPT ![x] =
       [i \in Threads(x) |-> IF i <= Opened(x) THEN "waiting" ELSE "exhausted"]]
  /\ on' = [on EXCEPT ![x] =
       [i \in Threads(x) |-> IF i <= Opened(x) THEN i ELSE 0]]
  /\ state' = [r \in Rule |->
       IF r = x THEN "open"
       ELSE IF \E j \in 1..Opened(x) : r = Rules[x][j] THEN "started"
       ELSE state[r]]
  /\ UNCHANGED <<number, tried, results>>

(***************************************************************************)
(* The thread learns how the sub-rule it awaited settled.  It counts a     *)
(* fulfilled one, then calls endorseThread again: done when nothing is     *)
(* missing, exhausted when no sub-rule is left, else on to the next one.   *)
(***************************************************************************)
NumberAfter_CountsFailures(x, i) == number[x] - 1

NumberAfter(x, i) ==
  IF state[Rules[x][on[x][i]]] = "done" THEN number[x] - 1 ELSE number[x]

Awaited(x, i) ==
  /\ thread[x][i] = "waiting"
  /\ state[Rules[x][on[x][i]]] \in Settled

NoRuleLeft_OffByOne(x) == rulesIndex[x] >= Len(Rules[x]) - 1

NoRuleLeft(x) == rulesIndex[x] = Len(Rules[x])

ThreadDone(x, i) ==
  /\ NumberAfter(x, i) = 0
  /\ thread' = [thread EXCEPT ![x][i] = "Done"]
  /\ UNCHANGED <<state, rulesIndex, on>>

ThreadExhausted(x, i) ==
  /\ NumberAfter(x, i) # 0
  /\ NoRuleLeft(x)
  /\ thread' = [thread EXCEPT ![x][i] = "exhausted"]
  /\ UNCHANGED <<state, rulesIndex, on>>

ThreadNext_KeepsIndex(x, i) ==
  /\ NumberAfter(x, i) # 0
  /\ ~NoRuleLeft(x)
  /\ on' = [on EXCEPT ![x][i] = rulesIndex[x] + 1]
  /\ state' = [state EXCEPT ![Rules[x][rulesIndex[x] + 1]] = "started"]
  /\ UNCHANGED <<thread, rulesIndex>>

ThreadNext(x, i) ==
  /\ NumberAfter(x, i) # 0
  /\ ~NoRuleLeft(x)
  /\ rulesIndex' = [rulesIndex EXCEPT ![x] = @ + 1]
  /\ on' = [on EXCEPT ![x][i] = rulesIndex[x] + 1]
  /\ state' = [state EXCEPT ![Rules[x][rulesIndex[x] + 1]] = "started"]
  /\ UNCHANGED thread

endorseThread(x, i) ==
  /\ Awaited(x, i)
  /\ number' = [number EXCEPT ![x] = NumberAfter(x, i)]
  /\ ThreadDone(x, i) \/ ThreadExhausted(x, i) \/ ThreadNext(x, i)
  /\ UNCHANGED <<tried, results>>

(***************************************************************************)
(* Promise.all of the threads: fulfilled when any of them answered Done.   *)
(***************************************************************************)
AllThreadsEnded_FirstDone(x) ==
  \/ \E i \in Threads(x) : thread[x][i] = "Done"
  \/ \A i \in Threads(x) : thread[x][i] = "exhausted"

AllThreadsEnded(x) == \A i \in Threads(x) : thread[x][i] \in {"Done", "exhausted"}

SettleNOutOf(x) ==
  /\ state[x] = "open"
  /\ AllThreadsEnded(x)
  /\ state' = [state EXCEPT ![x] =
       IF \E i \in Threads(x) : thread[x][i] = "Done" THEN "done" ELSE "failed"]
  /\ UNCHANGED <<number, rulesIndex, thread, on, tried, results>>

(***************************************************************************)
(* executeSignBy, sendProposalToOrg and iterativeSend.  Without a target   *)
(* the rule is rejected.  Otherwise the next target answers: an            *)
(* endorsement is kept and ends the rule; so does an error that mentions   *)
(* "chaincode error" or does not mention "exist" - without an endorsement; *)
(* any other error moves on to the next target, the last one failing the   *)
(* rule; a send that is rejected fails the rule at once.                   *)
(***************************************************************************)
NoTarget(l) ==
  /\ state[l] = "started"
  /\ Targets[l] = <<>>
  /\ state' = [state EXCEPT ![l] = "failed"]
  /\ UNCHANGED <<number, rulesIndex, thread, on, tried, results>>

Asking(l) == state[l] = "started" /\ tried[l] < Len(Targets[l])

Endorsed(l) ==
  /\ Asking(l)
  /\ results' = results \cup {<<l, tried[l] + 1>>}
  /\ state' = [state EXCEPT ![l] = "done"]
  /\ UNCHANGED <<number, rulesIndex, thread, on, tried>>

FinalError(l) ==
  /\ Asking(l)
  /\ state' = [state EXCEPT ![l] = "done"]
  /\ UNCHANGED <<number, rulesIndex, thread, on, tried, results>>

NotExistError_RoundRobin(l) ==
  /\ Asking(l)
  /\ tried' = [tried EXCEPT ![l] = (@ + 1) % Len(Targets[l])]
  /\ UNCHANGED <<state, number, rulesIndex, thread, on, results>>

NotExistError(l) ==
  /\ Asking(l)
  /\ tried' = [tried EXCEPT ![l] = @ + 1]
  /\ state' = [state EXCEPT ![l] = IF tried'[l] = Len(Targets[l]) THEN "failed" ELSE @]
  /\ UNCHANGED <<number, rulesIndex, thread, on, results>>

SendRejected(l) ==
  /\ Asking(l)
  /\ state' = [state EXCEPT ![l] = "failed"]
  /\ UNCHANGED <<number, rulesIndex, thread, on, tried, results>>

iterativeSend(l) ==
  NoTarget(l) \/ Endorsed(l) \/ FinalError(l) \/ NotExistError(l) \/ SendRejected(l)

RunNOutOf(x) ==
  \/ executeNOutOf(x)
  \/ \E i \in Threads(x) : endorseThread(x, i)
  \/ SettleNOutOf(x)

Answered == state[Root] \in Settled /\ UNCHANGED vars

Next ==
  \/ \E x \in NOf : RunNOutOf(x)
  \/ \E l \in SignedBy : iterativeSend(l)
  \/ Answered

Spec == Init /\ [][Next]_vars

\* Every promise settles: the event loop runs each callback that is ready, and a
\* peer that does not answer in time makes the send fail.
FairSpec ==
  /\ Spec
  /\ \A x \in NOf : WF_vars(executeNOutOf(x)) /\ WF_vars(SettleNOutOf(x))
  /\ \A x \in NOf : \A i \in Threads(x) : WF_vars(endorseThread(x, i))
  /\ \A l \in SignedBy : WF_vars(iterativeSend(l))

-------------------------------------------------------------------------------
(* Properties *)

\* Positions of the sub-rules of x that were fulfilled.
Fulfilled(x) == {j \in 1..Len(Rules[x]) : state[Rules[x][j]] = "done"}

\* An n_out_of rule (sender.js executeNOutOf) answers "done" only when n of its
\* sub-rules were fulfilled, and "failed" only when fewer than n were, however the
\* threads that share progressInfo interleave.
VerdictSound ==
  \A x \in NOf :
    /\ state[x] = "done" => Cardinality(Fulfilled(x)) >= N[x]
    /\ state[x] = "failed" => Cardinality(Fulfilled(x)) < N[x]

\* A policy is given up only after every sub-rule was tried: no thread skips one
\* that another thread has not taken (rulesIndex is shared).
GivenUpAfterAll ==
  \A x \in NOf : state[x] = "failed" =>
    \A j \in 1..Len(Rules[x]) : state[Rules[x][j]] \in Settled

\* No two threads of a rule await the same sub-rule: an endorsement is never
\* counted twice towards n.
NoRuleTakenTwice ==
  \A x \in NOf : \A i, j \in Threads(x) :
    thread[x][i] = "waiting" /\ thread[x][j] = "waiting" /\ on[x][i] = on[x][j] => i = j

\* The sender always answers its caller (initExecute settles).
AlwaysAnswers == <>(state[Root] \in Settled)

\* The root rule as the abstract n-out-of policy, its sub-rules named by position.
RootVerdict == IF state[Root] \in Settled THEN state[Root] ELSE "pending"
RootPolicy == INSTANCE NOutOf WITH
  Rule <- 1..Len(Rules[Root]),
  Need <- N[Root],
  good <- Fulfilled(Root),
  bad <- {j \in 1..Len(Rules[Root]) : state[Rules[Root][j]] = "failed"},
  verdict <- RootVerdict

\* The root rule behaves as the abstract policy: rules settle one by one, and the
\* verdict is taken once, from what has settled.
ImplementsNOutOf == RootPolicy!AbsSpec
===============================================================================
