------------------------------ MODULE SendRequest ------------------------------
(***************************************************************************)
(* sendRequest/sendRequest.js: a message to another gateway is posted over *)
(* HTTP; after an error it is posted again, "timeout" later, until         *)
(* maxTryTimes is reached.  The first answer, whatever it says, ends it    *)
(* with success and calls sendCallback.  Beside it runs the send history:  *)
(* the constructor creates a document whose uuid the object learns only    *)
(* when the creation is over, and every result updates the document of the *)
(* uuid known by then.                                                     *)
(*                                                                         *)
(* An HTTP error does not say whether the peer handled the request: a copy *)
(* on the wire may be handled after the sender gave it up.                 *)
(***************************************************************************)
EXTENDS Naturals, Sequences

CONSTANTS
  Req,          (* The SendRequest objects ever made.                      *)
  maxTryTimes,
  NoStatus      (* There is no history document.                           *)

ASSUME maxTryTimesAssumption == maxTryTimes \in Nat \ {0}

Status == [retryTimes : 0..maxTryTimes, success : BOOLEAN]

ASSUME NoStatusAssumption == NoStatus \notin Status

VARIABLES
  phase,     (* phase[r]: where sendAndRetry is.                          *)
  status,    (* status[r]: this.status, without the reason.               *)
  wire,      (* wire[r]: numbers of the copies on their way.              *)
  handled,   (* handled[r]: numbers of the copies the peer has handled.   *)
  record,    (* record[r]: how far the creation of the document is.       *)
  saves,     (* saves[r]: updates of the document under way, in order.    *)
  history    (* history[r]: the status in the document.                   *)

netVars == <<wire, handled>>
dbVars == <<record, saves, history>>
vars == <<phase, status, netVars, dbVars>>

TypeOK ==
  /\ phase \in [Req -> {"none", "posting", "waiting", "sent", "givenUp", "lost"}]
  /\ status \in [Req -> Status]
  /\ wire \in [Req -> SUBSET (1..maxTryTimes)]
  /\ handled \in [Req -> SUBSET (1..maxTryTimes)]
  /\ record \in [Req -> {"none", "creating", "created", "failed"}]
  /\ saves \in [Req -> Seq(Status)]
  /\ history \in [Req -> Status \cup {NoStatus}]

NewStatus == [retryTimes |-> 0, success |-> FALSE]

Init ==
  /\ phase = [r \in Req |-> "none"]
  /\ status = [r \in Req |-> NewStatus]
  /\ wire = [r \in Req |-> {}]
  /\ handled = [r \in Req |-> {}]
  /\ record = [r \in Req |-> "none"]
  /\ saves = [r \in Req |-> <<>>]
  /\ history = [r \in Req |-> NoStatus]

\* The number of the copy that is being posted.
Attempt(r) == status[r].retryTimes + 1

\* Every caller constructs the object and calls sendAndRetry in the same callback.
New(r) ==
  /\ phase[r] = "none"
  /\ phase' = [phase EXCEPT ![r] = "posting"]
  /\ wire' = [wire EXCEPT ![r] = {Attempt(r)}]
  /\ record' = [record EXCEPT ![r] = "creating"]
  /\ UNCHANGED <<status, handled, saves, history>>

-------------------------------------------------------------------------------
(* The network and the peer's gateway. *)

Deliver(r) == \E c \in wire[r] :
  /\ wire' = [wire EXCEPT ![r] = @ \ {c}]
  /\ handled' = [handled EXCEPT ![r] = @ \cup {c}]
  /\ UNCHANGED <<phase, status, dbVars>>

Lose(r) == \E c \in wire[r] :
  /\ wire' = [wire EXCEPT ![r] = @ \ {c}]
  /\ UNCHANGED <<phase, status, handled, dbVars>>

-------------------------------------------------------------------------------
(* sendHistoryMethod.update: no document has the uuid "undefined". *)

Update(r, s) ==
  saves' = IF record[r] = "created" THEN [saves EXCEPT ![r] = Append(@, s)] ELSE saves

\* The callback of request.post.
PostFails_MarksSuccess(r) ==
  /\ phase[r] = "posting"
  /\ status' = [status EXCEPT ![r] = [retryTimes |-> @.retryTimes + 1, success |-> TRUE]]
  /\ phase' = [phase EXCEPT ![r] =
       IF status'[r].retryTimes < maxTryTimes THEN "waiting" ELSE "givenUp"]
  /\ Update(r, status'[r])
  /\ UNCHANGED <<netVars, record, history>>

PostFails_Forever(r) ==
  /\ phase[r] = "posting"
  /\ UNCHANGED <<status, saves>>
  /\ phase' = [phase EXCEPT ![r] = "waiting"]
  /\ UNCHANGED <<netVars, record, history>>

PostFails_OneShort(r) ==
  /\ phase[r] = "posting"
  /\ status' = [status EXCEPT ![r].retryTimes = @ + 1]
  /\ phase' = [phase EXCEPT ![r] =
       IF status'[r].retryTimes < maxTryTimes - 1 THEN "waiting" ELSE "givenUp"]
  /\ Update(r, status'[r])
  /\ UNCHANGED <<netVars, record, history>>

PostFails(r) ==
  /\ phase[r] = "posting"
  /\ status' = [status EXCEPT ![r].retryTimes = @ + 1]
  /\ phase' = [phase EXCEPT ![r] =
       IF status'[r].retryTimes < maxTryTimes THEN "waiting" ELSE "givenUp"]
  /\ Update(r, status'[r])
  /\ UNCHANGED <<netVars, record, history>>

\* The post that is under way was handled and its answer arrives.
Answerable_Any(r) == phase[r] = "posting"

Answerable(r) == phase[r] = "posting" /\ Attempt(r) \in handled[r]

PostAnswers(r) ==
  /\ Answerable(r)
  /\ status' = [status EXCEPT ![r] = [retryTimes |-> @.retryTimes + 1, success |-> TRUE]]
  /\ phase' = [phase EXCEPT ![r] = "sent"]
  /\ Update(r, status'[r])
  /\ UNCHANGED <<netVars, record, history>>

\* setTimeout(sendAndRetry, timeout)
Waiting_OrGivenUp(r) == phase[r] \in {"waiting", "givenUp"}

Waiting(r) == phase[r] = "waiting"

Retry(r) ==
  /\ Waiting(r)
  /\ phase' = [phase EXCEPT ![r] = "posting"]
  /\ wire' = [wire EXCEPT ![r] = @ \cup {Attempt(r)}]
  /\ UNCHANGED <<status, handled, dbVars>>

-------------------------------------------------------------------------------
(* The send history. *)

\* Mongoose casts the document when create is called.
Created(r) == NewStatus

HistoryCreated(r) ==
  /\ record[r] = "creating"
  /\ record' = [record EXCEPT ![r] = "created"]
  /\ history' = [history EXCEPT ![r] = Created(r)]
  /\ UNCHANGED <<phase, status, netVars, saves>>

HistoryFails(r) ==
  /\ record[r] = "creating"
  /\ record' = [record EXCEPT ![r] = "failed"]
  /\ UNCHANGED <<phase, status, netVars, saves, history>>

HistoryUpdated(r) ==
  /\ saves[r] # <<>>
  /\ history' = [history EXCEPT ![r] = Head(saves[r])]
  /\ saves' = [saves EXCEPT ![r] = Tail(@)]
  /\ UNCHANGED <<phase, status, netVars, record>>

\* An update the database refuses, or that a crash caught before it was written.
HistoryUpdateFails(r) ==
  /\ saves[r] # <<>>
  /\ saves' = [saves EXCEPT ![r] = Tail(@)]
  /\ UNCHANGED <<phase, status, netVars, record, history>>

\* The gateway crashes; sendUnfininshedRequests is never called after a restart.
\* What the database and the wire had in hand goes on.
Crash ==
  /\ phase' = [r \in Req |->
       IF phase[r] \in {"posting", "waiting"} THEN "lost" ELSE phase[r]]
  /\ UNCHANGED <<status, netVars, dbVars>>

Step(r) ==
  \/ New(r) \/ Deliver(r) \/ Lose(r)
  \/ PostFails(r) \/ PostAnswers(r) \/ Retry(r)
  \/ HistoryCreated(r) \/ HistoryFails(r)
  \/ HistoryUpdated(r) \/ HistoryUpdateFails(r)

Next == (\E r \in Req : Step(r)) \/ Crash

Spec == Init /\ [][Next]_vars

\* A post ends, with an answer or an error: a gateway answers every request and
\* the operating system ends a broken connection.  The timer fires, and the
\* database answers.
FairSpec ==
  /\ Spec
  /\ \A r \in Req :
       /\ WF_vars(PostFails(r) \/ PostAnswers(r))
       /\ WF_vars(Retry(r))
       /\ WF_vars(HistoryCreated(r) \/ HistoryFails(r))
       /\ WF_vars(HistoryUpdated(r) \/ HistoryUpdateFails(r))

-------------------------------------------------------------------------------
(* Properties *)

\* sendCallback, which sets the REACH status, runs only for a message that the
\* peer's gateway has handled (sendRequest.js sendAndRetry).
SentWasHandled == \A r \in Req : phase[r] = "sent" => status[r].retryTimes \in handled[r]

\* A message is given up only when each of maxTryTimes posts has failed.
GivenUpAfterAll ==
  \A r \in Req : phase[r] = "givenUp" =>
    status[r] = [retryTimes |-> maxTryTimes, success |-> FALSE]

\* The history never claims more than happened: what getUnfinishedSendRequest
\* leaves out (success, or no try left) is really finished, also after a crash at
\* any point, with updates still under way.
HistoryHonest ==
  \A r \in Req : history[r] # NoStatus =>
    /\ history[r].success => handled[r] # {}
    /\ history[r].retryTimes = maxTryTimes => phase[r] \in {"sent", "givenUp"}

\* Once it has ended, no copy of a message is posted any more.
NoCopyAfterEnd ==
  [][\A r \in Req : phase[r] \in {"sent", "givenUp", "lost"} => wire'[r] \subseteq wire[r]]_vars

\* Every message is sent, given up, or lost in a crash.
EverySendEnds ==
  \A r \in Req : phase[r] = "posting" ~> phase[r] \in {"sent", "givenUp", "lost"}

\* The message as seen from the peer: at least once, if reported sent.
Outcome == [r \in Req |-> IF phase[r] \in {"posting", "waiting"} THEN "pending" ELSE phase[r]]
Delivery == INSTANCE AtLeastOnce WITH
  Message <- Req, Tries <- maxTryTimes, handledBy <- handled, outcome <- Outcome

\* Sending with retries keeps the abstract promise.
ImplementsAtLeastOnce == Delivery!AbsSpec
===============================================================================
