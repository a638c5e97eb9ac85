----------------------------- MODULE Transaction ------------------------------
(***************************************************************************)
(* Transactions on their way through hyperledgerUtil/chaincodeTrigger.js:  *)
(* invoke, with and without the endorsement policy, and instantiate,       *)
(* several at a time.                                                      *)
(*                                                                         *)
(* They share the SDK's client, and its one user context: every step sets  *)
(* it to its caller and signs at once, and other requests set it in        *)
(* between.  Proposals are sent to peers; when the answers agree the       *)
(* transaction goes to the orderer while a listener and a timer wait at    *)
(* the event hub of every peer of the organisation for its block: the      *)
(* first of them decides.                                                  *)
(***************************************************************************)
EXTENDS Naturals, FiniteSets

CONSTANTS
  Tx,
  User,         (* The callers, and other users of the gateway.            *)
  Caller,       (* Caller[tx]: who asks for the transaction.               *)
  Hub,          (* Event hubs of the organisation's peers.                 *)
  Result,       (* What a chaincode's simulation may give.                 *)
  MaxProposals, (* Bound: proposals sent for a transaction.                *)
  MaxLost       (* Bound: times a hub loses its stream.                    *)

ASSUME TransactionAssumption ==
  /\ Caller \in [Tx -> User]
  /\ "error" \notin Result
  /\ MaxProposals \in Nat

VARIABLES
  context,    (* client._userContext.                                      *)
  phase,      (* "new", "plugin", "proposing", "sent", "bad".              *)
  signedBy,   (* Whose identities signed for the transaction.              *)
  byPolicy,   (* Those sent by invokeChaincodeByEndorsePolice.             *)
  asked,      (* Proposals sent.                                           *)
  awaited,    (* Proposals without an answer yet.                          *)
  responses,  (* The answers that are kept: results and "error".           *)
  send,       (* The orderer's answer: sendPromise.                        *)
  race,       (* Promise.race of the hubs.                                 *)
  open,       (* open[hub]: the hub is connected.                          *)
  listening,  (* listening[hub]: transactions with a listener there.       *)
  aside,      (* aside[hub]: those whose listener was copied aside.        *)
  timer,      (* timer[hub]: transactions with a timer running there.      *)
  stream,     (* stream[hub]: transactions in blocks on their way there.   *)
  ledger,     (* The code a transaction is committed with, or "none".      *)
  lost

txVars == <<phase, byPolicy, asked, awaited, responses>>
hubVars == <<open, listening, aside, timer, stream>>
transactionVars == <<context, txVars, signedBy, send, race, hubVars, ledger, lost>>

TransactionTypeOK ==
  /\ context \in User
  /\ phase \in [Tx -> {"new", "plugin", "proposing", "sent", "bad"}]
  /\ byPolicy \subseteq Tx
  /\ signedBy \in [Tx -> SUBSET User]
  /\ asked \in [Tx -> 0..MaxProposals] /\ awaited \in [Tx -> Nat]
  /\ responses \in [Tx -> SUBSET (Result \cup {"error"})]
  /\ send \in [Tx -> {"pending", "ok", "failed"}]
  /\ race \in [Tx -> {"pending", "ok", "failed"}]
  /\ open \in [Hub -> BOOLEAN]
  /\ listening \in [Hub -> SUBSET Tx] /\ aside \in [Hub -> SUBSET Tx]
  /\ timer \in [Hub -> SUBSET Tx] /\ stream \in [Hub -> SUBSET Tx]
  /\ ledger \in [Tx -> {"none", "VALID", "INVALID"}]
  /\ lost \in Nat

TransactionInit ==
  /\ context \in User
  /\ phase = [t \in Tx |-> "new"]
  /\ byPolicy = {}
  /\ signedBy = [t \in Tx |-> {}]
  /\ asked = [t \in Tx |-> 0] /\ awaited = [t \in Tx |-> 0]
  /\ responses = [t \in Tx |-> {}]
  /\ send = [t \in Tx |-> "pending"] /\ race = [t \in Tx |-> "pending"]
  /\ open = [h \in Hub |-> TRUE]
  /\ listening = [h \in Hub |-> {}] /\ aside = [h \in Hub |-> {}]
  /\ timer = [h \in Hub |-> {}] /\ stream = [h \in Hub |-> {}]
  /\ ledger = [t \in Tx |-> "none"]
  /\ lost = 0

-------------------------------------------------------------------------------
(* The user context. *)

SignAs_Kept(t) ==
  /\ context' = context
  /\ signedBy' = [signedBy EXCEPT ![t] = @ \cup {context'}]

\* client._userContext = userContext, and what follows signs without a pause.
SignAs(t) ==
  /\ context' = Caller[t]
  /\ signedBy' = [signedBy EXCEPT ![t] = @ \cup {context'}]

\* Any other request, listener or timer of the gateway.
SomeoneElse(u) ==
  /\ context' = u
  /\ UNCHANGED <<txVars, signedBy, send, race, hubVars, ledger, lost>>

-------------------------------------------------------------------------------
(* Proposals. *)

Start(t) ==
  /\ phase[t] = "new"
  /\ phase' = [phase EXCEPT ![t] = "plugin"]
  /\ byPolicy' \in {byPolicy, byPolicy \cup {t}}
  /\ SignAs(t)
  /\ UNCHANGED <<asked, awaited, responses, send, race, hubVars, ledger, lost>>

\* After the plugins and the policy's query, and after an answer, with other requests in between.
Propose(t) ==
  /\ phase[t] \in {"plugin", "proposing"} /\ asked[t] < MaxProposals
  /\ phase' = [phase EXCEPT ![t] = "proposing"]
  /\ asked' = [asked EXCEPT ![t] = @ + 1]
  /\ awaited' = [awaited EXCEPT ![t] = @ + 1]
  /\ SignAs(t)
  /\ UNCHANGED <<byPolicy, responses, send, race, hubVars, ledger, lost>>

\* The sender keeps the good answers only.
Answer(t, r) ==
  /\ awaited[t] > 0
  /\ awaited' = [awaited EXCEPT ![t] = @ - 1]
  /\ responses' = IF t \in byPolicy /\ r = "error" THEN responses
                  ELSE [responses EXCEPT ![t] = @ \cup {r}]
  /\ UNCHANGED <<phase, byPolicy, asked, context, signedBy, send, race, hubVars, ledger, lost>>

\* Every answer has status 200 and all have the same result; comparing none throws.
checkProposal_AnyGood(rs) == rs \ {"error"} # {}

checkProposal(rs) == "error" \notin rs /\ \E r \in Result : rs = {r}

Collected(t) == phase[t] = "proposing" /\ awaited[t] = 0

\* A plugin, the query of the policy or the sender fails, or the answers are bad.
Refuse(t) ==
  /\ \/ phase[t] = "plugin"
     \/ Collected(t) /\ (t \in byPolicy \/ ~checkProposal(responses[t]))
  /\ phase' = [phase EXCEPT ![t] = "bad"]
  /\ UNCHANGED <<byPolicy, asked, awaited, responses, context, signedBy, send, race, hubVars, ledger, lost>>

-------------------------------------------------------------------------------
(* The orderer and the hubs. *)

\* A promise is settled once.
SettleRace_LastWins(t, v) == race' = [race EXCEPT ![t] = v]

SettleRace(t, v) == race' = IF race[t] = "pending" THEN [race EXCEPT ![t] = v] ELSE race

\* Only the listeners decide.
registarTxPromisesAny_NoTimer(t) ==
  /\ timer' = timer
  /\ listening' = [h \in Hub |-> IF open[h] THEN listening[h] \cup {t} ELSE listening[h]]
  /\ IF \A h \in Hub : open[h] THEN UNCHANGED race ELSE SettleRace(t, "failed")

\* registarTxPromisesAny: a timer at every hub, and a listener; registering at a
\* hub that is not connected throws, which rejects its promise and so the race.
registarTxPromisesAny(t) ==
  /\ timer' = [h \in Hub |-> timer[h] \cup {t}]
  /\ listening' = [h \in Hub |-> IF open[h] THEN listening[h] \cup {t} ELSE listening[h]]
  /\ IF \A h \in Hub : open[h] THEN UNCHANGED race ELSE SettleRace(t, "failed")

sendToCommit(t) ==
  /\ Collected(t) /\ checkProposal(responses[t])
  /\ phase' = [phase EXCEPT ![t] = "sent"]
  /\ SignAs(t)
  /\ registarTxPromisesAny(t)
  /\ UNCHANGED <<byPolicy, asked, awaited, responses, send, open, aside, stream, ledger, lost>>

OrdererAnswers(t, v) ==
  /\ phase[t] = "sent" /\ send[t] = "pending"
  /\ send' = [send EXCEPT ![t] = v]
  /\ UNCHANGED <<context, txVars, signedBy, race, hubVars, ledger, lost>>

\* The block goes to the hubs that are connected.  An answer of the orderer may be
\* lost, but what it refused is not ordered.
Commit(t, code) ==
  /\ phase[t] = "sent" /\ ledger[t] = "none" /\ send[t] # "failed"
  /\ ledger' = [ledger EXCEPT ![t] = code]
  /\ stream' = [h \in Hub |-> IF open[h] THEN stream[h] \cup {t} ELSE stream[h]]
  /\ UNCHANGED <<context, txVars, signedBy, send, race, open, listening, aside, timer, lost>>

Removed(f, h, t) == [f EXCEPT ![h] = @ \ {t}]

\* A block decides, whatever the code of the transaction in it.
Deliver_AnyCode(h, t) ==
  /\ t \in stream[h]
  /\ stream' = Removed(stream, h, t)
  /\ IF t \in listening[h]
     THEN /\ listening' = Removed(listening, h, t) /\ timer' = Removed(timer, h, t)
          /\ SettleRace(t, "ok")
     ELSE UNCHANGED <<listening, timer, race>>
  /\ UNCHANGED <<context, txVars, signedBy, send, open, aside, ledger, lost>>

Deliver(h, t) ==
  /\ t \in stream[h]
  /\ stream' = Removed(stream, h, t)
  /\ IF t \in listening[h]
     THEN /\ listening' = Removed(listening, h, t) /\ timer' = Removed(timer, h, t)
          /\ SettleRace(t, IF ledger[t] = "VALID" THEN "ok" ELSE "failed")
     ELSE UNCHANGED <<listening, timer, race>>
  /\ UNCHANGED <<context, txVars, signedBy, send, open, aside, ledger, lost>>

TimerFires(h, t) ==
  /\ t \in timer[h]
  /\ timer' = Removed(timer, h, t) /\ listening' = Removed(listening, h, t)
  /\ SettleRace(t, "failed")
  /\ UNCHANGED <<context, txVars, signedBy, send, open, aside, stream, ledger, lost>>

LoseStream(h) ==
  /\ open[h] /\ lost < MaxLost /\ lost' = lost + 1
  /\ open' = [open EXCEPT ![h] = FALSE]
  /\ aside' = [aside EXCEPT ![h] = listening[h]]
  /\ listening' = [listening EXCEPT ![h] = {}]
  /\ stream' = [stream EXCEPT ![h] = {}]
  /\ UNCHANGED <<context, txVars, signedBy, send, race, timer, ledger>>

\* With the listeners that were copied aside, or without: see EventHub.
Reconnect(h) ==
  /\ ~open[h]
  /\ open' = [open EXCEPT ![h] = TRUE]
  /\ \E ls \in {aside[h], {}} : listening' = [listening EXCEPT ![h] = ls]
  /\ UNCHANGED <<context, txVars, signedBy, send, race, aside, timer, stream, ledger, lost>>

TransactionNext ==
  \/ \E u \in User : SomeoneElse(u)
  \/ \E t \in Tx :
       \/ Start(t) \/ Propose(t) \/ Refuse(t) \/ sendToCommit(t)
       \/ \E r \in Result \cup {"error"} : Answer(t, r)
       \/ \E v \in {"ok", "failed"} : OrdererAnswers(t, v)
       \/ \E code \in {"VALID", "INVALID"} : Commit(t, code)
       \/ \E h \in Hub : Deliver(h, t) \/ TimerFires(h, t)
  \/ \E h \in Hub : LoseStream(h) \/ Reconnect(h)

(***************************************************************************)
(* Node runs what is queued, the SDK gives every request a timeout, and    *)
(* timers fire.  Plugins are taken to end.  Nothing makes a peer connect   *)
(* or an orderer commit.                                                   *)
(***************************************************************************)
Proceeds(t) ==
  \/ Start(t) \/ Refuse(t) \/ sendToCommit(t)
  \/ (phase[t] = "plugin" /\ Propose(t))
  \/ \E r \in Result \cup {"error"} : Answer(t, r)
  \/ \E v \in {"ok", "failed"} : OrdererAnswers(t, v)
  \/ \E h \in Hub : TimerFires(h, t)

TransactionSpec ==
  /\ TransactionInit /\ [][TransactionNext]_transactionVars
  /\ \A t \in Tx : WF_transactionVars(Proceeds(t))

-------------------------------------------------------------------------------
(* Properties *)

\* What the caller of a transaction is told.
Told(t) ==
  IF phase[t] = "bad" \/ send[t] = "failed" \/ race[t] = "failed" THEN "failed"
  ELSE IF send[t] = "ok" /\ race[t] = "ok" THEN "done" ELSE "nothing"

\* A caller is told of success only of a transaction that is committed as valid, that
\* the orderer took, and whose endorsers all answered alike.
DoneIsCommitted ==
  \A t \in Tx : Told(t) = "done" =>
    ledger[t] = "VALID" /\ \E r \in Result : responses[t] = {r}

\* Whoever else uses the gateway, a transaction's id, proposals and envelope are
\* signed by its caller.
SignedByCaller == \A t \in Tx : signedBy[t] \subseteq {Caller[t]}

\* A transaction goes to the orderer, and so to the ledger, only if its endorsers
\* answered and agree.
OnlyEndorsed ==
  \A t \in Tx : phase[t] = "sent" \/ ledger[t] # "none" =>
    \E r \in Result : responses[t] = {r}

\* What a caller is told is never taken back by a later block, timer or hub.
ToldOnce == [][\A t \in Tx : Told(t) # "nothing" => Told(t)' = Told(t)]_transactionVars

\* Every caller is answered, if there is a hub to wait at.
AlwaysTold == \A t \in Tx : <>(Told(t) # "nothing")
===============================================================================
