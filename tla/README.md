# A TLA+ model of the Fabric REST gateway

The gateway is a Node.js server beside one organisation of a Hyperledger Fabric
network. Its REST API lets the organisation's users run chaincode, manage
channels, ask other organisations' gateways for signatures and have blocks and
chaincode events posted to URLs. This directory holds TLA+ modules that model its
parts, TLC configurations that check them on small instances, and proofs checked by
TLAPS that hold for every instance.

Contents: [the system](#1-the-system) - [the plan](#2-plan) -
[the modules and their runs](#3-modules-and-runs) - [the proofs](#4-proofs) -
[what is not modelled](#5-what-is-not-modelled) -
[disagreements between code and documentation](#6-disagreements) -
[running the checks](#7-running-the-checks).

All paths below are relative to the repository (`src/`). `PROJECT.json` maps every
definition to the lines it stands for.

## 1. The system

One Node process; one thread runs callbacks to their end, so the unit of
interleaving is the callback, and state read before an `await`, a `.then` or a timer
may be stale after it. There is no lock and no transaction anywhere. MongoDB keeps
what survives a restart; writes are issued over a connection pool and mostly not
awaited, so that the database may do those under way in any order, and an error of
one is often seen by nobody. The modules that write to the database model it so: any
write under way may be next, and may fail, with or without having been done.

| Component | State it keeps | Operations | Talks to |
|---|---|---|---|
| **endorsement sender** `hyperledgerUtil/sender.js` | per policy node: `progressInfo = {number, rulesIndex}`; `results` | `initExecute`, `executeNOutOf`, `endorseThread`, `executeSignBy`, `iterativeSend` | endorsing peers; called by `chaincodeTrigger` |
| **transactions** `hyperledgerUtil/chaincodeTrigger.js` | the SDK client's user context (shared by all requests); a race of event-hub promises per transaction | install, instantiate, upgrade, invoke (with and without endorsement policy), query | sender, peers, orderer, event hubs, plugins |
| **event hub** `hyperledgerUtil/eventHub.js` | `peersEventHub` (SDK hub, `alive`), `callbackSet`, `eventReturnMap`, threshold listeners | register/unregister a URL, reconnect every second, copy/reset callbacks, resume from the database, deliver and resend events | peers' block streams, `peers.js`, MongoDB, other parties' URLs |
| **peer state** `hyperledgerUtil/peers.js` | `peerAliveState`, request counters | `checkAllAliveStatue` once a second, choice of target peers | peers |
| **message sending** `sendRequest/` | `SendRequest` objects, send history documents | post, retry, give up, update history | other gateways, MongoDB |
| **sign request, asking** `signRequest/innerSignRequest.js` | policy counters, identity statuses, responses; cache and document | create, send, receive a response, query | `SendRequest`, MongoDB |
| **sign request, asked** `signRequest/outerSignRequest.js` | request objects by role; cache and documents | arrive, sign, reject | `SendRequest`, MongoDB |
| **network configuration** `hyperledgerUtil/networkConfig.js` | organisations, peers, orderers, channels; a file | add/remove/revise each of them, partly in continuations of promises | emits events the next component obeys |
| **channel objects** `channels.js`, `orderers.js`, `index.js` | SDK channel objects; configuration-block listeners | follow the configuration | event hub, network configuration |
| **channel operations** `channelAPI.js` | none (uses the shared client) | create, join, update, query | orderer, peers, configtxlator |
| **users** `user.js`, `ca.js` | users in memory and in a file | enrol, get the admin, get a member | certificate authority |
| **monitor** `monitor/` | per channel: block numbers counted, summary, block and tx rows | history, gap, block events, generations of a ledger | event hub, MongoDB |
| **event history and delivery** `eventHub.js`, `Db/mongo/method/eventHubHistory.js` | a row per delivery; a payload all callbacks share | create, post, update; resending is written and not started | URLs |
| database, SDK client, server, controllers | connections, wiring | | |

How they interact. A transaction sets the shared client's user context, sends
proposals itself or through the sender, compares the answers, then sends the
transaction to the orderer while a listener and a timer wait at the event hub of
every peer of the organisation; the first listener or timer decides. The event hub
obeys two clocks that are not synchronised: the probe of the peers and its own tick.
A sign request is a protocol between two gateways: the asking one sends a
message (`SendRequest`), the asked one stores it and, when its user signs, sends a
response (another `SendRequest`), which the asking one counts against a policy.

What is hard, and what each part must get right:

| Component | Hard behaviour | What makes it correct |
|---|---|---|
| sender | n threads share a counter and an index over awaits | the verdict is what the policy says of the sub-rules that settled; no sub-rule is taken twice or skipped; it always answers |
| transactions | other requests change the user context between two steps; block, timer, lost stream and orderer race | signed by the caller only; success only of a committed, valid, agreed transaction; told once; told at all |
| event hub | lost stream, dead peer, tick, delayed connect, configuration change, restart in any order | registered URLs and nobody else get blocks; database and memory agree; the connection comes back |
| message sending | an error does not tell whether the peer handled the copy; the history lags | at least once if reported sent; the history never calls finished what is not; every message ends |
| asking gateway | several copies of one request (object, lookups, updates under way, document), restarts | counters are what the responses make of the policy, as Fabric reads it; no acknowledged response is lost |
| asked gateway | duplicated messages, copies by role, response sent before it is recorded | who was told "signed" finds it so; no response is forgotten or invented |
| network configuration, channel objects | events come before, after or instead of the change; a removal goes on in a later continuation; handlers throw | the file follows the memory; the gateway can start from the file; SDK objects and listeners follow |
| monitor | history, gap and block events overlap; a restart falls between writes | each block is counted once, of one generation of the ledger; the summary catches up |
| users | two enrolments share a global; a registration is cut short by a restart or a lost answer | an object is the user's own; the stored password is the authority's; who is in the file can act |
| channel operations | awaits between setting the user context and signing; peers, events and timers race | it is signed by who was asked; success is told of what was done |
| delivery | callbacks share a variable across an await; row, post and update fail one by one | a URL gets its own event; the history knows of every post and says what became of it |

The full list of hazards, each at its line and with the properties that watch over
it, is in `PROJECT.json` under `hazards`.

## 2. Plan

The order is that of consequence: first what decides about transactions, then what
must survive failures, then what follows the configuration.

| Step | Module | Content | State |
|---|---|---|---|
| 1 | `NOutOf`, `Sender`, `Sender_proof` | endorsement policy execution, refinement of the abstract policy | done, proved |
| 2 | `AtLeastOnce`, `SendRequest`, `SendRequest_proof` | retries and history, refinement of the abstract delivery | done, proved |
| 3 | `PolicyCount`, `Signatures`, `InnerSignRequest`, `InnerSignRequest_proof` | counting signatures; the asking gateway (extends `PolicyCount`) | done, proved |
| 4 | `OuterSignRequest`, `OuterSignRequest_proof` | the asked gateway | done, proved |
| 5 | `EventHub`, `EventHub_proof` | registrations and reconnection | done, proved |
| 6 | `Transaction` (proofs in `Sender_proof`) | the way of a transaction (abstracts `Sender` to the answers it keeps, `EventHub` to its connection and listeners) | done, proved |
| 7 | `NetworkConfig`, `NetworkConfig_proof` | configuration, file, continuations, events, channel objects and their listeners | done, proved |
| 8 | `Monitor`, `Monitor_proof` | counting blocks over history, gap, events, new ledgers and restarts | done, proved |
| 9 | `Delivery` (proofs in `EventHub_proof`) | an event's way to a URL and into the history | done, proved |
| 10 | `Users`, `ChannelOperations`, `Client`, `Client_proof` | enrolment and the operations on channels, composed over the client they share | done, proved |

What would come next. The two sides of a sign request composed over two
`AtLeastOnce` channels ("a counted response was given by a user who was asked"): each
side is modelled with an environment that may do what the other does, but nothing
checks the two together.

## 3. Modules and runs

Conventions. One action is one callback of the event loop (or one atomic
effect of the database, the network or a peer). Names are the code's where TLA+
allows it. Constants named `Max...` are bounds for TLC: the code has no such limit,
they are used in guards only and the proofs do not give them values.

A definition called `X_Something` is not part of the model. It is `X` with a
plausible bug in it, kept beside `X`: putting it in the place of `X` makes TLC
find a violation of the property that `PROJECT.json` ("mutants") names with it. Every
property of a passing run has one.

| Run | Distinct states | Shows |
|---|---|---|
| `sender` | 9,879 | verdicts are sound under every interleaving; root rule implements `NOutOf` |
| `send_request` | 50,625 | at-least-once delivery, an honest history, every message ends |
| `policy_count` | 41,267 | what the counters mean, and when that is what Fabric makes of the policy |
| `inner_sign_request` | 3,448,390 | copies are consistent, and fullfilled when their responses say so; what can cost an acknowledged response |
| `inner_lookups` (violated) | | overlapping lookups lose an acknowledged response |
| `outer_sign_request` | 8,472,842 | when who was told "signed" finds it so |
| `event_hub` | 3,496,679 | which events lose registrations, and that nothing else does |
| `transaction` | 78,768 | the caller is told the truth, once, and always |
| `network_config` | 1,260,263 | the file follows, the gateway can start from it, and which objects follow |
| `monitor` | 2,523,649 | each block is counted once, and the stored summary catches up |
| `client` | 2,059,934 | objects and passwords are the user's own, who signs, what a success means |
| `delivery` | 3,755,580 | which payload is posted, what the history says |

The type invariants of `Sender`, `SendRequest`, `Transaction`, `EventHub`, `Monitor`,
`Client`, `Delivery` and `OuterSignRequest` are proved, or parts of a proved invariant, and are not
checked by a run as well.

### Sender and NOutOf - `hyperledgerUtil/sender.js`

`state[r]` is the promise of a rule, `number[x]` and `rulesIndex[x]` the
`progressInfo` shared by the threads of an n-out-of rule, `thread[x][i]` and
`on[x][i]` where thread `i` is. `executeNOutOf` opens the threads in one callback;
`endorseThread` is the callback in which a thread learns how its sub-rule settled,
counts, and takes the next; `SettleNOutOf` is the `Promise.all` of the threads;
`NoTarget`, `Endorsed`, `FinalError`, `NotExistError` and `SendRejected` are the
outcomes `iterativeSend` distinguishes. That a sub-rule settles and that its
thread learns it are two steps, since other callbacks run in between.

Properties. `VerdictSound`: done needs n fulfilled sub-rules, failed fewer.
`GivenUpAfterAll`: failed only when every sub-rule settled. `NoRuleTakenTwice`.
`AlwaysAnswers` (liveness). `ImplementsNOutOf`: the root rule, with "fulfilled" and
"failed" sub-rules read off `state`, implements `NOutOf!AbsSpec`.

Bounds of `sender`: root 2-of {a, x, b, c} and x = 1-of {d, e}, a with two peers, b
with none. That is the least in which a thread takes over what another left, a
nested rule runs beside a leaf, a rule fails for want of peers, targets are exhausted
and more sub-rules than needed are fulfilled. The proofs cover every other policy.

Fairness: each callback that is ready is run (Node's event loop), and a send
settles, because the SDK gives each request a timeout. A fulfilled leaf need not
have an endorsement, see section 6; the properties speak of fulfilled sub-rules.

### SendRequest and AtLeastOnce - `sendRequest/sendRequest.js`

`phase` is where `sendAndRetry` is, `status` is `this.status`, `wire` and
`handled` are the numbers of the copies under way and handled by the peer, `record`
is how far the creation of the history document is (the uuid is known only at its
end, so that an earlier update touches no document), `saves` the updates under way
and `history` the document. Copies are delayed, lost and reordered;
an error does not tell which. `Crash` ends what was pending: nothing resends it
(`sendUnfininshedRequests` has no caller).

Properties. `SentWasHandled`, `GivenUpAfterAll`, `NoCopyAfterEnd` (action property),
`EverySendEnds` (liveness), `HistoryHonest`: what the query for unfinished
messages leaves out is really finished, through lag, failures and crashes. The other
direction does not hold: a message may have succeeded while the document says it
has not. `ImplementsAtLeastOnce`: with the numbers of copies hidden, the
abstract promise.

Bounds of `send_request`: two messages, two tries each: enough for a retry that
follows a copy still on the wire, a give-up with a copy on the wire, and a crash
between one message's end and the other's. Messages do not interact except through
a crash. The proofs cover any number of both.

Fairness: a post ends (the other gateway answers every request, the operating
system ends broken connections; the code sets no timeout of its own), the retry
timer fires, the database answers. Nothing forces a delivery.

### PolicyCount and Signatures - `signRequest/innerSignRequest.js`, counting

Pure operators: `formateRootPolicy` (counters before any signature),
`Candidates`/`Chosen` (which identity a signature counts for), `Wanted` (the leaves),
`_changePolicyState` (the climb). A counter that was never set is `NaN` as in JavaScript.
The reference `Satisfied` is translated from Fabric's own evaluator, which the repository
vendors (`common/cauthdsl/cauthdsl.go`): a leaf takes the first unused signature of its
identity, an n-of goes through its rules in their order, and what a rule that does not hold
has used is unused again. `Signatures` accepts signatures one after another, in any order.

Properties. `FullfilledCountsLeaves`: the root's counter counts the leaves right under the
root that the signatures cover, a leaf as often as it is signed, and `fullfilled` is exactly
"they are n".
`FullfilledIffSatisfied`: for a policy without nested n-of that names no organisation twice
(`Plain`), signatures that satisfy it have made the request fullfilled; the converse holds if
none answers twice and no two leaves want the same identity (`OneLeafEach`). The last
condition is needed: one signature counts for all the leaves of its identity here, and for
one of them in Fabric (section 6). The first property tells precisely how far the counting is
from the reference; the second where they agree.

Bounds of `policy_count`: all 24 flat n-of policies of three identities, each
as administrator or member, three in which one organisation has two leaves (so that the
condition `OneLeafEach` matters), the example of the source's comment, and one policy with one organisation in two roles and a leaf twice; all orders of up to four signatures of
six signers, each at most twice. A policy with an n-of inside another is never
fulfilled, because the inner counter is not set (section 6). `IsPolicy` says what a policy is
(a tree with an n-of at its root that asks for one at least); TLC evaluates it on each.

### InnerSignRequest - the asking gateway

One request after its creation, which may have failed: the error is logged, and the request
lives on in memory only. `cached` is the entry of `innerSignRequestCollection`, `document`
the database's, if there is one, `lookups` the `getInnerSignRequestObj` under way with what
each has read, `writes` the updates under way. A job is what a caller wants done: send the
messages, note that one arrived (`REACH`), take an accepting or rejecting response. `InCache`
does it at once; otherwise `Lookup`, `ReadDocument` and `FromDatabase` do, or `NotFound` ends
it. An answer is written twice, without waiting for the first update; the second one
ends the job. Any update under way may be `UpdateWritten` (the caller is answered) or fail
(`UpdateFails`, whether the database did it or not). `Crash` drops the memory and the
updates that were not done. Signing and verifying are a premise: a response that fails the
check changes nothing.

`harmed` is a history variable: an update overtook an earlier one with other content
("overtaken"), or an object that a lookup made replaced one that had responses it lacks
("stale").

Properties. `CountsItsResponses`: every copy agrees with itself, so counting goes on
correctly from whichever copy a restart finds: the root's counter counts the leaves right
under the root that the copy's responses cover, and it is fullfilled just when these are n,
neither closed too early nor left open. `AckedKept`: what was answered "received" is in the
document, unless the creation failed or `harmed` names something; so failed updates,
overlapping lookups and crashes cost nothing by themselves. `AckedKeptInOrder` leaves out
the exception "stale", and is violated.

Bounds of `inner_sign_request`: two organisations, a policy that needs both and has a nested
n-of, one send, one answer of each kind by each signer, one crash, one failure (the creation
or an update), two lookups at a time, and a job begins while fewer than three updates are
under way: enough for each of the three exceptions, for an update that fails between two that
do not, and for a lookup that reads before, between and after the updates of another.
`inner_lookups` lets no update fail and shows the lost response when none overtakes another.

### OuterSignRequest - the gateway that is asked

One uuid. `cached` holds at most one object because each time one is put there the
others of the uuid are dropped; `documents` is a sequence because nothing
prevents duplicates; `lookups` as above. `writes` are the creations and updates under way, of
which the database may do or fail any next (`WriteDone`, `WriteFails`): nobody waits for a
creation, so that an update may come before it and touch no document.
`receiveOuterSignRequest` models that the search for an existing request looks for a field no
document has. `Use("reject", _)` changes nothing but the cache: the controller passes its
arguments in another order, so `rejectRequest` throws. `sendCallback` marks the response as
arrived.

`unrecorded` is a history variable: the roles whose last update found no document, or
replaced the first one of another role, or was replaced by another role's update since.

Properties. `SignedIsRecorded`: a user who was told that the request is signed finds it so,
unless his role is in `unrecorded`. `AnsweredIsReplied` (an answered document is backed
by a response that was sent), `StaysAnswered` (no document goes back to pending).

Bounds of `outer_sign_request`: two roles, two messages, two uses of each
API, one failed write, one crash: enough for a copy that arrives before, during and after the
answer, for two roles whose updates go to one document, for two lookups with different
results, for an update before its creation, and for a crash between response and status.

### EventHub - `hyperledgerUtil/eventHub.js`

One peer's hub. `hub` is the SDK's object (its table of callbacks, the next number,
whether the gateway's error callback is in it, whether the table is the very
object the saved copy refers to), `saved` is `callbackSet`, `alive` what the last tick
saw, `timers` the delayed connects, `registered` is `eventReturnMap`, `rows` and
`writes` the database, where nobody waits for a creation or a removal, and each may fail or overtake
another, `state` and `up` the peer as `peers.js` knows it and as it is.
`reconnectHandler` is the tick. Copies are references in the code, so that
`WithTable` changes the saved copy together with the table. The server listens before
the rows are read, so the API may be used before `Resume`.

`disturbed` is a history variable: it says that since the start one of these has
happened: the stream was lost and no tick saw the peer down; the peer was
seen down and its stream was not lost; a URL was unregistered, or the administrator
or the peer's address changed, while the stream was lost; the peer was removed with
URLs registered; the API was used before the rows were read in a way they disagree with. Each of
them really loses or misplaces registrations. `RegistrationsKept` says that nothing
else does: a connected hub then serves exactly the registered URLs, each under its
own number. `StoreAgrees`: once the rows are read and a URL's writes are done, database and
memory agree on it, unless one of them failed or was done before an earlier one of the same
URL (`strayed`); the writes of different URLs may come in any order. `ComesBack` (liveness): if the peer stays up, so does the connection.

Bounds of `event_hub`: two URLs (so that numbers can be confused), three uses of the
API, one outage, two lost streams (one inside and one outside the outage), one change,
one failed write, one crash.

Fairness: the two intervals and the timers go on (`setInterval`, `setTimeout`). Nothing is
assumed of the peer; `ComesBack` has its return as a premise.

### Transaction - `hyperledgerUtil/chaincodeTrigger.js`

Several transactions and the other users' requests. `context` is the client's user
context; `SomeoneElse` stands for any other request that sets it. `Start`, `Propose`,
`Answer`, `Refuse` and `sendToCommit` are the caller's way; `OrdererAnswers`, `Commit`,
`Deliver`, `TimerFires`, `LoseStream` and `Reconnect` the environment's, with the
listeners a hub has and those copied aside when its stream was lost (they may or
may not come back: `EventHub` tells when). The sender is abstracted to sending
proposals one after another and keeping the good answers. `race` is the `Promise.race`
over the hubs, `send` the orderer's answer; both are awaited together.

Properties. `SignedByCaller`, `OnlyEndorsed` (what reaches the orderer has answers
that agree), `DoneIsCommitted` (success is told only of what is valid in the ledger and
endorsed alike), `ToldOnce` (action property: no late block, timer or
answer changes what was told), `AlwaysTold` (liveness).

Bounds of `transaction`: one transaction, another user, two hubs, two results,
three proposals, two lost streams: enough for answers that disagree, for one hub's timer
against the other's block, and for a hub that loses its stream before, while and after
registering. Two transactions share nothing but `context`, which `SomeoneElse` sets to
every value; the proofs are for any number.

Fairness: of the caller's own callbacks, of answers and the orderer (SDK
timeouts) and of the timers. Nothing makes a peer connect or the orderer commit.
Plugins are taken to end. `AlwaysTold` needs a hub: the race of none never
settles (see the hazards).

### NetworkConfig - `networkConfig.js`, `channels.js`, `index.js`

`config` is `networkConfig` and `channelConfig` as sets and relations, `file` what
`saveNetworkConfigToFs` wrote, `sdk` the channel objects (`object`), the hubs
(`hubs`), the listener kept under `channelInitEventUuid` (`slots`) and the hubs that call
a channel's listener (`on`). A call changes the configuration at once; what the
code does in a `.then` is a task in `queue`. The tasks run in order and no call
comes between two of them, but calls may come before the first: that is how promise
continuations and requests interleave. The handlers of the events
(`ChannelRevised`, `ChannelAdded`, `OrdererAdded`, `OrdererRemoved`) run inside the
`emit` that calls them; a handler that throws ends the call or the continuation that
emitted, and the model keeps what was done before. `Crash` starts again from the file
and ends in "dead" if `initChannels` would throw.

Three history variables name what the code gets wrong. `careless`: peers put into
a channel while they were not in the network, or while their removal waited.
`behind`: channels whose last change came without an event, or after it.
`failed`: channels whose handler threw, or that had a listener before `init`.

Properties. `FileFollows`: after each call or continuation file and memory
differ only in organisations that were taken out of a channel. `Starts`: every peer
of the file's channels is in the file's network, or is careless. `ObjectsFollow`: when
no continuation waits, the channel objects and listeners of the channels that are neither
behind nor failed are those of the configuration.

Abstractions. Attributes and peer types are left out (a change of them only saves); a
call that names several things is several calls; the order of `for in` is any order;
naming an orderer twice in one call, the difference between a raw url and one that went
through `transferSSLConfig` (`channels.js:23`), and the caches of peer and orderer
objects are not modelled. The initial file is assumed to load.

Bounds of `network_config`: two organisations with a peer each and the names of two, two channels of
which one is not there at first, one orderer, three calls, one hub that closes, one crash.
Three calls are what it takes to remove a peer, add it to a channel before the
continuation, and change that channel again; a second channel is what a handler that
throws half-way needs. There is no liveness: continuations are only reordered against
calls. The proofs of `FileFollows` and `Starts` have no bounds.

### Monitor - `monitor/channel.js`, `monitor/peer.js`

One channel of one peer. `ledger` is the peer's (its generation and height),
`summary` and `blockNumberArray` the object's, `fetches` the ranges of blocks asked for
(by the start's trace or by a gap), `writes` the rows on their way to the
database, `row` and `blocks` what is stored. `refreshChannelObj`, `checkHistory`,
`compareHash` and `checkAndTrace` are the four steps of the start, with waits between
them; `eventBlock` can come in any of these. `summary.counts[b]` says how often a block was
counted, `summary.blockNum` how many blocks were; what is counted of a block's content
goes with it.

The channel may be there when the gateway starts or be joined while it runs, when block 0 is
announced too. `writes` are rows and summaries under way in any order: an older update of
the summary may be done after a younger one ("late"), and two that both found no row insert
two ("second"; nobody will read the other). The error of a block's row is swallowed, and
the summary stored all the same (`refused` has such blocks).

`spoiled` names why counts cannot be relied on: a block event before the height was
known (`early`), the event of block 0 after that, which is never found a duplicate
(`genesis`), a stored summary that is not one of the first blocks of this ledger
(`mixed`), one of whose blocks is not stored (`lost`), a block that the peer did not
give (`unanswered`). Each happens. `unsaved`: the last update of the stored summary failed,
or was overwritten by one that came too late.

Properties. `CountsOnce`: otherwise, when nothing is under way, each block below the height
was counted exactly once, and none of another ledger. `CountedIsStored`: a counted block is
stored or being stored, unless the database refused its row. `SummaryIsStored` (liveness):
once the monitor traces, nothing is spoiled and nothing unsaved, the stored summary becomes
the counts and stays so.

Bounds of `monitor`: three blocks (a gap with one block in it, between the first and the
last), one new ledger, two crashes (one before and one after it), one question that
is not answered or write that fails; blocks of the ledger, crashes and failures are four
together (`MaxTotal`), and a block is counted while fewer than two writes are under way
(`MaxWrites`; counting adds up to two, so that two summaries still overtake each other).
Fairness: the gateway is restarted, the steps of the start are taken
(`setInterval` of `monitor/peer.js` goes on, the peer and the database answer), events and
blocks arrive, writes are done or fail. Nothing makes the peer commit a block. The removal
of a peer is not modelled: its event, 'n-peer-remove', is never emitted.

### Users, ChannelOperations and Client - `user.js`, `member.js`, `channelAPI.js`, `channel.js`

`Users`: `registered` is the certificate authority, `persisted` the SDK's store,
`userData` and `file` the passwords, `users` the objects, `member` the global of
`innerRegisterAndEnrollMethod`, `calls` the enrolments under way with what each waits
for, `booting` the names `userInit` has yet to go through. `Found`, `Registered`, `Enrolled` and
`Made` are the continuations; `Unanswered` is an answer that fails.

`ChannelOperations`: `ops[o]` is a request and what it waits for, `signers[o]` who has
signed for it. `createChannel` from a file signs at once, from a description it waits for
the configuration tool first. `updateChannel` and `addOrg`, `joinChannel` with its hubs, events
and timers (`BlockCame`, `OtherBlockOrTimeout`), and what each is told. A path that
never answers ends in "hung".

`Client` composes the two: they share `users` and the SDK's one user context, which
enrolments and requests set. A restart is of both.

Properties. `OwnObject`: a name's object is its own, unless two enrolments had made theirs
together (`mixed`). `SecretsKept`: the stored password is the authority's, for names none
of whose enrolments failed, was interrupted or met another password (`broken`).
`BootedUsable`: after `userInit` every user of the file can act. `ActsAsItself`: whoever's
password was given is who signs, except a channel's creation from a description.
`SuccessIsDone`: a creation is at the orderer and in the configuration; a join is at every
peer, under an id of the caller's, and leaves no hub open.

Bounds of `client`: two names and passwords, two registrations beside `userInit`'s own, one
operation, two channels and peers, one crash and one failed answer: enough for two
enrolments that overlap, for a name registered twice with different passwords, and for an
operation with every change of the context between its steps. Two operations meet only in
the context, which enrolments set too (`OtherRequest` is any other request). Nothing is
assumed fair. The administrators' enrolments come before `Init`.

### Delivery - `eventHub.js`, `Db/mongo/method/eventHubHistory.js`, `index.js`

A block calls the callbacks of the URLs registered for it and for its events, all in one
turn (`Callbacks`), each of which makes a row; when the database has it the payload is
posted from `payloadobj`, a variable that all callbacks share; the URL's server takes the post
or refuses it (`Taken`, `Refuses`), any answer counts as good (`Answered`), and
`updateEventHistory` follows. `NotCreated`, `NotUpdated` are failures of the database;
`Restart` ends what was pending. A block committed while the stream is lost calls nobody and is
none of these (`EventHub` has the stream).

Properties. `OwnPayload`: a delivery posts its own payload, unless another callback came
while its row was being made (`overtaken`). `Accounted`: what was posted has its row in the
history through all failures and restarts, and a delivery that is over is recorded as tried,
unless the database failed or the gateway stopped meanwhile. What the history's `success` means
is not a property: it is any answer, a refusal too (section 6).

Bounds of `delivery`: two URLs (one for blocks, one for an event), two
blocks, two faults: two blocks are what one callback needs to overtake another. Resending
is not modelled, because `resendHandler` is not started. Nothing is assumed fair.

## 4. Proofs

Forty theorems in eight modules; the list with what each establishes is under
`theorems` in `PROJECT.json`. All constants are arbitrary up to the assumptions named
in the modules: the policy is a finitely branching tree with the root an n-out-of rule
and every n positive; `maxTryTimes` is positive; a caller is a user and "error" is not
a result; the initial configuration is one that loads and nests its orderers in its
channels; there are finitely many channels; an organisation has a peer; the policy of a sign
request is a tree with an n-of at its root that asks for one signature at least. TLC
evaluates these on its instances.

**Sender.** `VerdictSound` is not inductive: it says nothing while threads run. The
invariant `IInv` adds, for each n-out-of rule: sub-rules up to `rulesIndex` were started,
later ones not (`InvTaken`); waiting threads await different sub-rules
(`InvAwaits`); and the counting fact (`InvCount`): `number` is n less the number of
sub-rules that are done and no longer awaited, and some thread is "Done" exactly
when it has come to zero or below. The last part is the point of the argument: the
test is `== 0`, so a thread that counts after zero passes it below zero and must not
answer Done, but then another thread already has. One lemma per action; two frame
lemmas carry the rules an action does not touch. Each step of the root rule then
maps to a step of `NOutOf` or to a stutter.

**SendRequest.** `PhaseInv` relates the phase to the counter; `HistoryInv` says that
the document and the updates under way form a chain in which nothing is ahead of its
successor nor of the object (`NotAhead`). `HistoryHonest` follows since a document
is at most what the object once was. The refinement needs that the copies handled are
numbered within the tries.

**InnerSignRequest.** The copies of the request are ordered by the responses they
hold: document, then the updates under way oldest first, then the object (`OrderInv`), as
long as nothing is `harmed`. A job on the cached object moves along that order. An update that
is done moves the document up; if it is not the oldest, its content is that of all the older
ones. One that fails drops out of the order. An object made from a document must not replace
one with more responses. These are exactly the cases `harmed` names, so that the theorem
assumes nothing of lookups, updates or the pool.

`CountsItsResponses` holds whatever overlaps: `CountInv` has every copy's counters follow from
its responses, and a job adds to the responses what it adds to the counters.

**PolicyCount and Signatures** (in `InnerSignRequest_proof`). What the counters come to, for
every policy: after k leaves directly under the root, the root's counter is n - k, every other
one is still NaN, and `fullfilled` says k >= n (`TallyAfter`). A climb passes a nested n-of only
if its counter is 1, which NaN is not (`RootReached`), so that the order in which
`CountSignature` takes the leaves does not matter (`FoldedLeaves`, an induction over the set);
one more signature adds its leaves (`CountedOneMore`, which `InnerSignRequest` uses too). Hence
`FullfilledCountsLeaves`, and that a nested policy is never fulfilled by signatures of its
inner leaves. For a plain policy the reference comes down to one loop over the leaves (`CompilePlain`,
`PlainEvaluation`, which unfold its two recursive functions). Each leaf it verifies uses a
signature of its own that signs a leaf here (`SatisfiedSigned`), so what satisfies the policy
has been counted. Conversely a signature counts for exactly the leaves its signer satisfies
(`PlainSignature`), those of different organisations are different (`OtherLeaves`), and where
no identity is wanted twice the signature that one leaf takes is of no use to another
(`SignedSatisfied`); hence `FullfilledIffSatisfied`.

**Transaction.** `TxInv`: whatever was sent has no answer outstanding and answers
that agree; the orderer's answer, the ledger, a stream, a timer or a settled race imply
that it was sent; a race that is won implies a valid transaction in the ledger. One
lemma for the steps of a transaction on itself, one for what it leaves of the
others. `ToldOnce` follows since `race` and `send` are settled once and a
transaction that is "bad" was never sent.

**OuterSignRequest.** Every copy of the request, wherever it is (cached, stored, being
written, read by a lookup), is backed by a response if it is answered, and an update
always writes an answered object; hence `AnsweredIsReplied` and, with it, that no write
takes an answer back (`StaysAnswered`), crashes and reordered writes included.
`SignedIsRecorded` is about the first document only, for that is where updates go: a role
that is signed and not `unrecorded` is the first document's, which is answered. A creation
appends and a later update of the same role keeps it so; every other case is one that
`unrecorded` names.

**NetworkConfig.** `FileFollows` and `Starts` are about the file, but what keeps them is
the queue: `QueueInv` says that a peer or an organisation whose removal waits is in no
channel any more, unless it was put there carelessly, and that a channel whose
organisations are still to be added is in the configuration. `Gains` is what a step must
not do for it: bring a peer into a channel while its removal waits. The handlers of events
matter only in whether they throw. One lemma per call and per continuation.
`ObjectsFollow` is only about an empty queue and needs a second invariant, `SdkInv`. Of each
channel that has not failed it says that the hubs that call a listener are among those of the
listener that is kept (`Slotted`, or cancelling would leave one), that they are peers of the
configuration unless an event that makes the listener anew waits, and that object and
listener follow unless such an event waits or the channel is behind, up to orderers with
events of their own: the last of them in the queue agrees with the configuration
(`OrderInv`). `LaterLast` says that what a continuation appends comes after all that calls
appended, for no call comes in between; without it a channel that is added could have an event
before it that changes its peers, and would keep a listener of a peer it no longer has. What a
handler does to one channel is proved once (`Revises1`, `Adds1`, `Listens`); that the events of
several channels, one after another, do it to each (`Handles`) is an induction over their
order, for which the recursive functions of `NetworkConfig` are shown to exist.

**EventHub.** `RegistrationsKept` speaks of a connected hub; what keeps it are the hubs that
are not. Unless `disturbed`, exactly one place has the registered URLs under their numbers:
the hub's own table, while it has the gateway's error callback, or the saved copy, once that
callback has run; a hub that lost its tables is not connected, and the numbers given out stay
below the next. `StoreAgrees` is about the last write: of each URL that has not `strayed` the last
creation or removal under way says whether it is registered, and, where none is, its rows do,
but for rows that the start has yet to read. Writes of other URLs change neither. That taking a URL's rows out leaves those of the others is
an induction over the rows.

**Monitor.** `CountsOnce` speaks of a monitor at rest, `CountedIsStored` of one that traces.
The invariant has three parts. `InLedger`: what is announced, asked for, counted or stored as
counted is in this ledger, or of an earlier one. `Remembers`: a gateway that is stopped has nothing
in memory, which is why a new ledger cannot come between two steps. And while nothing is
`spoiled`, `Starting` and `Tracing`: until the monitor traces, nothing is under way, and every
event is newer than what the stored summary counts; from then on there is a base such that the
blocks below it are counted as the summary had them, those from it on are counted just if
`blockNumberArray` has them, and each below the height is counted or asked for
(`CountedFrom`). Block 0, never found in the array because 0 is false, is asked for by one range at
most, and by none once it was counted (`BlockZeroOnce`). The base must not be above the height,
which is where `InLedger` is needed. A write that is done, late or not, or that fails,
leaves each counted block stored, being stored or refused. TLC checked these invariants on the
run's instance.

**Delivery.** While a delivery's row is being made the shared variable has its payload, or
it was overtaken; nothing is posted before its row is there, and rows are never removed.

**Client.** Of each name that is not broken: all enrolments under way for it have one
password, which is the stored one and the authority's where there is one; what is
registered is stored or will be by a request that is under way; who is stored has an
object or is yet to be enrolled by `userInit`. Of each operation: what was checked and
signed before the step it waits in. The two parts meet in `users` and `context` only:
the first says that an object is its owner's, the second that an operation sets the
context to it before it signs.

The proofs about `Transaction` are in `Sender_proof` (it abstracts the sender), those about
`Delivery` in `EventHub_proof` (both are of `eventHub.js`).

Only model-checked: all liveness (`AlwaysAnswers`, `AlwaysTold`, `EverySendEnds`, `ComesBack`,
`SummaryIsStored`), which is out of the prover's reach. Every safety invariant and every
action property that a run checks is a theorem.

## 5. What is not modelled

- *Not yet* (see the plan): the two gateways of a sign request together; the caches of
  peer and orderer objects; the install and upgrade of chaincode beyond what
  `Transaction` has; the enrolment of the administrators; the second peer of the
  monitor, and the choice which peer's hub feeds a channel.
- *By choice*: what a message, proposal, certificate or block contains, beyond what a
  property tells apart; signing and verifying; the choice of target peers (pure
  selection); the length of timeouts (a timer may fire at any time); queries of the
  ledger; controllers that only check parameters; `configgen.js` (conversion by an
  external tool); start-up wiring. In `Sender`: `reorderTargets`, which only permutes,
  and the mode "once", which is not implemented in the code.
- *External*: the SDK's event hub (tables, numbers, what it does when a stream ends),
  the SDK's proposals and broadcasts, HTTP, and MongoDB (writes under way are done in any
  order and each may fail, done or not; one write is atomic) are modelled as the code
  uses them. Fabric's policy evaluator is translated from the copy in the repository.
- *What a configuration listener does with a block*: it counts block numbers and has the SDK
  read the configuration; which listeners there are is in `NetworkConfig`.

## 6. Disagreements

One is shown by a run that TLC finds violated (`inner_lookups`): responses that arrive
together after a restart are looked up side by side, and one of them is lost, although it
was answered "received" (`signRequestManager.js:106`, `innerSignRequest.js:176`). The others were met while
modelling; where they touch a modelled part the model does what the code does, and a
property's exception names them.

- A signed-by rule can be fulfilled without an endorsement: an answer such as "connect
  failed" does not contain "exist" and is taken for one (`sender.js:285`), though the
  comment says the rule is done when one endorsement is there (`:262`).
- A policy with an n-of inside another, as in the source's own example
  (`innerSignRequest.js:396`), is never fulfilled: the inner counter is not set (`:423`).
- The update of a sign request goes to the first document of the uuid, whatever its role
  (`Db/mongo/method/outerSignRequest.js:16`), though each role has a request of its own
  (`swagger.yaml:1522`): answering one overwrites the other.
- A stream that is lost and found again between two ticks takes the registrations with it:
  the URL gets no more blocks (`eventHub.js:324`), though it stays registered
  (`swagger.yaml:1956`).
- A known user with a wrong password is answered with success and `undefined`: the throw
  that says "you input wrong pass word" is not reached (`user.js:293`).
- A listener with a threshold counts the block numbers of all channels together
  (`eventHub.js:197`), so that a configuration block is missed when another channel had its
  number; `payloadobj` is a global (`:357`); `resendHandler` is not started (`:564`), though
  the configuration has `retryTimes`.
- Database errors: the creation of a request (`Db/mongo/method/innerSignRequest.js:13`) and of
  a block's row (`Db/mongo/method/block.js:25`) fail unnoticed, so that responses answered
  "received" are gone after a restart, and the monitor's summary counts a block that is not
  there. A sign request's document is created without waiting (`outerSignRequest.js:52`): an
  update that comes first is lost, and the user is told "success" (`:222`). The same
  holds for the rows of registered URLs (`eventHub.js:457`, `:478`).
- An answer of any HTTP status is recorded as a success (`eventHub.js:425`), so the list of
  failed events (`swagger.yaml:2060`) lacks the posts that were refused.
- One signature counts for every leaf that wants its identity (`innerSignRequest.js:262`);
  Fabric uses it for one (`cauthdsl.go:104`), so a request may be fullfilled that Fabric will
  refuse.
- One organisation that signs twice fulfils 2-of (`innerSignRequest.js:272`); an
  identity is chosen by an expression in which `!` binds to the left operand (`:202`); a
  late `REACH` overwrites `ACCEPT` or `REJECT` (`:117`); accepting calls
  `changeIdentitesState` with other arguments and a misspelt status (`:237`).
- A repeated message makes a second document (`signRequestManager.js:43`); the reject API
  always fails (`swagger/controllers/signRequest.js:123`); a response whose source is not
  "local" is never answered (`:23`); `=` for `==` (`outerSignRequest.js:202`).
- `upgradeChaincode` names a variable that does not exist
  (`chaincodeTrigger.js:261`); the waiting times are compared, not assigned (`:229`,
  `:231`), and so is `allTheSame` (`:516`), so queries never disagree; `installChaincode`
  sets the user context before a pause and signs after it (`:121`); a plugin
  that asks for `transferTime` does not settle (`requestPlugin.js:65`).
- `getOrgEventHubs` takes every peer of the organisation, and none when the
  organisation is not in the channel: the race of none never settles
  (`eventHub.js:79`, `chaincodeTrigger.js:90`); a misspelt name in `eventHub.js:264`.
- `createChannel` sets the user context, awaits and then signs
  (`channelAPI.js:329`); `user.js:338` assigns a global.
- In `networkConfig.js`: peers are added and saved, and then an undeclared name throws
  (`:244`); a return before the event (`:83`), an event before the change it announces
  (`:524`), a removal that is not saved (`:466`), a comparison for an assignment (`:747`).
  Names of events differ between emitter and listener (`monitor/index.js:31`,
  `Db/mongo/mongo.js:21`).
- In channel operations: `addOrg` passes its arguments to `updateChannel` shifted by one
  (`swagger/controllers/channel.js:90`); a creation from a description that lacks a property,
  or for which the tool fails, is never answered (`channelAPI.js:306`); a join that sees a
  block with several transactions clears its timer and never ends (`:402`), and one that
  fails leaves its hubs open (`:431`).
- Adding the own organisation to a channel cancels a listener that was never made,
  which throws (`hyperledgerUtil/index.js:98`, `eventHub.js:235`).
- In `monitor/channel.js`: a block event before the history is read is counted and
  then overwritten (`:461`), block 0 is falsy and its event, where a peer joins a channel that
  is monitored already, counts it twice (`:278`), the summary is stored
  after the blocks (`:458`).

## 7. Running the checks

```
tlc -config MCSender.cfg MCSender          # likewise the other configurations
tlapm Sender_proof.tla                     # likewise the other *_proof modules
```

`CHECK_DEADLOCK FALSE` is set where a behaviour really ends because its bounded inputs
are used up (message sending, sign requests, transactions, enrolments and operations,
deliveries, the configuration when the gateway cannot start again, the monitor when its
ledger is full); in `Sender` the end is an explicit stuttering step, and the event hub
never ends. The longest runs take two to three minutes (`monitor`, `event_hub`,
`outer_sign_request`, `inner_sign_request`).
