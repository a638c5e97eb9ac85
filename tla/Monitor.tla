-------------------------------- MODULE Monitor --------------------------------
(***************************************************************************)
(* The monitor of one channel of one peer, monitor/channel.js with the     *)
(* parts of monitor/peer.js that make and feed it: it counts the blocks of *)
(* the peer's ledger, stores each, and stores the counts, through restarts *)
(* of the gateway, events that are lost, and ledgers that are made anew.   *)
(*                                                                         *)
(* What is counted of a block (its transactions, valid or not, deployments *)
(* and invocations, by chaincode) is counted with it and is left out, as   *)
(* is what is only read.  summary.counts[b] is how often block b was       *)
(* counted.  The driver sends writes over a pool of connections, so that   *)
(* the database may do any of those under way next, or fail to.            *)
(***************************************************************************)
EXTENDS Naturals, Sequences, SequencesExt

CONSTANTS
  None,          (* No row.                                                *)
  MaxHeight,     (* Bound: blocks of a ledger.                             *)
  MaxResets,     (* Bound: ledgers made anew.                              *)
  MaxCrashes,    (* Bound: stops of the gateway.                           *)
  MaxFails,      (* Bound: failures of the peer and of the database.       *)
  MaxTotal,      (* Bound: blocks, stops and failures together.            *)
  MaxWrites      (* Bound: a block is counted while fewer are under way.   *)

ASSUME MonitorAssumption ==
  /\ MaxHeight \in Nat \ {0} /\ MaxResets \in Nat /\ MaxCrashes \in Nat /\ MaxFails \in Nat
  /\ MaxTotal \in Nat /\ MaxWrites \in Nat

VARIABLES
  ledger,         (* The peer's ledger: which one it is, and its height.   *)
  running,        (* Whether the gateway runs.                             *)
  events,         (* Block events on their way, in order.                  *)
  phase,          (* How far start() has come, see Phase.                  *)
  summary,        (* this.summary, see Summary.                            *)
  blockNumberArray,
  currentHeight,
  found,          (* The stored summary that checkHistory read.            *)
  fetches,        (* refreshRangeBlocks under way: what each waits for.    *)
  writes,         (* Writes under way.                                     *)
  row,            (* The stored summary.                                   *)
  blocks,         (* The stored blocks.                                    *)
  spoiled,        (* Why the counts cannot be relied on: see below.        *)
  refused,        (* Blocks of which the database refused the row.         *)
  unsaved,        (* The last update of the stored summary failed, or is   *)
                  (* overwritten by one that came too late.                *)
  crashes, fails

memory == <<events, phase, summary, blockNumberArray, currentHeight, found, fetches>>
stored == <<row, blocks>>
ghosts == <<refused, unsaved>>
vars == <<ledger, running, memory, writes, stored, spoiled, ghosts, crashes, fails>>

Number == 0..MaxHeight - 1
Generation == 0..MaxResets
Block == Generation \X Number
Now(n) == <<ledger.gen, n>>

\* none: there is no object; row, hash, cleaning, height: what start() waits for;
\* tracing: the height is known; stuck: an answer was an error, and nobody caught it.
Phase == {"none", "row", "hash", "cleaning", "height", "tracing", "stuck"}

\* Zero: of a new object, and of a channel whose cache was cleared.
Summary == [blockNum : Nat, counts : [Block -> Nat]]
Zero == [blockNum |-> 0, counts |-> [b \in Block |-> 0]]

\* The first blocks of this ledger, counted once each.
IsFirstBlocks(s) ==
  \E k \in 0..MaxHeight :
    /\ s.blockNum = k
    /\ \A b \in Block : s.counts[b] = IF b[1] = ledger.gen /\ b[2] < k THEN 1 ELSE 0
IsStored(s) == \A b \in Block : s.counts[b] > 0 => b \in blocks

(***************************************************************************)
(* early: a block event came before start() knew the height.  genesis:     *)
(* that of block 0 came afterwards, which is not found among those that    *)
(* were counted.                                                           *)
(* mixed: the stored summary that start() took up is not one of the first  *)
(* blocks of this ledger.  lost: a block in it is not stored.              *)
(* unanswered: the peer did not answer for a block.                        *)
(***************************************************************************)
Reason == {"early", "genesis", "mixed", "lost", "unanswered"}

Fetch == [start : {"trace", "gap"}, end : 0..MaxHeight, left : SUBSET Number, ok : BOOLEAN]
\* late: an update of the summary that a younger one has overtaken.  second: one that
\* found no row, as another did, and inserts a row that nobody will find.
Write == [kind : {"block", "summary", "late", "second", "clean"},
          block : Block, then : BOOLEAN, summary : Summary]
BlockWrite(n, then) == [kind |-> "block", block |-> Now(n), then |-> then, summary |-> Zero]
SummaryWrite(s) == [kind |-> "summary", block |-> Now(0), then |-> FALSE, summary |-> s]
CleanWrite == [kind |-> "clean", block |-> Now(0), then |-> FALSE, summary |-> Zero]

TypeOK ==
  /\ ledger \in [gen : Generation, height : 0..MaxHeight]
  /\ running \in BOOLEAN /\ phase \in Phase
  /\ events \in Seq(Number)
  /\ summary \in Summary /\ found \in Summary \cup {None} /\ row \in Summary \cup {None}
  /\ blockNumberArray \subseteq Number /\ currentHeight \in 0..MaxHeight
  /\ fetches \subseteq Fetch /\ \A f \in fetches : f.left # {}
  /\ writes \in Seq(Write)
  /\ blocks \subseteq Block /\ spoiled \subseteq Reason
  /\ refused \subseteq Block /\ unsaved \in BOOLEAN
  /\ crashes \in 0..MaxCrashes /\ fails \in 0..MaxFails

Init ==
  /\ ledger \in [gen : {0}, height : {0, 1}] /\ running = TRUE
  /\ events = <<>> /\ phase = "none"
  /\ summary = Zero /\ blockNumberArray = {} /\ currentHeight = 0
  /\ found = None /\ fetches = {} /\ writes = <<>>
  /\ row = None /\ blocks = {}
  /\ spoiled = {} /\ refused = {} /\ unsaved = FALSE /\ crashes = 0 /\ fails = 0

Room == ledger.height + crashes + fails < MaxTotal

-------------------------------------------------------------------------------
(* The peer. *)

\* A block is committed, the first one when the peer joins the channel; its event is lost
\* when the hub is not connected.
NewBlock(lost) ==
  /\ ledger.height < MaxHeight /\ Room
  /\ ledger' = [ledger EXCEPT !.height = @ + 1]
  /\ events' = IF lost \/ ~running THEN events ELSE Append(events, ledger.height)
  /\ UNCHANGED <<running, phase, summary, blockNumberArray, currentHeight, found, fetches,
                 writes, stored, spoiled, ghosts, crashes, fails>>

\* The network is made anew while the gateway is stopped.
NewLedger ==
  /\ ~running /\ ledger.gen < MaxResets
  /\ ledger' \in [gen : {ledger.gen + 1}, height : {0, 1}]
  /\ UNCHANGED <<running, memory, writes, stored, spoiled, ghosts, crashes, fails>>

-------------------------------------------------------------------------------
(* Counting. *)

\* find returns the number it finds, and 0 is false: block 0 is never a duplicate.
Duplicate(n) == n # 0 /\ n \in blockNumberArray

updateChannelInfo(s) == <<SummaryWrite(s)>>

\* then: the summary is stored when the block is.  last: it is stored at once, the
\* block being the last of its range.
refreshBlockAndTx(n, then, last) ==
  /\ IF Duplicate(n)
     THEN UNCHANGED <<blockNumberArray, summary>>
     ELSE /\ blockNumberArray' = blockNumberArray \cup {n}
          /\ summary' = [blockNum |-> summary.blockNum + 1,
                        counts |-> [summary.counts EXCEPT ![Now(n)] = @ + 1]]
  /\ writes' = writes
        \o (IF ~Duplicate(n) THEN <<BlockWrite(n, then)>>
            ELSE IF then THEN updateChannelInfo(summary) ELSE <<>>)
        \o (IF last THEN updateChannelInfo(summary') ELSE <<>>)

\* Blocks start..end - 1 are asked for at once; an empty range is done at once.
refreshRangeBlocks(kind, start, end) ==
  IF start < end THEN {[start |-> kind, end |-> end, left |-> start..end - 1, ok |-> TRUE]} ELSE {}

\* A block arrives, in any order.  When all have, the summary is stored; the
\* promises of their rows came too late to be waited for.
BlockFetched(f, n) ==
  /\ Len(writes) < MaxWrites
  /\ fetches' = (fetches \ {f}) \cup (IF f.left = {n} THEN {} ELSE {[f EXCEPT !.left = @ \ {n}]})
  /\ refreshBlockAndTx(n, FALSE, f.left = {n} /\ f.ok)
  /\ UNCHANGED <<ledger, running, events, phase, currentHeight, found, stored, spoiled,
                 ghosts, crashes, fails>>

\* The others of the range are counted still, but the summary is not stored.
BlockNotFetched(f, n) ==
  /\ fails < MaxFails /\ Room /\ fails' = fails + 1
  /\ fetches' = (fetches \ {f})
                \cup (IF f.left = {n} THEN {} ELSE {[f EXCEPT !.left = @ \ {n}, !.ok = FALSE]})
  /\ spoiled' = spoiled \cup {"unanswered"}
  /\ UNCHANGED <<ledger, running, events, phase, summary, blockNumberArray, currentHeight, found,
                 writes, stored, ghosts, crashes>>

\* A block event.  The object is made and started if it is not there; if blocks are
\* missing they are asked for.
eventBlock_NoGap ==
  /\ events # <<>> /\ Len(writes) < MaxWrites /\ events' = Tail(events)
  /\ phase' = IF phase = "none" THEN "row" ELSE phase
  /\ currentHeight' = Head(events) + 1
  /\ refreshBlockAndTx(Head(events), TRUE, FALSE)
  /\ spoiled' = spoiled \cup (IF phase # "tracing" THEN {"early"}
                             ELSE IF Head(events) = 0 THEN {"genesis"} ELSE {})
  /\ UNCHANGED <<ledger, running, found, fetches, stored, ghosts, crashes, fails>>

eventBlock ==
  /\ events # <<>> /\ Len(writes) < MaxWrites /\ events' = Tail(events)
  /\ phase' = IF phase = "none" THEN "row" ELSE phase
  /\ fetches' = fetches \cup refreshRangeBlocks("gap", currentHeight, Head(events))
  /\ currentHeight' = Head(events) + 1
  /\ refreshBlockAndTx(Head(events), TRUE, FALSE)
  /\ spoiled' = spoiled \cup (IF phase # "tracing" THEN {"early"}
                             ELSE IF Head(events) = 0 THEN {"genesis"} ELSE {})
  /\ UNCHANGED <<ledger, running, found, stored, ghosts, crashes, fails>>

-------------------------------------------------------------------------------
(* The start. *)

\* refreshChannelObj, when the peer lists the channel.
refreshChannelObj ==
  /\ running /\ ledger.height > 0 /\ phase = "none" /\ phase' = "row"
  /\ UNCHANGED <<ledger, running, events, summary, blockNumberArray, currentHeight, found, fetches,
                 writes, stored, spoiled, ghosts, crashes, fails>>

\* The cache is cleared at once, the rows when the database gets to it.  The stored
\* summary stays.
cleanDb ==
  /\ phase' = "cleaning"
  /\ summary' = Zero /\ blockNumberArray' = {} /\ currentHeight' = 0
  /\ writes' = Append(writes, CleanWrite)

checkHistory ==
  /\ phase = "row" /\ found' = row
  /\ IF row = None THEN cleanDb
     ELSE phase' = "hash" /\ UNCHANGED <<summary, blockNumberArray, currentHeight, writes>>
  /\ UNCHANGED <<ledger, running, events, fetches, stored, spoiled, ghosts, crashes, fails>>

\* The peer's block 0 has come, and is compared with the stored one.
SameGeneration == Now(0) \in blocks
Spoilt ==
  IF SameGeneration
  THEN (IF IsFirstBlocks(found) THEN {} ELSE {"mixed"}) \cup (IF IsStored(found) THEN {} ELSE {"lost"})
  ELSE {}

compareHash_AnyBlock ==
  /\ phase = "hash"
  /\ IF \E g \in 0..MaxResets : <<g, 0>> \in blocks
     THEN /\ phase' = "height" /\ summary' = found
          /\ UNCHANGED <<blockNumberArray, currentHeight, writes>>
     ELSE cleanDb
  /\ spoiled' = spoiled \cup Spoilt
  /\ UNCHANGED <<ledger, running, events, found, fetches, stored, ghosts, crashes, fails>>

compareHash ==
  /\ phase = "hash"
  /\ IF SameGeneration
     THEN /\ phase' = "height" /\ summary' = found
          /\ UNCHANGED <<blockNumberArray, currentHeight, writes>>
     ELSE cleanDb
  /\ spoiled' = spoiled \cup Spoilt
  /\ UNCHANGED <<ledger, running, events, found, fetches, stored, ghosts, crashes, fails>>

checkAndTrace ==
  /\ phase = "height" /\ phase' = "tracing"
  /\ currentHeight' = ledger.height
  /\ LET range == refreshRangeBlocks("trace", summary.blockNum, ledger.height)
     IN  /\ fetches' = fetches \cup range
         /\ writes' = IF range = {} THEN writes \o updateChannelInfo(summary) ELSE writes
  /\ UNCHANGED <<ledger, running, events, summary, blockNumberArray, found, stored, spoiled,
                 ghosts, crashes, fails>>

\* No answer to the question for block 0 or for the height: nothing starts again.
StartFails ==
  /\ phase \in {"hash", "height"} /\ phase' = "stuck"
  /\ fails < MaxFails /\ Room /\ fails' = fails + 1
  /\ UNCHANGED <<ledger, running, events, summary, blockNumberArray, currentHeight, found, fetches,
                 writes, stored, spoiled, ghosts, crashes>>

-------------------------------------------------------------------------------
(* The database, and the gateway's process. *)

\* A stored block replaces the one of its number.
BlocksWith(w) ==
  CASE w.kind = "block" -> {b \in blocks : b[2] # w.block[2]} \cup {w.block}
    [] w.kind = "clean" -> {}
    [] OTHER -> blocks
RowWith(w) == IF w.kind \in {"summary", "late"} THEN w.summary ELSE row

\* Those that may have found no row while writes[i] did not either.
Met(i) == SUBSET {j \in 1..Len(writes) - 1 : row = None /\ writes[i].kind \in {"summary", "late"}}

\* What is left of the writes: the older ones of the summary are late now.
Left(i, met) ==
  LET rest == RemoveAt(writes, i)
      Kind(j) == IF rest[j].kind \notin {"summary", "late"} THEN rest[j].kind
                 ELSE IF j \in met THEN "second"
                 ELSE IF j < i /\ writes[i].kind \in {"summary", "second"} THEN "late"
                 ELSE rest[j].kind
  IN  [j \in 1..Len(rest) |-> [rest[j] EXCEPT !.kind = Kind(j)]]

Then_Never(w) == <<>>
Then(w) == IF w.then THEN updateChannelInfo(summary) ELSE <<>>

\* The object waits for its own clean.
WriteDone == \E i \in 1..Len(writes) : \E met \in Met(i) :
  LET w == writes[i]
  IN  /\ blocks' = BlocksWith(w) /\ row' = RowWith(w)
      /\ phase' = IF w.kind = "clean" THEN "height" ELSE phase
      /\ writes' = Left(i, met) \o Then(w)
      /\ unsaved' = ((unsaved /\ w.kind # "summary") \/ w.kind \in {"late", "second"})
      /\ UNCHANGED <<ledger, running, events, summary, blockNumberArray, currentHeight, found,
                     fetches, spoiled, refused, crashes, fails>>

\* updateBlock resolves nevertheless; of the others nobody catches the error, and a clean
\* is waited for in vain.  The database may have done what it could not acknowledge.
WriteFails == \E i \in 1..Len(writes) : \E met \in Met(i) :
  LET w == writes[i]
  IN  /\ fails < MaxFails /\ Room /\ fails' = fails + 1
      /\ \/ blocks' = BlocksWith(w) /\ row' = RowWith(w)
         \/ UNCHANGED stored
      /\ phase' = IF w.kind = "clean" THEN "stuck" ELSE phase
      /\ writes' = Left(i, met) \o Then(w)
      /\ unsaved' = (unsaved \/ w.kind \in {"summary", "late", "second"})
      /\ refused' = IF w.kind = "block" THEN refused \cup {w.block} ELSE refused
      /\ UNCHANGED <<ledger, running, events, summary, blockNumberArray, currentHeight, found,
                     fetches, spoiled, crashes>>

\* What was not written yet is lost, and so are the events of the time it is stopped.
Stop ==
  /\ running /\ crashes < MaxCrashes /\ Room /\ crashes' = crashes + 1
  /\ running' = FALSE
  /\ events' = <<>> /\ phase' = "none"
  /\ summary' = Zero /\ blockNumberArray' = {} /\ currentHeight' = 0
  /\ found' = None /\ fetches' = {} /\ writes' = <<>>
  /\ spoiled' = {} /\ refused' = {} /\ unsaved' = FALSE
  /\ UNCHANGED <<ledger, stored, fails>>

Start ==
  /\ ~running /\ running' = TRUE
  /\ UNCHANGED <<ledger, memory, writes, stored, spoiled, ghosts, crashes, fails>>

Fetched == \E f \in fetches : \E n \in f.left : BlockFetched(f, n)

Next ==
  \/ \E lost \in BOOLEAN : NewBlock(lost)
  \/ NewLedger
  \/ refreshChannelObj \/ checkHistory \/ compareHash \/ checkAndTrace \/ StartFails
  \/ eventBlock \/ Fetched
  \/ \E f \in fetches : \E n \in f.left : BlockNotFetched(f, n)
  \/ WriteDone \/ WriteFails \/ Stop \/ Start

\* The gateway is started again; the interval of monitor/peer.js goes on for ever; the
\* peer answers, or does not, and the database does.
Spec ==
  /\ Init /\ [][Next]_vars
  /\ WF_vars(Start) /\ WF_vars(refreshChannelObj) /\ WF_vars(checkHistory)
  /\ WF_vars(compareHash) /\ WF_vars(checkAndTrace)
  /\ WF_vars(eventBlock) /\ WF_vars(Fetched) /\ WF_vars(WriteDone)

-------------------------------------------------------------------------------
(* Properties *)

\* Every block below the height is counted once, whichever of the trace, a gap and its
\* event comes first, and nothing of an earlier ledger, unless something of Reason has
\* happened: what is not under way is counted.
CountsOnce ==
  phase = "tracing" /\ fetches = {} /\ spoiled = {} =>
    \A b \in Block :
      /\ summary.counts[b] <= IF b[1] = ledger.gen THEN 1 ELSE 0
      /\ b[1] = ledger.gen /\ b[2] < currentHeight => summary.counts[b] = 1

\* A block that is counted is stored, or is being stored, and its row is never one of
\* an earlier ledger.  Only a block whose row the database refused is counted without.
CountedIsStored ==
  phase = "tracing" /\ spoiled = {} =>
    \A b \in Block : summary.counts[b] > 0 =>
      \/ b \in blocks \cup refused
      \/ \E i \in 1..Len(writes) : writes[i].kind = "block" /\ writes[i].block = b

\* Once the peer is quiet, the stored summary becomes that of the counted blocks, in
\* whatever order the updates are done, unless the last one fails or is overwritten: a
\* restart then takes up all of them.
SummaryIsStored ==
  <>[](phase = "tracing" /\ spoiled = {} /\ ~unsaved) => <>[](row = summary)
===============================================================================
