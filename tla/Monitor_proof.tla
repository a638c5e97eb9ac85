---------------------------- MODULE Monitor_proof ------------------------------
(***************************************************************************)
(* Proofs about Monitor, for any bounds: any number of blocks, ledgers     *)
(* made anew, restarts, questions without an answer and writes that fail   *)
(* or are done in another order.                                           *)
(*                                                                         *)
(* The inductive invariant has three parts.  What is announced, asked for  *)
(* or counted is in the ledger, or in an earlier one.  A gateway that does *)
(* not run remembers nothing.  And while nothing has spoiled the counts:   *)
(* until the object traces nothing is counted but what the stored summary  *)
(* says, and every event is newer than that; from then on the blocks below *)
(* a base are those the summary had, those from the base on are counted    *)
(* just if blockNumberArray has them, and each below the height is counted *)
(* or asked for.  Block 0, which is never found in blockNumberArray, is    *)
(* asked for by one range at most, and by none once it is counted.         *)
(***************************************************************************)
EXTENDS Monitor, SequenceTheorems, TLAPS

Elements(s) == {s[i] : i \in 1..Len(s)}

(***************************************************************************)
(* Sequences and the elements they have                                    *)
(***************************************************************************)

LEMMA ElementsEmpty == Elements(<<>>) = {}
BY DEF Elements

LEMMA ElementsOne ==
  ASSUME NEW S, NEW x \in S
  PROVE  <<x>> \in Seq(S) /\ Elements(<<x>>) = {x}
<1>1. <<x>> \in Seq(S) /\ Len(<<x>>) = 1 /\ <<x>>[1] = x
  OBVIOUS
<1>2. \A i \in 1..Len(<<x>>) : i = 1
  BY <1>1
<1> QED BY <1>1, <1>2 DEF Elements

LEMMA ElementsConcat ==
  ASSUME NEW S, NEW s \in Seq(S), NEW t \in Seq(S)
  PROVE  s \o t \in Seq(S) /\ Elements(s \o t) = Elements(s) \cup Elements(t)
<1>1. /\ s \o t \in Seq(S) /\ Len(s \o t) = Len(s) + Len(t)
      /\ Len(s) \in Nat /\ Len(t) \in Nat
      /\ \A i \in 1..Len(s) : (s \o t)[i] = s[i]
      /\ \A i \in 1..Len(t) : (s \o t)[Len(s) + i] = t[i]
  OBVIOUS
<1>2. \A i \in 1..Len(s \o t) : i \in 1..Len(s) \/ \E j \in 1..Len(t) : i = Len(s) + j
  <2> SUFFICES ASSUME NEW i \in 1..Len(s \o t), i \notin 1..Len(s)
               PROVE  \E j \in 1..Len(t) : i = Len(s) + j
    OBVIOUS
  <2>1. i - Len(s) \in 1..Len(t) /\ i = Len(s) + (i - Len(s))
    BY <1>1
  <2> QED BY <2>1
<1>3. Elements(s \o t) \subseteq Elements(s) \cup Elements(t)
  BY <1>1, <1>2 DEF Elements
<1>4. Elements(s) \subseteq Elements(s \o t)
  BY <1>1 DEF Elements
<1>5. Elements(t) \subseteq Elements(s \o t)
  <2> SUFFICES ASSUME NEW j \in 1..Len(t) PROVE t[j] \in Elements(s \o t)
    BY DEF Elements
  <2>1. Len(s) + j \in 1..Len(s \o t)
    BY <1>1
  <2> QED BY <1>1, <2>1 DEF Elements
<1> QED BY <1>1, <1>3, <1>4, <1>5

LEMMA ElementsAppend ==
  ASSUME NEW S, NEW s \in Seq(S), NEW x \in S
  PROVE  Append(s, x) \in Seq(S) /\ Elements(Append(s, x)) = Elements(s) \cup {x}
<1>1. /\ Append(s, x) \in Seq(S) /\ Len(Append(s, x)) = Len(s) + 1 /\ Len(s) \in Nat
      /\ \A i \in 1..Len(s) : Append(s, x)[i] = s[i]
      /\ Append(s, x)[Len(s) + 1] = x
  OBVIOUS
<1>2. \A i \in 1..Len(Append(s, x)) : i \in 1..Len(s) \/ i = Len(s) + 1
  BY <1>1
<1>3. Elements(Append(s, x)) \subseteq Elements(s) \cup {x}
  BY <1>1, <1>2 DEF Elements
<1>4. Elements(s) \cup {x} \subseteq Elements(Append(s, x))
  <2>1. Len(s) + 1 \in 1..Len(Append(s, x))
    BY <1>1
  <2> QED BY <1>1, <2>1 DEF Elements
<1> QED BY <1>1, <1>3, <1>4

LEMMA ElementsTail ==
  ASSUME NEW S, NEW s \in Seq(S), s # <<>>
  PROVE  /\ Head(s) \in S /\ Tail(s) \in Seq(S)
         /\ Elements(s) = {Head(s)} \cup Elements(Tail(s))
<1>1. /\ Len(s) \in Nat /\ Len(s) >= 1 /\ Head(s) = s[1] /\ Head(s) \in S
      /\ Tail(s) \in Seq(S) /\ Len(Tail(s)) = Len(s) - 1
      /\ \A i \in 1..Len(Tail(s)) : Tail(s)[i] = s[i + 1]
  OBVIOUS
<1>2. Elements(s) \subseteq {Head(s)} \cup Elements(Tail(s))
  <2> SUFFICES ASSUME NEW i \in 1..Len(s), i # 1 PROVE s[i] \in Elements(Tail(s))
    BY <1>1 DEF Elements
  <2>1. i - 1 \in 1..Len(Tail(s)) /\ i = (i - 1) + 1
    BY <1>1
  <2>2. Tail(s)[i - 1] = s[i]
    BY <1>1, <2>1
  <2> QED BY <2>1, <2>2 DEF Elements
<1>3. \A i \in 1..Len(Tail(s)) : i + 1 \in 1..Len(s)
  BY <1>1
<1>4. {Head(s)} \cup Elements(Tail(s)) \subseteq Elements(s)
  BY <1>1, <1>3 DEF Elements
<1> QED BY <1>1, <1>2, <1>4

LEMMA ElementsType ==
  ASSUME NEW S, NEW s \in Seq(S)
  PROVE  Elements(s) \subseteq S
BY DEF Elements

(***************************************************************************)
(* The inductive invariant                                                 *)
(***************************************************************************)

\* s counts nothing that is not in this ledger or in an earlier one.
Past(s) ==
  \A b \in Block : s.counts[b] > 0 =>
    \/ b[1] < ledger.gen
    \/ b[1] = ledger.gen /\ b[2] < ledger.height

InLedger ==
  /\ \A n \in Elements(events) : n < ledger.height
  /\ \A f \in fetches : \A n \in f.left : n < ledger.height
  /\ Past(summary)
  /\ found # None => Past(found)
  /\ row # None => Past(row)
  /\ \A w \in Elements(writes) : Past(w.summary)

NothingKept ==
  /\ phase = "none" /\ events = <<>> /\ fetches = {} /\ writes = <<>>
  /\ summary = Zero /\ blockNumberArray = {} /\ spoiled = {}

Remembers ==
  /\ ~running => NothingKept
  /\ phase = "hash" => found # None
  /\ phase # "none" => ledger.height >= 1
  /\ phase = "none" => writes = <<>> /\ fetches = {}

\* The blocks that s has of this ledger are older than the events.
Older(s) ==
  \A b \in Block : s.counts[b] > 0 /\ b[1] = ledger.gen =>
    \A n \in Elements(events) : n > b[2]

Idle == fetches = {} /\ blockNumberArray = {}

Starting ==
  /\ phase \in {"none", "row"} => row = None \/ Older(row)
  /\ phase = "hash" => Older(found)
  /\ phase \in {"none", "row", "hash"} => Idle /\ summary = Zero /\ writes = <<>>
  /\ phase = "cleaning" => Idle /\ summary = Zero /\ writes = <<CleanWrite>>
  /\ phase = "height" =>
       /\ Idle /\ writes = <<>>
       /\ IsFirstBlocks(summary) /\ IsStored(summary) /\ Older(summary)
  /\ phase = "stuck" => Idle /\ writes = <<>>

CountedFrom(base) ==
  /\ currentHeight >= base
  /\ \A n \in Elements(events) : n >= base
  /\ \A f \in fetches : \A n \in f.left : n >= base
  /\ \A n \in Number :
       summary.counts[Now(n)] = IF n < base \/ n \in blockNumberArray THEN 1 ELSE 0
  /\ \A n \in Number : n < currentHeight =>
       n < base \/ n \in blockNumberArray \/ \E f \in fetches : n \in f.left

BlockZeroOnce ==
  /\ \A f, g \in fetches : 0 \in f.left /\ 0 \in g.left => f = g
  /\ \A f \in fetches : 0 \in f.left => 0 \notin blockNumberArray

BeingStored(b) == \E w \in Elements(writes) : w.kind = "block" /\ w.block = b

Tracing ==
  phase = "tracing" =>
    /\ currentHeight >= 1
    /\ \E base \in Nat : CountedFrom(base)
    /\ BlockZeroOnce
    /\ \A b \in Block : b[1] # ledger.gen => summary.counts[b] = 0
    /\ \A w \in Elements(writes) :
         w.kind # "clean" /\ (w.kind = "block" => w.block[1] = ledger.gen)
    /\ \A b \in Block : summary.counts[b] > 0 => b \in blocks \cup refused \/ BeingStored(b)

Inv ==
  /\ TypeOK /\ InLedger /\ Remembers
  /\ spoiled = {} => Starting /\ Tracing

LEMMA InitInv == Init => Inv
<1> SUFFICES ASSUME Init PROVE Inv
  OBVIOUS
<1>1. Zero \in Summary
  BY DEF Zero, Summary
<1>2. TypeOK
  <2>1. 0 \in Generation /\ {0, 1} \subseteq 0..MaxHeight
    BY MonitorAssumption DEF Generation
  <2>2. 0 \in 0..MaxCrashes /\ 0 \in 0..MaxFails
    BY MonitorAssumption
  <2>3. ledger \in [gen : Generation, height : 0..MaxHeight]
    BY <2>1 DEF Init
  <2>4. events \in Seq(Number) /\ writes \in Seq(Write)
    BY DEF Init
  <2> QED BY <1>1, <2>1, <2>2, <2>3, <2>4 DEF Init, TypeOK, Phase
<1>3. Past(summary)
  BY DEF Init, Past, Zero
<1>4. InLedger
  BY <1>3, ElementsEmpty DEF Init, InLedger
<1>5. Remembers
  BY DEF Init, Remembers
<1>6. Starting /\ Tracing
  BY DEF Init, Starting, Tracing, Idle
<1> QED BY <1>2, <1>4, <1>5, <1>6 DEF Inv

(***************************************************************************)
(* Facts that several actions need                                         *)
(***************************************************************************)

LEMMA ZeroType == Zero \in Summary /\ Past(Zero) /\ Past(Zero)'
BY DEF Zero, Summary, Past

LEMMA NowType == ASSUME TypeOK, NEW n \in Number PROVE Now(n) \in Block
BY DEF TypeOK, Now, Block

LEMMA WriteType ==
  ASSUME TypeOK, NEW n \in Number, NEW then \in BOOLEAN, NEW s \in Summary
  PROVE  BlockWrite(n, then) \in Write /\ SummaryWrite(s) \in Write /\ CleanWrite \in Write
<1>1. 0 \in Number
  BY MonitorAssumption DEF Number
<1>2. Now(n) \in Block /\ Now(0) \in Block
  BY <1>1, NowType
<1> QED BY <1>2, ZeroType DEF BlockWrite, SummaryWrite, CleanWrite, Write

\* While the gateway runs it has one ledger, which grows.
LEMMA PastStays ==
  ASSUME TypeOK, TypeOK', NEW s \in Summary, Past(s),
         \/ ledger'.gen = ledger.gen /\ ledger'.height >= ledger.height
         \/ ledger'.gen > ledger.gen
  PROVE  Past(s)'
<1> SUFFICES ASSUME NEW b \in Block, s.counts[b] > 0
             PROVE  \/ b[1] < ledger'.gen
                    \/ b[1] = ledger'.gen /\ b[2] < ledger'.height
  BY DEF Past
<1>1. b[1] \in Nat /\ b[2] \in Nat
  BY MonitorAssumption DEF Block, Generation, Number
<1>2. ledger.gen \in Nat /\ ledger.height \in Nat /\ ledger'.gen \in Nat /\ ledger'.height \in Nat
  BY MonitorAssumption DEF TypeOK, Generation
<1>3. \/ b[1] < ledger.gen
      \/ b[1] = ledger.gen /\ b[2] < ledger.height
  BY DEF Past
<1> QED BY <1>1, <1>2, <1>3

\* What counting a block changes.
LEMMA Refreshed ==
  ASSUME TypeOK, NEW n \in Number, NEW then \in BOOLEAN, NEW last \in BOOLEAN,
         refreshBlockAndTx(n, then, last)
  PROVE  /\ summary' \in Summary /\ blockNumberArray' \subseteq Number /\ writes' \in Seq(Write)
         /\ Elements(writes) \subseteq Elements(writes')
         /\ Duplicate(n) =>
              /\ summary' = summary /\ blockNumberArray' = blockNumberArray
              /\ Elements(writes') \subseteq Elements(writes) \cup {SummaryWrite(summary)}
         /\ ~Duplicate(n) =>
              /\ summary'.counts = [summary.counts EXCEPT ![Now(n)] = @ + 1]
              /\ blockNumberArray' = blockNumberArray \cup {n}
              /\ BlockWrite(n, then) \in Elements(writes')
              /\ Elements(writes') \subseteq
                   Elements(writes) \cup {BlockWrite(n, then), SummaryWrite(summary')}
<1> DEFINE A == IF ~Duplicate(n) THEN <<BlockWrite(n, then)>>
                ELSE IF then THEN updateChannelInfo(summary) ELSE <<>>
           B == IF last THEN updateChannelInfo(summary') ELSE <<>>
<1>1. writes' = (writes \o A) \o B
  BY DEF refreshBlockAndTx
<1>2. summary' \in Summary /\ blockNumberArray' \subseteq Number
  <2>1. CASE Duplicate(n)
    BY <2>1 DEF refreshBlockAndTx, TypeOK
  <2>2. CASE ~Duplicate(n)
    <3>1. /\ blockNumberArray' = blockNumberArray \cup {n}
          /\ summary' = [blockNum |-> summary.blockNum + 1,
                         counts |-> [summary.counts EXCEPT ![Now(n)] = @ + 1]]
      BY <2>2 DEF refreshBlockAndTx
    <3>2. summary.blockNum \in Nat /\ summary.counts \in [Block -> Nat]
      BY DEF TypeOK, Summary
    <3>3. [summary.counts EXCEPT ![Now(n)] = @ + 1] \in [Block -> Nat]
      BY <3>2, NowType
    <3> QED BY <3>1, <3>2, <3>3 DEF Summary, TypeOK
  <2> QED BY <2>1, <2>2
<1>3. summary \in Summary /\ writes \in Seq(Write)
  BY DEF TypeOK
<1>4. /\ BlockWrite(n, then) \in Write
      /\ SummaryWrite(summary) \in Write /\ SummaryWrite(summary') \in Write
  BY <1>2, <1>3, WriteType
<1>5. <<>> \in Seq(Write)
  OBVIOUS
<1>6. /\ A \in Seq(Write)
      /\ ~Duplicate(n) => Elements(A) = {BlockWrite(n, then)}
      /\ Duplicate(n) => Elements(A) \subseteq {SummaryWrite(summary)}
  BY <1>4, <1>5, ElementsOne, ElementsEmpty DEF updateChannelInfo
<1>7. B \in Seq(Write) /\ Elements(B) \subseteq {SummaryWrite(summary')}
  BY <1>4, <1>5, ElementsOne, ElementsEmpty DEF updateChannelInfo
<1> HIDE DEF A, B
<1>8. writes' \in Seq(Write) /\ Elements(writes') = Elements(writes) \cup Elements(A) \cup Elements(B)
  <2> DEFINE C == writes \o A
  <2>1. C \in Seq(Write) /\ Elements(C) = Elements(writes) \cup Elements(A)
    BY <1>3, <1>6, ElementsConcat
  <2>2. writes' = C \o B
    BY <1>1
  <2> HIDE DEF C
  <2>3. C \o B \in Seq(Write) /\ Elements(C \o B) = Elements(C) \cup Elements(B)
    BY <2>1, <1>7, ElementsConcat
  <2> QED BY <2>1, <2>2, <2>3
<1>9. CASE Duplicate(n)
  <2>1. summary' = summary /\ blockNumberArray' = blockNumberArray
    BY <1>9 DEF refreshBlockAndTx
  <2> QED BY <1>2, <1>6, <1>7, <1>8, <1>9, <2>1
<1>10. CASE ~Duplicate(n)
  <2>1. /\ summary'.counts = [summary.counts EXCEPT ![Now(n)] = @ + 1]
        /\ blockNumberArray' = blockNumberArray \cup {n}
    BY <1>10 DEF refreshBlockAndTx
  <2> QED BY <1>2, <1>6, <1>7, <1>8, <1>10, <2>1
<1> QED BY <1>9, <1>10

\* A block of the ledger leaves the summary with blocks of the ledger.
LEMMA RefreshedPast ==
  ASSUME TypeOK, Past(summary), NEW n \in Number, n < ledger.height, ledger' = ledger,
         NEW then \in BOOLEAN, NEW last \in BOOLEAN, refreshBlockAndTx(n, then, last),
         \A w \in Elements(writes) : Past(w.summary)
  PROVE  Past(summary)' /\ \A w \in Elements(writes)' : Past(w.summary)'
<1>1. \A s : Past(s) => Past(s)'
  BY DEF Past
<1>2. Past(summary)'
  <2>1. CASE Duplicate(n)
    BY <2>1, <1>1, Refreshed
  <2>2. CASE ~Duplicate(n)
    <3> SUFFICES ASSUME NEW b \in Block, summary'.counts[b] > 0
                 PROVE  \/ b[1] < ledger.gen
                        \/ b[1] = ledger.gen /\ b[2] < ledger.height
      BY DEF Past
    <3>1. summary'.counts = [summary.counts EXCEPT ![Now(n)] = @ + 1]
      BY <2>2, Refreshed
    <3>2. summary.counts \in [Block -> Nat]
      BY DEF TypeOK, Summary
    <3>3. b = Now(n) \/ summary.counts[b] > 0
      BY <3>1, <3>2
    <3> QED BY <3>3 DEF Past, Now
  <2> QED BY <2>1, <2>2
<1>3. Past(BlockWrite(n, then).summary)
  BY ZeroType DEF BlockWrite
<1>4. SummaryWrite(summary).summary = summary /\ SummaryWrite(summary').summary = summary'
  BY DEF SummaryWrite
<1>5. \A w \in Elements(writes') : \/ w \in Elements(writes) \/ w = BlockWrite(n, then)
                                   \/ w = SummaryWrite(summary) \/ w = SummaryWrite(summary')
  BY Refreshed
<1>6. Elements(writes)' = Elements(writes')
  BY DEF Elements
<1>7. ASSUME NEW w \in Elements(writes') PROVE Past(w.summary)'
  BY <1>1, <1>2, <1>3, <1>4, <1>5, <1>7
<1> QED BY <1>2, <1>6, <1>7

\* What a range asks for.
LEMMA RangeFacts ==
  ASSUME NEW kind \in {"trace", "gap"}, NEW start \in Nat, NEW end \in 0..MaxHeight
  PROVE  /\ refreshRangeBlocks(kind, start, end) \subseteq Fetch
         /\ \A f \in refreshRangeBlocks(kind, start, end) : f.left # {} /\ f.left = start..end - 1
         /\ \A f, g \in refreshRangeBlocks(kind, start, end) : f = g
         /\ \A n \in start..end - 1 : \E f \in refreshRangeBlocks(kind, start, end) : n \in f.left
<1>1. CASE start < end
  <2> DEFINE r == [start |-> kind, end |-> end, left |-> start..end - 1, ok |-> TRUE]
  <2>1. refreshRangeBlocks(kind, start, end) = {r}
    BY <1>1 DEF refreshRangeBlocks
  <2>2. start..end - 1 \subseteq Number /\ start \in start..end - 1
    BY <1>1, MonitorAssumption DEF Number
  <2>3. r \in Fetch /\ r.left = start..end - 1
    BY <2>2 DEF Fetch
  <2> HIDE DEF r
  <2> QED BY <2>1, <2>2, <2>3
<1>2. CASE ~(start < end)
  <2>1. refreshRangeBlocks(kind, start, end) = {}
    BY <1>2 DEF refreshRangeBlocks
  <2>2. end \in Nat
    BY MonitorAssumption
  <2>3. \A n \in start..end - 1 : FALSE
    BY <1>2, <2>2
  <2> QED BY <2>1, <2>3
<1> QED BY <1>1, <1>2

\* Facts about the numbers that the type invariant gives.
LEMMA Numbers ==
  ASSUME TypeOK
  PROVE  /\ ledger.gen \in Generation /\ ledger.gen \in Nat
         /\ ledger.height \in Nat /\ ledger.height <= MaxHeight
         /\ currentHeight \in Nat /\ currentHeight <= MaxHeight /\ MaxHeight \in Nat
         /\ \A n \in Elements(events) : n \in Number
         /\ \A n \in Number : n \in Nat /\ n < MaxHeight /\ Now(n) \in Block
                              /\ Now(n)[1] = ledger.gen /\ Now(n)[2] = n
         /\ \A b \in Block : b[1] \in Nat /\ b[2] \in Number /\ b = <<b[1], b[2]>>
                             /\ (b[1] = ledger.gen => b = Now(b[2]))
<1>1. ledger.gen \in Generation /\ ledger.height \in 0..MaxHeight /\ currentHeight \in 0..MaxHeight
  BY DEF TypeOK
<1>2. MaxHeight \in Nat /\ MaxHeight >= 1 /\ MaxResets \in Nat
  BY MonitorAssumption
<1>3. \A n \in Elements(events) : n \in Number
  BY ElementsType DEF TypeOK
<1>4. \A n \in Number : n \in Nat /\ n < MaxHeight
  BY <1>2 DEF Number
<1>5. \A n \in Number : Now(n) \in Block /\ Now(n)[1] = ledger.gen /\ Now(n)[2] = n
  BY NowType DEF Now
<1>6. \A b \in Block : b[1] \in Nat /\ b[2] \in Number /\ b = <<b[1], b[2]>>
  BY <1>2 DEF Block, Generation
<1>7. \A b \in Block : b[1] = ledger.gen => b = Now(b[2])
  BY <1>6 DEF Now
<1> QED BY <1>1, <1>2, <1>3, <1>4, <1>5, <1>6, <1>7 DEF Generation

\* The base is not above the height: the block below it was counted.
LEMMA BaseInLedger ==
  ASSUME TypeOK, Past(summary), NEW base \in Nat, CountedFrom(base)
  PROVE  base <= ledger.height
<1>1. CASE base = 0
  BY <1>1, Numbers
<1>2. CASE base # 0
  <2>1. base - 1 \in Number
    BY <1>2, Numbers DEF CountedFrom, Number
  <2>2. summary.counts[Now(base - 1)] = 1
    <3>1. base - 1 < base
      OBVIOUS
    <3> QED BY <2>1, <3>1 DEF CountedFrom
  <2>3. Now(base - 1) \in Block /\ Now(base - 1)[1] = ledger.gen /\ Now(base - 1)[2] = base - 1
    BY <2>1, Numbers
  <2>4. base - 1 < ledger.height
    BY <2>2, <2>3, Numbers DEF Past
  <2> QED BY <2>4, Numbers
<1> QED BY <1>1, <1>2

(***************************************************************************)
(* The peer                                                                *)
(***************************************************************************)

LEMMA NewBlockInv == ASSUME Inv, NEW lost \in BOOLEAN, NewBlock(lost) PROVE Inv'
<1>1. TypeOK /\ InLedger /\ Remembers
  BY DEF Inv
<1>2. /\ ledger.height < MaxHeight /\ ledger' = [ledger EXCEPT !.height = @ + 1]
      /\ events' = events \/ (running /\ events' = Append(events, ledger.height))
      /\ UNCHANGED <<running, phase, summary, blockNumberArray, currentHeight, found, fetches,
                     writes, row, blocks, spoiled, refused, unsaved, crashes, fails>>
  BY DEF NewBlock, stored, ghosts
<1>3. ledger'.gen = ledger.gen /\ ledger'.height = ledger.height + 1 /\ ledger.height \in Number
  <2>1. ledger \in [gen : Generation, height : 0..MaxHeight]
    BY <1>1 DEF TypeOK
  <2>2. ledger'.gen = ledger.gen /\ ledger'.height = ledger.height + 1
    BY <1>2, <2>1
  <2>3. ledger.height \in 0..MaxHeight - 1
    BY <1>1, <1>2, Numbers
  <2> QED BY <2>2, <2>3 DEF Number
<1>4. events' \in Seq(Number) /\ Elements(events') \subseteq Elements(events) \cup {ledger.height}
  <2>1. events \in Seq(Number)
    BY <1>1 DEF TypeOK
  <2>2. /\ Append(events, ledger.height) \in Seq(Number)
        /\ Elements(Append(events, ledger.height)) = Elements(events) \cup {ledger.height}
    BY <1>3, <2>1, ElementsAppend
  <2> QED BY <1>2, <2>1, <2>2
<1>5. TypeOK'
  <2>1. ledger' \in [gen : Generation, height : 0..MaxHeight]
    <3>1. ledger.height + 1 \in 0..MaxHeight
      BY <1>1, <1>2, Numbers
    <3> QED BY <1>1, <1>2, <3>1 DEF TypeOK
  <2> QED BY <1>1, <1>2, <1>4, <2>1 DEF TypeOK
<1>6. \A s \in Summary : Past(s) => Past(s)'
  BY <1>1, <1>3, <1>5, PastStays, Numbers
<1>7. Elements(events)' = Elements(events') /\ Elements(writes)' = Elements(writes)
  BY <1>2 DEF Elements
<1>8. \A w \in Elements(writes) : w.summary \in Summary
  <2>1. Elements(writes) \subseteq Write
    BY <1>1, ElementsType DEF TypeOK
  <2> QED BY <2>1 DEF Write
<1>9. InLedger'
  <2>1. \A n \in Elements(events') : n < ledger'.height
    BY <1>1, <1>3, <1>4, Numbers DEF InLedger
  <2>2. \A f \in fetches' : \A n \in f.left : n < ledger'.height
    <3>1. \A f \in fetches : \A n \in f.left : n \in Number
      BY <1>1 DEF TypeOK, Fetch
    <3> QED BY <1>1, <1>2, <1>3, <3>1, Numbers DEF InLedger
  <2>3. Past(summary)' /\ (found' # None => Past(found)') /\ (row' # None => Past(row)')
    <3>1. \A s : Past(s)' = (\A b \in Block : s.counts[b] > 0 =>
              \/ b[1] < ledger'.gen
              \/ b[1] = ledger'.gen /\ b[2] < ledger'.height)
      BY DEF Past
    <3>2. Past(summary) /\ summary \in Summary
      BY <1>1 DEF InLedger, TypeOK
    <3>3. found # None => Past(found) /\ found \in Summary
      BY <1>1 DEF InLedger, TypeOK
    <3>4. row # None => Past(row) /\ row \in Summary
      BY <1>1 DEF InLedger, TypeOK
    <3> QED BY <1>2, <1>6, <3>1, <3>2, <3>3, <3>4 DEF Past
  <2>4. \A w \in Elements(writes) : Past(w.summary)'
    BY <1>1, <1>6, <1>8 DEF InLedger
  <2> QED BY <1>7, <2>1, <2>2, <2>3, <2>4 DEF InLedger
<1>10. Remembers'
  BY <1>1, <1>2, <1>3, Numbers DEF Remembers, NothingKept
<1>11. ASSUME spoiled' = {} PROVE Starting' /\ Tracing'
  <2>1. Starting /\ Tracing
    BY <1>2, <1>11 DEF Inv
  <2>2. \A n : Now(n)' = Now(n)
    BY <1>3 DEF Now
  <2>3. ASSUME NEW s, Past(s), Older(s), NEW b \in Block, s.counts[b] > 0, b[1] = ledger'.gen,
               NEW n \in Elements(events')
        PROVE  n > b[2]
    <3>1. b[1] = ledger.gen /\ b[1] \in Nat /\ ledger.gen \in Nat
      BY <1>1, <1>3, <2>3, Numbers
    <3>2. b[2] < ledger.height
      BY <2>3, <3>1 DEF Past
    <3>3. n \in Elements(events) \/ n = ledger.height
      BY <1>4
    <3> QED BY <2>3, <3>1, <3>2, <3>3, <1>1, Numbers DEF Older
  <2>4. Starting'
    <3>1. phase \in {"none", "row"} => row = None \/ Older(row)'
      BY <1>1, <1>2, <1>7, <2>1, <2>3 DEF Starting, Older, InLedger
    <3>2. phase = "hash" => Older(found)'
      BY <1>1, <1>2, <1>7, <2>1, <2>3 DEF Starting, Older, InLedger, Remembers
    <3>3. phase = "height" => Older(summary)' /\ IsFirstBlocks(summary)' /\ IsStored(summary)'
      <4>1. phase = "height" => Older(summary)'
        BY <1>1, <1>2, <1>7, <2>1, <2>3 DEF Starting, Older, InLedger
      <4>2. phase = "height" => IsFirstBlocks(summary)' /\ IsStored(summary)'
        BY <1>2, <1>3, <2>1 DEF Starting, IsFirstBlocks, IsStored
      <4> QED BY <4>1, <4>2
    <3>4. CleanWrite' = CleanWrite /\ (Idle <=> Idle')
      BY <1>2, <2>2 DEF CleanWrite, Idle
    <3> QED BY <1>2, <2>1, <3>1, <3>2, <3>3, <3>4 DEF Starting
  <2>5. ASSUME phase = "tracing" PROVE \E base \in Nat : CountedFrom(base)'
    <3>1. PICK base \in Nat : CountedFrom(base)
      BY <2>1, <2>5 DEF Tracing
    <3>2. base <= ledger.height
      BY <1>1, <3>1, BaseInLedger DEF InLedger
    <3>3. CountedFrom(base)'
      BY <1>2, <1>4, <1>7, <2>2, <3>1, <3>2 DEF CountedFrom
    <3> QED BY <3>3
  <2>6. Tracing'
    BY <1>2, <1>3, <1>7, <2>1, <2>5 DEF Tracing, BlockZeroOnce, BeingStored
  <2> QED BY <2>4, <2>6
<1> QED BY <1>5, <1>9, <1>10, <1>11 DEF Inv

LEMMA NewLedgerInv == ASSUME Inv, NewLedger PROVE Inv'
<1>1. TypeOK /\ InLedger /\ Remembers
  BY DEF Inv
<1>2. /\ ~running /\ ledger.gen < MaxResets /\ ledger' \in [gen : {ledger.gen + 1}, height : {0, 1}]
      /\ UNCHANGED <<running, events, phase, summary, blockNumberArray, currentHeight, found,
                     fetches, writes, row, blocks, spoiled, refused, unsaved, crashes, fails>>
  BY DEF NewLedger, memory, stored, ghosts
<1>3. NothingKept
  BY <1>1, <1>2 DEF Remembers
<1>4. Elements(events)' = {} /\ Elements(writes)' = {}
  BY <1>2, <1>3, ElementsEmpty DEF NothingKept
<1>5. TypeOK'
  <2>1. ledger.gen \in Nat /\ MaxResets \in Nat /\ MaxHeight \in Nat /\ MaxHeight >= 1
    BY <1>1, Numbers, MonitorAssumption
  <2>2. ledger.gen + 1 \in Generation /\ {0, 1} \subseteq 0..MaxHeight
    BY <1>2, <2>1 DEF Generation
  <2> QED BY <1>1, <1>2, <2>2 DEF TypeOK
<1>6. \A s \in Summary : Past(s) => Past(s)'
  <2>1. ledger'.gen > ledger.gen
    BY <1>1, <1>2, Numbers
  <2> QED BY <1>1, <1>5, <2>1, PastStays
<1>7. InLedger'
  <2>1. Past(summary)'
    BY <1>2, <1>3, ZeroType DEF NothingKept, Past
  <2>2. (found' # None => Past(found)') /\ (row' # None => Past(row)')
    <3>1. found # None => Past(found) /\ found \in Summary
      BY <1>1 DEF InLedger, TypeOK
    <3>2. row # None => Past(row) /\ row \in Summary
      BY <1>1 DEF InLedger, TypeOK
    <3> QED BY <1>2, <1>6, <3>1, <3>2 DEF Past
  <2> QED BY <1>2, <1>3, <1>4, <2>1, <2>2 DEF InLedger, NothingKept
<1>8. Remembers'
  BY <1>1, <1>2 DEF Remembers, NothingKept
<1>9. Starting' /\ Tracing'
  <2>1. Older(row)'
    BY <1>4 DEF Older
  <2> QED BY <1>2, <1>3, <2>1 DEF Starting, Tracing, NothingKept, Idle
<1> QED BY <1>5, <1>7, <1>8, <1>9 DEF Inv

(***************************************************************************)
(* Counting                                                                *)
(***************************************************************************)

\* A range that gets an answer for block n goes on with the others.
LEMMA RangeLeft ==
  ASSUME TypeOK, NEW f \in fetches, NEW n \in f.left, NEW g0 \in Fetch, g0.left = f.left \ {n},
         fetches' = (fetches \ {f}) \cup (IF f.left = {n} THEN {} ELSE {g0})
  PROVE  /\ fetches' \subseteq Fetch /\ \A g \in fetches' : g.left # {}
         /\ \A g \in fetches' : (g \in fetches /\ g # f) \/ g = g0
         /\ \A g \in fetches' : \E h \in fetches : g.left \subseteq h.left
         /\ \A m \in Number : (\E g \in fetches : m \in g.left) /\ m # n
                                => \E g \in fetches' : m \in g.left
<1>1. fetches \subseteq Fetch /\ \A g \in fetches : g.left # {}
  BY DEF TypeOK
<1>2. fetches' \subseteq Fetch
  BY <1>1
<1>3. \A g \in fetches' : (g \in fetches /\ g # f) \/ (g = g0 /\ f.left # {n})
  OBVIOUS
<1>4. f.left # {n} => g0.left # {}
  OBVIOUS
<1>5. ASSUME NEW m \in Number, NEW g \in fetches, m \in g.left, m # n
      PROVE  \E h \in fetches' : m \in h.left
  <2>1. CASE g = f
    <3>1. f.left # {n} /\ m \in g0.left
      BY <1>5, <2>1
    <3> QED BY <3>1
  <2>2. CASE g # f
    BY <1>5, <2>2
  <2> QED BY <2>1, <2>2
<1> QED BY <1>1, <1>2, <1>3, <1>4, <1>5

\* Counting block n, where counted already or not, as all but n sees it.
CountsBlock(n) ==
  /\ blockNumberArray' = blockNumberArray \cup {n}
  /\ summary'.counts[Now(n)] = 1
  /\ \A m \in Number \ {n} : summary'.counts[Now(m)] = summary.counts[Now(m)]
  /\ \A b \in Block : b[1] # ledger.gen => summary'.counts[b] = 0
  /\ \A w \in Elements(writes') :
       w.kind # "clean" /\ (w.kind = "block" => w.block[1] = ledger.gen)
  /\ \A b \in Block : summary'.counts[b] > 0 =>
       b \in blocks \cup refused \/ \E w \in Elements(writes') : w.kind = "block" /\ w.block = b

LEMMA CountsOneBlock ==
  ASSUME TypeOK, phase = "tracing", Tracing, NEW base \in Nat, CountedFrom(base),
         NEW n \in Number, n >= base, n \notin blockNumberArray \/ Duplicate(n),
         NEW then \in BOOLEAN, NEW last \in BOOLEAN, refreshBlockAndTx(n, then, last)
  PROVE  CountsBlock(n)
<1>1. summary.counts \in [Block -> Nat] /\ n \in Nat /\ Now(n) \in Block
  BY Numbers DEF TypeOK, Summary
<1>2. blockNumberArray' = blockNumberArray \cup {n}
  <2>1. CASE Duplicate(n)
    BY <2>1, Refreshed DEF Duplicate
  <2>2. CASE ~Duplicate(n)
    BY <2>2, Refreshed
  <2> QED BY <2>1, <2>2
<1>3. \A m \in Number : summary.counts[Now(m)] = IF m < base \/ m \in blockNumberArray THEN 1 ELSE 0
  BY DEF CountedFrom
<1>4. summary'.counts[Now(n)] = 1
  <2>1. CASE Duplicate(n)
    BY <1>3, <2>1, Refreshed DEF Duplicate
  <2>2. CASE ~Duplicate(n)
    <3>1. summary'.counts = [summary.counts EXCEPT ![Now(n)] = @ + 1]
      BY <2>2, Refreshed
    <3>2. summary.counts[Now(n)] = 0
      BY <1>1, <1>3, <2>2
    <3> QED BY <1>1, <3>1, <3>2
  <2> QED BY <2>1, <2>2
<1>5. ASSUME NEW b \in Block, b # Now(n) PROVE summary'.counts[b] = summary.counts[b]
  <2>1. summary' = summary \/ summary'.counts = [summary.counts EXCEPT ![Now(n)] = @ + 1]
    BY Refreshed
  <2> QED BY <1>1, <1>5, <2>1
<1>6. \A m \in Number \ {n} : summary'.counts[Now(m)] = summary.counts[Now(m)]
  <2>1. \A m \in Number \ {n} : Now(m) \in Block /\ Now(m) # Now(n)
    BY Numbers
  <2> QED BY <1>5, <2>1
<1>7. \A b \in Block : b[1] # ledger.gen => summary'.counts[b] = 0
  <2>1. \A b \in Block : b[1] # ledger.gen => b # Now(n)
    BY Numbers
  <2> QED BY <1>5, <2>1 DEF Tracing
<1>8. \A w \in Elements(writes') :
        w.kind # "clean" /\ (w.kind = "block" => w.block[1] = ledger.gen)
  <2>1. \A w \in Elements(writes') : \/ w \in Elements(writes) \/ w = BlockWrite(n, then)
                                    \/ w = SummaryWrite(summary) \/ w = SummaryWrite(summary')
    BY Refreshed
  <2> QED BY <2>1 DEF Tracing, BlockWrite, SummaryWrite, Now
<1>9. ASSUME NEW b \in Block, summary'.counts[b] > 0
      PROVE  b \in blocks \cup refused \/ \E w \in Elements(writes') : w.kind = "block" /\ w.block = b
  <2>1. Elements(writes) \subseteq Elements(writes')
    BY Refreshed
  <2>2. CASE summary.counts[b] > 0
    BY <2>1, <2>2 DEF Tracing, BeingStored
  <2>3. CASE ~(summary.counts[b] > 0)
    <3>1. b = Now(n)
      BY <1>5, <1>9, <2>3
    <3>2. ~Duplicate(n)
      BY <1>9, <2>3, Refreshed
    <3>3. BlockWrite(n, then) \in Elements(writes')
      BY <3>2, Refreshed
    <3> QED BY <3>1, <3>3 DEF BlockWrite
  <2> QED BY <2>2, <2>3
<1> QED BY <1>2, <1>4, <1>6, <1>7, <1>8, <1>9 DEF CountsBlock

LEMMA BlockFetchedInv == ASSUME Inv, NEW f \in fetches, NEW n \in f.left, BlockFetched(f, n) PROVE Inv'
<1> DEFINE g0 == [f EXCEPT !.left = @ \ {n}]
           last == f.left = {n} /\ f.ok
<1>1. TypeOK /\ InLedger /\ Remembers
  BY DEF Inv
<1>2. /\ fetches' = (fetches \ {f}) \cup (IF f.left = {n} THEN {} ELSE {g0})
      /\ refreshBlockAndTx(n, FALSE, last)
      /\ UNCHANGED <<ledger, running, events, phase, currentHeight, found, row, blocks, spoiled,
                     refused, unsaved, crashes, fails>>
  BY DEF BlockFetched, stored, ghosts
<1>3. f \in Fetch /\ f.left \subseteq Number /\ f.ok \in BOOLEAN /\ last \in BOOLEAN
  BY <1>1 DEF TypeOK, Fetch
<1>4. n \in Number /\ n \in Nat
  BY <1>1, <1>3, Numbers
<1>5. g0 \in Fetch /\ g0.left = f.left \ {n}
  BY <1>3 DEF Fetch
<1> HIDE DEF g0, last
<1>6. /\ fetches' \subseteq Fetch /\ \A g \in fetches' : g.left # {}
      /\ \A g \in fetches' : (g \in fetches /\ g # f) \/ g = g0
      /\ \A g \in fetches' : \E h \in fetches : g.left \subseteq h.left
      /\ \A m \in Number : (\E g \in fetches : m \in g.left) /\ m # n
                             => \E g \in fetches' : m \in g.left
  BY <1>1, <1>2, <1>5, RangeLeft
<1>7. TypeOK'
  <2>1. summary' \in Summary /\ blockNumberArray' \subseteq Number /\ writes' \in Seq(Write)
    BY <1>1, <1>2, <1>3, <1>4, Refreshed
  <2> QED BY <1>1, <1>2, <1>6, <2>1 DEF TypeOK
<1>8. Elements(events)' = Elements(events) /\ Elements(writes)' = Elements(writes')
  BY <1>2 DEF Elements
<1>9. InLedger'
  <2>1. \A g \in fetches' : \A m \in g.left : m < ledger.height
    BY <1>1, <1>6 DEF InLedger
  <2>2. Past(summary)' /\ \A w \in Elements(writes)' : Past(w.summary)'
    <3>1. n < ledger.height
      BY <1>1 DEF InLedger
    <3>2. Past(summary) /\ \A w \in Elements(writes) : Past(w.summary)
      BY <1>1 DEF InLedger
    <3>3. ledger' = ledger
      BY <1>2
    <3> QED BY <1>1, <1>2, <1>3, <1>4, <3>1, <3>2, <3>3, RefreshedPast
  <2>3. (found' # None => Past(found)') /\ (row' # None => Past(row)')
    BY <1>1, <1>2 DEF InLedger, Past
  <2> QED BY <1>1, <1>2, <1>8, <2>1, <2>2, <2>3 DEF InLedger
<1>10. Remembers'
  <2>1. n < ledger.height /\ phase # "none"
    BY <1>1 DEF InLedger, Remembers
  <2> QED BY <1>1, <1>2, <1>4, <2>1, Numbers DEF Remembers, NothingKept
<1>11. ASSUME spoiled' = {} PROVE Starting' /\ Tracing'
  <2>1. Starting /\ Tracing
    BY <1>2, <1>11 DEF Inv
  <2>2. phase \in {"tracing"}
    BY <1>1, <2>1 DEF Starting, Idle, TypeOK, Phase
  <2>3. Starting'
    BY <1>2, <2>2 DEF Starting
  <2>4. PICK base \in Nat : CountedFrom(base)
    BY <2>1, <2>2 DEF Tracing
  <2>5. BlockZeroOnce
    BY <2>1, <2>2 DEF Tracing
  <2>6. \A m : Now(m)' = Now(m)
    BY <1>2 DEF Now
  <2>7. n >= base /\ (n = 0 => base = 0)
    BY <1>4, <2>4 DEF CountedFrom
  <2>8. n \notin blockNumberArray \/ Duplicate(n)
    BY <2>5 DEF Duplicate, BlockZeroOnce
  <2>9. CountsBlock(n)
    BY <1>1, <1>2, <1>3, <1>4, <2>1, <2>2, <2>4, <2>7, <2>8, CountsOneBlock
  <2>10. blockNumberArray' = blockNumberArray \cup {n}
    BY <2>9 DEF CountsBlock
  <2>11. \A m \in Number : summary'.counts[Now(m)] =
           IF m < base \/ m \in blockNumberArray' THEN 1 ELSE 0
    BY <2>4, <2>7, <2>9 DEF CountsBlock, CountedFrom
  <2>12. CountedFrom(base)'
    <3>1. \A g \in fetches' : \A m \in g.left : m >= base
      BY <1>6, <2>4 DEF CountedFrom
    <3>2. \A m \in Number : m < currentHeight =>
            m < base \/ m \in blockNumberArray' \/ \E g \in fetches' : m \in g.left
      BY <1>6, <2>4, <2>10 DEF CountedFrom
    <3> QED BY <1>2, <1>8, <2>4, <2>6, <2>11, <3>1, <3>2 DEF CountedFrom
  <2>13. BlockZeroOnce'
    <3>1. ASSUME NEW g \in fetches', 0 \in g.left PROVE 0 \notin blockNumberArray'
      <4>1. PICK h \in fetches : 0 \in h.left
        BY <1>6, <3>1
      <4>2. 0 \notin blockNumberArray
        BY <2>5, <4>1 DEF BlockZeroOnce
      <4>3. CASE n = 0
        <5>1. 0 \in f.left /\ 0 \notin g0.left
          BY <1>5, <4>3
        <5>2. g \in fetches /\ g # f
          BY <1>6, <3>1, <5>1
        <5> QED BY <2>5, <3>1, <5>1, <5>2 DEF BlockZeroOnce
      <4> QED BY <2>10, <4>2, <4>3
    <3>2. ASSUME NEW g \in fetches', NEW h \in fetches', 0 \in g.left, 0 \in h.left PROVE g = h
      <4>1. 0 \in g0.left => 0 \in f.left
        BY <1>5
      <4> QED BY <1>6, <2>5, <3>2, <4>1 DEF BlockZeroOnce
    <3> QED BY <3>1, <3>2 DEF BlockZeroOnce
  <2>14. Tracing'
    BY <1>2, <1>8, <2>1, <2>2, <2>9, <2>12, <2>13 DEF Tracing, BeingStored, CountsBlock
  <2> QED BY <2>3, <2>14
<1> QED BY <1>7, <1>9, <1>10, <1>11 DEF Inv

LEMMA BlockNotFetchedInv ==
  ASSUME Inv, NEW f \in fetches, NEW n \in f.left, BlockNotFetched(f, n) PROVE Inv'
<1> DEFINE g0 == [f EXCEPT !.left = @ \ {n}, !.ok = FALSE]
<1>1. TypeOK /\ InLedger /\ Remembers
  BY DEF Inv
<1>2. /\ fails < MaxFails /\ fails' = fails + 1
      /\ fetches' = (fetches \ {f}) \cup (IF f.left = {n} THEN {} ELSE {g0})
      /\ spoiled' = spoiled \cup {"unanswered"}
      /\ UNCHANGED <<ledger, running, events, phase, summary, blockNumberArray, currentHeight,
                     found, writes, row, blocks, refused, unsaved, crashes>>
  BY DEF BlockNotFetched, stored, ghosts
<1>3. g0 \in Fetch /\ g0.left = f.left \ {n}
  BY <1>1 DEF TypeOK, Fetch
<1> HIDE DEF g0
<1>4. /\ fetches' \subseteq Fetch /\ \A g \in fetches' : g.left # {}
      /\ \A g \in fetches' : \E h \in fetches : g.left \subseteq h.left
  BY <1>1, <1>2, <1>3, RangeLeft
<1>5. TypeOK'
  <2>1. fails' \in 0..MaxFails
    BY <1>1, <1>2, MonitorAssumption DEF TypeOK
  <2> QED BY <1>1, <1>2, <1>4, <2>1 DEF TypeOK, Reason
<1>6. InLedger'
  <2>1. Elements(events)' = Elements(events) /\ Elements(writes)' = Elements(writes)
    BY <1>2 DEF Elements
  <2>2. \A g \in fetches' : \A m \in g.left : m < ledger.height
    BY <1>1, <1>4 DEF InLedger
  <2> QED BY <1>1, <1>2, <2>1, <2>2 DEF InLedger, Past
<1>7. Remembers'
  BY <1>1, <1>2 DEF Remembers, NothingKept
<1>8. spoiled' # {}
  BY <1>2
<1> QED BY <1>5, <1>6, <1>7, <1>8 DEF Inv


\* What is counted, asked for or stored does not change when the rest does.
LEMMA PastSame ==
  ASSUME ledger' = ledger
  PROVE  /\ \A s : Past(s)' <=> (\A b \in Block : s.counts[b] > 0 =>
                                   \/ b[1] < ledger.gen
                                   \/ b[1] = ledger.gen /\ b[2] < ledger.height)
         /\ \A s : Past(s) => Past(s)'
BY DEF Past

LEMMA eventBlockInv == ASSUME Inv, eventBlock PROVE Inv'
<1> DEFINE n == Head(events)
           range == refreshRangeBlocks("gap", currentHeight, n)
<1>1. TypeOK /\ InLedger /\ Remembers
  BY DEF Inv
<1>2. /\ events # <<>> /\ events' = Tail(events)
      /\ phase' = IF phase = "none" THEN "row" ELSE phase
      /\ fetches' = fetches \cup range
      /\ currentHeight' = n + 1
      /\ refreshBlockAndTx(n, TRUE, FALSE)
      /\ spoiled' = spoiled \cup (IF phase # "tracing" THEN {"early"}
                                  ELSE IF n = 0 THEN {"genesis"} ELSE {})
      /\ UNCHANGED <<ledger, running, found, row, blocks, refused, unsaved, crashes, fails>>
  BY DEF eventBlock, stored, ghosts
<1>3. /\ n \in Number /\ events' \in Seq(Number)
      /\ Elements(events) = {n} \cup Elements(events')
  BY <1>1, <1>2, ElementsTail DEF TypeOK
<1>4. n \in Nat /\ n < ledger.height /\ n \in 0..MaxHeight
  BY <1>1, <1>3, Numbers DEF InLedger
<1>5. /\ range \subseteq Fetch
      /\ \A f \in range : f.left # {} /\ f.left = currentHeight..n - 1
      /\ \A m \in currentHeight..n - 1 : \E f \in range : m \in f.left
  BY <1>1, <1>4, RangeFacts, Numbers
<1> HIDE DEF n, range
<1>6. \A f \in range : \A m \in f.left : m \in Nat /\ m >= currentHeight /\ m < n
  BY <1>1, <1>4, <1>5, Numbers
<1>7. /\ Elements(writes)' = Elements(writes') /\ Elements(events)' = Elements(events')
  BY DEF Elements
<1>8. TypeOK'
  <2>1. summary' \in Summary /\ blockNumberArray' \subseteq Number /\ writes' \in Seq(Write)
    BY <1>1, <1>2, <1>3, Refreshed
  <2>2. currentHeight' \in 0..MaxHeight
    BY <1>1, <1>2, <1>4, Numbers
  <2>3. phase' \in Phase /\ spoiled' \subseteq Reason
    BY <1>1, <1>2 DEF TypeOK, Phase, Reason
  <2>4. fetches' \subseteq Fetch /\ \A f \in fetches' : f.left # {}
    BY <1>1, <1>2, <1>5 DEF TypeOK
  <2> QED BY <1>1, <1>2, <1>3, <2>1, <2>2, <2>3, <2>4 DEF TypeOK
<1>9. InLedger'
  <2>1. Past(summary)' /\ \A w \in Elements(writes)' : Past(w.summary)'
    <3>1. Past(summary) /\ \A w \in Elements(writes) : Past(w.summary)
      BY <1>1 DEF InLedger
    <3>2. ledger' = ledger
      BY <1>2
    <3> QED BY <1>1, <1>2, <1>3, <1>4, <3>1, <3>2, RefreshedPast
  <2>2. (found' # None => Past(found)') /\ (row' # None => Past(row)')
    BY <1>1, <1>2 DEF InLedger, Past
  <2>3. \A f \in fetches' : \A m \in f.left : m < ledger.height
    <3>1. ASSUME NEW f \in range, NEW m \in f.left PROVE m < ledger.height
      BY <1>1, <1>4, <1>6, <3>1, Numbers
    <3> QED BY <1>1, <1>2, <3>1 DEF InLedger
  <2>4. \A m \in Elements(events') : m < ledger.height
    BY <1>1, <1>3 DEF InLedger
  <2> QED BY <1>2, <1>7, <2>1, <2>2, <2>3, <2>4 DEF InLedger
<1>10. Remembers'
  <2>1. running /\ phase' # "none" /\ ledger.height >= 1
    BY <1>1, <1>2, <1>4, Numbers DEF Remembers, NothingKept
  <2> QED BY <1>1, <1>2, <2>1 DEF Remembers
<1>11. ASSUME spoiled' = {} PROVE Starting' /\ Tracing'
  <2>1. phase = "tracing" /\ spoiled = {} /\ phase' = "tracing" /\ n # 0
    BY <1>2, <1>11
  <2>2. Starting' /\ Tracing
    BY <2>1 DEF Inv, Starting
  <2>3. PICK base \in Nat : CountedFrom(base)
    BY <2>1, <2>2 DEF Tracing
  <2>4. BlockZeroOnce /\ currentHeight >= 1
    BY <2>1, <2>2 DEF Tracing
  <2>5. n >= base
    BY <1>3, <2>3 DEF CountedFrom
  <2>6. CountsBlock(n)
    <3>1. n \notin blockNumberArray \/ Duplicate(n)
      BY <2>1 DEF Duplicate
    <3> QED BY <1>1, <1>2, <1>3, <2>1, <2>2, <2>3, <2>5, <3>1, CountsOneBlock
  <2>7. \A m : Now(m)' = Now(m)
    BY <1>2 DEF Now
  <2>8. CountedFrom(base)'
    <3>1. currentHeight' >= base
      BY <1>2, <1>4, <2>5
    <3>2. \A m \in Elements(events') : m >= base
      BY <1>3, <2>3 DEF CountedFrom
    <3>3. \A f \in fetches' : \A m \in f.left : m >= base
      <4>1. ASSUME NEW f \in range, NEW m \in f.left PROVE m >= base
        BY <1>1, <1>6, <2>3, <4>1, Numbers DEF CountedFrom
      <4> QED BY <1>2, <2>3, <4>1 DEF CountedFrom
    <3>4. \A m \in Number :
            summary'.counts[Now(m)] = IF m < base \/ m \in blockNumberArray' THEN 1 ELSE 0
      BY <1>3, <2>3, <2>5, <2>6 DEF CountsBlock, CountedFrom
    <3>5. ASSUME NEW m \in Number, m < n + 1, m >= base, m \notin blockNumberArray'
          PROVE  \E f \in fetches' : m \in f.left
      <4>1. m # n /\ m \notin blockNumberArray
        BY <2>6, <3>5 DEF CountsBlock
      <4>2. CASE m < currentHeight
        BY <1>1, <1>2, <2>3, <3>5, <4>1, <4>2, Numbers DEF CountedFrom
      <4>3. CASE ~(m < currentHeight)
        <5>1. m \in currentHeight..n - 1
          BY <1>1, <1>4, <3>5, <4>1, <4>3, Numbers
        <5> QED BY <1>2, <1>5, <5>1
      <4> QED BY <4>2, <4>3
    <3>6. \A m \in Number : m < currentHeight' =>
            m < base \/ m \in blockNumberArray' \/ \E f \in fetches' : m \in f.left
      BY <1>1, <1>2, <3>5, Numbers
    <3> QED BY <1>7, <2>7, <3>1, <3>2, <3>3, <3>4, <3>6 DEF CountedFrom
  <2>9. BlockZeroOnce'
    <3>1. ASSUME NEW f \in fetches', 0 \in f.left PROVE f \in fetches
      BY <1>1, <1>2, <1>6, <2>4, <3>1, Numbers
    <3>2. 0 \in blockNumberArray' => 0 \in blockNumberArray
      BY <2>1, <2>6 DEF CountsBlock
    <3> QED BY <2>4, <3>1, <3>2 DEF BlockZeroOnce
  <2>10. currentHeight' >= 1
    BY <1>2, <1>4
  <2>11. Tracing'
    BY <1>2, <1>7, <2>6, <2>8, <2>9, <2>10 DEF Tracing, BeingStored, CountsBlock
  <2> QED BY <2>2, <2>11
<1> QED BY <1>8, <1>9, <1>10, <1>11 DEF Inv

(***************************************************************************)
(* The start                                                               *)
(***************************************************************************)

LEMMA refreshChannelObjInv == ASSUME Inv, refreshChannelObj PROVE Inv'
<1>1. /\ running /\ ledger.height > 0 /\ phase = "none" /\ phase' = "row"
      /\ UNCHANGED <<ledger, running, events, summary, blockNumberArray, currentHeight, found,
                     fetches, writes, row, blocks, spoiled, refused, unsaved, crashes, fails>>
  BY DEF refreshChannelObj, stored, ghosts
<1>2. TypeOK' /\ Remembers'
  <2>1. ledger.height \in Nat
    BY Numbers DEF Inv
  <2> QED BY <1>1, <2>1 DEF Inv, TypeOK, Phase, Remembers
<1>3. Elements(events)' = Elements(events) /\ Elements(writes)' = Elements(writes)
  BY <1>1 DEF Elements
<1>4. InLedger'
  BY <1>1, <1>3 DEF Inv, InLedger, Past
<1>5. spoiled' = {} => Starting' /\ Tracing'
  BY <1>1, <1>3 DEF Inv, Starting, Tracing, Older, Idle
<1> QED BY <1>2, <1>4, <1>5 DEF Inv

\* What clearing the database does.
LEMMA Cleaned ==
  ASSUME TypeOK, cleanDb
  PROVE  /\ phase' = "cleaning" /\ summary' = Zero /\ blockNumberArray' = {} /\ currentHeight' = 0
         /\ summary' \in Summary /\ writes' \in Seq(Write)
         /\ Elements(writes') = Elements(writes) \cup {CleanWrite}
         /\ writes = <<>> => writes' = <<CleanWrite>>
<1>1. CleanWrite \in Write
  <2>1. 0 \in Number
    BY MonitorAssumption DEF Number
  <2> QED BY <2>1, ZeroType, WriteType
<1>2. writes' = Append(writes, CleanWrite)
  BY DEF cleanDb
<1>3. writes' \in Seq(Write) /\ Elements(writes') = Elements(writes) \cup {CleanWrite}
  BY <1>1, <1>2, ElementsAppend DEF TypeOK
<1>4. writes = <<>> => writes' = <<CleanWrite>>
  BY <1>2
<1> QED BY <1>3, <1>4, ZeroType DEF cleanDb

LEMMA CleanedPast ==
  ASSUME TypeOK, InLedger, cleanDb, ledger' = ledger
  PROVE  Past(summary)' /\ \A w \in Elements(writes)' : Past(w.summary)'
<1>1. Past(summary)'
  BY Cleaned DEF Past, Zero
<1>2. \A w \in Elements(writes') : w \in Elements(writes) \/ w = CleanWrite
  BY Cleaned
<1>3. Elements(writes)' = Elements(writes')
  BY DEF Elements
<1>4. ASSUME NEW w, w = CleanWrite PROVE Past(w.summary)'
  <2>1. w.summary = Zero
    BY <1>4 DEF CleanWrite
  <2>2. \A b \in Block : ~(w.summary.counts[b] > 0)
    BY <2>1 DEF Zero
  <2> QED BY <2>2, PastSame
<1>5. \A w \in Elements(writes) : Past(w.summary)'
  BY PastSame DEF InLedger
<1>6. ASSUME NEW w \in Elements(writes') PROVE Past(w.summary)'
  BY <1>2, <1>4, <1>5, <1>6
<1> QED BY <1>1, <1>3, <1>6

LEMMA checkHistoryInv == ASSUME Inv, checkHistory PROVE Inv'
<1>1. TypeOK /\ InLedger /\ Remembers
  BY DEF Inv
<1>2. /\ phase = "row" /\ found' = row
      /\ UNCHANGED <<ledger, running, events, fetches, row, blocks, spoiled, refused, unsaved, crashes, fails>>
  BY DEF checkHistory, stored, ghosts
<1>3. running /\ running'
  BY <1>1, <1>2 DEF Remembers, NothingKept, TypeOK
<1>4. Elements(events)' = Elements(events)
  BY <1>2 DEF Elements
<1>5. CASE row = None
  <2>1. cleanDb
    BY <1>5 DEF checkHistory
  <2>2. /\ phase' = "cleaning" /\ summary' = Zero /\ blockNumberArray' = {} /\ currentHeight' = 0
        /\ summary' \in Summary /\ writes' \in Seq(Write)
        /\ writes = <<>> => writes' = <<CleanWrite>>
    BY <1>1, <2>1, Cleaned
  <2>3. TypeOK'
    <3>1. 0 \in 0..MaxHeight
      BY MonitorAssumption
    <3> QED BY <1>1, <1>2, <2>2, <3>1 DEF TypeOK, Phase
  <2>4. InLedger'
    <3>1. Past(summary)' /\ \A w \in Elements(writes)' : Past(w.summary)'
      BY <1>1, <1>2, <2>1, CleanedPast
    <3> QED BY <1>1, <1>2, <1>4, <1>5, <3>1 DEF InLedger
  <2>5. Remembers'
    BY <1>1, <1>2, <1>3, <2>2 DEF Remembers
  <2>6. spoiled' = {} => Starting' /\ Tracing'
    <3>1. CleanWrite' = CleanWrite
      BY <1>2 DEF CleanWrite, Now
    <3> QED BY <1>2, <2>2, <3>1 DEF Inv, Starting, Tracing, Idle
  <2> QED BY <2>3, <2>4, <2>5, <2>6 DEF Inv
<1>6. CASE row # None
  <2>1. /\ phase' = "hash"
        /\ UNCHANGED <<summary, blockNumberArray, currentHeight, writes>>
    BY <1>6 DEF checkHistory
  <2>2. TypeOK'
    BY <1>1, <1>2, <2>1 DEF TypeOK, Phase
  <2>3. InLedger'
    <3>1. Elements(writes)' = Elements(writes)
      BY <2>1 DEF Elements
    <3> QED BY <1>1, <1>2, <1>4, <2>1, <3>1 DEF InLedger, Past
  <2>4. Remembers'
    BY <1>1, <1>2, <1>3, <1>6, <2>1 DEF Remembers
  <2>5. spoiled' = {} => Starting' /\ Tracing'
    BY <1>2, <1>4, <1>6, <2>1 DEF Inv, Starting, Tracing, Idle, Older
  <2> QED BY <2>2, <2>3, <2>4, <2>5 DEF Inv
<1> QED BY <1>5, <1>6

LEMMA compareHashInv == ASSUME Inv, compareHash PROVE Inv'
<1>1. TypeOK /\ InLedger /\ Remembers
  BY DEF Inv
<1>2. /\ phase = "hash" /\ spoiled' = spoiled \cup Spoilt
      /\ UNCHANGED <<ledger, running, events, found, fetches, row, blocks, refused, unsaved,
                     crashes, fails>>
  BY DEF compareHash, stored, ghosts
<1>3. running /\ running' /\ found # None /\ found \in Summary /\ Past(found)
  BY <1>1, <1>2 DEF Remembers, NothingKept, TypeOK, InLedger
<1>4. Elements(events)' = Elements(events)
  BY <1>2 DEF Elements
<1>5. spoiled' \subseteq Reason
  BY <1>1, <1>2 DEF TypeOK, Spoilt, Reason
<1>6. spoiled' = {} => Starting
  BY <1>2 DEF Inv
<1>7. CASE SameGeneration
  <2>1. /\ phase' = "height" /\ summary' = found
        /\ UNCHANGED <<blockNumberArray, currentHeight, writes>>
    BY <1>7 DEF compareHash
  <2>2. TypeOK'
    BY <1>1, <1>2, <1>3, <1>5, <2>1 DEF TypeOK, Phase
  <2>3. InLedger'
    <3>1. Elements(writes)' = Elements(writes)
      BY <2>1 DEF Elements
    <3> QED BY <1>1, <1>2, <1>3, <1>4, <2>1, <3>1 DEF InLedger, Past
  <2>4. Remembers'
    BY <1>1, <1>2, <1>3, <2>1 DEF Remembers
  <2>5. ASSUME spoiled' = {} PROVE Starting' /\ Tracing'
    <3>1. IsFirstBlocks(found) /\ IsStored(found)
      BY <1>2, <1>7, <2>5 DEF Spoilt
    <3>2. Older(found) /\ Idle /\ writes = <<>>
      BY <1>2, <1>6, <2>5 DEF Starting
    <3>3. IsFirstBlocks(summary)' /\ IsStored(summary)' /\ Older(summary)'
      BY <1>2, <1>4, <2>1, <3>1, <3>2 DEF IsFirstBlocks, IsStored, Older
    <3> QED BY <1>2, <2>1, <3>2, <3>3 DEF Starting, Tracing, Idle
  <2> QED BY <2>2, <2>3, <2>4, <2>5 DEF Inv
<1>8. CASE ~SameGeneration
  <2>1. cleanDb
    BY <1>8 DEF compareHash
  <2>2. /\ phase' = "cleaning" /\ summary' = Zero /\ blockNumberArray' = {} /\ currentHeight' = 0
        /\ summary' \in Summary /\ writes' \in Seq(Write)
        /\ writes = <<>> => writes' = <<CleanWrite>>
    BY <1>1, <2>1, Cleaned
  <2>3. TypeOK'
    <3>1. 0 \in 0..MaxHeight
      BY MonitorAssumption
    <3> QED BY <1>1, <1>2, <1>5, <2>2, <3>1 DEF TypeOK, Phase
  <2>4. InLedger'
    <3>1. Past(summary)' /\ \A w \in Elements(writes)' : Past(w.summary)'
      BY <1>1, <1>2, <2>1, CleanedPast
    <3> QED BY <1>1, <1>2, <1>4, <3>1 DEF InLedger, Past
  <2>5. Remembers'
    BY <1>1, <1>2, <1>3, <2>2 DEF Remembers
  <2>6. spoiled' = {} => Starting' /\ Tracing'
    <3>1. CleanWrite' = CleanWrite
      BY <1>2 DEF CleanWrite, Now
    <3> QED BY <1>2, <1>6, <2>2, <3>1 DEF Starting, Tracing, Idle
  <2> QED BY <2>3, <2>4, <2>5, <2>6 DEF Inv
<1> QED BY <1>7, <1>8

LEMMA checkAndTraceInv == ASSUME Inv, checkAndTrace PROVE Inv'
<1> DEFINE k == summary.blockNum
           range == refreshRangeBlocks("trace", k, ledger.height)
<1>1. TypeOK /\ InLedger /\ Remembers
  BY DEF Inv
<1>2. /\ phase = "height" /\ phase' = "tracing" /\ currentHeight' = ledger.height
      /\ fetches' = fetches \cup range
      /\ writes' = IF range = {} THEN writes \o <<SummaryWrite(summary)>> ELSE writes
      /\ UNCHANGED <<ledger, running, events, summary, blockNumberArray, found, row, blocks, spoiled,
                     refused, unsaved, crashes, fails>>
  BY DEF checkAndTrace, stored, ghosts, updateChannelInfo
<1>3. k \in Nat /\ ledger.height \in 0..MaxHeight /\ summary \in Summary
  BY <1>1, Numbers DEF TypeOK, Summary
<1>4. /\ range \subseteq Fetch
      /\ \A f \in range : f.left # {} /\ f.left = k..ledger.height - 1
      /\ \A f, g \in range : f = g
      /\ \A m \in k..ledger.height - 1 : \E f \in range : m \in f.left
  BY <1>3, RangeFacts
<1> HIDE DEF k, range
<1>5. \A f \in range : \A m \in f.left : m \in Nat /\ m >= k /\ m < ledger.height
  BY <1>3, <1>4
<1>6. /\ writes' \in Seq(Write)
      /\ Elements(writes') \subseteq Elements(writes) \cup {SummaryWrite(summary)}
  <2>1. SummaryWrite(summary) \in Write /\ writes \in Seq(Write)
    <3>1. 0 \in Number
      BY MonitorAssumption DEF Number
    <3> QED BY <1>1, <1>3, <3>1, WriteType DEF TypeOK
  <2> DEFINE one == <<SummaryWrite(summary)>>
  <2>2. one \in Seq(Write) /\ Elements(one) = {SummaryWrite(summary)}
    BY <2>1, ElementsOne
  <2>3. writes' = writes \o one \/ writes' = writes
    BY <1>2
  <2> HIDE DEF one
  <2>4. writes \o one \in Seq(Write) /\ Elements(writes \o one) = Elements(writes) \cup Elements(one)
    BY <2>1, <2>2, ElementsConcat
  <2> QED BY <2>1, <2>2, <2>3, <2>4
<1>7. Elements(events)' = Elements(events) /\ Elements(writes)' = Elements(writes')
  BY <1>2 DEF Elements
<1>8. TypeOK'
  <2>1. fetches' \subseteq Fetch /\ \A f \in fetches' : f.left # {}
    BY <1>1, <1>2, <1>4 DEF TypeOK
  <2> QED BY <1>1, <1>2, <1>3, <1>6, <2>1 DEF TypeOK, Phase
<1>9. InLedger'
  <2>1. \A f \in fetches' : \A m \in f.left : m < ledger.height
    BY <1>1, <1>2, <1>5 DEF InLedger
  <2>2. Past(summary)' /\ (found' # None => Past(found)') /\ (row' # None => Past(row)')
    BY <1>1, <1>2 DEF InLedger, Past
  <2>3. ASSUME NEW w \in Elements(writes') PROVE Past(w.summary)'
    <3>1. SummaryWrite(summary).summary = summary
      BY DEF SummaryWrite
    <3>2. Past(w.summary)
      BY <1>1, <1>6, <2>3, <3>1 DEF InLedger
    <3> QED BY <1>2, <3>2, PastSame
  <2> QED BY <1>1, <1>2, <1>7, <2>1, <2>2, <2>3 DEF InLedger
<1>10. Remembers'
  BY <1>1, <1>2 DEF Remembers, NothingKept
<1>11. ASSUME spoiled' = {} PROVE Starting' /\ Tracing'
  <2>1. /\ Idle /\ writes = <<>>
        /\ IsFirstBlocks(summary) /\ IsStored(summary) /\ Older(summary)
    BY <1>2, <1>11 DEF Inv, Starting
  <2>2. /\ k \in 0..MaxHeight
        /\ \A b \in Block : summary.counts[b] = IF b[1] = ledger.gen /\ b[2] < k THEN 1 ELSE 0
    BY <2>1 DEF IsFirstBlocks, k
  <2>3. \A m \in Number : summary.counts[Now(m)] = IF m < k THEN 1 ELSE 0
    BY <1>1, <2>2, Numbers
  <2>4. \A m : Now(m)' = Now(m)
    BY <1>2 DEF Now
  <2>5. k <= ledger.height /\ \A m \in Elements(events) : m >= k
    <3>1. CASE k = 0
      BY <1>1, <3>1, Numbers
    <3>2. CASE k # 0
      <4>1. k - 1 \in Number
        BY <1>1, <1>3, <2>2, <3>2, Numbers DEF Number
      <4>2. /\ Now(k - 1) \in Block /\ Now(k - 1)[1] = ledger.gen /\ Now(k - 1)[2] = k - 1
            /\ summary.counts[Now(k - 1)] = 1
        BY <1>1, <1>3, <2>3, <4>1, Numbers
      <4>3. k - 1 < ledger.height
        BY <1>1, <4>2, Numbers DEF InLedger, Past
      <4>4. \A m \in Elements(events) : m > k - 1
        BY <2>1, <4>2 DEF Older
      <4> QED BY <1>1, <1>3, <4>3, <4>4, Numbers
    <3> QED BY <3>1, <3>2
  <2>6. fetches' = range /\ blockNumberArray' = {}
    BY <1>2, <2>1 DEF Idle
  <2>7. CountedFrom(k)'
    <3>1. \A f \in fetches' : \A m \in f.left : m >= k
      BY <1>5, <2>6
    <3>2. \A m \in Number : m < ledger.height /\ ~(m < k) => \E f \in fetches' : m \in f.left
      <4>1. \A m \in Number : m < ledger.height /\ ~(m < k) => m \in k..ledger.height - 1
        BY <1>1, <1>3, Numbers
      <4> QED BY <1>4, <2>6, <4>1
    <3>3. k' = k
      BY <1>2 DEF k
    <3>4. \A m \in Number : summary'.counts[Now(m)] =
            IF m < k \/ m \in blockNumberArray' THEN 1 ELSE 0
      BY <1>2, <2>3, <2>6
    <3> QED BY <1>2, <1>7, <2>4, <2>5, <3>1, <3>2, <3>3, <3>4 DEF CountedFrom
  <2>8. BlockZeroOnce'
    BY <1>4, <2>6 DEF BlockZeroOnce
  <2>9. currentHeight' >= 1
    BY <1>1, <1>2 DEF Remembers
  <2>10. \A w \in Elements(writes') : w.kind = "summary"
    BY <1>6, <2>1, ElementsEmpty DEF SummaryWrite
  <2>11. \A b \in Block : summary.counts[b] > 0 => b \in blocks
    BY <2>1 DEF IsStored
  <2>12. \E base \in Nat : CountedFrom(base)'
    <3>1. k' = k
      BY <1>2 DEF k
    <3> QED BY <1>3, <2>7, <3>1
  <2>13. Tracing'
    BY <1>2, <1>7, <2>2, <2>8, <2>9, <2>10, <2>11, <2>12 DEF Tracing, BeingStored
  <2>14. Starting'
    BY <1>2 DEF Starting
  <2> QED BY <2>13, <2>14
<1> QED BY <1>8, <1>9, <1>10, <1>11 DEF Inv

LEMMA StartFailsInv == ASSUME Inv, StartFails PROVE Inv'
<1>1. /\ phase \in {"hash", "height"} /\ phase' = "stuck"
      /\ fails < MaxFails /\ fails' = fails + 1
      /\ UNCHANGED <<ledger, running, events, summary, blockNumberArray, currentHeight, found,
                     fetches, writes, row, blocks, spoiled, refused, unsaved, crashes>>
  BY DEF StartFails, stored, ghosts
<1>2. TypeOK'
  BY <1>1, MonitorAssumption DEF Inv, TypeOK, Phase
<1>3. Elements(events)' = Elements(events) /\ Elements(writes)' = Elements(writes)
  BY <1>1 DEF Elements
<1>4. InLedger'
  BY <1>1, <1>3 DEF Inv, InLedger, Past
<1>5. Remembers'
  BY <1>1 DEF Inv, Remembers, NothingKept
<1>6. spoiled' = {} => Starting' /\ Tracing'
  BY <1>1 DEF Inv, Starting, Tracing, Idle
<1> QED BY <1>2, <1>4, <1>5, <1>6 DEF Inv

(***************************************************************************)
(* The database and the gateway's process                                  *)
(***************************************************************************)

LEMMA RemoveAtFacts ==
  ASSUME NEW T, NEW ws \in Seq(T), NEW i \in 1..Len(ws)
  PROVE  /\ RemoveAt(ws, i) \in Seq(T)
         /\ Len(RemoveAt(ws, i)) = Len(ws) - 1
         /\ \A j \in 1..Len(ws) - 1 : RemoveAt(ws, i)[j] = ws[IF j < i THEN j ELSE j + 1]
<1> DEFINE a == SubSeq(ws, 1, i - 1)
           b == SubSeq(ws, i + 1, Len(ws))
<1>1. Len(ws) \in Nat /\ i \in 1..Len(ws)
  OBVIOUS
<1>2. a \in Seq(T) /\ Len(a) = i - 1 /\ \A j \in 1..i - 1 : a[j] = ws[j]
  BY <1>1
<1>3. /\ b \in Seq(T) /\ Len(b) = Len(ws) - i
      /\ \A j \in 1..Len(ws) - i : b[j] = ws[i + j]
  BY <1>1
<1>4. RemoveAt(ws, i) = a \o b
  BY DEF RemoveAt
<1> HIDE DEF a, b
<1>5. a \o b \in Seq(T) /\ Len(a \o b) = Len(ws) - 1
  <2>1. a \o b \in Seq(T) /\ Len(a \o b) = Len(a) + Len(b)
    BY <1>2, <1>3, ConcatProperties
  <2> QED BY <1>1, <1>2, <1>3, <2>1
<1>6. ASSUME NEW j \in 1..Len(ws) - 1 PROVE (a \o b)[j] = ws[IF j < i THEN j ELSE j + 1]
  <2>0. (a \o b)[j] = IF j <= i - 1 THEN a[j] ELSE b[j - (i - 1)]
    <3>1. j \in 1..Len(a) + Len(b) /\ Len(a) = i - 1
      BY <1>1, <1>2, <1>3
    <3>2. (a \o b)[j] = IF j <= Len(a) THEN a[j] ELSE b[j - Len(a)]
      BY <1>2, <1>3, <3>1, ConcatProperties
    <3> QED BY <3>1, <3>2
  <2>1. CASE j < i
    BY <1>1, <1>2, <2>0, <2>1
  <2>2. CASE ~(j < i)
    <3>1. j - (i - 1) \in 1..Len(ws) - i /\ i + (j - (i - 1)) = j + 1
      BY <1>1, <2>2
    <3> QED BY <1>1, <1>3, <2>0, <2>2, <3>1
  <2> QED BY <2>1, <2>2
<1> QED BY <1>4, <1>5, <1>6

\* What is left when one write is done: the others, of the summary's some late.
LEMMA LeftFacts ==
  ASSUME TypeOK, NEW i \in 1..Len(writes), NEW met \in Met(i)
  PROVE  /\ writes[i] \in Elements(writes) /\ writes[i] \in Write /\ Left(i, met) \in Seq(Write)
         /\ \A x \in Elements(Left(i, met)) : \E y \in Elements(writes) :
              x.summary = y.summary /\ (x = y \/ x.kind \in {"late", "second"})
         /\ \A y \in Elements(writes) :
              y.kind = "block" => y = writes[i] \/ y \in Elements(Left(i, met))
         /\ writes = <<CleanWrite>> => Left(i, met) = <<>>
<1> DEFINE rest == RemoveAt(writes, i)
           Kind(j) == IF rest[j].kind \notin {"summary", "late"} THEN rest[j].kind
                      ELSE IF j \in met THEN "second"
                      ELSE IF j < i /\ writes[i].kind \in {"summary", "second"} THEN "late"
                      ELSE rest[j].kind
           Of(j) == [rest[j] EXCEPT !.kind = Kind(j)]
<1>1. writes \in Seq(Write) /\ Len(writes) \in Nat
  BY DEF TypeOK
<1>2. /\ rest \in Seq(Write) /\ Len(rest) = Len(writes) - 1
      /\ \A j \in 1..Len(writes) - 1 : rest[j] = writes[IF j < i THEN j ELSE j + 1]
  BY <1>1, RemoveAtFacts
<1>3. Left(i, met) = [j \in 1..Len(rest) |-> Of(j)]
  BY DEF Left
<1> HIDE DEF rest
<1>4. \A j \in 1..Len(rest) : rest[j] \in Write
  BY <1>2
<1>5. \A j \in 1..Len(rest) :
        /\ Of(j) \in Write /\ Of(j).summary = rest[j].summary
        /\ Of(j) = rest[j] \/ Of(j).kind \in {"late", "second"}
        /\ rest[j].kind = "block" => Of(j) = rest[j]
  <2> SUFFICES ASSUME NEW j \in 1..Len(rest)
               PROVE  /\ Of(j) \in Write /\ Of(j).summary = rest[j].summary
                      /\ Of(j) = rest[j] \/ Of(j).kind \in {"late", "second"}
                      /\ rest[j].kind = "block" => Of(j) = rest[j]
    OBVIOUS
  <2>1. rest[j] \in Write
    BY <1>4
  <2>2. \/ Kind(j) = rest[j].kind
        \/ Kind(j) \in {"late", "second"} /\ rest[j].kind # "block"
    OBVIOUS
  <2> HIDE DEF Kind
  <2>3. CASE Kind(j) = rest[j].kind
    <3>1. Of(j) = rest[j]
      BY <2>1, <2>3 DEF Write
    <3> QED BY <2>1, <3>1
  <2>4. CASE Kind(j) \in {"late", "second"} /\ rest[j].kind # "block"
    BY <2>1, <2>4 DEF Write
  <2> QED BY <2>2, <2>3, <2>4
<1> HIDE DEF Of, Kind
<1>6. /\ Left(i, met) \in Seq(Write) /\ Len(Left(i, met)) = Len(rest)
      /\ \A j \in 1..Len(rest) : Left(i, met)[j] = Of(j)
  <2>1. Len(rest) \in Nat
    BY <1>1, <1>2
  <2>2. Left(i, met) \in [1..Len(rest) -> Write]
    BY <1>3, <1>5
  <2>3. Left(i, met) \in Seq(Write) /\ Len(Left(i, met)) = Len(rest)
    BY <2>1, <2>2
  <2> QED BY <1>3, <2>3
<1>7. ASSUME NEW j \in 1..Len(rest) PROVE rest[j] \in Elements(writes)
  <2>1. (IF j < i THEN j ELSE j + 1) \in 1..Len(writes)
    BY <1>1, <1>2
  <2> QED BY <1>2, <2>1 DEF Elements
<1>8. ASSUME NEW x \in Elements(Left(i, met))
      PROVE  \E y \in Elements(writes) : x.summary = y.summary /\ (x = y \/ x.kind \in {"late", "second"})
  <2>1. PICK j \in 1..Len(rest) : x = Of(j)
    BY <1>6 DEF Elements
  <2> QED BY <1>5, <1>7, <2>1
<1>9. ASSUME NEW k \in 1..Len(writes), k # i, writes[k].kind = "block"
      PROVE  writes[k] \in Elements(Left(i, met))
  <2>1. PICK j \in 1..Len(rest) : k = IF j < i THEN j ELSE j + 1
    <3>1. CASE k < i
      <4>1. k \in 1..Len(rest)
        BY <1>1, <1>2, <3>1
      <4> QED BY <3>1, <4>1
    <3>2. CASE ~(k < i)
      <4>1. k - 1 \in 1..Len(rest) /\ ~(k - 1 < i) /\ k = (k - 1) + 1
        BY <1>1, <1>2, <1>9, <3>2
      <4> QED BY <4>1
    <3> QED BY <3>1, <3>2
  <2>2. rest[j] = writes[k]
    BY <1>2, <2>1
  <2>3. Left(i, met)[j] = writes[k]
    BY <1>5, <1>6, <1>9, <2>2
  <2> QED BY <1>6, <2>3 DEF Elements
<1>10. writes = <<CleanWrite>> => Left(i, met) = <<>>
  <2> SUFFICES ASSUME writes = <<CleanWrite>> PROVE Left(i, met) = <<>>
    OBVIOUS
  <2>1. Len(rest) = 0
    BY <1>2
  <2> QED BY <1>6, <2>1
<1>11. writes[i] \in Elements(writes) /\ writes[i] \in Write
  BY <1>1 DEF Elements
<1> QED BY <1>6, <1>8, <1>9, <1>10, <1>11 DEF Elements

\* With what follows the write that is done.
LEMMA Taken ==
  ASSUME TypeOK, NEW i \in 1..Len(writes), NEW met \in Met(i), writes' = Left(i, met) \o Then(writes[i])
  PROVE  /\ writes' \in Seq(Write)
         /\ \A x \in Elements(writes') :
              \/ x.summary = summary /\ x.kind = "summary"
              \/ \E y \in Elements(writes) : x.summary = y.summary /\ (x = y \/ x.kind \in {"late", "second"})
         /\ \A y \in Elements(writes) :
              y.kind = "block" => y = writes[i] \/ y \in Elements(writes')
         /\ writes = <<CleanWrite>> => writes' = <<>>
<1> DEFINE w == writes[i]
           more == Then(w)
           rest == Left(i, met)
<1>1. SummaryWrite(summary) \in Write
  <2>1. 0 \in Number
    BY MonitorAssumption DEF Number
  <2> QED BY <2>1, WriteType DEF TypeOK
<1>2. more \in Seq(Write) /\ Elements(more) \subseteq {SummaryWrite(summary)}
  BY <1>1, ElementsOne, ElementsEmpty DEF Then, updateChannelInfo
<1>3. writes = <<CleanWrite>> => rest = <<>> /\ more = <<>>
  <2> SUFFICES ASSUME writes = <<CleanWrite>> PROVE rest = <<>> /\ more = <<>>
    OBVIOUS
  <2>1. w = CleanWrite
    OBVIOUS
  <2> QED BY <2>1, LeftFacts DEF Then, CleanWrite
<1>4. rest \in Seq(Write) /\ writes' = rest \o more
  BY LeftFacts
<1> HIDE DEF w, more, rest
<1>5. /\ rest \o more \in Seq(Write)
      /\ Elements(rest \o more) = Elements(rest) \cup Elements(more)
  BY <1>2, <1>4, ElementsConcat
<1>6. SummaryWrite(summary).summary = summary /\ SummaryWrite(summary).kind = "summary"
  BY DEF SummaryWrite
<1>7. ASSUME NEW x \in Elements(writes')
      PROVE  \/ x.summary = summary /\ x.kind = "summary"
             \/ \E y \in Elements(writes) : x.summary = y.summary /\ (x = y \/ x.kind \in {"late", "second"})
  <2>1. CASE x \in Elements(rest)
    BY <2>1, LeftFacts DEF rest
  <2>2. CASE x \in Elements(more)
    BY <1>2, <1>6, <2>2
  <2> QED BY <1>4, <1>5, <2>1, <2>2
<1>8. \A y \in Elements(writes) :
        y.kind = "block" => y = writes[i] \/ y \in Elements(writes')
  BY <1>4, <1>5, LeftFacts DEF rest
<1>9. writes = <<CleanWrite>> => writes' = <<>>
  BY <1>3, <1>4
<1> QED BY <1>4, <1>5, <1>7, <1>8, <1>9

\* A write that ended, whether the database did it or not.
Ended(i, met) ==
  LET w == writes[i]
  IN  /\ (blocks' = BlocksWith(w) /\ row' = RowWith(w)) \/ UNCHANGED <<row, blocks>>
      /\ IF w.kind = "clean" THEN phase' \in {"height", "stuck"} ELSE phase' = phase
      /\ writes' = Left(i, met) \o Then(w)
      /\ refused \subseteq refused'
      /\ w.kind = "block" => w.block \in blocks' \cup refused'
      /\ UNCHANGED <<ledger, running, events, summary, blockNumberArray, currentHeight, found,
                     fetches, spoiled, crashes>>

LEMMA EndedInv ==
  ASSUME Inv, NEW i \in 1..Len(writes), NEW met \in Met(i), Ended(i, met),
         refused' \subseteq Block, unsaved' \in BOOLEAN,
         fails' \in 0..MaxFails
  PROVE  Inv'
<1> DEFINE w == writes[i]
<1>1. TypeOK /\ InLedger /\ Remembers
  BY DEF Inv
<1>2. /\ (blocks' = BlocksWith(w) /\ row' = RowWith(w)) \/ UNCHANGED <<row, blocks>>
      /\ IF w.kind = "clean" THEN phase' \in {"height", "stuck"} ELSE phase' = phase
      /\ writes' = Left(i, met) \o Then(w)
      /\ refused \subseteq refused'
      /\ w.kind = "block" => w.block \in blocks' \cup refused'
      /\ UNCHANGED <<ledger, running, events, summary, blockNumberArray, currentHeight, found,
                     fetches, spoiled, crashes>>
  BY DEF Ended
<1>3. w \in Elements(writes) /\ w \in Write
  BY <1>1, LeftFacts
<1>4. /\ writes' \in Seq(Write)
      /\ \A x \in Elements(writes') :
           \/ x.summary = summary /\ x.kind = "summary"
           \/ \E y \in Elements(writes) : x.summary = y.summary /\ (x = y \/ x.kind \in {"late", "second"})
      /\ \A y \in Elements(writes) :
           y.kind = "block" => y = w \/ y \in Elements(writes')
      /\ writes = <<CleanWrite>> => writes' = <<>>
  BY <1>1, <1>2, Taken
<1>6. /\ w.kind \in {"block", "summary", "late", "second", "clean"}
      /\ w.block \in Block /\ w.summary \in Summary
  BY <1>3 DEF Write
<1>7. writes = <<CleanWrite>> => w = CleanWrite
  OBVIOUS
<1> HIDE DEF w
<1>8. Elements(events)' = Elements(events) /\ Elements(writes)' = Elements(writes')
  BY <1>2 DEF Elements
<1>9. BlocksWith(w) \subseteq Block /\ RowWith(w) \in Summary \cup {None}
  <2>1. {b \in blocks : b[2] # w.block[2]} \cup {w.block} \subseteq Block /\ blocks \subseteq Block
    BY <1>1, <1>6 DEF TypeOK
  <2>2. BlocksWith(w) \subseteq Block
    BY <1>6, <2>1 DEF BlocksWith
  <2> QED BY <1>1, <1>6, <2>2 DEF TypeOK, RowWith
<1>10. TypeOK'
  <2>1. blocks' \subseteq Block /\ row' \in Summary \cup {None}
    BY <1>1, <1>2, <1>9 DEF TypeOK
  <2>2. phase' \in Phase
    BY <1>1, <1>2 DEF TypeOK, Phase
  <2> QED BY <1>1, <1>2, <1>4, <2>1, <2>2 DEF TypeOK
<1>11. InLedger'
  <2>1. Past(summary)' /\ (found' # None => Past(found)')
    BY <1>1, <1>2 DEF InLedger, Past
  <2>2. ASSUME NEW x \in Elements(writes') PROVE Past(x.summary)'
    <3>1. Past(x.summary)
      BY <1>1, <1>4, <2>2 DEF InLedger
    <3> QED BY <1>2, <3>1, PastSame
  <2>3. row' # None => Past(row)'
    <3>1. Past(w.summary) /\ (row # None => Past(row))
      BY <1>1, <1>3 DEF InLedger
    <3>2. row' = row \/ row' = w.summary
      BY <1>2 DEF RowWith
    <3>3. row' # None => Past(row')
      BY <3>1, <3>2
    <3> QED BY <1>2, <3>3 DEF Past
  <2> QED BY <1>1, <1>2, <1>8, <2>1, <2>2, <2>3 DEF InLedger
<1>12. Remembers'
  <2>1. ~running \/ phase = "none" => writes = <<>>
    BY <1>1 DEF Remembers, NothingKept
  <2>2. running /\ phase # "none"
    BY <1>3, <2>1, ElementsEmpty
  <2>3. phase' \in {phase, "height", "stuck"}
    BY <1>2
  <2> QED BY <1>1, <1>2, <2>2, <2>3 DEF Remembers
<1>13. ASSUME spoiled' = {} PROVE Starting' /\ Tracing'
  <2>1. Starting /\ Tracing
    BY <1>2, <1>13 DEF Inv
  <2>2. writes # <<>>
    BY <1>3, ElementsEmpty
  <2>3. phase \in {"cleaning", "tracing"}
    BY <1>1, <2>1, <2>2 DEF Starting, TypeOK, Phase
  <2>4. CASE phase = "cleaning"
    <3>1. Idle /\ summary = Zero /\ writes = <<CleanWrite>>
      BY <2>1, <2>4 DEF Starting
    <3>2. w = CleanWrite
      BY <1>7, <3>1
    <3>3. writes' = <<>> /\ phase' \in {"height", "stuck"}
      BY <1>2, <1>4, <3>1, <3>2 DEF CleanWrite
    <3>4. \A b \in Block : summary.counts[b] = 0
      BY <3>1 DEF Zero
    <3>5. IsStored(summary)' /\ Older(summary)'
      BY <1>2, <3>4 DEF IsStored, Older
    <3>6. IsFirstBlocks(summary)'
      <4>1. 0 \in 0..MaxHeight /\ summary'.blockNum = 0
        BY <1>2, <3>1, MonitorAssumption DEF Zero
      <4>2. \A b \in Block : ~(b[2] < 0)
        BY <1>1, Numbers
      <4>3. \A b \in Block : summary'.counts[b] = IF b[1] = ledger'.gen /\ b[2] < 0 THEN 1 ELSE 0
        BY <1>2, <3>4, <4>2
      <4> QED BY <4>1, <4>3 DEF IsFirstBlocks
    <3> QED BY <1>2, <3>1, <3>3, <3>5, <3>6 DEF Starting, Tracing, Idle
  <2>5. CASE phase = "tracing"
    <3>1. w.kind # "clean" /\ (w.kind = "block" => w.block[1] = ledger.gen)
      BY <1>3, <2>1, <2>5 DEF Tracing
    <3>2. phase' = "tracing"
      BY <1>2, <2>5, <3>1
    <3>3. \A x \in Elements(writes') :
            x.kind # "clean" /\ (x.kind = "block" => x.block[1] = ledger.gen)
      <4>1. \A y \in Elements(writes) :
              y.kind # "clean" /\ (y.kind = "block" => y.block[1] = ledger.gen)
        BY <2>1, <2>5 DEF Tracing
      <4> QED BY <1>4, <4>1
    <3>4. ASSUME NEW b \in Block, summary.counts[b] > 0
          PROVE  b \in blocks' \cup refused' \/ \E x \in Elements(writes') : x.kind = "block" /\ x.block = b
      <4>1. b[1] = ledger.gen
        BY <2>1, <2>5, <3>4 DEF Tracing
      <4>2. CASE b \in blocks
        <5>1. w.kind = "block" /\ b[2] = w.block[2] => b = w.block
          BY <1>1, <1>6, <3>1, <4>1, Numbers
        <5>2. b \in BlocksWith(w)
          BY <1>6, <3>1, <4>2, <5>1 DEF BlocksWith
        <5> QED BY <1>2, <4>2, <5>2
      <4>3. CASE b \in refused
        BY <1>2, <4>3
      <4>4. CASE b \notin blocks \cup refused
        <5>1. PICK x \in Elements(writes) : x.kind = "block" /\ x.block = b
          BY <2>1, <2>5, <3>4, <4>4 DEF Tracing, BeingStored
        <5>2. CASE x = w
          BY <1>2, <5>1, <5>2
        <5>3. CASE x # w
          BY <1>4, <5>1, <5>3
        <5> QED BY <5>2, <5>3
      <4> QED BY <4>2, <4>3, <4>4
    <3>5. (\E base \in Nat : CountedFrom(base)') /\ BlockZeroOnce'
      <4>1. PICK base \in Nat : CountedFrom(base)
        BY <2>1, <2>5 DEF Tracing
      <4>2. CountedFrom(base)'
        BY <1>2, <1>8, <4>1 DEF CountedFrom, Now
      <4>3. BlockZeroOnce'
        BY <1>2, <2>1, <2>5 DEF Tracing, BlockZeroOnce
      <4> QED BY <4>2, <4>3
    <3>6. Tracing'
      BY <1>2, <1>8, <2>1, <2>5, <3>3, <3>4, <3>5 DEF Tracing, BeingStored
    <3> QED BY <3>2, <3>6 DEF Starting
  <2> QED BY <2>3, <2>4, <2>5
<1> QED BY <1>10, <1>11, <1>12, <1>13 DEF Inv

LEMMA WriteDoneInv == ASSUME Inv, WriteDone PROVE Inv'
<1>0. PICK i \in 1..Len(writes) : \E met \in Met(i) :
        /\ blocks' = BlocksWith(writes[i]) /\ row' = RowWith(writes[i])
        /\ phase' = IF writes[i].kind = "clean" THEN "height" ELSE phase
        /\ writes' = Left(i, met) \o Then(writes[i])
        /\ unsaved' \in BOOLEAN
        /\ UNCHANGED <<ledger, running, events, summary, blockNumberArray, currentHeight, found,
                       fetches, spoiled, refused, crashes, fails>>
  BY DEF WriteDone
<1>1. PICK met \in Met(i) :
        /\ blocks' = BlocksWith(writes[i]) /\ row' = RowWith(writes[i])
        /\ phase' = IF writes[i].kind = "clean" THEN "height" ELSE phase
        /\ writes' = Left(i, met) \o Then(writes[i])
        /\ unsaved' \in BOOLEAN
        /\ UNCHANGED <<ledger, running, events, summary, blockNumberArray, currentHeight, found,
                       fetches, spoiled, refused, crashes, fails>>
  BY <1>0
<1>2. writes[i].kind = "block" => writes[i].block \in BlocksWith(writes[i])
  BY DEF BlocksWith
<1>3. Ended(i, met)
  BY <1>1, <1>2 DEF Ended
<1>4. refused' \subseteq Block /\ fails' \in 0..MaxFails
  BY <1>1 DEF Inv, TypeOK
<1> QED BY <1>1, <1>3, <1>4, EndedInv

LEMMA WriteFailsInv == ASSUME Inv, WriteFails PROVE Inv'
<1>0. PICK i \in 1..Len(writes) : \E met \in Met(i) :
        /\ fails < MaxFails /\ fails' = fails + 1
        /\ (blocks' = BlocksWith(writes[i]) /\ row' = RowWith(writes[i])) \/ UNCHANGED <<row, blocks>>
        /\ phase' = IF writes[i].kind = "clean" THEN "stuck" ELSE phase
        /\ writes' = Left(i, met) \o Then(writes[i])
        /\ unsaved' = (unsaved \/ writes[i].kind \in {"summary", "late", "second"})
        /\ refused' = IF writes[i].kind = "block" THEN refused \cup {writes[i].block} ELSE refused
        /\ UNCHANGED <<ledger, running, events, summary, blockNumberArray, currentHeight, found,
                       fetches, spoiled, crashes>>
  BY DEF WriteFails, stored
<1>1. PICK met \in Met(i) :
        /\ fails < MaxFails /\ fails' = fails + 1
        /\ (blocks' = BlocksWith(writes[i]) /\ row' = RowWith(writes[i])) \/ UNCHANGED <<row, blocks>>
        /\ phase' = IF writes[i].kind = "clean" THEN "stuck" ELSE phase
        /\ writes' = Left(i, met) \o Then(writes[i])
        /\ unsaved' = (unsaved \/ writes[i].kind \in {"summary", "late", "second"})
        /\ refused' = IF writes[i].kind = "block" THEN refused \cup {writes[i].block} ELSE refused
        /\ UNCHANGED <<ledger, running, events, summary, blockNumberArray, currentHeight, found,
                       fetches, spoiled, crashes>>
  BY <1>0
<1>2. Ended(i, met)
  BY <1>1 DEF Ended
<1>3. refused' \subseteq Block
  <2>1. writes[i].block \in Block /\ refused \subseteq Block
    BY LeftFacts DEF Inv, TypeOK, Write
  <2> QED BY <1>1, <2>1
<1>4. fails' \in 0..MaxFails /\ unsaved' \in BOOLEAN
  BY <1>1, MonitorAssumption DEF Inv, TypeOK
<1> QED BY <1>2, <1>3, <1>4, EndedInv

LEMMA StopInv == ASSUME Inv, Stop PROVE Inv'
<1>1. TypeOK /\ InLedger
  BY DEF Inv
<1>2. /\ crashes < MaxCrashes /\ crashes' = crashes + 1
      /\ running' = FALSE /\ events' = <<>> /\ phase' = "none"
      /\ summary' = Zero /\ blockNumberArray' = {} /\ currentHeight' = 0
      /\ found' = None /\ fetches' = {} /\ writes' = <<>> /\ spoiled' = {}
      /\ refused' = {} /\ unsaved' = FALSE
      /\ UNCHANGED <<ledger, row, blocks, fails>>
  BY DEF Stop, stored, ghosts
<1>3. TypeOK'
  <2>1. 0 \in 0..MaxHeight /\ crashes' \in 0..MaxCrashes
    BY <1>1, <1>2, MonitorAssumption DEF TypeOK
  <2>2. events' \in Seq(Number) /\ writes' \in Seq(Write)
    BY <1>2
  <2>3. phase' \in Phase /\ summary' \in Summary
    BY <1>2, ZeroType DEF Phase
  <2>4. /\ ledger' \in [gen : Generation, height : 0..MaxHeight] /\ fails' \in 0..MaxFails
        /\ row' \in Summary \cup {None} /\ blocks' \subseteq Block
    BY <1>1, <1>2 DEF TypeOK
  <2> QED BY <1>2, <2>1, <2>2, <2>3, <2>4 DEF TypeOK
<1>4. Elements(events)' = {} /\ Elements(writes)' = {}
  BY <1>2, ElementsEmpty
<1>5. InLedger'
  <2>1. Past(summary)'
    BY <1>2 DEF Past, Zero
  <2>2. row' # None => Past(row)'
    BY <1>1, <1>2 DEF InLedger, Past
  <2> QED BY <1>2, <1>4, <2>1, <2>2 DEF InLedger
<1>6. Remembers'
  BY <1>2 DEF Remembers, NothingKept
<1>7. Starting' /\ Tracing'
  BY <1>2, <1>4 DEF Starting, Tracing, Idle, Older
<1> QED BY <1>3, <1>5, <1>6, <1>7 DEF Inv

LEMMA StartInv == ASSUME Inv, Start PROVE Inv'
<1>1. /\ ~running /\ running' = TRUE
      /\ UNCHANGED <<ledger, events, phase, summary, blockNumberArray, currentHeight, found, fetches,
                     writes, row, blocks, spoiled, refused, unsaved, crashes, fails>>
  BY DEF Start, memory, stored, ghosts
<1>2. NothingKept
  BY <1>1 DEF Inv, Remembers
<1>3. Elements(events)' = Elements(events) /\ Elements(writes)' = Elements(writes)
  BY <1>1 DEF Elements
<1>4. TypeOK' /\ Remembers'
  BY <1>1, <1>2 DEF Inv, TypeOK, Remembers, NothingKept
<1>5. InLedger'
  BY <1>1, <1>3 DEF Inv, InLedger, Past
<1>6. Starting' /\ Tracing'
  BY <1>1, <1>2, <1>3 DEF Inv, Starting, Tracing, NothingKept, Idle, Older
<1> QED BY <1>4, <1>5, <1>6 DEF Inv

LEMMA StutterInv == ASSUME Inv, UNCHANGED vars PROVE Inv'
<1>1. UNCHANGED <<ledger, running, events, phase, summary, blockNumberArray, currentHeight, found,
                  fetches, writes, row, blocks, spoiled, refused, unsaved, crashes, fails>>
  BY DEF vars, memory, stored, ghosts
<1>2. TypeOK' /\ Remembers'
  BY <1>1 DEF Inv, TypeOK, Remembers, NothingKept
<1>3. Elements(events)' = Elements(events) /\ Elements(writes)' = Elements(writes)
  BY <1>1 DEF Elements
<1>4. InLedger'
  BY <1>1, <1>3 DEF Inv, InLedger, Past
<1>5. spoiled' = {} => Starting'
  BY <1>1, <1>3 DEF Inv, Starting, Idle, Older, IsFirstBlocks, IsStored, CleanWrite, Now
<1>6. spoiled' = {} => Tracing'
  BY <1>1, <1>3 DEF Inv, Tracing, CountedFrom, BlockZeroOnce, BeingStored, Now
<1> QED BY <1>2, <1>4, <1>5, <1>6 DEF Inv

LEMMA NextInv == ASSUME Inv, [Next]_vars PROVE Inv'
<1>1. CASE UNCHANGED vars
  BY <1>1, StutterInv
<1>2. ASSUME NEW lost \in BOOLEAN, NewBlock(lost) PROVE Inv'
  BY <1>2, NewBlockInv
<1>3. CASE NewLedger
  BY <1>3, NewLedgerInv
<1>4. CASE refreshChannelObj
  BY <1>4, refreshChannelObjInv
<1>5. CASE checkHistory
  BY <1>5, checkHistoryInv
<1>6. CASE compareHash
  BY <1>6, compareHashInv
<1>7. CASE checkAndTrace
  BY <1>7, checkAndTraceInv
<1>8. CASE StartFails
  BY <1>8, StartFailsInv
<1>9. CASE eventBlock
  BY <1>9, eventBlockInv
<1>10. CASE Fetched
  BY <1>10, BlockFetchedInv DEF Fetched
<1>11. ASSUME NEW f \in fetches, NEW n \in f.left, BlockNotFetched(f, n) PROVE Inv'
  BY <1>11, BlockNotFetchedInv
<1>12. CASE WriteDone
  BY <1>12, WriteDoneInv
<1>13. CASE WriteFails
  BY <1>13, WriteFailsInv
<1>14. CASE Stop
  BY <1>14, StopInv
<1>15. CASE Start
  BY <1>15, StartInv
<1> QED
  BY <1>1, <1>2, <1>3, <1>4, <1>5, <1>6, <1>7, <1>8, <1>9, <1>10, <1>11, <1>12, <1>13, <1>14, <1>15
  DEF Next

LEMMA Invariance == Spec => []Inv
<1>1. Init => Inv
  BY InitInv
<1>2. Inv /\ [Next]_vars => Inv'
  BY NextInv
<1> QED BY <1>1, <1>2, PTL DEF Spec

(***************************************************************************)
(* The theorems                                                            *)
(***************************************************************************)

\* Every state of the monitor has its type: what is fetched is of the ledger's numbers,
\* the summaries count blocks of the ledgers there were, and no range is empty.
THEOREM MonitorTyping == Spec => []TypeOK
<1>1. Inv => TypeOK
  BY DEF Inv
<1> QED BY <1>1, Invariance, PTL

\* The trace of start(), the gaps and the events of one ledger count each block once,
\* however they interleave, over restarts and lost events, unless it is one of Reason.
THEOREM BlocksCountedOnce == Spec => []CountsOnce
<1>1. Inv => CountsOnce
  <2> SUFFICES ASSUME Inv, phase = "tracing", fetches = {}, spoiled = {}, NEW b \in Block
               PROVE  /\ summary.counts[b] <= IF b[1] = ledger.gen THEN 1 ELSE 0
                      /\ b[1] = ledger.gen /\ b[2] < currentHeight => summary.counts[b] = 1
    BY DEF CountsOnce
  <2>1. TypeOK /\ Tracing
    BY DEF Inv
  <2>2. summary.counts[b] \in Nat
    BY <2>1 DEF TypeOK, Summary
  <2>3. PICK base \in Nat : CountedFrom(base)
    BY <2>1 DEF Tracing
  <2>4. CASE b[1] # ledger.gen
    BY <2>1, <2>4 DEF Tracing
  <2>5. CASE b[1] = ledger.gen
    <3>1. b[2] \in Number /\ b = Now(b[2])
      BY <2>1, <2>5, Numbers
    <3>2. summary.counts[b] = IF b[2] < base \/ b[2] \in blockNumberArray THEN 1 ELSE 0
      BY <2>3, <3>1 DEF CountedFrom
    <3>3. b[2] < currentHeight => b[2] < base \/ b[2] \in blockNumberArray
      BY <2>3, <3>1 DEF CountedFrom
    <3> QED BY <2>5, <3>2, <3>3
  <2> QED BY <2>4, <2>5
<1> QED BY <1>1, Invariance, PTL

\* A block that is counted is in the database or on its way there, also one that the
\* summary taken up at a start had, and no row of an earlier ledger stands for it.
THEOREM CountedBlocksAreStored == Spec => []CountedIsStored
<1>1. Inv => CountedIsStored
  <2> SUFFICES ASSUME Inv, phase = "tracing", spoiled = {}, NEW b \in Block, summary.counts[b] > 0,
                      b \notin blocks \cup refused
               PROVE  \E i \in 1..Len(writes) : writes[i].kind = "block" /\ writes[i].block = b
    BY DEF CountedIsStored
  <2>1. BeingStored(b)
    BY DEF Inv, Tracing
  <2> QED BY <2>1 DEF BeingStored, Elements
<1> QED BY <1>1, Invariance, PTL
===============================================================================
