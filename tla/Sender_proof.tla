----------------------------- MODULE Sender_proof -----------------------------
(***************************************************************************)
(* Proofs about the endorsement sender, for every policy tree, every n and *)
(* every number of peers, and, in the second half, about Transaction, the  *)
(* transactions that are sent with what it collects.                       *)
(***************************************************************************)
EXTENDS Sender, Transaction, FiniteSetTheorems, TLAPS

(***************************************************************************)
(* The inductive invariant.  Everything is about one n_out_of rule x and   *)
(* the positions of its sub-rules.                                         *)
(***************************************************************************)
Waiting(x, i) == thread[x][i] = "waiting"

\* Position j of x is awaited by one of its threads.
IsAwaited(x, j) == \E i \in Threads(x) : Waiting(x, i) /\ on[x][i] = j

\* Positions a thread has already counted as fulfilled.
Counted(x) ==
  {j \in 1..rulesIndex[x] : state[Rules[x][j]] = "done" /\ ~IsAwaited(x, j)}

SomeDone(x) == \E i \in Threads(x) : thread[x][i] = "Done"

\* A rule that was not opened has not moved; an opened one has all its threads.
InvOpened(x) ==
  /\ state[x] \in {"idle", "started"} =>
       /\ rulesIndex[x] = 0
       /\ number[x] = N[x]
       /\ \A i \in Threads(x) : thread[x][i] = "none"
  /\ state[x] \notin {"idle", "started"} => \A i \in Threads(x) : thread[x][i] # "none"

\* Sub-rules are started in order, and settle while a thread awaits them.
InvTaken(x) ==
  \A j \in 1..Len(Rules[x]) :
    /\ j > rulesIndex[x] => state[Rules[x][j]] = "idle"
    /\ j <= rulesIndex[x] => state[Rules[x][j]] # "idle"
    /\ j <= rulesIndex[x] /\ ~IsAwaited(x, j) => state[Rules[x][j]] \in Settled

\* Every waiting thread awaits a sub-rule of its own.
InvAwaits(x) ==
  /\ \A i \in Threads(x) : Waiting(x, i) => on[x][i] \in 1..rulesIndex[x]
  /\ \A i, j \in Threads(x) :
       Waiting(x, i) /\ Waiting(x, j) /\ on[x][i] = on[x][j] => i = j

\* number counts down once for every counted sub-rule, and a thread has answered
\* Done exactly when it has reached zero.
InvCount(x) ==
  /\ number[x] = N[x] - Cardinality(Counted(x))
  /\ number[x] <= 0 <=> SomeDone(x)

\* An exhausted thread saw no sub-rule left.
InvExhausted(x) ==
  \A i \in Threads(x) : thread[x][i] = "exhausted" => rulesIndex[x] = Len(Rules[x])

\* The verdict of a settled rule is what its threads answered.
InvVerdict(x) ==
  state[x] \in Settled =>
    /\ AllThreadsEnded(x)
    /\ state[x] = "done" <=> SomeDone(x)

IInv ==
  /\ TypeOK
  /\ \A x \in NOf :
       /\ InvOpened(x) /\ InvTaken(x) /\ InvAwaits(x)
       /\ InvCount(x) /\ InvExhausted(x) /\ InvVerdict(x)

-------------------------------------------------------------------------------
(* Type correctness *)

LEMMA RulesType ==
  ASSUME NEW x \in NOf
  PROVE  /\ Len(Rules[x]) \in Nat
         /\ \A j \in 1..Len(Rules[x]) : Rules[x][j] \in Rule /\ Rules[x][j] # Root
         /\ N[x] \in Nat \ {0}
         /\ x \in Rule
<1>1. Rules[x] \in Seq(Rule \ {Root}) /\ N[x] \in Nat \ {0} /\ x \in Rule
  BY PolicyAssumption
<1> QED BY <1>1

LEMMA InitTypeOK == Init => TypeOK
<1> SUFFICES ASSUME Init PROVE TypeOK
  OBVIOUS
<1> USE DEF Init, Settled
<1>1. N \in [NOf -> Int]
  BY PolicyAssumption
<1>2. \A x \in NOf : 0 \in 0..Len(Rules[x])
  BY RulesType
<1>3. state \in [Rule -> {"idle", "started", "open"} \cup Settled]
  OBVIOUS
<1> QED BY <1>1, <1>2, <1>3 DEF TypeOK

LEMMA ExecuteTypeOK ==
  ASSUME TypeOK, NEW x \in NOf, executeNOutOf(x)
  PROVE  TypeOK'
<1> USE DEF TypeOK, executeNOutOf
<1>1. Opened(x) \in 0..Len(Rules[x])
  BY RulesType DEF Opened
<1>2. state' \in [Rule -> {"idle", "started", "open"} \cup Settled]
  OBVIOUS
<1>3. rulesIndex' \in [NOf -> Nat] /\ number' \in [NOf -> Int]
  BY <1>1, RulesType
<1>4. ASSUME NEW y \in NOf
      PROVE  /\ rulesIndex'[y] \in 0..Len(Rules[y])
             /\ thread'[y] \in [Threads(y) -> {"none", "waiting", "Done", "exhausted"}]
             /\ on'[y] \in [Threads(y) -> 0..Len(Rules[y])]
  <2>1. CASE y = x
    BY <2>1, <1>1, RulesType DEF Threads
  <2>2. CASE y # x
    BY <2>2
  <2> QED BY <2>1, <2>2
<1> QED BY <1>2, <1>3, <1>4

LEMMA ThreadTypeOK ==
  ASSUME TypeOK, NEW x \in NOf, NEW i \in Threads(x), endorseThread(x, i)
  PROVE  TypeOK'
<1> USE DEF TypeOK, endorseThread
<1>1. NumberAfter(x, i) \in Int
  BY DEF NumberAfter
<1>2. number' \in [NOf -> Int]
  BY <1>1
<1>3. /\ state' \in [Rule -> {"idle", "started", "open"} \cup Settled]
      /\ rulesIndex' \in [NOf -> Nat]
      /\ DOMAIN thread' = NOf /\ DOMAIN on' = NOf
  <2>1. CASE ThreadDone(x, i)
    BY <2>1 DEF ThreadDone
  <2>2. CASE ThreadExhausted(x, i)
    BY <2>2 DEF ThreadExhausted
  <2>3. CASE ThreadNext(x, i)
    <3>1. state' \in [Rule -> {"idle", "started", "open"} \cup Settled]
      BY <2>3 DEF ThreadNext, NoRuleLeft
    <3>2. rulesIndex' \in [NOf -> Nat]
      BY <2>3 DEF ThreadNext, NoRuleLeft
    <3>3. DOMAIN thread' = NOf /\ DOMAIN on' = NOf
      BY <2>3 DEF ThreadNext, NoRuleLeft
    <3> QED BY <3>1, <3>2, <3>3
  <2> QED BY <2>1, <2>2, <2>3
<1>4. ASSUME NEW y \in NOf
      PROVE  /\ rulesIndex'[y] \in 0..Len(Rules[y])
             /\ thread'[y] \in [Threads(y) -> {"none", "waiting", "Done", "exhausted"}]
             /\ on'[y] \in [Threads(y) -> 0..Len(Rules[y])]
  <2>1. CASE ThreadDone(x, i)
    <3>1. CASE y = x
      BY <2>1, <3>1 DEF ThreadDone
    <3>2. CASE y # x
      BY <2>1, <3>2 DEF ThreadDone
    <3> QED BY <3>1, <3>2
  <2>2. CASE ThreadExhausted(x, i)
    <3>1. CASE y = x
      BY <2>2, <3>1 DEF ThreadExhausted
    <3>2. CASE y # x
      BY <2>2, <3>2 DEF ThreadExhausted
    <3> QED BY <3>1, <3>2
  <2>3. CASE ThreadNext(x, i)
    <3>1. rulesIndex[x] + 1 \in 0..Len(Rules[x])
      BY <2>3, RulesType DEF ThreadNext, NoRuleLeft
    <3>2. CASE y = x
      BY <2>3, <3>1, <3>2 DEF ThreadNext, NoRuleLeft
    <3>3. CASE y # x
      BY <2>3, <3>3 DEF ThreadNext, NoRuleLeft
    <3> QED BY <3>2, <3>3
  <2> QED BY <2>1, <2>2, <2>3
<1> QED BY <1>2, <1>3, <1>4

LEMMA SettleTypeOK ==
  ASSUME TypeOK, NEW x \in NOf, SettleNOutOf(x)
  PROVE  TypeOK'
BY DEF TypeOK, SettleNOutOf, Settled

LEMMA SendTypeOK ==
  ASSUME TypeOK, NEW l \in SignedBy, iterativeSend(l)
  PROVE  TypeOK'
<1> USE DEF TypeOK, Settled
<1>1. CASE NoTarget(l)
  BY <1>1 DEF NoTarget
<1>2. CASE Endorsed(l)
  <2>1. <<l, tried[l] + 1>> \in SignedBy \X (Nat \ {0})
    OBVIOUS
  <2> QED BY <1>2, <2>1 DEF Endorsed, Asking
<1>3. CASE FinalError(l)
  BY <1>3 DEF FinalError, Asking
<1>4. CASE NotExistError(l)
  <2>1. /\ tried' \in [SignedBy -> Nat]
        /\ \A m \in SignedBy : tried'[m] <= Len(Targets[m])
    BY <1>4, TargetsAssumption DEF NotExistError, Asking
  <2>2. state' \in [Rule -> {"idle", "started", "open"} \cup Settled]
    BY <1>4 DEF NotExistError, Asking
  <2> QED BY <1>4, <2>1, <2>2 DEF NotExistError
<1>5. CASE SendRejected(l)
  BY <1>5 DEF SendRejected, Asking
<1> QED BY <1>1, <1>2, <1>3, <1>4, <1>5 DEF iterativeSend

\* Every behaviour of the sender is well typed (sender.js, whole class).
THEOREM SenderTypeOK == Spec => []TypeOK
<1>1. TypeOK /\ [Next]_vars => TypeOK'
  <2> SUFFICES ASSUME TypeOK, [Next]_vars PROVE TypeOK'
    OBVIOUS
  <2>1. CASE UNCHANGED vars
    BY <2>1 DEF TypeOK, vars
  <2>2. ASSUME NEW x \in NOf, RunNOutOf(x) PROVE TypeOK'
    BY <2>2, ExecuteTypeOK, ThreadTypeOK, SettleTypeOK DEF RunNOutOf
  <2>3. ASSUME NEW l \in SignedBy, iterativeSend(l) PROVE TypeOK'
    BY <2>3, SendTypeOK
  <2> QED BY <2>1, <2>2, <2>3 DEF Next, Answered
<1> QED BY <1>1, InitTypeOK, PTL DEF Spec

-------------------------------------------------------------------------------
(* The invariant *)

LEMMA CountedFinite ==
  ASSUME TypeOK, NEW x \in NOf
  PROVE  /\ IsFiniteSet(Counted(x))
         /\ Cardinality(Counted(x)) \in Nat
<1>1. rulesIndex[x] \in Int
  BY DEF TypeOK
<1>2. IsFiniteSet(1..rulesIndex[x])
  BY <1>1, FS_Interval
<1>3. Counted(x) \subseteq 1..rulesIndex[x]
  BY DEF Counted
<1>4. IsFiniteSet(Counted(x))
  BY <1>2, <1>3, FS_Subset
<1> QED BY <1>4, FS_CardinalityType

\* A step that leaves the threads of y alone, and only settles or opens sub-rules
\* that some thread of y awaits, keeps what the invariant says of y's threads.
LEMMA Frame ==
  ASSUME IInv, NEW y \in NOf,
         thread'[y] = thread[y], on'[y] = on[y],
         number'[y] = number[y], rulesIndex'[y] = rulesIndex[y],
         state'[y] \in {"idle", "started"} <=> state[y] \in {"idle", "started"},
         \A j \in 1..Len(Rules[y]) :
           \/ state'[Rules[y][j]] = state[Rules[y][j]]
           \/ /\ state[Rules[y][j]] \in {"started", "open"}
              /\ state'[Rules[y][j]] # "idle"
  PROVE  /\ InvOpened(y)' /\ InvTaken(y)' /\ InvAwaits(y)'
         /\ InvCount(y)' /\ InvExhausted(y)'
<1> USE DEF IInv
<1>1. InvOpened(y)'
  BY DEF InvOpened
<1>2. \A j : IsAwaited(y, j)' <=> IsAwaited(y, j)
  BY DEF IsAwaited, Waiting
<1>3. InvAwaits(y)'
  BY DEF InvAwaits, Waiting
<1>4. InvExhausted(y)'
  BY DEF InvExhausted
<1>5. rulesIndex[y] \in 0..Len(Rules[y]) /\ Len(Rules[y]) \in Nat
  BY RulesType DEF TypeOK
<1>6. ASSUME NEW j \in 1..Len(Rules[y]), j <= rulesIndex[y], ~IsAwaited(y, j)
      PROVE  state'[Rules[y][j]] = state[Rules[y][j]]
  BY <1>6 DEF InvTaken, Settled
<1>7. InvTaken(y)'
  <2>1. SUFFICES ASSUME NEW j \in 1..Len(Rules[y])
        PROVE /\ j > rulesIndex[y] => state'[Rules[y][j]] = "idle"
              /\ j <= rulesIndex[y] => state'[Rules[y][j]] # "idle"
              /\ j <= rulesIndex[y] /\ ~IsAwaited(y, j) => state'[Rules[y][j]] \in Settled
    BY <1>2 DEF InvTaken
  <2> QED BY <1>6 DEF InvTaken
<1>8. Counted(y)' = Counted(y)
  <2>1. \A j \in 1..rulesIndex[y] : j \in 1..Len(Rules[y]) /\ j <= rulesIndex[y]
    BY <1>5
  <2> QED BY <2>1, <1>2, <1>6 DEF Counted
<1>9. InvCount(y)'
  BY <1>8 DEF InvCount, SomeDone
<1> QED BY <1>1, <1>3, <1>4, <1>7, <1>9

LEMMA FrameVerdict ==
  ASSUME IInv, NEW y \in NOf, thread'[y] = thread[y],
         state'[y] \in Settled => state'[y] = state[y]
  PROVE  InvVerdict(y)'
BY DEF IInv, InvVerdict, AllThreadsEnded, SomeDone

LEMMA InitIInv == Init => IInv
<1> SUFFICES ASSUME Init, NEW x \in NOf
             PROVE /\ InvOpened(x) /\ InvTaken(x) /\ InvAwaits(x)
                   /\ InvCount(x) /\ InvExhausted(x) /\ InvVerdict(x)
  BY InitTypeOK DEF IInv
<1>1. /\ \A i \in Threads(x) : thread[x][i] = "none"
      /\ rulesIndex[x] = 0 /\ number[x] = N[x] /\ state[x] \in {"idle", "started"}
      /\ \A j \in 1..Len(Rules[x]) : state[Rules[x][j]] = "idle"
  BY RulesType DEF Init
<1>2. Counted(x) = {}
  BY <1>1 DEF Counted
<1>3. Cardinality(Counted(x)) = 0
  BY <1>2, FS_EmptySet
<1>4. InvCount(x)
  BY <1>1, <1>3, RulesType DEF InvCount, SomeDone
<1>5. InvTaken(x)
  BY <1>1, RulesType DEF InvTaken
<1> QED BY <1>1, <1>4, <1>5
  DEF InvOpened, InvAwaits, InvExhausted, InvVerdict, Waiting, Settled

\* What the invariant says of a single rule, with its verdict.
RuleInv(x) ==
  /\ InvOpened(x) /\ InvTaken(x) /\ InvAwaits(x)
  /\ InvCount(x) /\ InvExhausted(x) /\ InvVerdict(x)

LEMMA ExecutePreserves ==
  ASSUME IInv, NEW x \in NOf, executeNOutOf(x), NEW y \in NOf
  PROVE  RuleInv(y)'
<1> USE DEF RuleInv
<1>0. /\ Len(Rules[x]) \in Nat /\ N[x] \in Nat \ {0}
      /\ Opened(x) \in 0..Len(Rules[x]) /\ Opened(x) <= N[x]
      /\ Opened(x) # N[x] => Opened(x) = Len(Rules[x])
  BY RulesType DEF Opened
<1>1. /\ state[x] = "started"
      /\ rulesIndex[x] = 0 /\ number[x] = N[x]
      /\ \A j \in 1..Len(Rules[x]) : state[Rules[x][j]] = "idle"
  BY RulesType DEF IInv, InvOpened, InvTaken, executeNOutOf
<1>2. \A j \in 1..Len(Rules[x]) : Rules[x][j] # x
  BY <1>1
<1>3. /\ state'[x] = "open"
      /\ \A j \in 1..Len(Rules[x]) :
           state'[Rules[x][j]] = IF j <= Opened(x) THEN "started" ELSE "idle"
  <2>1. state'[x] = "open"
    BY RulesType DEF executeNOutOf
  <2>2. ASSUME NEW j \in 1..Len(Rules[x])
        PROVE  state'[Rules[x][j]] = IF j <= Opened(x) THEN "started" ELSE "idle"
    <3>1. Rules[x][j] \in Rule /\ Rules[x][j] # x
      BY RulesType, <1>2
    <3>2. (\E k \in 1..Opened(x) : Rules[x][j] = Rules[x][k]) <=> j <= Opened(x)
      BY <1>0, TreeAssumption
    <3> QED BY <3>1, <3>2, <1>1 DEF executeNOutOf
  <2> QED BY <2>1, <2>2
<1>4. CASE y = x
  <2>1. /\ rulesIndex'[x] = Opened(x) /\ number'[x] = N[x]
        /\ \A i \in Threads(x) :
             /\ thread'[x][i] = IF i <= Opened(x) THEN "waiting" ELSE "exhausted"
             /\ on'[x][i] = IF i <= Opened(x) THEN i ELSE 0
    BY <1>1 DEF executeNOutOf, IInv, TypeOK
  <2>2. InvOpened(x)'
    BY <2>1, <1>3 DEF InvOpened
  <2>3. InvAwaits(x)'
    BY <2>1, <1>0 DEF InvAwaits, Waiting, Threads
  <2>4. \A j \in 1..Opened(x) : IsAwaited(x, j)'
    BY <2>1, <1>0 DEF IsAwaited, Waiting, Threads
  <2>5. InvTaken(x)'
    BY <2>1, <2>4, <1>3, <1>0 DEF InvTaken
  <2>6. Counted(x)' = {}
    BY <2>1, <2>4 DEF Counted
  <2>7. InvCount(x)'
    <3>1. Cardinality(Counted(x)') = 0
      BY <2>6, FS_EmptySet
    <3>2. ~SomeDone(x)'
      BY <2>1 DEF SomeDone
    <3> QED BY <2>1, <3>1, <3>2, <1>0 DEF InvCount
  <2>8. InvExhausted(x)'
    BY <2>1, <1>0 DEF InvExhausted, Threads
  <2>9. InvVerdict(x)'
    BY <1>3 DEF InvVerdict, Settled
  <2> QED BY <1>4, <2>2, <2>3, <2>5, <2>7, <2>8, <2>9
<1>5. CASE y # x
  <2>1. /\ thread'[y] = thread[y] /\ on'[y] = on[y]
        /\ number'[y] = number[y] /\ rulesIndex'[y] = rulesIndex[y]
    BY <1>5 DEF executeNOutOf, IInv, TypeOK
  <2>2. \A r \in Rule \ {x} :
          \/ state'[r] = state[r]
          \/ state'[r] = "started" /\ \E j \in 1..Opened(x) : r = Rules[x][j]
    BY DEF executeNOutOf
  <2>3. \/ state'[y] = state[y]
        \/ state[y] = "idle" /\ state'[y] = "started"
    BY <2>2, <1>5, <1>1, <1>0, RulesType
  <2>4. \A j \in 1..Len(Rules[y]) :
           \/ state'[Rules[y][j]] = state[Rules[y][j]]
           \/ /\ state[Rules[y][j]] \in {"started", "open"}
              /\ state'[Rules[y][j]] # "idle"
    BY <2>2, <1>5, <1>1, <1>3, <1>0, RulesType, TreeAssumption
  <2>5. InvVerdict(y)'
    BY <2>1, <2>3, FrameVerdict DEF Settled
  <2> QED BY <2>1, <2>3, <2>4, <2>5, Frame
<1> QED BY <1>4, <1>5

LEMMA SettlePreserves ==
  ASSUME IInv, NEW x \in NOf, SettleNOutOf(x), NEW y \in NOf
  PROVE  RuleInv(y)'
<1> USE DEF RuleInv
<1>1. /\ thread'[y] = thread[y] /\ on'[y] = on[y]
      /\ number'[y] = number[y] /\ rulesIndex'[y] = rulesIndex[y]
  BY DEF SettleNOutOf
<1>2. /\ state[x] = "open" /\ AllThreadsEnded(x)
      /\ state'[x] = IF SomeDone(x) THEN "done" ELSE "failed"
      /\ \A r \in Rule \ {x} : state'[r] = state[r]
  BY RulesType DEF SettleNOutOf, IInv, TypeOK, SomeDone
<1>3. \A j \in 1..Len(Rules[y]) :
        \/ state'[Rules[y][j]] = state[Rules[y][j]]
        \/ /\ state[Rules[y][j]] \in {"started", "open"}
           /\ state'[Rules[y][j]] # "idle"
  BY <1>2, RulesType
<1>4. state'[y] \in {"idle", "started"} <=> state[y] \in {"idle", "started"}
  BY <1>2, RulesType
<1>5. InvVerdict(y)'
  <2>1. CASE y = x
    BY <2>1, <1>1, <1>2 DEF InvVerdict, AllThreadsEnded, SomeDone, Settled
  <2>2. CASE y # x
    BY <2>2, <1>1, <1>2, RulesType, FrameVerdict
  <2> QED BY <2>1, <2>2
<1> QED BY <1>1, <1>3, <1>4, <1>5, Frame

LEMMA SendPreserves ==
  ASSUME IInv, NEW l \in SignedBy, iterativeSend(l), NEW y \in NOf
  PROVE  RuleInv(y)'
<1> USE DEF RuleInv
<1>1. /\ thread'[y] = thread[y] /\ on'[y] = on[y]
      /\ number'[y] = number[y] /\ rulesIndex'[y] = rulesIndex[y]
  BY DEF iterativeSend, NoTarget, Endorsed, FinalError, NotExistError, SendRejected
<1>2. /\ state[l] = "started"
      /\ state'[l] \in {"started", "done", "failed"}
      /\ \A r \in Rule \ {l} : state'[r] = state[r]
  <2> USE DEF IInv, TypeOK, Asking, SignedBy
  <2>1. CASE NoTarget(l)
    BY <2>1 DEF NoTarget
  <2>2. CASE Endorsed(l)
    BY <2>2 DEF Endorsed
  <2>3. CASE FinalError(l)
    BY <2>3 DEF FinalError
  <2>4. CASE NotExistError(l)
    <3>1. state' = [state EXCEPT ![l] = "failed"] \/ state' = state
      BY <2>4 DEF NotExistError
    <3> QED BY <2>4, <3>1 DEF NotExistError
  <2>5. CASE SendRejected(l)
    BY <2>5 DEF SendRejected
  <2> QED BY <2>1, <2>2, <2>3, <2>4, <2>5 DEF iterativeSend
<1>3. y # l
  BY DEF SignedBy
<1>4. state'[y] = state[y]
  BY <1>2, <1>3, RulesType
<1>5. \A j \in 1..Len(Rules[y]) :
        \/ state'[Rules[y][j]] = state[Rules[y][j]]
        \/ /\ state[Rules[y][j]] \in {"started", "open"}
           /\ state'[Rules[y][j]] # "idle"
  BY <1>2, RulesType
<1> QED BY <1>1, <1>4, <1>5, Frame, FrameVerdict

LEMMA ThreadPreserves ==
  ASSUME IInv, NEW x \in NOf, NEW i \in Threads(x), endorseThread(x, i), NEW y \in NOf
  PROVE  RuleInv(y)'
<1> USE DEF RuleInv
<1> DEFINE j0 == on[x][i]
<1>0. /\ Len(Rules[x]) \in Nat /\ N[x] \in Nat \ {0}
      /\ rulesIndex[x] \in 0..Len(Rules[x])
      /\ number[x] \in Int
  BY RulesType DEF IInv, TypeOK
<1>1. /\ Waiting(x, i) /\ state[Rules[x][j0]] \in Settled
      /\ j0 \in 1..rulesIndex[x] /\ j0 \in 1..Len(Rules[x])
      /\ state[x] \notin {"idle", "started"}
  <2>1. Waiting(x, i) /\ state[Rules[x][j0]] \in Settled
    BY DEF endorseThread, Awaited, Waiting
  <2>2. j0 \in 1..rulesIndex[x]
    BY <2>1 DEF IInv, InvAwaits
  <2> QED BY <2>1, <2>2, <1>0 DEF IInv, InvOpened, Waiting
<1>2. /\ number'[x] = IF state[Rules[x][j0]] = "done" THEN number[x] - 1 ELSE number[x]
      /\ number'[x] = NumberAfter(x, i)
      /\ \A z \in NOf \ {x} : number'[z] = number[z]
  BY DEF endorseThread, NumberAfter, IInv, TypeOK
<1>3. state[x] \notin Settled
  BY <1>1 DEF IInv, InvVerdict, AllThreadsEnded, Waiting
<1>4. CASE y # x
  <2>1. /\ thread'[y] = thread[y] /\ on'[y] = on[y]
        /\ number'[y] = number[y] /\ rulesIndex'[y] = rulesIndex[y]
    BY <1>4, <1>2
    DEF endorseThread, ThreadDone, ThreadExhausted, ThreadNext, NoRuleLeft, IInv, TypeOK
  <2>2. \/ state' = state
        \/ /\ rulesIndex[x] + 1 \in 1..Len(Rules[x])
           /\ state[Rules[x][rulesIndex[x] + 1]] = "idle"
           /\ state' = [state EXCEPT ![Rules[x][rulesIndex[x] + 1]] = "started"]
    BY <1>0 DEF endorseThread, ThreadDone, ThreadExhausted, ThreadNext, NoRuleLeft, IInv, InvTaken
  <2>3. state'[y] = state[y] \/ (state[y] = "idle" /\ state'[y] = "started")
    BY <2>2, RulesType DEF IInv, TypeOK
  <2>4. \A j \in 1..Len(Rules[y]) : state'[Rules[y][j]] = state[Rules[y][j]]
    <3>1. CASE state' = state
      BY <3>1
    <3>2. CASE rulesIndex[x] + 1 \in 1..Len(Rules[x])
      BY <2>2, <3>2, <1>4, RulesType, TreeAssumption DEF IInv, TypeOK
    <3> QED BY <3>1, <3>2, <2>2
  <2>5. InvVerdict(y)'
    BY <2>1, <2>3, FrameVerdict DEF Settled
  <2> QED BY <2>1, <2>3, <2>4, <2>5, Frame
<1>5. CASE y = x
  \* What the three outcomes have in common: thread i leaves position j0, and
  \* awaits either nothing or a position just started.
  <2>1. ASSUME NEW C,
               C = (IF state[Rules[x][j0]] = "done" THEN Counted(x) \cup {j0} ELSE Counted(x))
        PROVE  number'[x] = N[x] - Cardinality(C)
    <3>1. j0 \notin Counted(x)
      BY <1>1 DEF Counted, IsAwaited
    <3>2. IsFiniteSet(Counted(x)) /\ Cardinality(Counted(x)) \in Nat
      BY CountedFinite DEF IInv
    <3>3. Cardinality(Counted(x) \cup {j0}) = Cardinality(Counted(x)) + 1
      BY <3>1, <3>2, FS_AddElement
    <3>4. number[x] = N[x] - Cardinality(Counted(x))
      BY DEF IInv, InvCount
    <3> QED BY <2>1, <3>2, <3>3, <3>4, <1>2, <1>0
  <2>2. \A k \in Threads(x) \ {i} : Waiting(x, k) => on[x][k] # j0
    BY <1>1 DEF IInv, InvAwaits
  <2>3. number[x] <= 0 <=> SomeDone(x)
    BY DEF IInv, InvCount
  <2>4. CASE ThreadDone(x, i) \/ ThreadExhausted(x, i)
    <3>1. /\ state' = state /\ rulesIndex' = rulesIndex /\ on' = on
          /\ thread'[x][i] \in {"Done", "exhausted"}
          /\ thread'[x][i] = "Done" <=> number'[x] = 0
          /\ thread'[x][i] = "exhausted" => rulesIndex[x] = Len(Rules[x])
          /\ \A k \in Threads(x) \ {i} : thread'[x][k] = thread[x][k]
      BY <2>4, <1>2 DEF ThreadDone, ThreadExhausted, NoRuleLeft, IInv, TypeOK
    <3>2. \A j : IsAwaited(x, j)' <=> IsAwaited(x, j) /\ j # j0
      BY <3>1, <2>2, <1>1 DEF IsAwaited, Waiting
    <3>3. InvOpened(x)'
      BY <3>1, <1>1 DEF IInv, InvOpened
    <3>4. InvTaken(x)'
      BY <3>1, <3>2, <1>1 DEF IInv, InvTaken
    <3>5. InvAwaits(x)'
      BY <3>1, <2>2 DEF IInv, InvAwaits, Waiting
    <3>6. Counted(x)' = IF state[Rules[x][j0]] = "done" THEN Counted(x) \cup {j0} ELSE Counted(x)
      BY <3>1, <3>2, <1>1 DEF Counted
    <3>7. SomeDone(x)' <=> number'[x] = 0 \/ SomeDone(x)
      BY <3>1, <1>1 DEF SomeDone, Waiting
    <3>8. InvCount(x)'
      <4>1. number'[x] = N[x] - Cardinality(Counted(x)')
        BY <3>6, <2>1
      <4>2. number'[x] <= 0 <=> SomeDone(x)'
        BY <3>7, <2>3, <1>2, <1>0
      <4> QED BY <4>1, <4>2 DEF InvCount
    <3>9. InvExhausted(x)'
      BY <3>1 DEF IInv, InvExhausted
    <3>10. InvVerdict(x)'
      BY <3>1, <1>3 DEF InvVerdict
    <3> QED BY <1>5, <3>3, <3>4, <3>5, <3>8, <3>9, <3>10
  <2>5. CASE ThreadNext(x, i)
    <3> DEFINE jn == rulesIndex[x] + 1
    <3>1. /\ jn \in 1..Len(Rules[x]) /\ rulesIndex'[x] = jn
          /\ thread' = thread /\ number'[x] # 0
          /\ on'[x][i] = jn
          /\ \A k \in Threads(x) \ {i} : on'[x][k] = on[x][k]
          /\ state' = [state EXCEPT ![Rules[x][jn]] = "started"]
      <4>1. jn \in 1..Len(Rules[x]) /\ rulesIndex'[x] = jn
        BY <2>5, <1>0 DEF ThreadNext, NoRuleLeft, IInv, TypeOK
      <4>2. thread' = thread /\ number'[x] # 0
        BY <2>5, <1>2 DEF ThreadNext, NoRuleLeft
      <4>3. on'[x][i] = jn /\ \A k \in Threads(x) \ {i} : on'[x][k] = on[x][k]
        BY <2>5 DEF ThreadNext, NoRuleLeft, IInv, TypeOK
      <4> QED BY <4>1, <4>2, <4>3, <2>5 DEF ThreadNext, NoRuleLeft
    <3>2. state[Rules[x][jn]] = "idle" /\ Rules[x][jn] # x
      BY <3>1, <1>0, <1>1 DEF IInv, InvTaken
    <3>3. /\ state'[x] = state[x]
          /\ state'[Rules[x][jn]] = "started"
          /\ \A j \in 1..Len(Rules[x]) : j # jn => state'[Rules[x][j]] = state[Rules[x][j]]
      <4>1. \A j \in 1..Len(Rules[x]) : j # jn => Rules[x][j] # Rules[x][jn]
        BY <3>1, TreeAssumption
      <4> QED BY <4>1, <3>1, <3>2, RulesType DEF IInv, TypeOK
    <3>4. \A k \in Threads(x) : Waiting(x, k) => on[x][k] <= rulesIndex[x]
      BY <1>0 DEF IInv, InvAwaits
    <3>5. /\ \A j : j = jn => IsAwaited(x, j)'
          /\ \A j : j # jn => (IsAwaited(x, j)' <=> IsAwaited(x, j) /\ j # j0)
      BY <3>1, <2>2, <1>1 DEF IsAwaited, Waiting
    <3>6. InvOpened(x)'
      BY <3>1, <3>3, <1>1 DEF IInv, InvOpened
    <3>7. InvTaken(x)'
      <4>1. SUFFICES ASSUME NEW j \in 1..Len(Rules[x])
            PROVE /\ j > jn => state'[Rules[x][j]] = "idle"
                  /\ j <= jn => state'[Rules[x][j]] # "idle"
                  /\ j <= jn /\ ~IsAwaited(x, j)' => state'[Rules[x][j]] \in Settled
        BY <3>1 DEF InvTaken
      <4>2. CASE j = jn
        BY <4>2, <3>3, <3>5, <1>0
      <4>3. CASE j # jn
        <5>1. j > jn <=> j > rulesIndex[x]
          BY <4>3, <1>0
        <5>2. j <= jn <=> j <= rulesIndex[x]
          BY <4>3, <1>0
        <5>3. state'[Rules[x][j]] = state[Rules[x][j]]
          BY <4>3, <3>3
        <5> QED BY <5>1, <5>2, <5>3, <4>3, <3>5, <1>1 DEF IInv, InvTaken
      <4> QED BY <4>2, <4>3
    <3>8. InvAwaits(x)'
      <4>1. ASSUME NEW k \in Threads(x), Waiting(x, k)' PROVE on'[x][k] \in 1..jn
        BY <4>1, <3>1, <1>0 DEF IInv, InvAwaits, Waiting
      <4>2. ASSUME NEW k \in Threads(x), NEW m \in Threads(x),
                   Waiting(x, k)', Waiting(x, m)', on'[x][k] = on'[x][m]
            PROVE  k = m
        BY <4>2, <3>1, <3>4, <1>0 DEF IInv, InvAwaits, Waiting
      <4> QED BY <4>1, <4>2, <3>1 DEF InvAwaits
    <3>9. Counted(x)' = IF state[Rules[x][j0]] = "done" THEN Counted(x) \cup {j0} ELSE Counted(x)
      <4>1. ASSUME NEW j PROVE j \in Counted(x)' <=>
              \/ j \in Counted(x)
              \/ state[Rules[x][j0]] = "done" /\ j = j0
        <5>1. CASE j = jn
          BY <5>1, <3>5, <1>0, <1>1 DEF Counted
        <5>2. CASE j # jn
          <6>1. j \in 1..jn <=> j \in 1..rulesIndex[x]
            BY <5>2, <1>0
          <6>2. j \in 1..rulesIndex[x] => state'[Rules[x][j]] = state[Rules[x][j]]
            BY <5>2, <3>3, <1>0
          <6> QED BY <6>1, <6>2, <5>2, <3>1, <3>5, <1>1 DEF Counted
        <5> QED BY <5>1, <5>2
      <4> QED BY <4>1
    <3>10. InvCount(x)'
      <4>1. number'[x] = N[x] - Cardinality(Counted(x)')
        BY <3>9, <2>1
      <4>2. SomeDone(x)' <=> SomeDone(x)
        BY <3>1 DEF SomeDone
      <4>3. number'[x] <= 0 <=> SomeDone(x)'
        BY <4>2, <2>3, <1>2, <1>0, <3>1
      <4> QED BY <4>1, <4>3 DEF InvCount
    <3>11. InvExhausted(x)'
      BY <3>1, <1>0, <2>5 DEF IInv, InvExhausted, ThreadNext, NoRuleLeft
    <3>12. InvVerdict(x)'
      BY <3>3, <1>3 DEF InvVerdict
    <3> QED BY <1>5, <3>6, <3>7, <3>8, <3>10, <3>11, <3>12
  <2> QED BY <2>4, <2>5 DEF endorseThread
<1> QED BY <1>4, <1>5

LEMMA NextIInv == IInv /\ [Next]_vars => IInv'
<1> SUFFICES ASSUME IInv, [Next]_vars PROVE IInv'
  OBVIOUS
<1>1. CASE UNCHANGED vars
  <2>1. TypeOK'
    BY <1>1 DEF vars, IInv, TypeOK
  <2>2. ASSUME NEW y \in NOf PROVE RuleInv(y)'
    BY <1>1, Frame, FrameVerdict DEF vars, RuleInv
  <2> QED BY <2>1, <2>2 DEF IInv, RuleInv
<1>2. ASSUME NEW x \in NOf, RunNOutOf(x) PROVE IInv'
  <2>1. TypeOK'
    BY <1>2, ExecuteTypeOK, ThreadTypeOK, SettleTypeOK DEF RunNOutOf, IInv
  <2>2. ASSUME NEW y \in NOf PROVE RuleInv(y)'
    BY <1>2, ExecutePreserves, ThreadPreserves, SettlePreserves DEF RunNOutOf
  <2> QED BY <2>1, <2>2 DEF IInv, RuleInv
<1>3. ASSUME NEW l \in SignedBy, iterativeSend(l) PROVE IInv'
  <2>1. TypeOK'
    BY <1>3, SendTypeOK DEF IInv
  <2>2. ASSUME NEW y \in NOf PROVE RuleInv(y)'
    BY <1>3, SendPreserves
  <2> QED BY <2>1, <2>2 DEF IInv, RuleInv
<1> QED BY <1>1, <1>2, <1>3 DEF Next, Answered

LEMMA SenderIInv == Spec => []IInv
BY InitIInv, NextIInv, PTL DEF Spec

-------------------------------------------------------------------------------
(* What the invariant gives *)

LEMMA FulfilledFinite ==
  ASSUME NEW x \in NOf
  PROVE  IsFiniteSet(Fulfilled(x)) /\ Cardinality(Fulfilled(x)) \in Nat
<1>1. IsFiniteSet(1..Len(Rules[x]))
  BY RulesType, FS_Interval
<1>2. IsFiniteSet(Fulfilled(x))
  BY <1>1, FS_Subset DEF Fulfilled
<1> QED BY <1>2, FS_CardinalityType

LEMMA SettledCounts ==
  ASSUME IInv, NEW x \in NOf, state[x] \in Settled
  PROVE  /\ Counted(x) \subseteq Fulfilled(x)
         /\ state[x] = "failed" =>
              /\ rulesIndex[x] = Len(Rules[x])
              /\ Counted(x) = Fulfilled(x)
              /\ \A j \in 1..Len(Rules[x]) : state[Rules[x][j]] \in Settled
<1>1. rulesIndex[x] \in 0..Len(Rules[x]) /\ Len(Rules[x]) \in Nat
  BY RulesType DEF IInv, TypeOK
<1>2. Counted(x) \subseteq Fulfilled(x)
  BY <1>1 DEF Counted, Fulfilled
<1>3. ASSUME state[x] = "failed"
      PROVE  /\ rulesIndex[x] = Len(Rules[x])
             /\ Counted(x) = Fulfilled(x)
             /\ \A j \in 1..Len(Rules[x]) : state[Rules[x][j]] \in Settled
  <2>1. 1 \in Threads(x)
    BY RulesType DEF Threads
  <2>2. \A i \in Threads(x) : thread[x][i] = "exhausted"
    BY <1>3 DEF IInv, InvVerdict, AllThreadsEnded, SomeDone, Settled
  <2>3. rulesIndex[x] = Len(Rules[x])
    BY <2>1, <2>2 DEF IInv, InvExhausted
  <2>4. \A j : ~IsAwaited(x, j)
    BY <2>2 DEF IsAwaited, Waiting
  <2>5. Counted(x) = Fulfilled(x)
    BY <2>3, <2>4 DEF Counted, Fulfilled
  <2>6. \A j \in 1..Len(Rules[x]) : state[Rules[x][j]] \in Settled
    BY <2>3, <2>4, <1>1 DEF IInv, InvTaken
  <2> QED BY <2>3, <2>5, <2>6
<1> QED BY <1>2, <1>3

LEMMA IInvVerdictSound == IInv => VerdictSound
<1> SUFFICES ASSUME IInv, NEW x \in NOf
             PROVE /\ state[x] = "done" => Cardinality(Fulfilled(x)) >= N[x]
                   /\ state[x] = "failed" => Cardinality(Fulfilled(x)) < N[x]
  BY DEF VerdictSound
<1>1. /\ number[x] = N[x] - Cardinality(Counted(x))
      /\ number[x] <= 0 <=> SomeDone(x)
      /\ Cardinality(Counted(x)) \in Nat /\ Cardinality(Fulfilled(x)) \in Nat
      /\ N[x] \in Nat
  BY CountedFinite, FulfilledFinite, RulesType DEF IInv, InvCount
<1>2. CASE state[x] = "done"
  <2>1. number[x] <= 0
    BY <1>1, <1>2 DEF IInv, InvVerdict, Settled
  <2>2. Cardinality(Counted(x)) <= Cardinality(Fulfilled(x))
    BY <1>2, SettledCounts, FulfilledFinite, FS_Subset DEF Settled
  <2> QED BY <1>1, <1>2, <2>1, <2>2
<1>3. CASE state[x] = "failed"
  <2>1. ~(number[x] <= 0)
    BY <1>1, <1>3 DEF IInv, InvVerdict, Settled
  <2>2. Counted(x) = Fulfilled(x)
    BY <1>3, SettledCounts DEF Settled
  <2> QED BY <1>1, <1>3, <2>1, <2>2
<1> QED BY <1>2, <1>3

\* For every policy tree, every n and every interleaving of the endorse threads, an
\* n_out_of rule answers "done" exactly when enough sub-rules were fulfilled
\* (sender.js executeNOutOf and endorseThread).
THEOREM SenderVerdictSound == Spec => []VerdictSound
BY SenderIInv, IInvVerdictSound, PTL

\* A policy is given up only after each of its sub-rules was tried (sender.js
\* endorseThread, which shares rulesIndex between threads).
THEOREM SenderGivenUpAfterAll == Spec => []GivenUpAfterAll
<1>1. IInv => GivenUpAfterAll
  BY SettledCounts DEF GivenUpAfterAll, Settled
<1> QED BY <1>1, SenderIInv, PTL

\* Two threads never await the same sub-rule, so no fulfilment is counted twice
\* (sender.js endorseThread).
THEOREM SenderNoRuleTakenTwice == Spec => []NoRuleTakenTwice
<1>1. IInv => NoRuleTakenTwice
  BY DEF IInv, InvAwaits, NoRuleTakenTwice, Waiting
<1> QED BY <1>1, SenderIInv, PTL

-------------------------------------------------------------------------------
(* The root rule implements the abstract n-out-of policy *)

Failed(x) == {j \in 1..Len(Rules[x]) : state[Rules[x][j]] = "failed"}

LEMMA SameCardinality == \A S : RootPolicy!Cardinality(S) = Cardinality(S)
BY DEF RootPolicy!Cardinality, Cardinality

LEMMA InitRefines == Init => RootPolicy!AbsInit
<1> SUFFICES ASSUME Init PROVE RootPolicy!AbsInit
  OBVIOUS
<1>1. \A j \in 1..Len(Rules[Root]) : state[Rules[Root][j]] = "idle"
  BY PolicyAssumption, RulesType DEF Init
<1>2. state[Root] = "started"
  BY PolicyAssumption DEF Init
<1> QED BY <1>1, <1>2 DEF RootPolicy!AbsInit, Fulfilled, RootVerdict, Settled

\* A step that leaves the root's own promise alone and moves the sub-rules without
\* settling any is a stutter of the abstract policy.
LEMMA QuietStep ==
  ASSUME state'[Root] \in Settled \/ state[Root] \in Settled => state'[Root] = state[Root],
         \A j \in 1..Len(Rules[Root]) :
           \/ state'[Rules[Root][j]] = state[Rules[Root][j]]
           \/ state'[Rules[Root][j]] \notin Settled /\ state[Rules[Root][j]] \notin Settled
  PROVE  UNCHANGED RootPolicy!absVars
<1>1. RootVerdict' = RootVerdict
  BY DEF RootVerdict
<1>2. Fulfilled(Root)' = Fulfilled(Root) /\ Failed(Root)' = Failed(Root)
  BY DEF Fulfilled, Failed, Settled
<1> QED BY <1>1, <1>2 DEF RootPolicy!absVars, Failed

\* A step that settles one rule other than the root is a stutter, or the abstract
\* policy's Fulfil or GiveUp when the rule is one of the root's sub-rules.
LEMMA SubRuleSettles ==
  ASSUME IInv, NEW r \in Rule, r # Root, state[r] \in {"started", "open"},
         state'[r] \in Settled, \A q \in Rule \ {r} : state'[q] = state[q]
  PROVE  [RootPolicy!AbsNext]_RootPolicy!absVars
<1>0. Root \in NOf /\ Root \in Rule /\ state'[Root] = state[Root]
  BY PolicyAssumption
<1>1. CASE \A j \in 1..Len(Rules[Root]) : Rules[Root][j] # r
  <2>1. \A j \in 1..Len(Rules[Root]) : state'[Rules[Root][j]] = state[Rules[Root][j]]
    BY <1>0, <1>1, RulesType
  <2> QED BY <1>0, <2>1, QuietStep
<1>2. ASSUME NEW j \in 1..Len(Rules[Root]), Rules[Root][j] = r
      PROVE  RootPolicy!AbsNext
  <2>1. \A k \in 1..Len(Rules[Root]) : k # j => state'[Rules[Root][k]] = state[Rules[Root][k]]
    BY <1>0, <1>2, RulesType, TreeAssumption
  <2>2. state[Root] \notin Settled
    <3>0. InvTaken(Root) /\ rulesIndex[Root] \in Nat /\ Len(Rules[Root]) \in Nat
      BY <1>0, RulesType DEF IInv, TypeOK
    <3>1. j <= rulesIndex[Root] /\ IsAwaited(Root, j)
      <4>1. ~(j > rulesIndex[Root])
        BY <3>0, <1>2 DEF InvTaken
      <4>2. j <= rulesIndex[Root]
        BY <3>0, <4>1
      <4> QED BY <3>0, <4>2, <1>2 DEF InvTaken, Settled
    <3> QED BY <3>1, <1>0 DEF IInv, InvVerdict, AllThreadsEnded, IsAwaited, Waiting
  <2>3. RootVerdict = "pending" /\ RootVerdict' = RootVerdict
    BY <1>0, <2>2 DEF RootVerdict
  <2>4. j \notin Fulfilled(Root) /\ j \notin Failed(Root)
    BY <1>2 DEF Fulfilled, Failed
  <2>5. CASE state'[r] = "done"
    <3>1. Fulfilled(Root)' = Fulfilled(Root) \cup {j} /\ Failed(Root)' = Failed(Root)
      BY <2>1, <2>4, <2>5, <1>2 DEF Fulfilled, Failed
    <3>2. RootPolicy!Fulfil(j)
      BY <2>3, <2>4, <3>1 DEF RootPolicy!Fulfil, Failed
    <3> QED BY <3>2 DEF RootPolicy!AbsNext
  <2>6. CASE state'[r] = "failed"
    <3>1. Fulfilled(Root)' = Fulfilled(Root) /\ Failed(Root)' = Failed(Root) \cup {j}
      BY <2>1, <2>4, <2>6, <1>2 DEF Fulfilled, Failed
    <3>2. RootPolicy!GiveUp(j)
      BY <2>3, <2>4, <3>1 DEF RootPolicy!GiveUp, Failed
    <3> QED BY <3>2 DEF RootPolicy!AbsNext
  <2> QED BY <2>5, <2>6 DEF Settled
<1> QED BY <1>1, <1>2

LEMMA RootSettles ==
  ASSUME IInv, IInv', SettleNOutOf(Root)
  PROVE  RootPolicy!AbsNext
<1>0. Root \in NOf /\ Root \in Rule
  BY PolicyAssumption
<1>1. /\ state[Root] = "open" /\ state'[Root] \in Settled
      /\ \A q \in Rule \ {Root} : state'[q] = state[q]
  BY <1>0 DEF SettleNOutOf, IInv, TypeOK, Settled
<1>2. \A j \in 1..Len(Rules[Root]) : state'[Rules[Root][j]] = state[Rules[Root][j]]
  BY <1>0, <1>1, RulesType
<1>3. Fulfilled(Root)' = Fulfilled(Root) /\ Failed(Root)' = Failed(Root)
  BY <1>2 DEF Fulfilled, Failed
<1>4. RootVerdict = "pending" /\ RootVerdict' = state'[Root]
  BY <1>1 DEF RootVerdict, Settled
<1>5. VerdictSound'
  <2>1. IInv' => VerdictSound'
    BY IInvVerdictSound, PTL
  <2> QED BY <2>1
<1>6. CASE state'[Root] = "done"
  <2>1. Cardinality(Fulfilled(Root)) >= N[Root]
    BY <1>0, <1>3, <1>5, <1>6 DEF VerdictSound
  <2>2. RootPolicy!Accept
    BY <2>1, <1>3, <1>4, <1>6, SameCardinality DEF RootPolicy!Accept, Failed
  <2> QED BY <2>2 DEF RootPolicy!AbsNext
<1>7. CASE state'[Root] = "failed"
  <2>1. Cardinality(Fulfilled(Root)) < N[Root]
    BY <1>0, <1>3, <1>5, <1>7 DEF VerdictSound
  <2>2. \A j \in 1..Len(Rules[Root]) : state'[Rules[Root][j]] \in Settled
    <3>1. \A i \in Threads(Root) : thread[Root][i] = "exhausted"
      BY <1>0, <1>1, <1>7 DEF SettleNOutOf, AllThreadsEnded, IInv, TypeOK
    <3>2. 1 \in Threads(Root)
      BY <1>0, RulesType DEF Threads
    <3>3. rulesIndex[Root] = Len(Rules[Root])
      BY <1>0, <3>1, <3>2 DEF IInv, InvExhausted
    <3>4. \A j \in 1..Len(Rules[Root]) : ~IsAwaited(Root, j)
      BY <3>1 DEF IsAwaited, Waiting
    <3> QED BY <1>0, <1>2, <3>3, <3>4, RulesType DEF IInv, InvTaken
  <2>3. Fulfilled(Root) \cup Failed(Root) = 1..Len(Rules[Root])
    BY <1>2, <2>2 DEF Fulfilled, Failed, Settled
  <2>4. RootPolicy!Refuse
    BY <2>1, <2>3, <1>3, <1>4, <1>7, SameCardinality DEF RootPolicy!Refuse, Failed
  <2> QED BY <2>4 DEF RootPolicy!AbsNext
<1> QED BY <1>1, <1>6, <1>7 DEF Settled

LEMMA StepRefines == IInv /\ IInv' /\ [Next]_vars => [RootPolicy!AbsNext]_RootPolicy!absVars
<1> SUFFICES ASSUME IInv, IInv', [Next]_vars
             PROVE  [RootPolicy!AbsNext]_RootPolicy!absVars
  OBVIOUS
<1>0. Root \in NOf /\ Root \in Rule
  BY PolicyAssumption
<1>1. CASE state' = state
  BY <1>1, QuietStep
<1>2. ASSUME NEW x \in NOf, executeNOutOf(x)
      PROVE  [RootPolicy!AbsNext]_RootPolicy!absVars
  <2>1. /\ state[x] = "started" /\ state'[x] = "open"
        /\ \A r \in Rule \ {x} :
             \/ state'[r] = state[r]
             \/ state'[r] = "started" /\ \E j \in 1..Opened(x) : r = Rules[x][j]
    BY <1>2, RulesType DEF executeNOutOf
  <2>2. \A j \in 1..Opened(x) : state[Rules[x][j]] = "idle" /\ Rules[x][j] # Root
    <3>1. Opened(x) <= Len(Rules[x]) /\ Opened(x) \in Nat
      BY RulesType DEF Opened
    <3>2. rulesIndex[x] = 0
      BY <2>1 DEF IInv, InvOpened
    <3> QED BY <3>1, <3>2, RulesType DEF IInv, InvTaken
  <2>3. state'[Root] = state[Root] \/ (state[Root] \notin Settled /\ state'[Root] \notin Settled)
    BY <2>1, <2>2, <1>0 DEF Settled
  <2>4. \A r \in Rule : \/ state'[r] = state[r]
                        \/ state'[r] \notin Settled /\ state[r] \notin Settled
    BY <2>1, <2>2 DEF Settled
  <2> QED BY <2>3, <2>4, <1>0, RulesType, QuietStep
<1>3. ASSUME NEW x \in NOf, NEW i \in Threads(x), endorseThread(x, i)
      PROVE  [RootPolicy!AbsNext]_RootPolicy!absVars
  <2>1. CASE state' = state
    BY <2>1, QuietStep
  <2>2. CASE ThreadNext(x, i)
    <3>1. /\ rulesIndex[x] + 1 \in 1..Len(Rules[x])
          /\ state[Rules[x][rulesIndex[x] + 1]] = "idle"
          /\ state' = [state EXCEPT ![Rules[x][rulesIndex[x] + 1]] = "started"]
      BY <2>2, RulesType DEF ThreadNext, NoRuleLeft, IInv, InvTaken, TypeOK
    <3>2. \A r \in Rule : \/ state'[r] = state[r]
                          \/ state'[r] \notin Settled /\ state[r] \notin Settled
      BY <3>1, RulesType DEF IInv, TypeOK, Settled
    <3> QED BY <3>2, <1>0, RulesType, QuietStep
  <2> QED BY <1>3, <2>1, <2>2 DEF endorseThread, ThreadDone, ThreadExhausted
<1>4. ASSUME NEW x \in NOf, SettleNOutOf(x)
      PROVE  [RootPolicy!AbsNext]_RootPolicy!absVars
  <2>1. CASE x = Root
    BY <1>4, <2>1, RootSettles
  <2>2. CASE x # Root
    <3>1. /\ x \in Rule /\ state[x] = "open" /\ state'[x] \in Settled
          /\ \A q \in Rule \ {x} : state'[q] = state[q]
      BY <1>4, RulesType DEF SettleNOutOf, IInv, TypeOK, Settled
    <3> QED BY <2>2, <3>1, SubRuleSettles
  <2> QED BY <2>1, <2>2
<1>5. ASSUME NEW l \in SignedBy, iterativeSend(l)
      PROVE  [RootPolicy!AbsNext]_RootPolicy!absVars
  <2>1. /\ l \in Rule /\ l # Root /\ state[l] = "started"
        /\ \A q \in Rule \ {l} : state'[q] = state[q]
        /\ state' = state \/ state'[l] \in Settled
    <3> USE <1>0 DEF IInv, TypeOK, Asking, SignedBy, Settled
    <3>1. CASE NoTarget(l)
      BY <3>1 DEF NoTarget
    <3>2. CASE Endorsed(l)
      BY <3>2 DEF Endorsed
    <3>3. CASE FinalError(l)
      BY <3>3 DEF FinalError
    <3>4. CASE NotExistError(l)
      <4>1. state' = [state EXCEPT ![l] = "failed"] \/ state' = state
        BY <3>4 DEF NotExistError
      <4> QED BY <3>4, <4>1 DEF NotExistError
    <3>5. CASE SendRejected(l)
      BY <3>5 DEF SendRejected
    <3> QED BY <1>5, <3>1, <3>2, <3>3, <3>4, <3>5 DEF iterativeSend
  <2> QED BY <2>1, SubRuleSettles, <1>1
<1> QED BY <1>1, <1>2, <1>3, <1>4, <1>5 DEF Next, RunNOutOf, Answered, vars

\* The root rule implements the abstract n-out-of policy: sub-rules settle one by
\* one, and the verdict is taken once, from what has settled (sender.js initExecute).
THEOREM SenderImplementsNOutOf == Spec => ImplementsNOutOf
<1>1. Spec => RootPolicy!AbsInit
  BY InitRefines DEF Spec
<1> QED BY <1>1, SenderIInv, StepRefines, PTL DEF Spec, ImplementsNOutOf, RootPolicy!AbsSpec

-------------------------------------------------------------------------------
(***************************************************************************)
(* Transaction, for any transactions, callers and hubs.                    *)
(*                                                                         *)
(* The inductive invariant says of every transaction what its phase and    *)
(* the race imply: one that was sent has agreeing answers and awaits none, *)
(* so they stay as they are; only what was sent gets an answer of the      *)
(* orderer or into the ledger; a block on its way is committed; and a race *)
(* that was won was won by a valid transaction.                            *)
(***************************************************************************)
Agree(t) == \E r \in Result : responses[t] = {r}

TxInv(t) ==
  /\ signedBy[t] \subseteq {Caller[t]}
  /\ phase[t] = "sent" => awaited[t] = 0 /\ Agree(t)
  /\ send[t] # "pending" \/ ledger[t] # "none" => phase[t] = "sent"
  /\ \A h \in Hub : t \in stream[h] => ledger[t] # "none"
  /\ race[t] # "pending" => phase[t] = "sent"
  /\ race[t] = "ok" => ledger[t] = "VALID"
  /\ \A h \in Hub : t \in timer[h] => phase[t] = "sent"

TransactionInv == TransactionTypeOK /\ \A t \in Tx : TxInv(t)

LEMMA TransactionStarts == TransactionInit => TransactionInv
BY TransactionAssumption DEF TransactionInit, TransactionInv, TransactionTypeOK, TxInv, Agree

\* What a step does with one transaction.
TxStep(t) ==
  \/ Start(t) \/ Propose(t) \/ Refuse(t) \/ sendToCommit(t)
  \/ \E r \in Result \cup {"error"} : Answer(t, r)
  \/ \E v \in {"ok", "failed"} : OrdererAnswers(t, v)
  \/ \E code \in {"VALID", "INVALID"} : Commit(t, code)
  \/ \E h \in Hub : Deliver(h, t) \/ TimerFires(h, t)

(***************************************************************************)
(* Typing                                                                  *)
(***************************************************************************)

LEMMA TypeTx == ASSUME TransactionTypeOK, NEW t \in Tx, TxStep(t) PROVE TransactionTypeOK'
<1>a. \A f \in [Hub -> SUBSET Tx], h \in Hub : Removed(f, h, t) \in [Hub -> SUBSET Tx]
  BY DEF Removed
<1>b. ASSUME NEW v \in {"ok", "failed"}, SettleRace(t, v)
      PROVE  race' \in [Tx -> {"pending", "ok", "failed"}]
  BY <1>b DEF SettleRace, TransactionTypeOK
<1> USE TransactionAssumption DEF TransactionTypeOK, txVars, hubVars
<1>1. CASE Start(t)
  BY <1>1 DEF Start, SignAs
<1>2. CASE Propose(t)
  BY <1>2 DEF Propose, SignAs
<1>3. CASE Refuse(t)
  BY <1>3 DEF Refuse
<1>4. CASE sendToCommit(t)
  BY <1>4 DEF sendToCommit, SignAs, registarTxPromisesAny, SettleRace
<1>5. ASSUME NEW r \in Result \cup {"error"}, Answer(t, r) PROVE TransactionTypeOK'
  BY <1>5 DEF Answer
<1>6. ASSUME NEW v \in {"ok", "failed"}, OrdererAnswers(t, v) PROVE TransactionTypeOK'
  BY <1>6 DEF OrdererAnswers, SettleRace
<1>7. ASSUME NEW code \in {"VALID", "INVALID"}, Commit(t, code) PROVE TransactionTypeOK'
  BY <1>7 DEF Commit
<1>8. ASSUME NEW h \in Hub, Deliver(h, t) PROVE TransactionTypeOK'
  <2>1. stream' \in [Hub -> SUBSET Tx]
    BY <1>8, <1>a DEF Deliver
  <2>2. listening' \in [Hub -> SUBSET Tx] /\ timer' \in [Hub -> SUBSET Tx]
    <3>1. \/ listening' = Removed(listening, h, t) /\ timer' = Removed(timer, h, t)
          \/ UNCHANGED <<listening, timer>>
      BY <1>8 DEF Deliver
    <3>2. /\ Removed(listening, h, t) \in [Hub -> SUBSET Tx]
          /\ Removed(timer, h, t) \in [Hub -> SUBSET Tx]
      BY <1>a
    <3> HIDE DEF TransactionTypeOK
    <3>3. listening \in [Hub -> SUBSET Tx] /\ timer \in [Hub -> SUBSET Tx]
      BY DEF TransactionTypeOK
    <3> QED  BY <3>1, <3>2, <3>3
  <2>3. race' \in [Tx -> {"pending", "ok", "failed"}]
    BY <1>8, <1>b DEF Deliver
  <2>4. UNCHANGED <<context, txVars, signedBy, send, open, aside, ledger, lost>>
    BY <1>8 DEF Deliver
  <2> QED  BY <2>1, <2>2, <2>3, <2>4
<1>9. ASSUME NEW h \in Hub, TimerFires(h, t) PROVE TransactionTypeOK'
  <2>1. listening' \in [Hub -> SUBSET Tx] /\ timer' \in [Hub -> SUBSET Tx]
    BY <1>9, <1>a DEF TimerFires
  <2>2. race' \in [Tx -> {"pending", "ok", "failed"}]
    BY <1>9, <1>b DEF TimerFires
  <2>3. UNCHANGED <<context, txVars, signedBy, send, open, aside, stream, ledger, lost>>
    BY <1>9 DEF TimerFires
  <2> QED  BY <2>1, <2>2, <2>3
<1> QED  BY <1>1, <1>2, <1>3, <1>4, <1>5, <1>6, <1>7, <1>8, <1>9 DEF TxStep

LEMMA TypeHub ==
  ASSUME TransactionTypeOK, \/ \E u \in User : SomeoneElse(u)
                 \/ \E h \in Hub : LoseStream(h) \/ Reconnect(h)
  PROVE  TransactionTypeOK'
<1> USE DEF TransactionTypeOK, txVars, hubVars
<1>1. ASSUME NEW u \in User, SomeoneElse(u) PROVE TransactionTypeOK'
  BY <1>1 DEF SomeoneElse
<1>2. ASSUME NEW h \in Hub, LoseStream(h) PROVE TransactionTypeOK'
  <2>1. lost' \in Nat
    BY <1>2 DEF LoseStream
  <2>2. /\ open' \in [Hub -> BOOLEAN] /\ stream' \in [Hub -> SUBSET Tx]
        /\ aside' \in [Hub -> SUBSET Tx] /\ listening' \in [Hub -> SUBSET Tx]
    BY <1>2 DEF LoseStream
  <2>3. UNCHANGED <<context, txVars, signedBy, send, race, timer, ledger>>
    BY <1>2 DEF LoseStream
  <2> QED  BY <2>1, <2>2, <2>3
<1>3. ASSUME NEW h \in Hub, Reconnect(h) PROVE TransactionTypeOK'
  BY <1>3 DEF Reconnect
<1> QED  BY <1>1, <1>2, <1>3

(***************************************************************************)
(* The invariant                                                           *)
(***************************************************************************)

\* A transaction that a step leaves alone keeps its part of the invariant.
LEMMA TxFrame ==
  ASSUME NEW x \in Tx, TxInv(x),
         signedBy'[x] = signedBy[x], phase'[x] = phase[x], awaited'[x] = awaited[x],
         responses'[x] = responses[x], send'[x] = send[x], race'[x] = race[x],
         ledger'[x] = ledger[x],
         \A h \in Hub : /\ x \in stream'[h] => x \in stream[h]
                        /\ x \in timer'[h] => x \in timer[h]
  PROVE  TxInv(x)'
BY DEF TxInv, Agree

\* A step of one transaction leaves the others alone.
LEMMA OthersKept ==
  ASSUME TransactionInv, NEW t \in Tx, TxStep(t), NEW x \in Tx, x # t
  PROVE  TxInv(x)'
<1> USE DEF TransactionTypeOK, txVars, hubVars, SettleRace, Removed
<1>0. TransactionTypeOK /\ TxInv(x)
  BY DEF TransactionInv
<1>1. CASE Start(t)
  BY <1>0, <1>1, TxFrame DEF Start, SignAs
<1>2. CASE Propose(t)
  BY <1>0, <1>2, TxFrame DEF Propose, SignAs
<1>3. CASE Refuse(t)
  BY <1>0, <1>3, TxFrame DEF Refuse
<1>4. CASE sendToCommit(t)
  BY <1>0, <1>4, TxFrame DEF sendToCommit, SignAs, registarTxPromisesAny
<1>5. ASSUME NEW r \in Result \cup {"error"}, Answer(t, r) PROVE TxInv(x)'
  BY <1>0, <1>5, TxFrame DEF Answer
<1>6. ASSUME NEW v \in {"ok", "failed"}, OrdererAnswers(t, v) PROVE TxInv(x)'
  BY <1>0, <1>6, TxFrame DEF OrdererAnswers
<1>7. ASSUME NEW code \in {"VALID", "INVALID"}, Commit(t, code) PROVE TxInv(x)'
  BY <1>0, <1>7, TxFrame DEF Commit
<1>8. ASSUME NEW h \in Hub, Deliver(h, t) PROVE TxInv(x)'
  BY <1>0, <1>8, TxFrame DEF Deliver
<1>9. ASSUME NEW h \in Hub, TimerFires(h, t) PROVE TxInv(x)'
  BY <1>0, <1>9, TxFrame DEF TimerFires
<1> QED  BY <1>1, <1>2, <1>3, <1>4, <1>5, <1>6, <1>7, <1>8, <1>9 DEF TxStep

\* The transaction the step is of keeps its part, too.
LEMMA ItselfKept ==
  ASSUME TransactionInv, NEW t \in Tx, TxStep(t)
  PROVE  TxInv(t)'
<1> USE DEF TransactionTypeOK, txVars, hubVars, TxInv, Agree, SettleRace, Removed
<1>0. TransactionTypeOK /\ TxInv(t)
  BY DEF TransactionInv
<1>1. CASE Start(t)
  BY <1>0, <1>1 DEF Start, SignAs
<1>2. CASE Propose(t)
  BY <1>0, <1>2 DEF Propose, SignAs
<1>3. CASE Refuse(t)
  BY <1>0, <1>3 DEF Refuse, Collected
<1>4. CASE sendToCommit(t)
  BY <1>0, <1>4 DEF sendToCommit, SignAs, registarTxPromisesAny, Collected, checkProposal
<1>5. ASSUME NEW r \in Result \cup {"error"}, Answer(t, r) PROVE TxInv(t)'
  BY <1>0, <1>5 DEF Answer
<1>6. ASSUME NEW v \in {"ok", "failed"}, OrdererAnswers(t, v) PROVE TxInv(t)'
  BY <1>0, <1>6 DEF OrdererAnswers
<1>7. ASSUME NEW code \in {"VALID", "INVALID"}, Commit(t, code) PROVE TxInv(t)'
  BY <1>0, <1>7 DEF Commit
<1>8. ASSUME NEW h \in Hub, Deliver(h, t) PROVE TxInv(t)'
  BY <1>0, <1>8 DEF Deliver
<1>9. ASSUME NEW h \in Hub, TimerFires(h, t) PROVE TxInv(t)'
  BY <1>0, <1>9 DEF TimerFires
<1> QED  BY <1>1, <1>2, <1>3, <1>4, <1>5, <1>6, <1>7, <1>8, <1>9 DEF TxStep

LEMMA TransactionKept == TransactionInv /\ [TransactionNext]_transactionVars => TransactionInv'
<1> SUFFICES ASSUME TransactionInv, [TransactionNext]_transactionVars PROVE TransactionInv'
  OBVIOUS
<1>0. TransactionTypeOK
  BY DEF TransactionInv
<1>1. ASSUME NEW t \in Tx, TxStep(t) PROVE TransactionInv'
  <2>1. TransactionTypeOK'
    BY <1>0, <1>1, TypeTx
  <2>2. \A x \in Tx : TxInv(x)'
    BY <1>1, ItselfKept, OthersKept
  <2> QED  BY <2>1, <2>2 DEF TransactionInv
<1>2. CASE \/ \E u \in User : SomeoneElse(u)
           \/ \E h \in Hub : LoseStream(h) \/ Reconnect(h)
  <2>1. TransactionTypeOK'
    BY <1>0, <1>2, TypeHub
  <2>2. ASSUME NEW x \in Tx PROVE TxInv(x)'
    BY <1>0, <1>2, TxFrame
    DEF TransactionInv, TransactionTypeOK, SomeoneElse, LoseStream, Reconnect, txVars, hubVars
  <2> QED  BY <2>1, <2>2 DEF TransactionInv
<1>3. CASE UNCHANGED transactionVars
  BY <1>0, <1>3
  DEF TransactionInv, TransactionTypeOK, TxInv, Agree, transactionVars, txVars, hubVars
<1> QED  BY <1>1, <1>2, <1>3 DEF TransactionNext, TxStep

LEMMA TransactionInvariance == TransactionSpec => []TransactionInv
BY TransactionStarts, TransactionKept, PTL DEF TransactionSpec

(***************************************************************************)
(* Theorems                                                                *)
(***************************************************************************)

\* The state of every transaction, the hubs and the client is well typed.
THEOREM TransactionTyping == TransactionSpec => []TransactionTypeOK
<1>1. TransactionInv => TransactionTypeOK
  BY DEF TransactionInv
<1> QED  BY <1>1, TransactionInvariance, PTL

\* Whoever else sets the client's user context, a transaction is signed by its
\* caller alone.
THEOREM TransactionSignedByCaller == TransactionSpec => []SignedByCaller
<1>1. TransactionInv => SignedByCaller
  BY DEF TransactionInv, TxInv, SignedByCaller
<1> QED  BY <1>1, TransactionInvariance, PTL

\* Only what was endorsed alike is sent and committed.
THEOREM TransactionOnlyEndorsed == TransactionSpec => []OnlyEndorsed
<1>1. TransactionInv => OnlyEndorsed
  BY DEF TransactionInv, TxInv, Agree, OnlyEndorsed
<1> QED  BY <1>1, TransactionInvariance, PTL

\* Success is told only of what is committed as valid and was endorsed alike.
THEOREM TransactionDoneIsCommitted == TransactionSpec => []DoneIsCommitted
<1>1. TransactionInv => DoneIsCommitted
  BY DEF TransactionInv, TxInv, Agree, DoneIsCommitted, Told
<1> QED  BY <1>1, TransactionInvariance, PTL

\* What a caller was told, no later step changes.
THEOREM TransactionToldOnce == TransactionSpec => ToldOnce
<1>1. TransactionInv /\ [TransactionNext]_transactionVars =>
        [\A t \in Tx : Told(t) # "nothing" => Told(t)' = Told(t)]_transactionVars
  <2> SUFFICES ASSUME TransactionInv, [TransactionNext]_transactionVars,
                      NEW t \in Tx, Told(t) # "nothing"
               PROVE  Told(t)' = Told(t)
    OBVIOUS
  <2>0. TransactionTypeOK /\ TxInv(t)
    BY DEF TransactionInv
  <2> USE <2>0 DEF TransactionTypeOK, TxInv, Told, txVars, hubVars
  <2>1. ASSUME phase'[t] = phase[t], send'[t] = send[t], race'[t] = race[t]
        PROVE  Told(t)' = Told(t)
    BY <2>1
  <2>2. CASE \E u \in User : SomeoneElse(u)
    BY <2>1, <2>2 DEF SomeoneElse
  <2>3. CASE \E h \in Hub : LoseStream(h) \/ Reconnect(h)
    BY <2>1, <2>3 DEF LoseStream, Reconnect
  <2>4. CASE UNCHANGED transactionVars
    BY <2>1, <2>4 DEF transactionVars
  <2>5. ASSUME NEW x \in Tx, TxStep(x) PROVE Told(t)' = Told(t)
    <3> USE DEF SettleRace
    <3>1. CASE Start(x)
      BY <2>1, <3>1 DEF Start
    <3>2. CASE Propose(x)
      BY <2>1, <3>2 DEF Propose
    <3>3. CASE Refuse(x)
      BY <2>1, <3>3 DEF Refuse, Collected
    <3>4. CASE sendToCommit(x)
      BY <2>1, <3>4 DEF sendToCommit, registarTxPromisesAny, Collected
    <3>5. CASE \E r \in Result \cup {"error"} : Answer(x, r)
      BY <2>1, <3>5 DEF Answer
    <3>6. CASE \E v \in {"ok", "failed"} : OrdererAnswers(x, v)
      BY <2>1, <3>6 DEF OrdererAnswers
    <3>7. CASE \E code \in {"VALID", "INVALID"} : Commit(x, code)
      BY <2>1, <3>7 DEF Commit
    <3>8. CASE \E h \in Hub : Deliver(h, x) \/ TimerFires(h, x)
      BY <2>1, <3>8 DEF Deliver, TimerFires
    <3> QED  BY <2>5, <3>1, <3>2, <3>3, <3>4, <3>5, <3>6, <3>7, <3>8 DEF TxStep
  <2> QED  BY <2>2, <2>3, <2>4, <2>5 DEF TransactionNext, TxStep
<1> QED  BY <1>1, TransactionInvariance, PTL DEF TransactionSpec, ToldOnce
===============================================================================
