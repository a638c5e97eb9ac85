--------------------------- MODULE SendRequest_proof ---------------------------
(***************************************************************************)
(* Proofs about SendRequest, for any set of messages and any maxTryTimes.  *)
(*                                                                         *)
(* The inductive invariant says, for each message, what its phase implies  *)
(* about the status, and that no update under way and no document is ahead *)
(* of the status (NotAhead).  The honesty of the history follows, because  *)
(* the phase says which statuses are possible.                             *)
(***************************************************************************)
EXTENDS SendRequest, SequenceTheorems, TLAPS

NotAhead(s, t) == s.retryTimes <= t.retryTimes /\ (s.success => t.success)

PhaseInv(r) ==
  /\ phase[r] # "sent" => ~status[r].success
  /\ phase[r] \in {"none", "posting", "waiting", "lost"} => status[r].retryTimes < maxTryTimes
  /\ phase[r] = "none" => /\ status[r].retryTimes = 0
                          /\ record[r] = "none"
                          /\ wire[r] = {}
  /\ phase[r] = "sent" => status[r].retryTimes \in handled[r]
  /\ phase[r] = "givenUp" => status[r].retryTimes = maxTryTimes

HistoryInv(r) ==
  /\ \A i \in 1..Len(saves[r]) : NotAhead(saves[r][i], status[r])
  /\ history[r] # NoStatus => NotAhead(history[r], status[r])

Inv == TypeOK /\ \A r \in Req : PhaseInv(r) /\ HistoryInv(r)

LEMMA StatusFacts ==
  /\ NewStatus \in Status
  /\ NoStatus \notin Status
  /\ \A s \in Status : /\ s.retryTimes \in 0..maxTryTimes
                       /\ s.success \in BOOLEAN
                       /\ s = [retryTimes |-> s.retryTimes, success |-> s.success]
BY maxTryTimesAssumption, NoStatusAssumption DEF NewStatus, Status

LEMMA InitInv == Init => Inv
<1> SUFFICES ASSUME Init PROVE Inv
  OBVIOUS
<1>1. TypeOK
  BY StatusFacts DEF Init, TypeOK
<1>2. ASSUME NEW r \in Req PROVE PhaseInv(r) /\ HistoryInv(r)
  BY maxTryTimesAssumption DEF Init, PhaseInv, HistoryInv, NewStatus
<1> QED
  BY <1>1, <1>2 DEF Inv

\* A message that a step leaves alone keeps its part of the invariant.
LEMMA Frame ==
  ASSUME NEW r, PhaseInv(r), HistoryInv(r),
         phase'[r] = phase[r], status'[r] = status[r], record'[r] = record[r],
         wire'[r] \subseteq wire[r], handled[r] \subseteq handled'[r], saves'[r] = saves[r], history'[r] = history[r]
  PROVE  PhaseInv(r)' /\ HistoryInv(r)'
BY DEF PhaseInv, HistoryInv

LEMMA Monotone ==
  ASSUME NEW s \in Status, NEW t \in Status, NEW u \in Status,
         NotAhead(s, t), NotAhead(t, u)
  PROVE  NotAhead(s, u)
BY maxTryTimesAssumption DEF NotAhead, Status

\* Update adds nothing but the status it is given.
LEMMA UpdateFacts ==
  ASSUME TypeOK, NEW r \in Req, NEW s \in Status, Update(r, s)
  PROVE  /\ saves' \in [Req -> Seq(Status)]
         /\ \A y \in Req \ {r} : saves'[y] = saves[y]
         /\ \A i \in 1..Len(saves'[r]) :
              saves'[r][i] = s \/ (i \in 1..Len(saves[r]) /\ saves'[r][i] = saves[r][i])
<1>1. CASE record[r] = "created"
  <2>1. saves' = [saves EXCEPT ![r] = Append(saves[r], s)]
    BY <1>1 DEF Update
  <2>2. saves[r] \in Seq(Status)
    BY DEF TypeOK
  <2>3. Append(saves[r], s) \in Seq(Status)
    BY <2>2
  <2>4. saves'[r] = Append(saves[r], s)
    BY <2>1 DEF TypeOK
  <2>5. \A i \in 1..Len(Append(saves[r], s)) :
          Append(saves[r], s)[i] = s
          \/ (i \in 1..Len(saves[r]) /\ Append(saves[r], s)[i] = saves[r][i])
    BY <2>2
  <2>6. saves' \in [Req -> Seq(Status)]
    BY <2>1, <2>3 DEF TypeOK
  <2>7. \A y \in Req \ {r} : saves'[y] = saves[y]
    BY <2>1 DEF TypeOK
  <2> QED
    BY <2>4, <2>5, <2>6, <2>7
<1>2. CASE record[r] # "created"
  BY <1>2 DEF Update, TypeOK
<1> QED
  BY <1>1, <1>2

-------------------------------------------------------------------------------
(* Each action preserves the invariant. *)

LEMMA NewInv == ASSUME Inv, NEW r \in Req, New(r) PROVE Inv'
<1> USE maxTryTimesAssumption
<1>1. /\ status[r] \in Status /\ phase[r] = "none"
      /\ status[r].retryTimes = 0 /\ ~status[r].success
  BY DEF Inv, New, PhaseInv, TypeOK
<1>2. Attempt(r) \in 1..maxTryTimes
  BY <1>1 DEF Attempt
<1>3. TypeOK'
  BY <1>2 DEF Inv, TypeOK, New
<1>4. PhaseInv(r)' /\ HistoryInv(r)'
  BY <1>1 DEF Inv, TypeOK, New, PhaseInv, HistoryInv
<1>5. ASSUME NEW y \in Req \ {r} PROVE PhaseInv(y)' /\ HistoryInv(y)'
  <2>1. phase'[y] = phase[y] /\ record'[y] = record[y]
    BY DEF Inv, TypeOK, New
  <2>2. wire'[y] = wire[y]
    BY DEF Inv, TypeOK, New
  <2> QED
    BY <2>1, <2>2, Frame DEF Inv, New
<1> QED
  BY <1>3, <1>4, <1>5 DEF Inv

LEMMA DeliverInv == ASSUME Inv, NEW r \in Req, Deliver(r) PROVE Inv'
<1>1. TypeOK'
  BY DEF Inv, TypeOK, Deliver, dbVars
<1>2. ASSUME NEW y \in Req PROVE PhaseInv(y)' /\ HistoryInv(y)'
  <2>1. handled[y] \subseteq handled'[y] /\ wire'[y] \subseteq wire[y]
    BY DEF Inv, TypeOK, Deliver
  <2> QED
    BY <2>1, Frame DEF Inv, Deliver, dbVars
<1> QED
  BY <1>1, <1>2 DEF Inv

LEMMA LoseInv == ASSUME Inv, NEW r \in Req, Lose(r) PROVE Inv'
<1>1. TypeOK'
  BY DEF Inv, TypeOK, Lose, dbVars
<1>2. ASSUME NEW y \in Req PROVE PhaseInv(y)' /\ HistoryInv(y)'
  <2>1. wire'[y] \subseteq wire[y]
    BY DEF Inv, TypeOK, Lose
  <2> QED
    BY <2>1, Frame DEF Inv, Lose, dbVars
<1> QED
  BY <1>1, <1>2 DEF Inv

\* Both results of a post: the status moves on, and with it what is saved.
LEMMA ResultInv ==
  ASSUME Inv, NEW r \in Req, NEW s \in Status, NEW p \in {"waiting", "givenUp", "sent"},
         phase[r] = "posting",
         status' = [status EXCEPT ![r] = s],
         phase' = [phase EXCEPT ![r] = p],
         Update(r, s),
         UNCHANGED <<netVars, record, history>>,
         NotAhead(status[r], s),
         p = "sent" => s.retryTimes \in handled[r],
         p # "sent" => ~s.success,
         p = "waiting" => s.retryTimes < maxTryTimes,
         p = "givenUp" => s.retryTimes = maxTryTimes
  PROVE  Inv'
<1>1. saves' \in [Req -> Seq(Status)]
  BY UpdateFacts DEF Inv
<1>2. TypeOK'
  BY <1>1 DEF Inv, TypeOK, netVars
<1>3. PhaseInv(r)'
  BY DEF Inv, TypeOK, PhaseInv, netVars
<1>4. HistoryInv(r)'
  <2>1. status[r] \in Status /\ saves[r] \in Seq(Status) /\ HistoryInv(r)
    BY DEF Inv, TypeOK
  <2>2. status'[r] = s /\ history'[r] = history[r]
    BY DEF Inv, TypeOK
  <2>3. NotAhead(s, s)
    BY maxTryTimesAssumption DEF NotAhead, Status
  <2>4. ASSUME NEW i \in 1..Len(saves'[r]) PROVE NotAhead(saves'[r][i], s)
    <3>1. CASE saves'[r][i] = s
      BY <2>3, <3>1
    <3>2. CASE i \in 1..Len(saves[r]) /\ saves'[r][i] = saves[r][i]
      <4>1. saves[r][i] \in Status
        BY <2>1, <3>2
      <4>2. NotAhead(saves[r][i], status[r])
        BY <2>1, <3>2 DEF HistoryInv
      <4>3. NotAhead(saves[r][i], s)
        BY <2>1, <4>1, <4>2, Monotone
      <4> QED
        BY <3>2, <4>3
    <3> QED
      BY <3>1, <3>2, UpdateFacts DEF Inv
  <2>5. ASSUME history[r] # NoStatus PROVE NotAhead(history[r], s)
    <3>1. history[r] \in Status
      BY <2>5 DEF Inv, TypeOK
    <3>2. NotAhead(history[r], status[r])
      BY <2>1, <2>5 DEF HistoryInv
    <3> QED
      BY <2>1, <3>1, <3>2, Monotone
  <2> QED
    BY <2>2, <2>4, <2>5 DEF HistoryInv
<1>5. ASSUME NEW y \in Req \ {r} PROVE PhaseInv(y)' /\ HistoryInv(y)'
  <2>1. phase'[y] = phase[y] /\ status'[y] = status[y]
    BY DEF Inv, TypeOK
  <2>2. saves'[y] = saves[y]
    BY UpdateFacts DEF Inv
  <2> QED
    BY <2>1, <2>2, Frame DEF Inv, netVars
<1> QED
  BY <1>2, <1>3, <1>4, <1>5 DEF Inv

LEMMA PostFailsInv == ASSUME Inv, NEW r \in Req, PostFails(r) PROVE Inv'
<1> DEFINE s == [retryTimes |-> status[r].retryTimes + 1, success |-> status[r].success]
           p == IF s.retryTimes < maxTryTimes THEN "waiting" ELSE "givenUp"
<1>1. /\ status[r] \in Status /\ phase[r] = "posting"
      /\ status[r].retryTimes < maxTryTimes /\ ~status[r].success
  BY DEF Inv, TypeOK, PostFails, PhaseInv
<1>2. s \in Status /\ s.retryTimes = status[r].retryTimes + 1 /\ ~s.success
  BY <1>1, maxTryTimesAssumption DEF Status
<1>3. status' = [status EXCEPT ![r] = s]
  <2>1. [status[r] EXCEPT !.retryTimes = status[r].retryTimes + 1] = s
    BY <1>1 DEF Status
  <2> QED
    BY <2>1 DEF PostFails
<1>4. status'[r] = s
  BY <1>3 DEF Inv, TypeOK
<1>5. phase' = [phase EXCEPT ![r] = p] /\ Update(r, s) /\ UNCHANGED <<netVars, record, history>>
  BY <1>4 DEF PostFails
<1>6. NotAhead(status[r], s)
  BY <1>1, <1>2, maxTryTimesAssumption DEF NotAhead, Status
<1>7. /\ p \in {"waiting", "givenUp", "sent"} /\ p # "sent"
      /\ p = "waiting" => s.retryTimes < maxTryTimes
      /\ p = "givenUp" => s.retryTimes = maxTryTimes
  BY <1>1, <1>2, maxTryTimesAssumption DEF Status
<1> HIDE DEF s, p
<1> QED
  BY <1>1, <1>2, <1>3, <1>5, <1>6, <1>7, ResultInv

LEMMA PostAnswersInv == ASSUME Inv, NEW r \in Req, PostAnswers(r) PROVE Inv'
<1> DEFINE s == [retryTimes |-> status[r].retryTimes + 1, success |-> TRUE]
<1>1. /\ status[r] \in Status /\ phase[r] = "posting" /\ status[r].retryTimes < maxTryTimes
      /\ status[r].retryTimes + 1 \in handled[r]
  BY DEF Inv, TypeOK, PostAnswers, Answerable, Attempt, PhaseInv
<1>2. s \in Status /\ s.retryTimes = status[r].retryTimes + 1 /\ s.success
  BY <1>1, maxTryTimesAssumption DEF Status
<1>3. status' = [status EXCEPT ![r] = s]
  BY DEF PostAnswers
<1>4. status'[r] = s
  BY <1>3 DEF Inv, TypeOK
<1>5. /\ phase' = [phase EXCEPT ![r] = "sent"] /\ Update(r, s)
      /\ UNCHANGED <<netVars, record, history>>
  BY <1>4 DEF PostAnswers
<1>6. NotAhead(status[r], s)
  BY <1>1, <1>2, maxTryTimesAssumption DEF NotAhead, Status
<1> HIDE DEF s
<1> QED
  BY <1>1, <1>2, <1>3, <1>5, <1>6, ResultInv

LEMMA RetryInv == ASSUME Inv, NEW r \in Req, Retry(r) PROVE Inv'
<1>1. status[r] \in Status /\ status[r].retryTimes < maxTryTimes /\ ~status[r].success
  BY DEF Inv, TypeOK, Retry, Waiting, PhaseInv
<1>2. Attempt(r) \in 1..maxTryTimes
  BY <1>1, maxTryTimesAssumption DEF Attempt, Status
<1>3. TypeOK'
  BY <1>2 DEF Inv, TypeOK, Retry, dbVars
<1>4. PhaseInv(r)' /\ HistoryInv(r)'
  BY <1>1 DEF Inv, TypeOK, Retry, dbVars, PhaseInv, HistoryInv
<1>5. ASSUME NEW y \in Req \ {r} PROVE PhaseInv(y)' /\ HistoryInv(y)'
  <2>1. phase'[y] = phase[y] /\ wire'[y] = wire[y]
    BY DEF Inv, TypeOK, Retry
  <2> QED
    BY <2>1, Frame DEF Inv, Retry, dbVars
<1> QED
  BY <1>3, <1>4, <1>5 DEF Inv

LEMMA HistoryCreatedInv == ASSUME Inv, NEW r \in Req, HistoryCreated(r) PROVE Inv'
<1>1. TypeOK'
  BY StatusFacts DEF Inv, TypeOK, HistoryCreated, Created, netVars
<1>2. PhaseInv(r)'
  BY DEF Inv, TypeOK, HistoryCreated, PhaseInv, netVars
<1>3. HistoryInv(r)'
  <2>1. history'[r] = NewStatus
    BY DEF Inv, TypeOK, HistoryCreated, Created
  <2>2. NotAhead(NewStatus, status[r])
    BY maxTryTimesAssumption DEF Inv, TypeOK, NotAhead, NewStatus, Status
  <2> QED
    BY <2>1, <2>2 DEF Inv, HistoryInv, HistoryCreated
<1>4. ASSUME NEW y \in Req \ {r} PROVE PhaseInv(y)' /\ HistoryInv(y)'
  <2>1. record'[y] = record[y] /\ history'[y] = history[y]
    BY DEF Inv, TypeOK, HistoryCreated
  <2> QED
    BY <2>1, Frame DEF Inv, HistoryCreated, netVars
<1> QED
  BY <1>1, <1>2, <1>3, <1>4 DEF Inv

LEMMA HistoryFailsInv == ASSUME Inv, NEW r \in Req, HistoryFails(r) PROVE Inv'
<1>1. TypeOK'
  BY DEF Inv, TypeOK, HistoryFails, netVars
<1>2. ASSUME NEW y \in Req PROVE PhaseInv(y)' /\ HistoryInv(y)'
  BY DEF Inv, TypeOK, HistoryFails, PhaseInv, HistoryInv, netVars
<1> QED
  BY <1>1, <1>2 DEF Inv

\* Taking the first update off the queue keeps the rest of it behind the status.
LEMMA TailFacts ==
  ASSUME Inv, NEW r \in Req, saves[r] # <<>>
  PROVE  /\ Head(saves[r]) \in Status
         /\ NotAhead(Head(saves[r]), status[r])
         /\ Tail(saves[r]) \in Seq(Status)
         /\ \A i \in 1..Len(Tail(saves[r])) : NotAhead(Tail(saves[r])[i], status[r])
<1>1. saves[r] \in Seq(Status) /\ HistoryInv(r)
  BY DEF Inv, TypeOK
<1>2. /\ Head(saves[r]) \in Status /\ Tail(saves[r]) \in Seq(Status)
      /\ Len(saves[r]) \in Nat \ {0} /\ Head(saves[r]) = saves[r][1]
      /\ Len(Tail(saves[r])) = Len(saves[r]) - 1
      /\ \A i \in 1..Len(Tail(saves[r])) : Tail(saves[r])[i] = saves[r][i + 1]
  BY <1>1, HeadTailProperties, EmptySeq
<1>3. \A i \in 1..Len(Tail(saves[r])) : i + 1 \in 1..Len(saves[r])
  BY <1>2
<1>4. 1 \in 1..Len(saves[r])
  BY <1>2
<1> QED
  BY <1>1, <1>2, <1>3, <1>4 DEF HistoryInv

LEMMA SavedInv ==
  ASSUME Inv, NEW r \in Req, saves[r] # <<>>,
         NEW h \in {history[r], Head(saves[r])},
         history' = [history EXCEPT ![r] = h],
         saves' = [saves EXCEPT ![r] = Tail(saves[r])],
         UNCHANGED <<phase, status, netVars, record>>
  PROVE  Inv'
<1>1. h \in Status \cup {NoStatus}
  BY TailFacts DEF Inv, TypeOK
<1>2. TypeOK'
  BY <1>1, TailFacts DEF Inv, TypeOK, netVars
<1>3. h # NoStatus => NotAhead(h, status[r])
  BY TailFacts DEF Inv, HistoryInv
<1>4. PhaseInv(r)' /\ HistoryInv(r)'
  BY <1>3, TailFacts DEF Inv, TypeOK, PhaseInv, HistoryInv, netVars
<1>5. ASSUME NEW y \in Req \ {r} PROVE PhaseInv(y)' /\ HistoryInv(y)'
  <2>1. saves'[y] = saves[y] /\ history'[y] = history[y]
    BY DEF Inv, TypeOK
  <2> QED
    BY <2>1, Frame DEF Inv, netVars
<1> QED
  BY <1>2, <1>4, <1>5 DEF Inv

LEMMA HistoryUpdatedInv == ASSUME Inv, NEW r \in Req, HistoryUpdated(r) PROVE Inv'
BY SavedInv DEF HistoryUpdated

LEMMA HistoryUpdateFailsInv == ASSUME Inv, NEW r \in Req, HistoryUpdateFails(r) PROVE Inv'
<1>1. history' = [history EXCEPT ![r] = history[r]]
  BY DEF Inv, TypeOK, HistoryUpdateFails
<1> QED
  BY <1>1, SavedInv DEF HistoryUpdateFails

LEMMA CrashInv == ASSUME Inv, Crash PROVE Inv'
<1>1. TypeOK'
  BY DEF Inv, TypeOK, Crash, netVars, dbVars
<1>2. ASSUME NEW r \in Req PROVE PhaseInv(r)' /\ HistoryInv(r)'
  BY DEF Inv, TypeOK, Crash, netVars, dbVars, PhaseInv, HistoryInv
<1> QED
  BY <1>1, <1>2 DEF Inv

LEMMA NextInv == Inv /\ [Next]_vars => Inv'
<1> SUFFICES ASSUME Inv, [Next]_vars PROVE Inv'
  OBVIOUS
<1>1. ASSUME NEW r \in Req, Step(r) PROVE Inv'
  BY <1>1, NewInv, DeliverInv, LoseInv, PostFailsInv, PostAnswersInv, RetryInv,
     HistoryCreatedInv, HistoryFailsInv, HistoryUpdatedInv, HistoryUpdateFailsInv DEF Step
<1>2. CASE Crash
  BY <1>2, CrashInv
<1>3. CASE UNCHANGED vars
  BY <1>3 DEF vars, netVars, dbVars, Inv, TypeOK, PhaseInv, HistoryInv
<1> QED
  BY <1>1, <1>2, <1>3 DEF Next

LEMMA SpecInv == Spec => []Inv
BY InitInv, NextInv, PTL DEF Spec

-------------------------------------------------------------------------------
(* The theorems. *)

\* Every message, its status, its copies and its history stay within maxTryTimes,
\* however posts, late copies, history updates and crashes interleave.
THEOREM SendRequestTypeOK == Spec => []TypeOK
<1>1. Inv => TypeOK
  BY DEF Inv
<1> QED
  BY <1>1, SpecInv, PTL

\* sendCallback runs only for a message that the peer's gateway has handled.
THEOREM SendRequestSentWasHandled == Spec => []SentWasHandled
<1>1. Inv => SentWasHandled
  BY DEF Inv, PhaseInv, SentWasHandled
<1> QED
  BY <1>1, SpecInv, PTL

\* A message is given up only after maxTryTimes failed posts.
THEOREM SendRequestGivenUpAfterAll == Spec => []GivenUpAfterAll
<1>1. Inv => GivenUpAfterAll
  BY StatusFacts DEF Inv, TypeOK, PhaseInv, GivenUpAfterAll
<1> QED
  BY <1>1, SpecInv, PTL

\* What the history calls finished is finished, also after a crash at any point.
THEOREM SendRequestHistoryHonest == Spec => []HistoryHonest
<1>1. ASSUME Inv PROVE HistoryHonest
  <2> SUFFICES ASSUME NEW r \in Req, history[r] # NoStatus
               PROVE  /\ history[r].success => handled[r] # {}
                      /\ history[r].retryTimes = maxTryTimes => phase[r] \in {"sent", "givenUp"}
    BY DEF HistoryHonest
  <2>1. /\ history[r] \in Status /\ status[r] \in Status
        /\ NotAhead(history[r], status[r]) /\ PhaseInv(r)
        /\ phase[r] \in {"none", "posting", "waiting", "sent", "givenUp", "lost"}
    BY <1>1 DEF Inv, TypeOK, HistoryInv
  <2>2. history[r].retryTimes = maxTryTimes => status[r].retryTimes = maxTryTimes
    BY <2>1, maxTryTimesAssumption DEF NotAhead, Status
  <2>3. status[r].retryTimes = maxTryTimes => phase[r] \in {"sent", "givenUp"}
    BY <2>1, maxTryTimesAssumption DEF PhaseInv
  <2>4. history[r].success => phase[r] = "sent"
    BY <2>1 DEF NotAhead, PhaseInv
  <2> QED
    BY <2>1, <2>2, <2>3, <2>4 DEF PhaseInv
<1> QED
  BY <1>1, SpecInv, PTL

\* A message that has ended is never posted again.
THEOREM SendRequestNoCopyAfterEnd == Spec => NoCopyAfterEnd
<1> DEFINE A == \A r \in Req :
      phase[r] \in {"sent", "givenUp", "lost"} => wire'[r] \subseteq wire[r]
<1>1. Inv /\ [Next]_vars => [A]_vars
  <2> SUFFICES ASSUME Inv, Next, NEW r \in Req, phase[r] \in {"sent", "givenUp", "lost"}
               PROVE  wire'[r] \subseteq wire[r]
    OBVIOUS
  <2>1. ASSUME NEW y \in Req, Step(y) PROVE wire'[r] \subseteq wire[r]
    <3>1. CASE New(y) \/ Retry(y)
      BY <3>1 DEF New, Retry, Waiting, Inv, TypeOK
    <3>2. CASE Deliver(y) \/ Lose(y)
      BY <3>2 DEF Deliver, Lose, Inv, TypeOK
    <3>3. CASE \/ PostFails(y) \/ PostAnswers(y) \/ HistoryCreated(y) \/ HistoryFails(y)
               \/ HistoryUpdated(y) \/ HistoryUpdateFails(y)
      BY <3>3 DEF PostFails, PostAnswers, HistoryCreated, HistoryFails,
                  HistoryUpdated, HistoryUpdateFails, netVars
    <3> QED
      BY <2>1, <3>1, <3>2, <3>3 DEF Step
  <2>2. CASE Crash
    BY <2>2 DEF Crash, netVars
  <2> QED
    BY <2>1, <2>2 DEF Next
<1> QED
  BY <1>1, SpecInv, PTL DEF Spec, NoCopyAfterEnd

\* Sending with retries implements the abstract promise: a step handles a copy,
\* changes what the sender knows of a message, or is invisible from outside.
THEOREM SendRequestImplementsAtLeastOnce == Spec => ImplementsAtLeastOnce
<1>1. Init => Delivery!AbsInit
  BY DEF Init, Delivery!AbsInit, Outcome
<1>2. Inv /\ [Next]_vars => [Delivery!AbsNext]_(Delivery!avars)
  <2> SUFFICES ASSUME Inv, [Next]_vars
               PROVE  Delivery!AbsNext \/ UNCHANGED Delivery!avars
    OBVIOUS
  <2>1. ASSUME NEW r \in Req, New(r) PROVE Delivery!Send(r)
    BY <2>1 DEF New, Delivery!Send, Outcome, Inv, TypeOK
  <2>2. ASSUME NEW r \in Req, Deliver(r) PROVE Delivery!AbsNext \/ UNCHANGED Delivery!avars
    <3>1. PICK c \in wire[r] : handled' = [handled EXCEPT ![r] = @ \cup {c}]
      BY <2>2 DEF Deliver
    <3>2. Outcome' = Outcome /\ c \in 1..maxTryTimes
      BY <2>2, <3>1 DEF Deliver, Outcome, Inv, TypeOK
    <3>3. CASE c \in handled[r]
      <4>1. handled' = handled
        BY <3>1, <3>3 DEF Inv, TypeOK
      <4> QED
        BY <3>2, <4>1 DEF Delivery!avars
    <3>4. CASE c \notin handled[r]
      <4>1. Outcome[r] # "none"
        BY <2>2 DEF Deliver, Outcome, Inv, PhaseInv
      <4>2. Delivery!Handle(r, c)
        BY <3>1, <3>2, <3>4, <4>1 DEF Delivery!Handle
      <4> QED
        BY <3>2, <4>2 DEF Delivery!AbsNext
    <3> QED
      BY <3>3, <3>4
  <2>3. ASSUME NEW r \in Req, PostFails(r) PROVE Delivery!GiveUp(r) \/ UNCHANGED Delivery!avars
    <3>1. phase[r] = "posting" /\ handled' = handled
      BY <2>3 DEF PostFails, netVars
    <3>2. CASE phase' = [phase EXCEPT ![r] = "waiting"]
      <4>1. Outcome' = Outcome
        BY <3>1, <3>2 DEF Outcome, Inv, TypeOK
      <4> QED
        BY <3>1, <4>1 DEF Delivery!avars
    <3>3. CASE phase' = [phase EXCEPT ![r] = "givenUp"]
      BY <3>1, <3>3 DEF Delivery!GiveUp, Outcome, Inv, TypeOK
    <3> QED
      BY <2>3, <3>2, <3>3 DEF PostFails
  <2>4. ASSUME NEW r \in Req, PostAnswers(r) PROVE Delivery!Succeed(r)
    BY <2>4 DEF PostAnswers, Answerable, Delivery!Succeed, Outcome, Inv, TypeOK, netVars
  <2>5. ASSUME NEW r \in Req, Retry(r) PROVE UNCHANGED Delivery!avars
    <3>1. Outcome' = Outcome
      BY <2>5 DEF Retry, Waiting, Outcome, Inv, TypeOK
    <3> QED
      BY <2>5, <3>1 DEF Retry, Delivery!avars
  <2>6. ASSUME NEW r \in Req,
               Lose(r) \/ HistoryCreated(r) \/ HistoryFails(r)
               \/ HistoryUpdated(r) \/ HistoryUpdateFails(r)
        PROVE  UNCHANGED Delivery!avars
    BY <2>6 DEF Lose, HistoryCreated, HistoryFails, HistoryUpdated, HistoryUpdateFails,
                netVars, Delivery!avars, Outcome
  <2>7. CASE Crash
    BY <2>7 DEF Crash, netVars, Delivery!AbsNext, Delivery!Forget, Outcome, Inv, TypeOK
  <2>8. CASE UNCHANGED vars
    BY <2>8 DEF vars, netVars, Delivery!avars, Outcome
  <2>9. ASSUME NEW r \in Req, Step(r) PROVE Delivery!AbsNext \/ UNCHANGED Delivery!avars
    BY <2>1, <2>2, <2>3, <2>4, <2>5, <2>6, <2>9 DEF Step, Delivery!AbsNext
  <2> QED
    BY <2>7, <2>8, <2>9 DEF Next
<1> QED
  BY <1>1, <1>2, SpecInv, PTL DEF Spec, ImplementsAtLeastOnce, Delivery!AbsSpec
===============================================================================
