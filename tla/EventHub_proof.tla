----------------------------- MODULE EventHub_proof -----------------------------
(***************************************************************************)
(* Proofs about eventHub.js: about EventHub, for any URLs and bounds, and, *)
(* in the second half, about Delivery.                                     *)
(*                                                                         *)
(* The hub: unless it is disturbed, one that has the gateway's error       *)
(* callback has the registered URLs under their numbers, and one that lost *)
(* it with its stream has a copy that has them, and is not connected.  The *)
(* database: of each URL the last write under way, or its rows if there is *)
(* none, says whether it is registered, but for rows that are yet to be    *)
(* resumed and URLs of which a write failed or came too early.             *)
(***************************************************************************)
EXTENDS EventHub, Delivery, SequenceTheorems, WellFoundedInduction, TLAPS

(***************************************************************************)
(* Induction, by the least number without a property                       *)
(***************************************************************************)

\* A set of natural numbers that is not empty has a least one.
LEMMA Least ==
  ASSUME NEW S \in SUBSET Nat, S # {}
  PROVE  \E m \in S : \A k \in S : m <= k
<1>1. IsWellFoundedOn(OpToRel(<, Nat), Nat)
  BY NatLessThanWellFounded
<1>2. PICK m \in S : \A k \in S : ~(<<k, m>> \in OpToRel(<, Nat))
  BY <1>1, WFMin
<1>3. \A k \in S : ~(k < m)
  BY <1>2 DEF OpToRel
<1> QED BY <1>3

\* One that has 0 and every successor has all.
LEMMA Induction ==
  ASSUME NEW S \in SUBSET Nat, 0 \in S, \A n \in S : n + 1 \in S
  PROVE  S = Nat
<1> SUFFICES ASSUME Nat \ S # {} PROVE FALSE
  OBVIOUS
<1>1. PICK m \in Nat \ S : \A k \in Nat \ S : m <= k
  <2>1. Nat \ S \in SUBSET Nat
    OBVIOUS
  <2> QED BY <2>1, Least
<1>2. m - 1 \in S
  BY <1>1
<1> QED BY <1>1, <1>2

(***************************************************************************)
(* The rows without those of a URL                                         *)
(***************************************************************************)

LEMMA AppendedRows ==
  ASSUME NEW us \in Seq(Url), NEW url \in Url
  PROVE  Append(us, url) \in Seq(Url) /\ ToSet(Append(us, url)) = ToSet(us) \cup {url}
<1> DEFINE vs == Append(us, url)
<1>1. /\ vs \in Seq(Url) /\ Len(vs) = Len(us) + 1 /\ Len(us) \in Nat
      /\ vs[Len(us) + 1] = url /\ \A i \in 1..Len(us) : vs[i] = us[i]
  OBVIOUS
<1> HIDE DEF vs
<1>2. ToSet(vs) = {vs[i] : i \in 1..Len(vs)} /\ ToSet(us) = {us[i] : i \in 1..Len(us)}
  BY <1>1 DEF ToSet
<1>3. 1..Len(vs) = 1..Len(us) \cup {Len(us) + 1}
  BY <1>1
<1>4. ToSet(vs) = {vs[i] : i \in 1..Len(us)} \cup {vs[Len(us) + 1]}
  BY <1>2, <1>3
<1>5. {vs[i] : i \in 1..Len(us)} = {us[i] : i \in 1..Len(us)}
  BY <1>1
<1>6. ToSet(vs) = ToSet(us) \cup {url}
  BY <1>1, <1>2, <1>4, <1>5
<1> QED BY <1>1, <1>6 DEF vs

RestStep(f, us, url, i) ==
  IF i = 0 THEN <<>>
  ELSE IF us[i] = url THEN f[i - 1] ELSE Append(f[i - 1], us[i])

Rest(f, us, url, n) == f = [i \in 0..n |-> RestStep(f, us, url, i)]

\* The definition by recursion in Remaining defines a function.
LEMMA RestExists ==
  ASSUME NEW us, NEW url, NEW n \in Nat
  PROVE  \E f : Rest(f, us, url, n)
<1> DEFINE S == {k \in Nat : \E f : Rest(f, us, url, k)}
<1>1. 0 \in S
  <2>1. Rest([i \in 0..0 |-> <<>>], us, url, 0)
    BY DEF Rest, RestStep
  <2> QED BY <2>1
<1>2. ASSUME NEW k \in S PROVE k + 1 \in S
  <2>1. PICK f : Rest(f, us, url, k)
    OBVIOUS
  <2> DEFINE g == [i \in 0..k + 1 |-> IF i <= k THEN f[i] ELSE RestStep(f, us, url, i)]
  <2>2. \A i \in 0..k : g[i] = f[i] /\ f[i] = RestStep(f, us, url, i)
    BY <2>1 DEF Rest
  <2>3. \A i \in 0..k + 1 : g[i] = RestStep(g, us, url, i)
    <3>1. \A i \in 0..k + 1 : RestStep(g, us, url, i) = RestStep(f, us, url, i)
      BY <2>2 DEF RestStep
    <3> QED BY <2>2, <3>1
  <2> HIDE DEF g
  <2>4. Rest(g, us, url, k + 1)
    <3>1. g = [i \in 0..k + 1 |-> g[i]]
      BY DEF g
    <3> QED BY <2>3, <3>1 DEF Rest
  <2> QED BY <2>4
<1> HIDE DEF S
<1>3. S = Nat
  <2>1. S \in SUBSET Nat
    BY DEF S
  <2> QED BY <1>1, <1>2, <2>1, Induction
<1> QED BY <1>3 DEF S

\* A removal takes the rows of its URL and no others.
LEMMA RemainingFacts ==
  ASSUME NEW us \in Seq(Url), NEW url
  PROVE  /\ Remaining(us, url) \in Seq(Url)
         /\ ToSet(Remaining(us, url)) = ToSet(us) \ {url}
<1> DEFINE f == CHOOSE g : Rest(g, us, url, Len(us))
           First(i) == {us[j] : j \in 1..i} \ {url}
           S == {i \in Nat : i <= Len(us) => f[i] \in Seq(Url) /\ ToSet(f[i]) = First(i)}
<1>0. Len(us) \in Nat
  OBVIOUS
<1>1. Rest(f, us, url, Len(us))
  BY <1>0, RestExists
<1>2. Remaining(us, url) = f[Len(us)]
  BY DEF Remaining, Rest, RestStep
<1> HIDE DEF f
<1>3. /\ f[0] = <<>>
      /\ \A i \in 1..Len(us) :
           f[i] = IF us[i] = url THEN f[i - 1] ELSE Append(f[i - 1], us[i])
  <2>1. \A i \in 0..Len(us) : f[i] = RestStep(f, us, url, i)
    BY <1>0, <1>1 DEF Rest
  <2> QED BY <1>0, <2>1 DEF RestStep
<1>4. 0 \in S
  <2>1. f[0] \in Seq(Url) /\ ToSet(f[0]) = {}
    BY <1>3 DEF ToSet
  <2>2. First(0) = {}
    OBVIOUS
  <2> QED BY <2>1, <2>2
<1>5. ASSUME NEW i \in S PROVE i + 1 \in S
  <2> SUFFICES ASSUME i + 1 <= Len(us)
               PROVE  f[i + 1] \in Seq(Url) /\ ToSet(f[i + 1]) = First(i + 1)
    OBVIOUS
  <2>1. f[i] \in Seq(Url) /\ ToSet(f[i]) = First(i)
    BY <1>0
  <2>2. i + 1 \in 1..Len(us) /\ us[i + 1] \in Url
    BY <1>0
  <2>3. f[i + 1] = IF us[i + 1] = url THEN f[i] ELSE Append(f[i], us[i + 1])
    BY <1>3, <2>2
  <2>4. First(i + 1) = First(i) \cup ({us[i + 1]} \ {url})
    <3>1. 1..i + 1 = 1..i \cup {i + 1}
      OBVIOUS
    <3> QED BY <3>1
  <2>5. us[i + 1] # url =>
          f[i + 1] \in Seq(Url) /\ ToSet(f[i + 1]) = ToSet(f[i]) \cup {us[i + 1]}
    BY <2>1, <2>2, <2>3, AppendedRows
  <2> HIDE DEF First
  <2>6. CASE us[i + 1] = url
    BY <2>1, <2>3, <2>4, <2>6
  <2>7. CASE us[i + 1] # url
    BY <2>1, <2>2, <2>3, <2>4, <2>5, <2>7
  <2> QED BY <2>6, <2>7
<1> HIDE DEF S
<1>6. S = Nat
  <2>1. S \in SUBSET Nat
    BY DEF S
  <2> QED BY <1>4, <1>5, <2>1, Induction
<1>7. f[Len(us)] \in Seq(Url) /\ ToSet(f[Len(us)]) = First(Len(us))
  <2>1. Len(us) \in S
    BY <1>0, <1>6
  <2> QED BY <1>0, <2>1 DEF S
<1>8. First(Len(us)) = ToSet(us) \ {url}
  BY DEF ToSet
<1> QED BY <1>2, <1>7, <1>8
(***************************************************************************)
(* The inductive invariant                                                 *)
(***************************************************************************)

\* A hub's tables, or a copy of them, have the registered URLs under their numbers,
\* and the next number is free.
Good(h) ==
  /\ h.there /\ h.notify /\ h.next \in Nat /\ h.table = registered
  /\ \A p \in registered : p[1] < h.next

\* The tables are good while the gateway's error callback is among them; the copy is
\* when the stream is lost.
HubInv ==
  /\ ~hub.made => hub = Absent
  /\ ~disturbed =>
       /\ ~hub.made => registered = {}
       /\ hub.made /\ hub.notify => Good(hub)
       /\ hub.made /\ ~hub.notify => ~hub.open /\ \E s \in saved : Good(s)
       /\ \A p, q \in registered : p[1] = q[1] \/ p[2] = q[2] => p = q

\* Whether a URL will have a row when the writes under way are done.
Pending(u) == \E i \in 1..Len(writes) : writes[i].url = u
CreatedLast(u) ==
  \E i \in 1..Len(writes) :
    /\ writes[i].op = "create" /\ writes[i].url = u
    /\ \A j \in i + 1..Len(writes) : writes[j].url # u
WillBe(u) == IF Pending(u) THEN CreatedLast(u) ELSE u \in ToSet(rows)

StoreInv ==
  ~disturbed => \A u \in Url \ strayed :
    /\ IsRegistered(u) => WillBe(u)
    /\ WillBe(u) => IsRegistered(u) \/ (resuming /\ ~Pending(u))

Inv == TypeOK /\ HubInv /\ StoreInv

LEMMA InitInv == Init => Inv
<1> SUFFICES ASSUME Init PROVE Inv
  OBVIOUS
<1>1. Absent \in Hub /\ ~Absent.made
  BY DEF Absent, Hub, Table
<1>2. TypeOK
  <2>1. rows \in Seq(Url) /\ writes \in Seq(Write)
    BY DEF Init
  <2>2. count \in [DOMAIN Kinds -> Nat]
    BY DEF Init
  <2> QED BY <1>1, <2>1, <2>2 DEF Init, TypeOK
<1>3. HubInv
  BY <1>1 DEF Init, HubInv
<1>4. \A u : ~IsRegistered(u) /\ ~Pending(u) /\ ~WillBe(u)
  BY DEF Init, IsRegistered, Pending, WillBe, ToSet
<1> QED BY <1>2, <1>3, <1>4 DEF Inv, StoreInv

\* The hub that is there, or is made, is as the invariant says.
LEMMA MadeInv ==
  ASSUME TypeOK, HubInv
  PROVE  /\ Made \in Hub /\ Made.made
         /\ MadeSaved \subseteq Copy /\ \A s, t \in MadeSaved : s = t
         /\ MadeAlive \in BOOLEAN
         /\ ~disturbed /\ Made.notify => Good(Made)
         /\ ~disturbed /\ ~Made.notify => ~Made.open /\ \E s \in MadeSaved : Good(s)
         /\ ~hub.made => ~Made.shared
<1>1. CASE hub.made
  BY <1>1 DEF Made, MadeSaved, MadeAlive, TypeOK, HubInv, Hub
<1>2. CASE ~hub.made
  <2>1. New \in Hub /\ New.made /\ New.notify /\ ~New.shared
    BY DEF New, Absent, Hub, Table
  <2>2. ~disturbed => Good(New)
    BY <1>2 DEF HubInv, Good, New, Absent
  <2> QED BY <1>2, <2>1, <2>2 DEF Made, MadeSaved, MadeAlive, TypeOK
<1> QED BY <1>1, <1>2

(***************************************************************************)
(* The types                                                               *)
(***************************************************************************)

\* A change of the table that shows in the copy keeps the copies' type.
LEMMA WithTableType ==
  ASSUME NEW h \in Hub, NEW t \in Table, NEW set \in SUBSET Copy, \A c, d \in set : c = d
  PROVE  /\ WithTable(h, t, set) \subseteq Copy
         /\ \A c, d \in WithTable(h, t, set) : c = d
<1>1. \A c \in set : [c EXCEPT !.table = t] \in Copy
  BY DEF Copy
<1> QED BY <1>1 DEF WithTable

LEMMA PutType ==
  ASSUME NEW t \in Table, NEW others \in Table
  PROVE  Without(t, others) \in Table /\ Put(t, others) \in Table
BY DEF Without, Put, Table

LEMMA ResetType ==
  ASSUME NEW h \in Hub, NEW set \in SUBSET Copy
  PROVE  resetCallbackSet(h, set) \in Hub
<1>1. CASE set = {}
  BY <1>1 DEF resetCallbackSet, Hub, Table
<1>2. CASE set # {}
  <2>1. PICK s \in set : s = CHOOSE x \in set : TRUE
    BY <1>2
  <2>2. /\ s.there \in BOOLEAN /\ s.table \in Table /\ s.notify \in BOOLEAN
        /\ s.next \in Nat \cup {NaN}
    BY DEF Copy
  <2>3. [h EXCEPT !.there = s.there, !.table = s.table, !.notify = s.notify,
                  !.next = s.next, !.shared = TRUE] \in Hub
    BY <2>2 DEF Hub
  <2> QED BY <1>2, <2>1, <2>3 DEF resetCallbackSet
<1> QED BY <1>1, <1>2

LEMMA HubTypes ==
  ASSUME NEW h \in Hub
  PROVE  /\ Disconnected(h) \in Hub /\ connect(h) \in Hub
         /\ copyCallBackSet(h) \subseteq Copy
         /\ \A s, t \in copyCallBackSet(h) : s = t
<1>1. Disconnected(h) \in Hub /\ connect(h) \in Hub
  BY DEF Hub, Table, Disconnected, connect
<1>2. [there |-> h.there, table |-> h.table, notify |-> h.notify, next |-> h.next] \in Copy
  BY DEF Hub, Copy
<1> QED BY <1>1, <1>2 DEF copyCallBackSet

LEMMA CountType ==
  ASSUME TypeOK, NEW k \in DOMAIN Kinds, Happens(k)
  PROVE  count' \in [DOMAIN Kinds -> Nat]
BY DEF TypeOK, Happens

\* What the actions do to the hub, its copy and the registrations.
HubStep ==
  \/ \E url \in Url : registerEventToUrl(url) \/ unregisterEventToUrl(url)
  \/ Resume \/ LoseStream \/ reconnectHandler \/ DelayedConnect
  \/ AdminChanged \/ RemovePeer

LEMMA HubStepType == ASSUME TypeOK, HubInv, HubStep PROVE TypeOK'
<1> USE DEF TypeOK
<1>1. ASSUME NEW url \in Url, registerEventToUrl(url) PROVE TypeOK'
  <2>1. alive' \in BOOLEAN /\ count' \in [DOMAIN Kinds -> Nat]
    BY <1>1, MadeInv, CountType DEF registerEventToUrl, Register, Kinds
  <2>2. CASE Refused(url)
    BY <1>1, <2>1, <2>2, MadeInv DEF registerEventToUrl, Register
  <2>3. CASE ~Refused(url)
    <3> DEFINE t == Put(Made.table, {<<Made.next, url>>})
               h == [Made EXCEPT !.table = t, !.next = IF @ = NaN THEN NaN ELSE @ + 1]
    <3>1. /\ hub' = h /\ saved' = WithTable(Made, t, MadeSaved)
          /\ registered' = IF Made.next = NaN THEN registered
                           ELSE registered \cup {<<Made.next, url>>}
          /\ writes' = writes \o <<[op |-> "create", url |-> url]>>
      BY <1>1, <2>3 DEF registerEventToUrl, Register
    <3>2. Made.next \in Nat \cup {NaN} /\ Made.table \in Table
      BY MadeInv DEF Hub
    <3>3. t \in Table
      <4>1. {<<Made.next, url>>} \in Table
        BY <3>2 DEF Table
      <4> QED BY <3>2, <4>1, PutType
    <3> HIDE DEF t
    <3>4. h \in Hub
      <4>1. (IF Made.next = NaN THEN NaN ELSE Made.next + 1) \in Nat \cup {NaN}
        BY <3>2
      <4> QED BY <3>3, <4>1, MadeInv DEF Hub
    <3>5. saved' \subseteq Copy /\ \A c, d \in saved' : c = d
      BY <3>1, <3>3, MadeInv, WithTableType
    <3>6. registered' \subseteq Nat \X Url
      BY <3>1, <3>2
    <3>7. writes' \in Seq(Write)
      <4>1. [op |-> "create", url |-> url] \in Write
        BY DEF Write
      <4> QED BY <3>1, <4>1
    <3> QED BY <1>1, <2>1, <3>1, <3>4, <3>5, <3>6, <3>7 DEF registerEventToUrl
  <2> QED BY <2>2, <2>3
<1>2. ASSUME NEW url \in Url, unregisterEventToUrl(url) PROVE TypeOK'
  <2>1. alive' \in BOOLEAN /\ count' \in [DOMAIN Kinds -> Nat]
    BY <1>2, MadeInv, CountType DEF unregisterEventToUrl, Kinds
  <2>2. CASE ~IsRegistered(url) \/ ~Made.there
    BY <1>2, <2>1, <2>2, MadeInv DEF unregisterEventToUrl
  <2>3. CASE ~(~IsRegistered(url) \/ ~Made.there)
    <3> DEFINE its == {p \in registered : p[2] = url}
               t == Without(Made.table, its)
               h == [Made EXCEPT !.table = t]
    <3>1. /\ hub' = h /\ saved' = WithTable(Made, t, MadeSaved)
          /\ registered' = registered \ its
          /\ writes' = Append(writes, [op |-> "remove", url |-> url])
          /\ disturbed' \in BOOLEAN
      BY <1>2, <2>3 DEF unregisterEventToUrl
    <3>2. t \in Table
      BY MadeInv DEF Hub, Table, Without
    <3> HIDE DEF t
    <3>3. h \in Hub
      BY <3>2, MadeInv DEF Hub
    <3>4. saved' \subseteq Copy /\ \A c, d \in saved' : c = d
      BY <3>1, <3>2, MadeInv, WithTableType
    <3>5. writes' \in Seq(Write)
      BY <3>1 DEF Write
    <3> QED BY <1>2, <2>1, <3>1, <3>3, <3>4, <3>5 DEF unregisterEventToUrl
  <2> QED BY <2>2, <2>3
<1>3. CASE Resume
  <2> PICK k \in 0..Len(rows) :
        /\ Resumable(k)
        /\ IF rows = <<>> THEN UNCHANGED <<hub, saved, alive, registered>>
           ELSE IF k = 0
           THEN alive' = MadeAlive /\ hub' = Made /\ saved' = MadeSaved /\ UNCHANGED registered
           ELSE /\ alive' = MadeAlive
                /\ hub' = [Made EXCEPT !.table = Put(Made.table, Resumed(k)), !.next = @ + k]
                /\ saved' = WithTable(Made, Put(Made.table, Resumed(k)), MadeSaved)
                /\ registered' = registered \cup Resumed(k)
    BY <1>3 DEF Resume
  <2>0. /\ UNCHANGED <<timers, rows, writes, strayed, state, up, count>>
        /\ resuming' = FALSE /\ disturbed' \in BOOLEAN
    BY <1>3 DEF Resume
  <2>1. CASE rows = <<>> \/ k = 0
    BY <2>0, <2>1, MadeInv
  <2>2. CASE rows # <<>> /\ k # 0
    <3> DEFINE t == Put(Made.table, Resumed(k))
               h == [Made EXCEPT !.table = t, !.next = @ + k]
    <3>1. Made.next \in Nat /\ k \in Nat
      BY <2>2, MadeInv DEF Resumable, Hub
    <3>2. Resumed(k) \subseteq Nat \X Url
      BY <3>1 DEF Resumed
    <3>3. t \in Table
      <4>1. Resumed(k) \in Table /\ Made.table \in Table
        BY <3>2, MadeInv DEF Table, Hub
      <4> QED BY <4>1, PutType
    <3>4. /\ hub' = h /\ saved' = WithTable(Made, t, MadeSaved)
          /\ registered' = registered \cup Resumed(k)
          /\ alive' = MadeAlive
      BY <2>2
    <3> HIDE DEF t
    <3>5. h \in Hub
      <4>1. Made.next + k \in Nat
        BY <3>1
      <4> QED BY <3>3, <4>1, MadeInv DEF Hub
    <3>6. saved' \subseteq Copy /\ \A c, d \in saved' : c = d
      BY <3>3, <3>4, MadeInv, WithTableType
    <3> QED BY <2>0, <3>2, <3>4, <3>5, <3>6, MadeInv
  <2> QED BY <2>1, <2>2
<1>4. CASE LoseStream
  BY <1>4, HubTypes, CountType DEF LoseStream, SavedByError, Kinds
<1>5. CASE reconnectHandler
  <2>1. hub' \in Hub
    BY <1>5, ResetType, HubTypes DEF reconnectHandler, Reconnect, CheckConnection
  <2>2. timers' \in Nat /\ disturbed' \in BOOLEAN
    BY <1>5 DEF reconnectHandler, Reconnect, CheckConnection
  <2> QED BY <1>5, <2>1, <2>2 DEF reconnectHandler
<1>6. CASE DelayedConnect
  BY <1>6, HubTypes DEF DelayedConnect
<1>7. CASE AdminChanged
  <2>1. hub' \in Hub
    BY <1>7, ResetType, HubTypes DEF AdminChanged
  <2>2. saved' \subseteq Copy /\ \A s, t \in saved' : s = t
    BY <1>7, HubTypes DEF AdminChanged, SavedByError
  <2>3. count' \in [DOMAIN Kinds -> Nat]
    BY <1>7, CountType DEF AdminChanged, Kinds
  <2> QED BY <1>7, <2>1, <2>2, <2>3 DEF AdminChanged
<1>8. CASE RemovePeer
  <2>1. Absent \in Hub
    BY DEF Absent, Hub, Table
  <2>2. count' \in [DOMAIN Kinds -> Nat]
    BY <1>8, CountType DEF RemovePeer, Kinds
  <2>3. disturbed' \in BOOLEAN
    BY <1>8 DEF RemovePeer
  <2> QED BY <1>8, <2>1, <2>2, <2>3 DEF RemovePeer
<1> QED BY <1>1, <1>2, <1>3, <1>4, <1>5, <1>6, <1>7, <1>8 DEF HubStep

\* What is left of the writes when one is taken out.
LEMMA RemoveAtFacts ==
  ASSUME NEW T, NEW ws \in Seq(T), NEW i \in 1..Len(ws)
  PROVE  /\ RemoveAt(ws, i) \in Seq(T)
         /\ Len(RemoveAt(ws, i)) = Len(ws) - 1
         /\ \A j \in 1..Len(ws) - 1 : RemoveAt(ws, i)[j] = ws[IF j < i THEN j ELSE j + 1]
<1> DEFINE a == SubSeq(ws, 1, i - 1)
           b == SubSeq(ws, i + 1, Len(ws))
<1>1. Len(ws) \in Nat /\ i \in 1..Len(ws)
  OBVIOUS
<1>2. a \in Seq(T) /\ Len(a) = i - 1 /\ \A j \in 1..i - 1 : a[j] = ws[j]
  BY <1>1
<1>3. /\ b \in Seq(T) /\ Len(b) = Len(ws) - i
      /\ \A j \in 1..Len(ws) - i : b[j] = ws[i + j]
  BY <1>1
<1>4. RemoveAt(ws, i) = a \o b
  BY DEF RemoveAt
<1> HIDE DEF a, b
<1>5. a \o b \in Seq(T) /\ Len(a \o b) = Len(ws) - 1
  <2>1. a \o b \in Seq(T) /\ Len(a \o b) = Len(a) + Len(b)
    BY <1>2, <1>3, ConcatProperties
  <2> QED BY <1>1, <1>2, <1>3, <2>1
<1>6. ASSUME NEW j \in 1..Len(ws) - 1 PROVE (a \o b)[j] = ws[IF j < i THEN j ELSE j + 1]
  <2>0. (a \o b)[j] = IF j <= i - 1 THEN a[j] ELSE b[j - (i - 1)]
    <3>1. j \in 1..Len(a) + Len(b) /\ Len(a) = i - 1
      BY <1>1, <1>2, <1>3
    <3> QED BY <1>2, <1>3, <3>1, ConcatProperties
  <2>1. CASE j < i
    BY <1>1, <1>2, <2>0, <2>1
  <2>2. CASE ~(j < i)
    <3>1. j - (i - 1) \in 1..Len(ws) - i /\ i + (j - (i - 1)) = j + 1
      BY <1>1, <2>2
    <3> QED BY <1>1, <1>3, <2>0, <2>2, <3>1
  <2> QED BY <2>1, <2>2
<1> QED BY <1>4, <1>5, <1>6

\* The other actions.
LEMMA WrittenType ==
  ASSUME TypeOK, NEW i \in 1..Len(writes)
  PROVE  /\ writes[i].url \in Url /\ RemoveAt(writes, i) \in Seq(Write)
         /\ Written(writes[i]) \in Seq(Url)
<1>1. writes[i] \in Write
  BY DEF TypeOK
<1>2. writes[i].url \in Url
  BY <1>1 DEF Write
<1>3. Written(writes[i]) \in Seq(Url)
  BY <1>2, RemainingFacts DEF TypeOK, Written
<1>4. RemoveAt(writes, i) \in Seq(Write)
  <2>1. writes \in Seq(Write)
    BY DEF TypeOK
  <2> QED BY <2>1, RemoveAtFacts
<1> QED BY <1>2, <1>3, <1>4

LEMMA StopType == ASSUME TypeOK, Stop, UNCHANGED count \/ Happens("crash") PROVE TypeOK'
<1>1. Absent \in Hub
  BY DEF Absent, Hub, Table
<1>2. rows' \in Seq(Url)
  BY DEF Stop, TypeOK
<1>3. count' \in [DOMAIN Kinds -> Nat]
  BY CountType DEF TypeOK, Kinds
<1>4. /\ hub' = Absent /\ saved' = {} /\ alive' = FALSE /\ timers' = 0 /\ registered' = {}
      /\ writes' = <<>> /\ strayed' = {} /\ resuming' = TRUE /\ state' = FALSE /\ disturbed' = FALSE /\ up' = up
  BY DEF Stop
<1>5. writes' \in Seq(Write)
  BY <1>4
<1>6. up \in BOOLEAN
  BY DEF TypeOK
<1> QED BY <1>1, <1>2, <1>3, <1>4, <1>5, <1>6 DEF TypeOK

\* What the other actions leave alone of the hub.
OtherStep ==
  \/ WriteDone \/ WriteFails \/ PeerGoes \/ PeerReturns \/ checkAllAliveStatue \/ UNCHANGED vars

LEMMA OtherStepType ==
  ASSUME TypeOK, OtherStep
  PROVE  TypeOK' /\ UNCHANGED <<hub, saved, registered, disturbed, resuming>>
<1> USE DEF TypeOK
<1>1. CASE WriteDone
  <2>1. PICK i \in 1..Len(writes) :
          /\ rows' = Written(writes[i]) /\ writes' = RemoveAt(writes, i)
          /\ strayed' = strayed \cup
               {writes[j].url : j \in {j \in 1..i - 1 : writes[j].url = writes[i].url}}
    BY <1>1 DEF WriteDone
  <2>2. \A j \in 1..i - 1 : writes[j].url = writes[i].url => writes[j].url \in Url
    BY WrittenType
  <2>3. strayed' \subseteq Url
    BY <2>1, <2>2
  <2> QED BY <1>1, <2>1, <2>3, WrittenType DEF WriteDone
<1>6. CASE WriteFails
  <2>1. PICK i \in 1..Len(writes) :
          writes' = RemoveAt(writes, i) /\ strayed' = strayed \cup {writes[i].url}
    BY <1>6 DEF WriteFails
  <2>2. count' \in [DOMAIN Kinds -> Nat]
    BY <1>6, CountType DEF WriteFails, Kinds
  <2> QED BY <1>6, <2>1, <2>2, WrittenType DEF WriteFails
<1>2. CASE PeerGoes
  BY <1>2, CountType DEF PeerGoes, Kinds
<1>3. CASE PeerReturns
  BY <1>3 DEF PeerReturns
<1>4. CASE checkAllAliveStatue
  BY <1>4 DEF checkAllAliveStatue
<1>5. CASE UNCHANGED vars
  BY <1>5 DEF vars
<1> QED BY <1>1, <1>2, <1>3, <1>4, <1>5, <1>6 DEF OtherStep

(***************************************************************************)
(* The hub                                                                 *)
(***************************************************************************)

LEMMA RegisterHub ==
  ASSUME TypeOK, HubInv, NEW url \in Url, registerEventToUrl(url)
  PROVE  HubInv'
<1>1. disturbed' = disturbed
  BY DEF registerEventToUrl
<1>2. CASE Refused(url)
  <2>1. hub' = Made /\ saved' = MadeSaved /\ registered' = registered
    BY <1>2 DEF registerEventToUrl, Register
  <2> QED BY <1>1, <2>1, MadeInv DEF HubInv, Good
<1>3. CASE ~Refused(url)
  <2> DEFINE t == Put(Made.table, {<<Made.next, url>>})
             h == [Made EXCEPT !.table = t, !.next = IF @ = NaN THEN NaN ELSE @ + 1]
  <2>1. /\ hub' = h /\ saved' = WithTable(Made, t, MadeSaved)
        /\ registered' = IF Made.next = NaN THEN registered
                         ELSE registered \cup {<<Made.next, url>>}
    BY <1>3 DEF registerEventToUrl, Register
  <2>2. hub'.made /\ hub'.notify = Made.notify /\ hub'.there = Made.there
    BY <2>1, MadeInv DEF Hub
  <2>3. \A c, d \in saved' : c = d
    BY <2>1, MadeInv DEF WithTable
  <2>4. ASSUME ~disturbed
        PROVE  /\ Good(hub)' /\ hub'.notify
               /\ \A p, q \in registered' : p[1] = q[1] \/ p[2] = q[2] => p = q
    <3>1. Made.notify /\ Good(Made)
      BY <1>3, <2>4, MadeInv DEF Refused
    <3>2. Made.next \in Nat /\ Made.next # NaN
      BY <3>1, EventHubAssumption DEF Good
    <3>3. registered' = registered \cup {<<Made.next, url>>}
      BY <2>1, <3>2
    <3>4. \A p \in registered : p[1] \in Nat /\ p[1] < Made.next /\ p[2] # url
      BY <1>3, <3>1 DEF Good, Refused, IsRegistered, TypeOK
    <3>5. t = registered'
      BY <3>1, <3>3, <3>4 DEF Put, Without, Good
    <3>6. hub'.table = t /\ hub'.next = Made.next + 1
      BY <2>1, <3>2, MadeInv DEF Hub
    <3>7. \A p \in registered' : p[1] \in Nat /\ p[1] < Made.next + 1
      BY <3>2, <3>3, <3>4
    <3>8. Good(hub)'
      BY <2>2, <3>1, <3>2, <3>5, <3>6, <3>7 DEF Good
    <3>9. \A p, q \in registered : p[1] = q[1] \/ p[2] = q[2] => p = q
      BY <2>4 DEF HubInv
    <3>10. \A p, q \in registered' : p[1] = q[1] \/ p[2] = q[2] => p = q
      BY <3>2, <3>3, <3>4, <3>9
    <3> QED BY <2>2, <3>1, <3>8, <3>10
  <2> QED BY <1>1, <2>2, <2>3, <2>4 DEF HubInv
<1> QED BY <1>2, <1>3

LEMMA UnregisterHub ==
  ASSUME TypeOK, HubInv, NEW url \in Url, unregisterEventToUrl(url)
  PROVE  HubInv'
<1>1. CASE ~IsRegistered(url) \/ ~Made.there
  <2>1. hub' = Made /\ saved' = MadeSaved /\ registered' = registered /\ disturbed' = disturbed
    BY <1>1 DEF unregisterEventToUrl
  <2> QED BY <2>1, MadeInv DEF HubInv, Good
<1>2. CASE IsRegistered(url) /\ Made.there
  <2> DEFINE its == {p \in registered : p[2] = url}
             t == Without(Made.table, its)
             h == [Made EXCEPT !.table = t]
  <2>1. /\ hub' = h /\ saved' = WithTable(Made, t, MadeSaved)
        /\ registered' = registered \ its
        /\ disturbed' = (disturbed \/ ~Made.notify)
    BY <1>2 DEF unregisterEventToUrl
  <2>2. /\ hub'.made /\ hub'.notify = Made.notify /\ hub'.there = Made.there
        /\ hub'.next = Made.next /\ hub'.table = t
    BY <2>1, MadeInv DEF Hub
  <2>3. \A c, d \in saved' : c = d
    BY <2>1, MadeInv DEF WithTable
  <2>4. ASSUME ~disturbed'
        PROVE  /\ Good(hub)' /\ hub'.notify
               /\ \A p, q \in registered' : p[1] = q[1] \/ p[2] = q[2] => p = q
    <3>1. ~disturbed /\ Made.notify /\ Good(Made)
      BY <2>1, <2>4, MadeInv DEF TypeOK
    <3>2. \A p, q \in registered : p[1] = q[1] \/ p[2] = q[2] => p = q
      BY <3>1 DEF HubInv
    <3>3. t = registered'
      BY <2>1, <3>1, <3>2 DEF Without, Good
    <3>4. Good(hub)'
      BY <2>1, <2>2, <3>1, <3>3 DEF Good
    <3> QED BY <2>1, <2>2, <3>1, <3>2, <3>4
  <2> QED BY <2>2, <2>3, <2>4 DEF HubInv
<1> QED BY <1>1, <1>2

LEMMA ResumeHub == ASSUME TypeOK, HubInv, Resume PROVE HubInv'
<1> PICK k \in 0..Len(rows) :
      /\ Resumable(k)
      /\ IF rows = <<>> THEN UNCHANGED <<hub, saved, alive, registered>>
         ELSE IF k = 0
         THEN alive' = MadeAlive /\ hub' = Made /\ saved' = MadeSaved /\ UNCHANGED registered
         ELSE /\ alive' = MadeAlive
              /\ hub' = [Made EXCEPT !.table = Put(Made.table, Resumed(k)), !.next = @ + k]
              /\ saved' = WithTable(Made, Put(Made.table, Resumed(k)), MadeSaved)
              /\ registered' = registered \cup Resumed(k)
      /\ ~disturbed' => ~disturbed
  BY DEF Resume, TypeOK
<1>1. CASE rows = <<>>
  BY <1>1 DEF HubInv, Good
<1>2. CASE rows # <<>> /\ k = 0
  <2>1. hub' = Made /\ saved' = MadeSaved /\ registered' = registered
    BY <1>2
  <2> QED BY <2>1, MadeInv DEF HubInv, Good
<1>3. CASE rows # <<>> /\ k # 0
  <2> DEFINE t == Put(Made.table, Resumed(k))
  <2>0. /\ hub' = [Made EXCEPT !.table = t, !.next = @ + k]
        /\ saved' = WithTable(Made, t, MadeSaved)
        /\ registered' = registered \cup Resumed(k)
    BY <1>3
  <2>1. /\ \A i, j \in 1..k : rows[i] = rows[j] => i = j
        /\ \A i \in 1..k : ~IsRegistered(rows[i])
        /\ Made.open /\ Made.next \in Nat /\ k \in Nat \ {0}
    BY <1>3, MadeInv DEF Resumable, Hub
  <2>2. /\ hub'.made /\ hub'.notify = Made.notify /\ hub'.there = Made.there
        /\ hub'.table = t /\ hub'.next = Made.next + k
    BY <2>0, MadeInv DEF Hub
  <2>3. \A c, d \in saved' : c = d
    BY <2>0, MadeInv DEF WithTable
  <2>4. ASSUME ~disturbed
        PROVE  /\ Good(hub)' /\ hub'.notify
               /\ \A p, q \in registered' : p[1] = q[1] \/ p[2] = q[2] => p = q
    <3>1. Made.notify /\ Good(Made)
      BY <2>1, <2>4, MadeInv
    <3>2. \A p \in registered : /\ p[1] \in Nat /\ p[1] < Made.next
                                /\ \A i \in 1..k : p[2] # rows[i]
      BY <2>1, <3>1 DEF Good, IsRegistered, TypeOK
    <3>3. \A p \in Resumed(k) : \E i \in 1..k : p = <<Made.next + i - 1, rows[i]>>
      BY DEF Resumed
    <3>4. \A p \in Resumed(k) : p[1] \in Nat /\ p[1] >= Made.next /\ p[1] < Made.next + k
      BY <2>1, <3>3
    <3>5. t = registered'
      BY <2>0, <2>1, <3>1, <3>2, <3>4 DEF Put, Without, Good
    <3>6. \A p \in registered' : p[1] \in Nat /\ p[1] < Made.next + k
      BY <2>0, <2>1, <3>2, <3>4
    <3>7. Good(hub)'
      BY <2>1, <2>2, <3>1, <3>5, <3>6 DEF Good
    <3>8. \A p, q \in registered : p[1] = q[1] \/ p[2] = q[2] => p = q
      BY <2>4 DEF HubInv
    <3>9. \A p, q \in Resumed(k) : p[1] = q[1] \/ p[2] = q[2] => p = q
      <4> SUFFICES ASSUME NEW p \in Resumed(k), NEW q \in Resumed(k),
                          p[1] = q[1] \/ p[2] = q[2]
                   PROVE  p = q
        OBVIOUS
      <4> PICK i \in 1..k : p = <<Made.next + i - 1, rows[i]>>
        BY <3>3
      <4> PICK j \in 1..k : q = <<Made.next + j - 1, rows[j]>>
        BY <3>3
      <4>1. i = j
        BY <2>1
      <4> QED BY <4>1
    <3>10. \A p \in registered : \A q \in Resumed(k) : p[1] # q[1] /\ p[2] # q[2]
      BY <2>1, <3>2, <3>3, <3>4
    <3> QED BY <2>0, <2>2, <3>1, <3>7, <3>8, <3>9, <3>10
  <2> QED BY <2>2, <2>3, <2>4 DEF HubInv
<1> QED BY <1>1, <1>2, <1>3

\* A lost stream's callback copies the tables before they are cleared.
LEMMA LoseStreamHub == ASSUME TypeOK, HubInv, LoseStream PROVE HubInv'
<1>1. /\ hub.open /\ hub' = Disconnected(hub) /\ saved' = SavedByError(hub, saved)
      /\ UNCHANGED <<registered, disturbed>>
  BY DEF LoseStream
<1>2. hub.made
  BY <1>1 DEF HubInv, Absent
<1>3. hub'.made /\ ~hub'.notify /\ ~hub'.open
  BY <1>1, <1>2 DEF Disconnected, TypeOK, Hub
<1>4. \A s, t \in saved' : s = t
  BY <1>1, HubTypes DEF SavedByError, HubInv, TypeOK
<1>5. ASSUME ~disturbed PROVE \E s \in saved' : Good(s)'
  <2>1. hub.notify /\ Good(hub)
    BY <1>1, <1>2, <1>5 DEF HubInv
  <2>2. PICK s \in saved' : s = [there |-> hub.there, table |-> hub.table,
                                 notify |-> hub.notify, next |-> hub.next]
    BY <1>1, <2>1 DEF SavedByError, copyCallBackSet
  <2>3. s.there /\ s.notify /\ s.table = hub.table /\ s.next = hub.next
    BY <2>1, <2>2 DEF Good
  <2>4. Good(s)'
    BY <1>1, <2>1, <2>3 DEF Good
  <2> QED BY <2>4
<1> QED BY <1>1, <1>3, <1>4, <1>5 DEF HubInv

\* What is copied back is the copy.
LEMMA ResetGood ==
  ASSUME NEW h \in Hub, NEW set \in SUBSET Copy, \A s, t \in set : s = t,
         \E s \in set : Good(s)
  PROVE  /\ Good(resetCallbackSet(h, set)) /\ resetCallbackSet(h, set).made = h.made
         /\ resetCallbackSet(h, set).notify
<1>1. PICK s \in set : Good(s)
  OBVIOUS
<1>2. s = CHOOSE c \in set : TRUE
  OBVIOUS
<1>3. resetCallbackSet(h, set) = [h EXCEPT !.there = s.there, !.table = s.table,
        !.notify = s.notify, !.next = s.next, !.shared = TRUE]
  BY <1>2 DEF resetCallbackSet
<1> QED BY <1>1, <1>3 DEF Good, Hub

LEMMA ReconnectHub == ASSUME TypeOK, HubInv, reconnectHandler PROVE HubInv'
<1>0. hub.made /\ UNCHANGED <<saved, registered>>
  BY DEF reconnectHandler
<1>1. CASE Reconnect
  <2>1. hub' = resetCallbackSet(hub, saved) /\ (disturbed' = (disturbed \/ hub.notify))
    BY <1>1 DEF Reconnect
  <2>2. hub'.made
    BY <1>0, <2>1 DEF resetCallbackSet, TypeOK, Hub
  <2>3. ASSUME ~disturbed' PROVE Good(hub)' /\ hub'.notify
    <3>1. ~disturbed /\ ~hub.notify
      BY <2>1, <2>3
    <3>2. \E s \in saved : Good(s)
      BY <1>0, <3>1 DEF HubInv
    <3>3. Good(resetCallbackSet(hub, saved)) /\ resetCallbackSet(hub, saved).notify
      BY <3>2, ResetGood DEF TypeOK
    <3> QED BY <1>0, <2>1, <3>3 DEF Good
  <2> QED BY <1>0, <2>1, <2>2, <2>3 DEF HubInv
<1>2. CASE CheckConnection
  <2>1. /\ hub' = connect(hub)
        /\ disturbed' = (disturbed \/ (~hub.open /\ ~hub.notify))
    BY <1>2 DEF CheckConnection
  <2> QED BY <1>0, <2>1 DEF HubInv, Good, connect, TypeOK, Hub
<1>3. CASE UNCHANGED <<hub, disturbed>>
  BY <1>0, <1>3 DEF HubInv, Good
<1> QED BY <1>1, <1>2, <1>3 DEF reconnectHandler

LEMMA DelayedConnectHub == ASSUME TypeOK, HubInv, DelayedConnect PROVE HubInv'
<1>1. /\ hub.made /\ hub' = connect(hub) /\ UNCHANGED <<saved, registered>>
      /\ disturbed' = (disturbed \/ (~hub.open /\ ~hub.notify))
  BY DEF DelayedConnect
<1> QED BY <1>1 DEF HubInv, Good, connect, TypeOK, Hub

LEMMA AdminChangedHub == ASSUME TypeOK, HubInv, AdminChanged PROVE HubInv'
<1> DEFINE copied == copyCallBackSet(hub)
           h == resetCallbackSet(Disconnected(hub), copied)
<1>1. /\ hub.made /\ hub' = connect(h) /\ saved' = SavedByError(hub, copied)
      /\ UNCHANGED registered /\ disturbed' = (disturbed \/ ~hub.notify)
  BY DEF AdminChanged
<1>2. Disconnected(hub) \in Hub /\ Disconnected(hub).made
  BY <1>1, HubTypes DEF Disconnected, TypeOK, Hub
<1>3. h \in Hub /\ h.made
  <2>1. copied \subseteq Copy
    BY HubTypes DEF TypeOK
  <2>2. h \in Hub
    BY <1>2, <2>1, ResetType
  <2>3. h.made
    BY <1>2 DEF resetCallbackSet, Hub
  <2> QED BY <2>2, <2>3
<1>4. hub'.made
  BY <1>1, <1>3 DEF connect, Hub
<1>5. \A s, t \in saved' : s = t
  BY <1>1, HubTypes DEF SavedByError, TypeOK
<1>6. ASSUME ~disturbed' PROVE Good(hub)' /\ hub'.notify
  <2>1. ~disturbed /\ Good(hub)
    BY <1>1, <1>6 DEF HubInv
  <2>2. \E s \in copied : Good(s)
    BY <2>1 DEF copyCallBackSet, Good
  <2>3. Good(h) /\ h.notify
    BY <1>2, <2>2, ResetGood, HubTypes DEF TypeOK
  <2> HIDE DEF h
  <2>4. Good(connect(h)) /\ connect(h).notify
    BY <1>3, <2>3 DEF Good, connect, Hub
  <2> QED BY <1>1, <2>4 DEF Good
<1> QED BY <1>1, <1>4, <1>5, <1>6 DEF HubInv

LEMMA HubNext == ASSUME TypeOK, HubInv, [Next]_vars PROVE HubInv'
<1>1. CASE HubStep
  <2>1. CASE RemovePeer
    BY <2>1 DEF RemovePeer, HubInv, Absent
  <2> QED BY <1>1, <2>1, RegisterHub, UnregisterHub, ResumeHub, LoseStreamHub, ReconnectHub,
             DelayedConnectHub, AdminChangedHub DEF HubStep
<1>2. CASE OtherStep
  BY <1>2, OtherStepType DEF HubInv, Good
<1>3. CASE Stop
  BY <1>3 DEF Stop, HubInv, Absent
<1> QED BY <1>1, <1>2, <1>3 DEF Next, HubStep, OtherStep, Crash, DelayedConnectFails

LEMMA TypeNext == ASSUME TypeOK, HubInv, [Next]_vars PROVE TypeOK'
<1>1. CASE Stop /\ (UNCHANGED count \/ Happens("crash"))
  BY <1>1, StopType
<1> QED BY <1>1, HubStepType, OtherStepType
     DEF Next, HubStep, OtherStep, Crash, DelayedConnectFails

(***************************************************************************)
(* The database                                                            *)
(***************************************************************************)

\* The last write of a URL decides.
LEMMA WriteAppended ==
  ASSUME TypeOK, NEW w \in Write, writes' = Append(writes, w), rows' = rows, NEW u \in Url
  PROVE  /\ u # w.url => (WillBe(u)' <=> WillBe(u)) /\ (Pending(u)' <=> Pending(u))
         /\ u = w.url => Pending(u)' /\ (WillBe(u)' <=> w.op = "create")
<1> DEFINE n == Len(writes)
<1>1. /\ n \in Nat /\ Len(writes') = n + 1 /\ writes'[n + 1] = w
      /\ \A i \in 1..n : writes'[i] = writes[i]
  BY DEF TypeOK
<1> HIDE DEF n
<1>2. 1..n + 1 = 1..n \cup {n + 1}
  BY <1>1
<1>3. CASE u = w.url
  <2>1. Pending(u)'
    BY <1>1, <1>2, <1>3 DEF Pending
  <2>2. ASSUME CreatedLast(u)' PROVE w.op = "create"
    <3>1. PICK i \in 1..n + 1 : /\ writes'[i].op = "create" /\ writes'[i].url = u
                                /\ \A j \in i + 1..n + 1 : writes'[j].url # u
      BY <1>1, <2>2 DEF CreatedLast
    <3>2. i = n + 1
      BY <1>1, <1>3, <3>1
    <3> QED BY <1>1, <3>1, <3>2
  <2>3. ASSUME w.op = "create" PROVE CreatedLast(u)'
    BY <1>1, <1>3, <2>3 DEF CreatedLast
  <2> QED BY <1>3, <2>1, <2>2, <2>3 DEF WillBe
<1>4. CASE u # w.url
  <2>1. Pending(u)' <=> Pending(u)
    BY <1>1, <1>2, <1>4 DEF Pending, n
  <2>2. ASSUME CreatedLast(u) PROVE CreatedLast(u)'
    <3>1. PICK i \in 1..n : /\ writes[i].op = "create" /\ writes[i].url = u
                            /\ \A j \in i + 1..n : writes[j].url # u
      BY <2>2 DEF CreatedLast, n
    <3>2. \A j \in i + 1..n + 1 : writes'[j].url # u
      <4> SUFFICES ASSUME NEW j \in i + 1..n + 1 PROVE writes'[j].url # u
        OBVIOUS
      <4>1. CASE j = n + 1
        BY <1>1, <1>4, <4>1
      <4>2. CASE j # n + 1
        <5>1. j \in i + 1..n /\ j \in 1..n
          BY <1>1, <4>2
        <5> QED BY <1>1, <3>1, <5>1
      <4> QED BY <4>1, <4>2
    <3>3. i \in 1..n + 1 /\ writes'[i] = writes[i]
      BY <1>1
    <3> QED BY <1>1, <3>1, <3>2, <3>3 DEF CreatedLast
  <2>3. ASSUME CreatedLast(u)' PROVE CreatedLast(u)
    <3>1. PICK i \in 1..n + 1 : /\ writes'[i].op = "create" /\ writes'[i].url = u
                                /\ \A j \in i + 1..n + 1 : writes'[j].url # u
      BY <1>1, <2>3 DEF CreatedLast
    <3>2. i \in 1..n
      BY <1>1, <1>4, <3>1
    <3>3. \A j \in i + 1..n : j \in 1..n /\ j \in i + 1..n + 1
      BY <1>1, <3>2
    <3>4. \A j \in i + 1..n : writes[j].url # u
      BY <1>1, <3>1, <3>3
    <3> QED BY <1>1, <3>1, <3>2, <3>4 DEF CreatedLast, n
  <2> QED BY <1>4, <2>1, <2>2, <2>3 DEF WillBe
<1> QED BY <1>3, <1>4

\* Taking a write out changes the last write of a URL only if it is that, and alone.
LEMMA WriteTaken ==
  ASSUME TypeOK, NEW i \in 1..Len(writes), writes' = RemoveAt(writes, i), NEW u,
         writes[i].url = u => \A j \in 1..i - 1 : writes[j].url # u
  PROVE  /\ Pending(u)' <=> \E k \in 1..Len(writes) : k # i /\ writes[k].url = u
         /\ CreatedLast(u)' => CreatedLast(u)
         /\ CreatedLast(u) =>
              CreatedLast(u)' \/ (writes[i].url = u /\ writes[i].op = "create" /\ ~Pending(u)')
<1> DEFINE n == Len(writes)
           Old(j) == IF j < i THEN j ELSE j + 1
           Moved(k) == IF k < i THEN k ELSE k - 1
<1>0. writes \in Seq(Write)
  BY DEF TypeOK
<1>1. /\ n \in Nat /\ i \in 1..n /\ Len(writes') = n - 1
      /\ \A j \in 1..n - 1 : writes'[j] = writes[Old(j)]
  BY <1>0, RemoveAtFacts
<1> HIDE DEF n
<1>2. \A j \in 1..n - 1 : Old(j) \in 1..n /\ Old(j) # i /\ Moved(Old(j)) = j
  BY <1>1
<1>3. \A k \in 1..n : k # i => Moved(k) \in 1..n - 1 /\ writes'[Moved(k)] = writes[k]
  <2>1. \A k \in 1..n : k # i => Moved(k) \in 1..n - 1 /\ Old(Moved(k)) = k
    BY <1>1
  <2> HIDE DEF Old, Moved
  <2> QED BY <1>1, <2>1
<1>4. Pending(u)' <=> \E k \in 1..n : k # i /\ writes[k].url = u
  <2> HIDE DEF Old, Moved
  <2>1. ASSUME Pending(u)' PROVE \E k \in 1..n : k # i /\ writes[k].url = u
    <3>1. PICK j \in 1..n - 1 : writes'[j].url = u
      BY <1>1, <2>1 DEF Pending
    <3> QED BY <1>1, <1>2, <3>1
  <2>2. ASSUME NEW k \in 1..n, k # i, writes[k].url = u PROVE Pending(u)'
    <3>1. Moved(k) \in 1..Len(writes') /\ writes'[Moved(k)].url = u
      BY <1>1, <1>3, <2>2
    <3> QED BY <3>1 DEF Pending
  <2> QED BY <2>1, <2>2
<1>5. ASSUME CreatedLast(u)' PROVE CreatedLast(u)
  <2>1. PICK j \in 1..n - 1 : /\ writes'[j].op = "create" /\ writes'[j].url = u
                              /\ \A m \in j + 1..n - 1 : writes'[m].url # u
    BY <1>1, <1>5 DEF CreatedLast
  <2>2. /\ Old(j) \in 1..n /\ writes[Old(j)].op = "create" /\ writes[Old(j)].url = u
    <3> HIDE DEF Old
    <3> QED BY <1>1, <1>2, <2>1
  <2>3. ASSUME NEW m \in Old(j) + 1..n PROVE writes[m].url # u
    <3>1. m \in 1..n
      BY <1>1, <2>2
    <3>2. CASE m = i
      <4>1. j \in 1..i - 1 /\ Old(j) = j
        BY <1>1, <3>2
      <4>2. writes[j].url = u
        BY <2>2, <4>1
      <4> QED BY <3>2, <4>1, <4>2
    <3>3. CASE m # i
      <4>1. Moved(m) \in j + 1..n - 1
        BY <1>1, <3>1, <3>3
      <4> HIDE DEF Moved
      <4> QED BY <1>3, <2>1, <3>1, <3>3, <4>1
    <3> QED BY <3>2, <3>3
  <2> HIDE DEF Old
  <2> QED BY <2>2, <2>3 DEF CreatedLast, n
<1>6. ASSUME CreatedLast(u), ~CreatedLast(u)'
      PROVE  writes[i].url = u /\ writes[i].op = "create" /\ ~Pending(u)'
  <2>1. PICK k \in 1..n : /\ writes[k].op = "create" /\ writes[k].url = u
                          /\ \A m \in k + 1..n : writes[m].url # u
    BY <1>6 DEF CreatedLast, n
  <2>2. k = i
    <3> SUFFICES ASSUME k # i PROVE CreatedLast(u)'
      BY <1>6
    <3>1. Moved(k) \in 1..n - 1 /\ writes'[Moved(k)] = writes[k]
      BY <1>3
    <3>2. ASSUME NEW m \in Moved(k) + 1..n - 1 PROVE writes'[m].url # u
      <4>1. m \in 1..n - 1 /\ Old(m) \in k + 1..n
        BY <1>1, <3>1
      <4> HIDE DEF Old
      <4> QED BY <1>1, <2>1, <4>1
    <3> HIDE DEF Moved
    <3> QED BY <1>1, <2>1, <3>1, <3>2 DEF CreatedLast
  <2>3. \A m \in 1..n : m # i => writes[m].url # u
    <3>1. \A m \in 1..n : m \in 1..i - 1 \/ m = i \/ m \in i + 1..n
      BY <1>1
    <3> QED BY <2>1, <2>2, <3>1
  <2> QED BY <1>4, <2>1, <2>2, <2>3
<1> QED BY <1>4, <1>5, <1>6 DEF n

\* A write that is done, or fails, changes nothing of what will be, but for the URLs that
\* it puts among the strayed.
LEMMA WriteKeeps ==
  ASSUME TypeOK, WriteDone \/ WriteFails, NEW u \in Url \ strayed'
  PROVE  (WillBe(u)' <=> WillBe(u)) /\ (Pending(u)' => Pending(u))
<1>1. PICK i \in 1..Len(writes) :
        /\ writes' = RemoveAt(writes, i)
        /\ \/ /\ rows' = Written(writes[i])
              /\ strayed' = strayed \cup
                   {writes[j].url : j \in {j \in 1..i - 1 : writes[j].url = writes[i].url}}
           \/ rows' = rows /\ strayed' = strayed \cup {writes[i].url}
  BY DEF WriteDone, WriteFails
<1> DEFINE w == writes[i]
<1>2. rows \in Seq(Url) /\ w.url \in Url /\ w.op \in {"create", "remove"}
  <2>1. writes \in Seq(Write) /\ rows \in Seq(Url)
    BY DEF TypeOK
  <2>2. w \in Write
    BY <2>1
  <2> QED BY <2>1, <2>2 DEF Write
<1>3. w.url = u => rows' = Written(w) /\ \A j \in 1..i - 1 : writes[j].url # u
  BY <1>1
<1>4. /\ Pending(u)' <=> \E k \in 1..Len(writes) : k # i /\ writes[k].url = u
      /\ CreatedLast(u)' => CreatedLast(u)
      /\ CreatedLast(u) => CreatedLast(u)' \/ (w.url = u /\ w.op = "create" /\ ~Pending(u)')
  BY <1>1, <1>3, WriteTaken
<1>5. CreatedLast(u)' => Pending(u)'
  BY DEF CreatedLast, Pending
<1>6. CASE w.url # u
  <2>1. Pending(u)' <=> Pending(u)
    BY <1>4, <1>6 DEF Pending
  <2>2. u \in ToSet(rows') <=> u \in ToSet(rows)
    <3>1. CASE rows' = rows
      BY <3>1
    <3>2. CASE rows' = Written(w)
      BY <1>2, <1>6, <3>2, AppendedRows, RemainingFacts DEF Written
    <3> QED BY <1>1, <3>1, <3>2
  <2> QED BY <1>4, <1>6, <2>1, <2>2 DEF WillBe
<1>7. CASE w.url = u
  <2>1. Pending(u)
    BY <1>7 DEF Pending
  <2>2. CASE Pending(u)'
    BY <1>4, <2>1, <2>2 DEF WillBe
  <2>3. CASE ~Pending(u)'
    <3>1. u \in ToSet(rows') <=> w.op = "create"
      <4>1. rows' = Written(w)
        BY <1>3, <1>7
      <4>2. CASE w.op = "create"
        BY <1>2, <1>7, <4>1, <4>2, AppendedRows DEF Written
      <4>3. CASE w.op = "remove"
        BY <1>2, <1>7, <4>1, <4>3, RemainingFacts DEF Written
      <4> QED BY <1>2, <4>2, <4>3
    <3>2. w.op = "create" => CreatedLast(u)
      <4>1. \A j \in i + 1..Len(writes) : j \in 1..Len(writes) /\ j # i
        BY DEF TypeOK
      <4>2. \A j \in i + 1..Len(writes) : writes[j].url # u
        BY <1>4, <2>3, <4>1
      <4> QED BY <1>7, <4>2 DEF CreatedLast
    <3> QED BY <1>4, <1>5, <2>1, <2>3, <3>1, <3>2 DEF WillBe
  <2> QED BY <2>1, <2>2, <2>3
<1> QED BY <1>6, <1>7

LEMMA StoreFrame ==
  ASSUME StoreInv, UNCHANGED <<registered, writes, rows, strayed, resuming>>,
         ~disturbed' => ~disturbed
  PROVE  StoreInv'
BY DEF StoreInv, IsRegistered, WillBe, Pending, CreatedLast

LEMMA RegisterStore ==
  ASSUME Inv, NEW url \in Url, registerEventToUrl(url)
  PROVE  StoreInv'
<1> USE DEF Inv
<1>1. disturbed' = disturbed /\ UNCHANGED <<resuming, rows, strayed>>
  BY DEF registerEventToUrl
<1>2. CASE Refused(url)
  BY <1>1, <1>2, StoreFrame DEF registerEventToUrl, Register
<1>3. CASE ~Refused(url)
  <2> SUFFICES ASSUME ~disturbed, NEW u \in Url \ strayed
               PROVE  /\ IsRegistered(u)' => WillBe(u)'
                      /\ WillBe(u)' => IsRegistered(u)' \/ (resuming' /\ ~Pending(u)')
    BY <1>1 DEF StoreInv
  <2> DEFINE w == [op |-> "create", url |-> url]
  <2>1. w \in Write /\ writes' = Append(writes, w)
    <3>1. writes' = writes \o <<w>>
      BY <1>3 DEF registerEventToUrl, Register
    <3> QED BY <3>1 DEF TypeOK, Write
  <2>2. registered' = registered \cup {<<Made.next, url>>}
    <3>1. Made.notify /\ Good(Made)
      BY <1>3, MadeInv DEF Refused
    <3>2. Made.next # NaN
      BY <3>1, EventHubAssumption DEF Good
    <3> QED BY <1>3, <3>2 DEF registerEventToUrl, Register
  <2>3. IsRegistered(u)' <=> IsRegistered(u) \/ u = url
    <3>1. \A p : p \in registered' <=> p \in registered \/ p = <<Made.next, url>>
      BY <2>2
    <3>2. <<Made.next, url>>[2] = url
      OBVIOUS
    <3> QED BY <3>1, <3>2 DEF IsRegistered
  <2>4. /\ u # url => (WillBe(u)' <=> WillBe(u)) /\ (Pending(u)' <=> Pending(u))
        /\ u = url => WillBe(u)'
    BY <1>1, <2>1, WriteAppended
  <2> QED BY <1>1, <2>3, <2>4 DEF StoreInv
<1> QED BY <1>2, <1>3

LEMMA UnregisterStore ==
  ASSUME Inv, NEW url \in Url, unregisterEventToUrl(url)
  PROVE  StoreInv'
<1> USE DEF Inv
<1>1. UNCHANGED <<resuming, rows, strayed>> /\ (~disturbed' => ~disturbed)
  BY DEF unregisterEventToUrl
<1>2. CASE ~IsRegistered(url) \/ ~Made.there
  BY <1>1, <1>2, StoreFrame DEF unregisterEventToUrl
<1>3. CASE IsRegistered(url) /\ Made.there
  <2> SUFFICES ASSUME ~disturbed, NEW u \in Url \ strayed
               PROVE  /\ IsRegistered(u)' => WillBe(u)'
                      /\ WillBe(u)' => IsRegistered(u)' \/ (resuming' /\ ~Pending(u)')
    BY <1>1 DEF StoreInv
  <2> DEFINE w == [op |-> "remove", url |-> url]
  <2>1. w \in Write /\ writes' = Append(writes, w)
    BY <1>3 DEF unregisterEventToUrl, Write
  <2>2. registered' = registered \ {p \in registered : p[2] = url}
    BY <1>3 DEF unregisterEventToUrl
  <2>3. IsRegistered(u)' <=> IsRegistered(u) /\ u # url
    BY <2>2 DEF IsRegistered
  <2>4. /\ u # url => (WillBe(u)' <=> WillBe(u)) /\ (Pending(u)' <=> Pending(u))
        /\ u = url => ~WillBe(u)'
    BY <1>1, <2>1, WriteAppended
  <2> QED BY <1>1, <2>3, <2>4 DEF StoreInv
<1> QED BY <1>2, <1>3

\* All rows are registered, or the start is disturbed; so is one that meets a removal.
LEMMA ResumeStore == ASSUME Inv, Resume PROVE StoreInv'
<1> USE DEF Inv
<1>0. strayed' = strayed
  BY DEF Resume
<1> SUFFICES ASSUME ~disturbed', NEW u \in Url \ strayed
             PROVE  IsRegistered(u)' <=> WillBe(u)'
  BY <1>0 DEF StoreInv
<1> PICK k \in 0..Len(rows) :
      /\ Resumable(k)
      /\ IF rows = <<>> THEN UNCHANGED registered
         ELSE IF k = 0 THEN UNCHANGED registered ELSE registered' = registered \cup Resumed(k)
      /\ ~disturbed /\ ~(k < Len(rows)) /\ ~\E w \in ToSet(writes) : w.op = "remove"
  BY DEF Resume
<1>1. UNCHANGED <<rows, writes, strayed>> /\ Len(rows) \in Nat
  BY DEF Resume, TypeOK
<1>2. k = Len(rows)
  BY <1>1
<1>3. (WillBe(u)' <=> WillBe(u)) /\ (Pending(u)' <=> Pending(u))
  BY <1>1 DEF WillBe, Pending, CreatedLast
<1>4. IsRegistered(u)' <=> IsRegistered(u) \/ u \in ToSet(rows)
  <2>1. CASE rows = <<>>
    BY <2>1 DEF IsRegistered, ToSet
  <2>2. CASE rows # <<>>
    <3>1. registered' = registered \cup Resumed(k)
      BY <1>1, <1>2, <2>2 DEF TypeOK
    <3>2. ToSet(rows) = {rows[i] : i \in 1..k}
      BY <1>2 DEF ToSet, TypeOK
    <3>3. (\E p \in Resumed(k) : p[2] = u) <=> u \in ToSet(rows)
      <4>1. ASSUME NEW i \in 1..k, rows[i] = u PROVE \E p \in Resumed(k) : p[2] = u
        <5>1. <<Made.next + i - 1, rows[i]>> \in Resumed(k)
          BY DEF Resumed
        <5>2. <<Made.next + i - 1, rows[i]>>[2] = u
          BY <4>1
        <5> QED BY <5>1, <5>2
      <4>2. ASSUME NEW p \in Resumed(k), p[2] = u PROVE u \in ToSet(rows)
        BY <3>2, <4>2 DEF Resumed
      <4> QED BY <3>2, <4>1, <4>2
    <3> QED BY <3>1, <3>3 DEF IsRegistered
  <2> QED BY <2>1, <2>2
<1>5. Pending(u) => WillBe(u)
  <2> SUFFICES ASSUME Pending(u) PROVE CreatedLast(u)
    BY DEF WillBe
  <2> DEFINE S == {i \in Nat : \E j \in 1..Len(writes) : j = Len(writes) - i /\ writes[j].url = u}
  <2>1. Len(writes) \in Nat /\ \A i \in 1..Len(writes) : writes[i] \in Write
    BY DEF TypeOK
  <2>2. S # {}
    <3>1. PICK j \in 1..Len(writes) : writes[j].url = u
      BY DEF Pending
    <3>2. Len(writes) - j \in S
      BY <2>1, <3>1
    <3> QED BY <3>2
  <2>3. PICK m \in S : \A i \in S : m <= i
    BY <2>2, Least
  <2>4. PICK j \in 1..Len(writes) : j = Len(writes) - m /\ writes[j].url = u
    OBVIOUS
  <2>5. ASSUME NEW i \in j + 1..Len(writes) PROVE writes[i].url # u
    <3>1. Len(writes) - i \in Nat /\ Len(writes) - i < m /\ i \in 1..Len(writes)
      BY <2>1, <2>4
    <3>2. Len(writes) - i \notin S
      <4>1. \A d \in S : d \in Nat /\ m <= d
        BY <2>3
      <4>2. m \in Nat
        OBVIOUS
      <4> HIDE DEF S
      <4> QED BY <3>1, <4>1, <4>2
    <3>3. i = Len(writes) - (Len(writes) - i)
      BY <2>1, <3>1
    <3> QED BY <3>1, <3>2, <3>3
  <2>6. writes[j].op = "create"
    <3>1. writes[j] \in ToSet(writes)
      BY <2>1 DEF ToSet, TypeOK
    <3> QED BY <2>1, <3>1 DEF Write
  <2> QED BY <2>4, <2>5, <2>6 DEF CreatedLast
<1>6. /\ IsRegistered(u) => WillBe(u)
      /\ WillBe(u) => IsRegistered(u) \/ ~Pending(u)
  BY DEF StoreInv
<1>7. ~Pending(u) => (WillBe(u) <=> u \in ToSet(rows))
  BY DEF WillBe
<1> QED BY <1>3, <1>4, <1>5, <1>6, <1>7

LEMMA StoreNext == ASSUME Inv, [Next]_vars PROVE StoreInv'
<1> USE DEF Inv
<1>1. CASE LoseStream \/ reconnectHandler \/ DelayedConnect \/ AdminChanged
  <2>1. UNCHANGED <<registered, writes, rows, strayed, resuming>>
    BY <1>1 DEF LoseStream, reconnectHandler, DelayedConnect, AdminChanged
  <2>2. ~disturbed' => ~disturbed
    BY <1>1 DEF LoseStream, reconnectHandler, Reconnect, CheckConnection, DelayedConnect,
                AdminChanged
  <2> QED BY <2>1, <2>2, StoreFrame
<1>2. CASE RemovePeer
  <2>1. UNCHANGED <<registered, writes, rows, strayed, resuming>> /\ (~disturbed' => ~disturbed)
    BY <1>2 DEF RemovePeer
  <2> QED BY <2>1, StoreFrame
<1>3. CASE WriteDone \/ WriteFails
  <2>1. UNCHANGED <<registered, resuming, disturbed>> /\ strayed \subseteq strayed'
    BY <1>3 DEF WriteDone, WriteFails
  <2>2. ASSUME NEW u \in Url \ strayed'
        PROVE  /\ IsRegistered(u)' <=> IsRegistered(u)
               /\ WillBe(u)' <=> WillBe(u)
               /\ Pending(u)' => Pending(u)
    BY <1>3, <2>1, WriteKeeps DEF IsRegistered
  <2> QED BY <2>1, <2>2 DEF StoreInv
<1>4. CASE PeerGoes \/ PeerReturns \/ checkAllAliveStatue \/ UNCHANGED vars
  <2>1. UNCHANGED <<registered, writes, rows, strayed, resuming, disturbed>>
    BY <1>4 DEF PeerGoes, PeerReturns, checkAllAliveStatue, vars
  <2> QED BY <2>1, StoreFrame
<1>5. CASE Stop
  <2>1. \A u \in Url : ~IsRegistered(u)' /\ ~Pending(u)'
    BY <1>5 DEF Stop, IsRegistered, Pending
  <2> QED BY <1>5, <2>1 DEF StoreInv, Stop
<1> QED BY <1>1, <1>2, <1>3, <1>4, <1>5, RegisterStore, UnregisterStore, ResumeStore
     DEF Next, Crash, DelayedConnectFails

LEMMA Invariance == Spec => []Inv
<1>1. Inv /\ [Next]_vars => Inv'
  BY HubNext, TypeNext, StoreNext DEF Inv
<1> QED BY InitInv, <1>1, PTL DEF Spec

(***************************************************************************)
(* Results                                                                 *)
(***************************************************************************)

\* The hub, its copy, the registrations and the rows stay well-formed.
THEOREM EventHubTypeOK == Spec => []TypeOK
<1>1. Inv => TypeOK
  BY DEF Inv
<1> QED BY <1>1, Invariance, PTL

\* Through outages the handler notices and changes of the administrator, a connected
\* hub has the registered URLs, each under its number, and no others.
THEOREM KeepsRegistrations == Spec => []RegistrationsKept
<1>1. Inv => RegistrationsKept
  BY DEF Inv, HubInv, Good, RegistrationsKept, Delivers
<1> QED BY <1>1, Invariance, PTL

\* When a URL's writes are done, a restart resumes it just if it is registered; but for
\* the URLs of which the database refused a write, or did one out of order.
THEOREM StoreFollows == Spec => []StoreAgrees
<1>1. Inv => StoreAgrees
  <2> SUFFICES ASSUME Inv, ~resuming, ~disturbed, NEW u \in Url \ strayed,
                      \A i \in 1..Len(writes) : writes[i].url # u
               PROVE  u \in ToSet(rows) <=> u \in Registered
    BY DEF StoreAgrees
  <2>1. IsRegistered(u) <=> u \in ToSet(rows)
    BY DEF Inv, StoreInv, WillBe, Pending
  <2> QED BY <2>1 DEF IsRegistered, Registered
<1> QED BY <1>1, Invariance, PTL

-------------------------------------------------------------------------------
(***************************************************************************)
(* Delivery, for any URLs, topics and bounds.                              *)
(*                                                                         *)
(* The inductive invariant adds two facts to the properties: while a       *)
(* delivery's row is being made the shared variable still has its payload, *)
(* unless it was overtaken; and a delivery that is beyond that has a row.  *)
(***************************************************************************)
PayloadKept ==
  \A d \in Delivery :
    step[d] \in {"creating", "created"} => payloadobj = d[1] \/ d \in overtaken

RowFirst ==
  \A d \in Delivery : step[d] \in {"created", "posting", "good", "bad"} => row[d] # None

DeliveryInv == DeliveryTypeOK /\ PayloadKept /\ OwnPayload /\ RowFirst /\ Accounted

LEMMA DeliveryStarts == DeliveryInit => DeliveryInv
BY DeliveryAssumption
DEF DeliveryInit, DeliveryInv, DeliveryTypeOK, Step, PayloadKept, OwnPayload, RowFirst, Accounted

\* A block's callbacks are called.
LEMMA BlockEventInv ==
  ASSUME DeliveryInv, NEW topics \in SUBSET Topic, BlockEvent(topics)
  PROVE  DeliveryInv'
<1> DEFINE R == Raised(blocks + 1, topics)
           now == {d \in Delivery : d[1] \in R}
<1> USE DEF DeliveryInv
<1>1. /\ blocks < MaxBlocks /\ blocks' = blocks + 1
      /\ Callbacks(topics)
      /\ UNCHANGED <<posted, taken, refused, row, failing, faults>>
  BY DEF BlockEvent
<1>2. blocks + 1 \in 1..MaxBlocks
  BY <1>1, DeliveryAssumption DEF DeliveryTypeOK
<1>3. /\ step' = [d \in Delivery |-> IF d \in now THEN "creating" ELSE step[d]]
      /\ \/ R = {} /\ payloadobj' = payloadobj
         \/ \E p \in R : payloadobj' = p
      /\ overtaken' = overtaken \cup (IF R = {} THEN {} ELSE Early)
           \cup (IF \A p, q \in R : p = q THEN {} ELSE now)
  BY <1>1 DEF Callbacks
<1>4. R \in SUBSET Payload
  BY <1>2 DEF Raised, Payload
<1> HIDE DEF R
<1>5. DeliveryTypeOK'
  <2>1. step' \in [Delivery -> Step]
    BY <1>3 DEF DeliveryTypeOK, Step
  <2>2. payloadobj' \in Payload \cup {None}
    BY <1>3, <1>4 DEF DeliveryTypeOK
  <2>3. overtaken' \subseteq Delivery
    BY <1>3 DEF DeliveryTypeOK, Early
  <2>4. blocks' \in 0..MaxBlocks
    BY <1>1, <1>2
  <2> QED BY <1>1, <2>1, <2>2, <2>3, <2>4 DEF DeliveryTypeOK
<1>6. PayloadKept'
  <2> SUFFICES ASSUME NEW d \in Delivery, step'[d] \in {"creating", "created"},
                      d \notin overtaken'
               PROVE  payloadobj' = d[1]
    BY DEF PayloadKept
  <2>1. CASE d \in now
    BY <1>3, <2>1
  <2>2. CASE d \notin now
    <3>1. d \in Early
      BY <1>3, <2>2 DEF Early
    <3>2. R = {}
      BY <1>3, <3>1
    <3> QED BY <1>3, <3>1, <3>2 DEF PayloadKept, Early
  <2> QED BY <2>1, <2>2
<1>7. OwnPayload' /\ RowFirst' /\ Accounted'
  BY <1>1, <1>3 DEF OwnPayload, RowFirst, Accounted
<1> QED BY <1>5, <1>6, <1>7

(***************************************************************************)
(* The moves of one delivery, and a restart                                *)
(***************************************************************************)

\* What the server of a URL does changes nothing of a delivery.
LEMMA ServerInv ==
  ASSUME DeliveryInv, NEW d \in Delivery, Taken(d) \/ Refuses(d)
  PROVE  DeliveryInv'
<1> USE DEF DeliveryInv
<1>1. /\ UNCHANGED <<blocks, payloadobj, step, posted, row, overtaken, failing, faults>>
      /\ taken' \subseteq Delivery /\ refused' \subseteq Delivery
  BY DEF Taken, Refuses, DeliveryTypeOK
<1>2. DeliveryTypeOK'
  BY <1>1 DEF DeliveryTypeOK
<1>3. PayloadKept' /\ OwnPayload' /\ RowFirst' /\ Accounted'
  BY <1>1 DEF PayloadKept, OwnPayload, RowFirst, Accounted
<1> QED BY <1>2, <1>3

LEMMA MovesInv ==
  ASSUME DeliveryInv, NEW d \in Delivery, Moves(d)
  PROVE  DeliveryInv'
<1> USE DEF DeliveryInv, To
<1>1. UNCHANGED <<blocks, payloadobj, taken, refused, overtaken>>
  BY DEF Moves, creatEventHistory, NotCreated, sendPayloadToUrl, Answered, updateEventHistory,
         NotUpdated
<1>2. DeliveryTypeOK'
  <2>1. CASE creatEventHistory(d)
    BY <2>1 DEF creatEventHistory, DeliveryTypeOK, Step, Row
  <2>2. CASE NotCreated(d) \/ NotUpdated(d)
    <3>1. /\ To(d, "ended")
          /\ faults < MaxFaults /\ faults' = faults + 1 /\ failing' = failing \cup {d}
          /\ UNCHANGED <<blocks, payloadobj, posted, taken, refused, row, overtaken>>
      BY <2>2 DEF NotCreated, NotUpdated
    <3>2. step' \in [Delivery -> Step]
      BY <3>1 DEF DeliveryTypeOK, Step
    <3>3. faults' \in 0..MaxFaults
      BY <3>1, DeliveryAssumption DEF DeliveryTypeOK
    <3> QED BY <3>1, <3>2, <3>3 DEF DeliveryTypeOK
  <2>3. CASE sendPayloadToUrl(d) \/ Answered(d)
    BY <2>3 DEF sendPayloadToUrl, Answered, DeliveryTypeOK, Step
  <2>4. CASE updateEventHistory(d)
    <3>1. [retryTimes |-> 1, success |-> step[d] = "good"] \in Row
      BY DEF Row
    <3> QED BY <2>4, <3>1 DEF updateEventHistory, DeliveryTypeOK, Step
  <2> QED BY <2>1, <2>2, <2>3, <2>4 DEF Moves
<1>3. PayloadKept' /\ OwnPayload'
  <2> USE <1>1 DEF PayloadKept, OwnPayload, DeliveryTypeOK
  <2>1. CASE creatEventHistory(d)
    BY <2>1 DEF creatEventHistory
  <2>2. CASE NotCreated(d) \/ NotUpdated(d)
    BY <2>2 DEF NotCreated, NotUpdated
  <2>3. CASE sendPayloadToUrl(d) \/ Answered(d)
    BY <2>3 DEF sendPayloadToUrl, Answered
  <2>4. CASE updateEventHistory(d)
    BY <2>4 DEF updateEventHistory
  <2> QED BY <2>1, <2>2, <2>3, <2>4 DEF Moves
<1>4. RowFirst' /\ Accounted'
  <2> USE DEF DeliveryTypeOK, RowFirst, Accounted
  <2>1. CASE creatEventHistory(d)
    <3>1. [retryTimes |-> 0, success |-> FALSE] \in Row
      BY DEF Row
    <3>2. [retryTimes |-> 0, success |-> FALSE] # None
      BY <3>1, NoneAssumption
    <3> QED BY <2>1, <3>2 DEF creatEventHistory
  <2>2. CASE NotCreated(d) \/ NotUpdated(d)
    BY <2>2 DEF NotCreated, NotUpdated
  <2>3. CASE sendPayloadToUrl(d)
    BY <2>3 DEF sendPayloadToUrl
  <2>4. CASE Answered(d)
    BY <2>4 DEF Answered
  <2>5. CASE updateEventHistory(d)
    <3> DEFINE r == [retryTimes |-> 1, success |-> step[d] = "good"]
    <3>1. r \in Row /\ r.retryTimes = 1
      BY DEF Row
    <3>2. r # None
      BY <3>1, NoneAssumption
    <3>3. step' = [step EXCEPT ![d] = "ended"] /\ row' = [row EXCEPT ![d] = r]
          /\ UNCHANGED <<posted, failing>>
      BY <2>5 DEF updateEventHistory
    <3> HIDE DEF r
    <3> QED BY <3>1, <3>2, <3>3
  <2> QED BY <2>1, <2>2, <2>3, <2>4, <2>5 DEF Moves
<1> QED BY <1>2, <1>3, <1>4

LEMMA RestartInv == ASSUME DeliveryInv, Restart PROVE DeliveryInv'
<1> USE DEF DeliveryInv, Restart
<1>1. DeliveryTypeOK'
  BY DeliveryAssumption DEF DeliveryTypeOK, Step
<1>2. PayloadKept' /\ OwnPayload'
  BY DEF PayloadKept, OwnPayload, DeliveryTypeOK
<1>3. RowFirst' /\ Accounted'
  BY DEF RowFirst, Accounted, DeliveryTypeOK
<1> QED BY <1>1, <1>2, <1>3

LEMMA DeliveryKept == DeliveryInv /\ [DeliveryNext]_deliveryVars => DeliveryInv'
<1> SUFFICES ASSUME DeliveryInv, [DeliveryNext]_deliveryVars PROVE DeliveryInv'
  OBVIOUS
<1>1. ASSUME NEW topics \in SUBSET Topic, BlockEvent(topics) PROVE DeliveryInv'
  BY <1>1, BlockEventInv
<1>2. ASSUME NEW d \in Delivery, Moves(d) PROVE DeliveryInv'
  BY <1>2, MovesInv
<1>3. ASSUME NEW d \in Delivery, Taken(d) \/ Refuses(d) PROVE DeliveryInv'
  BY <1>3, ServerInv
<1>4. CASE Restart
  BY <1>4, RestartInv
<1>5. CASE UNCHANGED deliveryVars
  <2> USE <1>5 DEF deliveryVars, DeliveryInv
  <2>1. DeliveryTypeOK'
    BY DEF DeliveryTypeOK
  <2>2. PayloadKept' /\ OwnPayload' /\ RowFirst' /\ Accounted'
    BY DEF PayloadKept, OwnPayload, RowFirst, Accounted
  <2> QED BY <2>1, <2>2
<1> QED BY <1>1, <1>2, <1>3, <1>4, <1>5 DEF DeliveryNext

LEMMA DeliveryInvariance == DeliverySpec => []DeliveryInv
BY DeliveryStarts, DeliveryKept, PTL DEF DeliverySpec

(***************************************************************************)
(* Results                                                                 *)
(***************************************************************************)

\* A URL is posted the payload of its own event, or that of a callback that was called
\* before its row was there, which set the shared variable.
THEOREM PostsOwnPayload == DeliverySpec => []OwnPayload
<1>1. DeliveryInv => OwnPayload
  BY DEF DeliveryInv
<1> QED BY <1>1, DeliveryInvariance, PTL

\* The event history knows of every post, also of those that a failure or a restart cut
\* short, and that every delivery which was not was tried.
THEOREM HistoryAccounts == DeliverySpec => []Accounted
<1>1. DeliveryInv => Accounted
  BY DEF DeliveryInv
<1> QED BY <1>1, DeliveryInvariance, PTL
================================================================================
