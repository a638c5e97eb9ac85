------------------------ MODULE InnerSignRequest_proof ------------------------
(***************************************************************************)
(* A response that was answered with success stays in the database, for    *)
(* any policy, signers and numbers of overlapping lookups, failures and    *)
(* crashes, as long as no update overtakes an earlier one and no object is *)
(* replaced by one that was read before.                                   *)
(*                                                                         *)
(* The inductive invariant Inv orders the copies of the request by the     *)
(* responses they hold: document, updates under way, object.  Every step   *)
(* that harms nothing moves along that order.                              *)
(*                                                                         *)
(* Whatever overlaps, a second one, CountInv, has every copy's counters    *)
(* follow from its responses.  What they come to is the sum of the leaves  *)
(* that each signature signs directly under the root: a counter in between *)
(* was never set, so that no climb gets past it.                           *)
(***************************************************************************)
EXTENDS InnerSignRequest, Signatures, SequenceTheorems, FiniteSetTheorems, WellFoundedInduction, TLAPS

Held(r) == ToSet(r.responses)

IsRequest(r) ==
  /\ r = [tally |-> r.tally, status |-> r.status, responses |-> r.responses]
  /\ r.responses \in Seq(Answer)

\* A copy that holds all that r holds, and is a request.
Extends(q, r) == IsRequest(q) /\ Held(r) \subseteq Held(q)

Ends(w) == \A job \in w.ends : job.kind = "ACCEPT" => job \in Held(w.request)

CopyInv ==
  /\ \A r \in cached \cup document : IsRequest(r)
  /\ \A r, q \in document : r = q
  /\ \A l \in lookups : l.job \in Job /\ \A r \in l.found : IsRequest(r)
  /\ \E T : writes \in Seq(T)
  /\ \A i \in 1..Len(writes) : IsRequest(writes[i].request) /\ Ends(writes[i])

\* Without an object nothing is under way, and lookups read what there is.
LookupInv ==
  cached = {} => writes = <<>> /\ \A l \in lookups : l.found = {} \/ l.found = document

OrderInv ==
  /\ \A d \in document :
       /\ \A job \in acked : job.kind = "ACCEPT" => job \in Held(d)
       /\ \A r \in cached : Held(d) \subseteq Held(r)
       /\ \A i \in 1..Len(writes) : Held(d) \subseteq Held(writes[i].request)
  /\ \A i \in 1..Len(writes), r \in cached : Held(writes[i].request) \subseteq Held(r)
  /\ \A i, j \in 1..Len(writes) :
       i <= j => Held(writes[i].request) \subseteq Held(writes[j].request)

Inv == CopyInv /\ LookupInv /\ (harmed = {} => OrderInv)

LEMMA InitInv == Init => Inv
<1> SUFFICES ASSUME Init PROVE Inv
  OBVIOUS
<1>1. IsRequest(NewRequest)
  BY DEF IsRequest, NewRequest
<1>2. writes \in Seq({}) /\ Len(writes) = 0
  BY DEF Init
<1> QED
  BY <1>1, <1>2 DEF Init, Inv, CopyInv, LookupInv, OrderInv

\* An operation keeps the responses, and an accepted one is added.
LEMMA AfterFacts ==
  ASSUME NEW r, IsRequest(r), NEW job \in Job
  PROVE  /\ Extends(After(r, job), r)
         /\ job.kind = "ACCEPT" => job \in Held(After(r, job))
<1>1. CASE job.kind = "ACCEPT"
  <2>1. After(r, job) = Accepted(r, job)
    BY <1>1 DEF After
  <2>2. job \in Answer
    BY <1>1 DEF Job, Send, Reach, Answer
  <2> DEFINE tl == CountSignature(policy, job.signer, r.tally)
             q == [tally |-> tl, status |-> r.status, responses |-> Append(r.responses, job)]
  <2>3. Accepted(r, job) = q
    BY DEF Accepted
  <2> HIDE DEF tl
  <2>4. q.responses = Append(r.responses, job) /\ q.responses \in Seq(Answer)
    BY <2>2 DEF IsRequest
  <2>5. IsRequest(q)
    BY <2>4 DEF IsRequest
  <2>6. Held(r) \subseteq Held(q) /\ job \in Held(q)
    BY <2>2, <2>4 DEF Held, ToSet, IsRequest
  <2> QED
    BY <2>1, <2>3, <2>5, <2>6 DEF Extends
<1>2. CASE job.kind # "ACCEPT"
  <2>1. \E s : After(r, job) = [r EXCEPT !.status = s]
    BY <1>2 DEF After, changeIdentitesState, Job, Send, Reach, Answer
  <2>2. PICK s : After(r, job) = [r EXCEPT !.status = s]
    BY <2>1
  <2>3. After(r, job) = [tally |-> r.tally, status |-> s, responses |-> r.responses]
    BY <2>2 DEF IsRequest
  <2> QED
    BY <1>2, <2>3 DEF Extends, IsRequest, Held
<1> QED
  BY <1>1, <1>2

\* The updates under way without one, in their order.
LEMMA RemoveAtFacts ==
  ASSUME NEW T, NEW ws \in Seq(T), NEW i \in 1..Len(ws)
  PROVE  /\ RemoveAt(ws, i) \in Seq(T)
         /\ Len(RemoveAt(ws, i)) = Len(ws) - 1
         /\ \A j \in 1..Len(ws) - 1 : RemoveAt(ws, i)[j] = ws[IF j < i THEN j ELSE j + 1]
<1> DEFINE a == SubSeq(ws, 1, i - 1)
           b == SubSeq(ws, i + 1, Len(ws))
<1>1. Len(ws) \in Nat /\ i \in 1..Len(ws)
  OBVIOUS
<1>2. a \in Seq(T) /\ Len(a) = i - 1 /\ \A j \in 1..i - 1 : a[j] = ws[j]
  BY <1>1
<1>3. /\ b \in Seq(T) /\ Len(b) = Len(ws) - i
      /\ \A j \in 1..Len(ws) - i : b[j] = ws[i + j]
  BY <1>1
<1>4. RemoveAt(ws, i) = a \o b
  BY DEF RemoveAt
<1> HIDE DEF a, b
<1>5. a \o b \in Seq(T) /\ Len(a \o b) = Len(ws) - 1
  <2>1. a \o b \in Seq(T) /\ Len(a \o b) = Len(a) + Len(b)
    BY <1>2, <1>3, ConcatProperties
  <2> QED
    BY <1>1, <1>2, <1>3, <2>1
<1>6. ASSUME NEW j \in 1..Len(ws) - 1
      PROVE  (a \o b)[j] = ws[IF j < i THEN j ELSE j + 1]
  <2>1. j \in 1..Len(a) + Len(b) /\ Len(a) = i - 1
    BY <1>1, <1>2, <1>3
  <2>2. (a \o b)[j] = IF j <= Len(a) THEN a[j] ELSE b[j - Len(a)]
    BY <1>2, <1>3, <2>1, ConcatProperties
  <2>3. CASE j < i
    BY <1>1, <1>2, <2>1, <2>2, <2>3
  <2>4. CASE ~(j < i)
    <3>1. j - (i - 1) \in 1..Len(ws) - i /\ i + (j - (i - 1)) = j + 1
      BY <1>1, <2>4
    <3> QED
      BY <1>1, <1>3, <2>1, <2>2, <2>4, <3>1
  <2> QED
    BY <2>3, <2>4
<1> QED
  BY <1>4, <1>5, <1>6

\* Each of the updates that remain had a place, and keeps its order.
Kept(i, j) == IF j < i THEN j ELSE j + 1

LEMMA Remaining ==
  ASSUME \E T : writes \in Seq(T), NEW i \in 1..Len(writes), writes' = RemoveAt(writes, i)
  PROVE  /\ \E T : writes' \in Seq(T)
         /\ \A j \in 1..Len(writes') :
              /\ Kept(i, j) \in 1..Len(writes) /\ writes'[j] = writes[Kept(i, j)]
              /\ Kept(i, j) < i \/ i <= Kept(i, j)
         /\ \A j, k \in 1..Len(writes') : j <= k => Kept(i, j) <= Kept(i, k)
<1>1. PICK T : writes \in Seq(T)
  OBVIOUS
<1>2. Len(writes) \in Nat
  BY <1>1
<1>3. /\ writes' \in Seq(T) /\ Len(writes') = Len(writes) - 1
      /\ \A j \in 1..Len(writes) - 1 : writes'[j] = writes[Kept(i, j)]
  BY <1>1, RemoveAtFacts DEF Kept
<1> QED
  BY <1>2, <1>3 DEF Kept

\* The updates of an operation come last.
LEMMA Performed ==
  ASSUME \E T : writes \in Seq(T), NEW job, NEW r, Perform(job, r)
  PROVE  /\ cached' = {After(r, job)}
         /\ \E T : writes' \in Seq(T)
         /\ Len(writes) \in Nat /\ Len(writes') \in Nat /\ Len(writes) <= Len(writes')
         /\ \A i \in 1..Len(writes) : writes'[i] = writes[i]
         /\ \A i \in 1..Len(writes') : i \in 1..Len(writes) \/
              (writes'[i].request = After(r, job) /\ writes'[i].ends \subseteq {job})
<1> DEFINE q == After(r, job)
           u == [request |-> q, ends |-> {}]
           w == [request |-> q, ends |-> {job}]
<1>1. /\ cached' = {q}
      /\ writes' = Append(Append(writes, u), w) \/ writes' = Append(writes, u)
  BY DEF Perform
<1>2. u.request = q /\ u.ends = {} /\ w.request = q /\ w.ends = {job}
  OBVIOUS
<1>3. PICK T : writes \in Seq(T)
  OBVIOUS
<1> HIDE DEF q, u, w
<1>4. writes \in Seq(T \cup {u, w}) /\ u \in T \cup {u, w} /\ w \in T \cup {u, w}
  BY <1>3
<1> DEFINE us == Append(writes, u)
<1>5. /\ us \in Seq(T \cup {u, w}) /\ Len(us) = Len(writes) + 1 /\ Len(writes) \in Nat
      /\ \A i \in 1..Len(writes) : us[i] = writes[i]
      /\ us[Len(writes) + 1] = u
  BY <1>4
<1> HIDE DEF us
<1> DEFINE ws == Append(us, w)
<1>6. /\ ws \in Seq(T \cup {u, w}) /\ Len(ws) = Len(writes) + 2
      /\ \A i \in 1..Len(writes) + 1 : ws[i] = us[i]
      /\ ws[Len(writes) + 2] = w
  BY <1>4, <1>5
<1> HIDE DEF ws
<1>7. writes' = ws \/ writes' = us
  BY <1>1 DEF ws, us
<1>8. CASE writes' = us
  BY <1>1, <1>2, <1>5, <1>8 DEF q
<1>9. CASE writes' = ws
  <2>1. \A i \in 1..Len(writes) : ws[i] = writes[i]
    BY <1>5, <1>6
  <2>2. ASSUME NEW i \in 1..Len(ws)
        PROVE  i \in 1..Len(writes) \/ (ws[i].request = q /\ ws[i].ends \subseteq {job})
    <3>1. i \in 1..Len(writes) \/ i = Len(writes) + 1 \/ i = Len(writes) + 2
      BY <1>5, <1>6
    <3>2. ws[Len(writes) + 1] = u
      BY <1>5, <1>6
    <3> QED
      BY <1>2, <1>6, <3>1, <3>2
  <2> QED
    BY <1>1, <1>5, <1>6, <1>9, <2>1, <2>2 DEF q
<1> QED
  BY <1>7, <1>8, <1>9

-------------------------------------------------------------------------------
(* Each action preserves the invariant. *)

\* An operation performed on a request; it keeps the order if that holds all that any
\* copy holds.
LEMMA PerformInv ==
  ASSUME Inv, NEW job \in Job, NEW r, IsRequest(r), Perform(job, r),
         lookups' \subseteq lookups, UNCHANGED <<document, acked>>,
         harmed' = {} =>
           /\ harmed = {}
           /\ \A d \in document : Held(d) \subseteq Held(r)
           /\ \A i \in 1..Len(writes) : Held(writes[i].request) \subseteq Held(r)
  PROVE  Inv'
<1> DEFINE q == After(r, job)
<1>1. IsRequest(q) /\ Held(r) \subseteq Held(q) /\ (job.kind = "ACCEPT" => job \in Held(q))
  BY AfterFacts DEF Extends
<1>2. /\ cached' = {q}
      /\ \E T : writes' \in Seq(T)
      /\ Len(writes) \in Nat /\ Len(writes') \in Nat /\ Len(writes) <= Len(writes')
      /\ \A i \in 1..Len(writes) : writes'[i] = writes[i]
      /\ \A i \in 1..Len(writes') : i \in 1..Len(writes) \/
           (writes'[i].request = q /\ writes'[i].ends \subseteq {job})
  BY Performed DEF Inv, CopyInv
<1> HIDE DEF q
<1>3. ASSUME NEW i \in 1..Len(writes')
      PROVE  IsRequest(writes'[i].request) /\ Ends(writes'[i])
  <2>1. CASE i \in 1..Len(writes)
    BY <1>2, <2>1 DEF Inv, CopyInv
  <2>2. CASE writes'[i].request = q /\ writes'[i].ends \subseteq {job}
    BY <1>1, <2>2 DEF Ends
  <2> QED
    BY <1>2, <2>1, <2>2
<1>4. CopyInv'
  BY <1>1, <1>2, <1>3 DEF Inv, CopyInv
<1>5. LookupInv'
  BY <1>2 DEF LookupInv
<1>6. ASSUME harmed' = {} PROVE OrderInv'
  <2>1. /\ OrderInv
        /\ \A d \in document : Held(d) \subseteq Held(q)
        /\ \A i \in 1..Len(writes) : Held(writes[i].request) \subseteq Held(q)
    BY <1>1, <1>6 DEF Inv
  <2>2. \A i \in 1..Len(writes') : Held(writes'[i].request) \subseteq Held(q)
    BY <1>2, <2>1
  <2>3. \A d \in document, i \in 1..Len(writes') : Held(d) \subseteq Held(writes'[i].request)
    BY <1>2, <2>1 DEF OrderInv
  <2>4. ASSUME NEW i \in 1..Len(writes'), NEW j \in 1..Len(writes'), i <= j
        PROVE  Held(writes'[i].request) \subseteq Held(writes'[j].request)
    <3>1. CASE j \in 1..Len(writes)
      <4>1. i \in 1..Len(writes)
        BY <1>2, <2>4, <3>1
      <4> QED
        BY <1>2, <2>1, <2>4, <3>1, <4>1 DEF OrderInv
    <3>2. CASE writes'[j].request = q
      BY <2>2, <3>2
    <3> QED
      BY <1>2, <3>1, <3>2
  <2> QED
    BY <1>2, <2>1, <2>2, <2>3, <2>4 DEF OrderInv
<1> QED
  BY <1>4, <1>5, <1>6 DEF Inv

LEMMA InCacheInv == ASSUME Inv, NEW job \in Job, InCache(job) PROVE Inv'
<1>1. PICK r \in cached : Perform(job, r)
  BY DEF InCache
<1>2. IsRequest(r)
  BY DEF Inv, CopyInv
<1>3. UNCHANGED <<document, lookups, acked, harmed>>
  BY DEF InCache
<1>4. harmed = {} =>
        /\ \A d \in document : Held(d) \subseteq Held(r)
        /\ \A i \in 1..Len(writes) : Held(writes[i].request) \subseteq Held(r)
  BY DEF Inv, OrderInv
<1> QED
  BY <1>1, <1>2, <1>3, <1>4, PerformInv

LEMMA LookupStartsInv == ASSUME Inv, NEW job \in Job, Lookup(job) PROVE Inv'
<1>1. /\ lookups' = lookups \cup {[job |-> job, read |-> FALSE, found |-> {}]}
      /\ UNCHANGED <<cached, document, writes, acked, harmed>>
  BY DEF Lookup
<1>2. CopyInv' /\ LookupInv'
  BY <1>1 DEF Inv, CopyInv, LookupInv
<1>3. OrderInv => OrderInv'
  BY <1>1 DEF OrderInv
<1> QED
  BY <1>1, <1>2, <1>3 DEF Inv

LEMMA ReadDocumentInv == ASSUME Inv, ReadDocument PROVE Inv'
<1>1. PICK l \in lookups :
        lookups' = (lookups \ {l}) \cup {[job |-> l.job, read |-> TRUE, found |-> document]}
  BY DEF ReadDocument
<1>2. UNCHANGED <<cached, document, writes, acked, harmed>>
  BY DEF ReadDocument
<1>3. CopyInv' /\ LookupInv'
  BY <1>1, <1>2 DEF Inv, CopyInv, LookupInv
<1>4. OrderInv => OrderInv'
  BY <1>2 DEF OrderInv
<1> QED
  BY <1>2, <1>3, <1>4 DEF Inv

\* Without an object the lookup found the document; else the object holds no more.
LEMMA FromDatabaseInv == ASSUME Inv, FromDatabase PROVE Inv'
<1>1. PICK l \in lookups :
        /\ lookups' = lookups \ {l}
        /\ \E r \in l.found :
             /\ Perform(l.job, r)
             /\ harmed' = IF \A o \in cached : ToSet(o.responses) \subseteq ToSet(r.responses)
                          THEN harmed ELSE harmed \cup {"stale"}
  BY DEF FromDatabase
<1>2. PICK r \in l.found :
        /\ Perform(l.job, r)
        /\ harmed' = IF \A o \in cached : Held(o) \subseteq Held(r)
                     THEN harmed ELSE harmed \cup {"stale"}
  BY <1>1 DEF Held
<1>3. IsRequest(r) /\ l.job \in Job /\ lookups' \subseteq lookups /\ UNCHANGED <<document, acked>>
  BY <1>1 DEF Inv, CopyInv, FromDatabase
<1>4. ASSUME harmed' = {}
      PROVE  /\ harmed = {}
             /\ \A d \in document : Held(d) \subseteq Held(r)
             /\ \A i \in 1..Len(writes) : Held(writes[i].request) \subseteq Held(r)
  <2>1. harmed = {} /\ \A o \in cached : Held(o) \subseteq Held(r)
    BY <1>2, <1>4
  <2>2. CASE cached = {}
    <3>1. document = l.found /\ writes = <<>>
      BY <2>2 DEF Inv, LookupInv
    <3>2. \A d, e \in document : d = e
      BY <3>1 DEF Inv, CopyInv
    <3> QED
      BY <2>1, <3>1, <3>2
  <2>3. CASE cached # {}
    BY <2>1, <2>3 DEF Inv, OrderInv
  <2> QED
    BY <2>1, <2>2, <2>3
<1> QED
  BY <1>2, <1>3, <1>4, PerformInv

LEMMA NotFoundInv == ASSUME Inv, NotFound PROVE Inv'
<1>1. lookups' \subseteq lookups /\ UNCHANGED <<cached, document, writes, acked, harmed>>
  BY DEF NotFound
<1>2. CopyInv' /\ LookupInv'
  BY <1>1 DEF Inv, CopyInv, LookupInv
<1>3. OrderInv => OrderInv'
  BY <1>1 DEF OrderInv
<1> QED
  BY <1>1, <1>2, <1>3 DEF Inv

\* What is left of the updates when one of them is over, and the document with it.
LEMMA OverInv ==
  ASSUME Inv, NEW i \in 1..Len(writes), writes' = RemoveAt(writes, i),
         UNCHANGED <<cached, lookups>>,
         \/ Written(i) /\ acked' \subseteq acked \cup writes[i].ends
         \/ UNCHANGED <<document, harmed, acked>>
  PROVE  Inv'
<1> DEFINE w == writes[i]
<1>1. IsRequest(w.request) /\ Ends(w)
  BY DEF Inv, CopyInv
<1>2. /\ \E T : writes' \in Seq(T)
      /\ \A j \in 1..Len(writes') :
           /\ Kept(i, j) \in 1..Len(writes) /\ writes'[j] = writes[Kept(i, j)]
           /\ Kept(i, j) < i \/ i <= Kept(i, j)
      /\ \A j, k \in 1..Len(writes') : j <= k => Kept(i, j) <= Kept(i, k)
  BY Remaining DEF Inv, CopyInv
<1>3. document' = document \/ document' \subseteq {w.request}
  BY DEF Written
<1>4. CopyInv'
  BY <1>1, <1>2, <1>3 DEF Inv, CopyInv
<1>5. LookupInv'
  <2>1. Len(writes) # 0
    BY DEF Inv, CopyInv
  <2> QED
    BY <2>1 DEF Inv, LookupInv
<1>6. ASSUME OrderInv, NEW j \in 1..Len(writes'), NEW k \in 1..Len(writes'), j <= k
      PROVE  Held(writes'[j].request) \subseteq Held(writes'[k].request)
  <2>1. /\ Kept(i, j) \in 1..Len(writes) /\ writes'[j] = writes[Kept(i, j)]
        /\ Kept(i, k) \in 1..Len(writes) /\ writes'[k] = writes[Kept(i, k)]
        /\ Kept(i, j) <= Kept(i, k)
    BY <1>2, <1>6
  <2> QED
    BY <1>6, <2>1 DEF OrderInv
<1>7. \A j \in 1..Len(writes'), r \in cached :
        OrderInv => Held(writes'[j].request) \subseteq Held(r)
  BY <1>2 DEF OrderInv
<1>8. CASE UNCHANGED <<document, harmed, acked>>
  <2>1. \A d \in document, j \in 1..Len(writes') :
          OrderInv => Held(d) \subseteq Held(writes'[j].request)
    BY <1>2 DEF OrderInv
  <2>2. OrderInv => OrderInv'
    BY <1>6, <1>7, <1>8, <2>1 DEF OrderInv
  <2> QED
    BY <1>4, <1>5, <1>8, <2>2 DEF Inv
<1>9. CASE Written(i) /\ acked' \subseteq acked \cup w.ends
  <2> SUFFICES ASSUME harmed' = {} PROVE OrderInv'
    BY <1>4, <1>5 DEF Inv
  <2>1. harmed = {} /\ \A j \in 1..i - 1 : writes[j].request = w.request
    BY <1>9 DEF Written
  <2>2. OrderInv
    BY <2>1 DEF Inv
  <2>3. ASSUME NEW j \in 1..Len(writes')
        PROVE  Held(w.request) \subseteq Held(writes'[j].request)
    <3>1. CASE Kept(i, j) < i
      <4>1. Kept(i, j) \in 1..i - 1
        BY <1>2, <3>1
      <4> QED
        BY <1>2, <2>1, <4>1
    <3>2. CASE i <= Kept(i, j)
      BY <1>2, <2>2, <3>2 DEF OrderInv
    <3> QED
      BY <1>2, <3>1, <3>2
  <2>4. \A d \in document' : d = w.request /\ document # {}
    BY <1>9 DEF Written
  <2>5. ASSUME NEW d \in document', NEW job \in acked', job.kind = "ACCEPT"
        PROVE  job \in Held(d)
    <3>1. CASE job \in acked
      BY <2>2, <2>4, <2>5, <3>1 DEF OrderInv
    <3>2. CASE job \in w.ends
      BY <1>1, <2>4, <2>5, <3>2 DEF Ends
    <3> QED
      BY <1>9, <3>1, <3>2
  <2>6. \A r \in cached : Held(w.request) \subseteq Held(r)
    BY <2>2 DEF OrderInv
  <2> QED
    BY <1>6, <1>7, <2>2, <2>3, <2>4, <2>5, <2>6 DEF OrderInv
<1> QED
  BY <1>8, <1>9

LEMMA UpdateWrittenInv == ASSUME Inv, UpdateWritten PROVE Inv'
BY OverInv DEF UpdateWritten

LEMMA UpdateFailsInv == ASSUME Inv, UpdateFails PROVE Inv'
BY OverInv DEF UpdateFails

LEMMA CrashInv == ASSUME Inv, Crash PROVE Inv'
<1>1. /\ cached' = {} /\ lookups' = {} /\ writes' = <<>>
      /\ UNCHANGED <<document, acked, harmed>>
  BY DEF Crash
<1>2. writes' \in Seq({}) /\ Len(writes') = 0
  BY <1>1
<1>3. CopyInv' /\ LookupInv'
  BY <1>1, <1>2 DEF Inv, CopyInv, LookupInv
<1>4. OrderInv => OrderInv'
  BY <1>1, <1>2 DEF OrderInv
<1> QED
  BY <1>1, <1>3, <1>4 DEF Inv

LEMMA NextInv == Inv /\ [Next]_vars => Inv'
<1> SUFFICES ASSUME Inv, [Next]_vars PROVE Inv'
  OBVIOUS
<1>1. CASE Next
  BY <1>1, InCacheInv, LookupStartsInv, ReadDocumentInv, FromDatabaseInv, NotFoundInv,
     UpdateWrittenInv, UpdateFailsInv, CrashInv DEF Next
<1>2. CASE UNCHANGED vars
  BY <1>2 DEF vars, Inv, CopyInv, LookupInv, OrderInv
<1> QED
  BY <1>1, <1>2

-------------------------------------------------------------------------------
(* The theorem. *)

\* A response that was answered with success is in the document ever after, however many
\* lookups overlap, updates fail and crashes there are, and whatever the policy and the
\* signers - as long as no update overtakes an earlier one and no object is replaced by
\* one that was read before.
THEOREM InnerSignRequestAckedKept == Spec => []AckedKept
<1>1. Inv => AckedKept
  BY DEF Inv, OrderInv, AckedKept, AckedStored, Held
<1>2. Inv /\ [Next]_vars => Inv'
  BY NextInv
<1> QED
  BY <1>1, <1>2, InitInv, PTL DEF Spec

-------------------------------------------------------------------------------
(* Induction, by the least number without a property. *)

\* A set of natural numbers that is not empty has a least one.
LEMMA Least ==
  ASSUME NEW S \in SUBSET Nat, S # {}
  PROVE  \E m \in S : \A k \in S : m <= k
<1>1. IsWellFoundedOn(OpToRel(<, Nat), Nat)
  BY NatLessThanWellFounded
<1>2. PICK m \in S : \A k \in S : ~(<<k, m>> \in OpToRel(<, Nat))
  BY <1>1, WFMin
<1>3. \A k \in S : ~(k < m)
  BY <1>2 DEF OpToRel
<1> QED
  BY <1>3

\* One that has 0 and every successor has all.
LEMMA Induction ==
  ASSUME NEW S \in SUBSET Nat, 0 \in S, \A n \in S : n + 1 \in S
  PROVE  S = Nat
<1> SUFFICES ASSUME Nat \ S # {} PROVE FALSE
  OBVIOUS
<1>1. PICK m \in Nat \ S : \A k \in Nat \ S : m <= k
  <2>1. Nat \ S \in SUBSET Nat
    OBVIOUS
  <2> QED
    BY <2>1, Least
<1>2. m - 1 \in S
  BY <1>1
<1> QED
  BY <1>1, <1>2

-------------------------------------------------------------------------------
(* What signatures make of the counters: the root's goes down by the leaves signed *)
(* directly under it, the others were never set.                                   *)

TallyAfter(p, k) ==
  [count |-> [a \in DOMAIN p.nOf |-> IF a = Root THEN p.nOf[Root] - k ELSE NaN],
   fullfilled |-> k >= p.nOf[Root]]

LEMMA NothingSigned ==
  ASSUME NEW p, IsPolicy(p)
  PROVE  formateRootPolicy(p) = TallyAfter(p, 0)
<1>1. InitialCount(p)
        = [a \in DOMAIN p.nOf |-> IF a = Root THEN p.nOf[Root] - 0 ELSE NaN]
  BY DEF InitialCount, IsPolicy
<1>2. (0 >= p.nOf[Root]) = FALSE
  BY DEF IsPolicy
<1> QED
  BY <1>1, <1>2 DEF formateRootPolicy, TallyAfter

\* A node comes before another when it is a longer one's beginning.
LEMMA FrontFacts ==
  ASSUME NEW a \in Seq(Nat), Len(a) > 1
  PROVE  /\ Len(Front(a)) = Len(a) - 1 /\ IsStrictPrefix(Front(a), a)
         /\ Len(a) > 2 /\ a[1] = 0 => IsStrictPrefix(Root, Front(a))
         /\ a[1] = 0 => IsStrictPrefix(Root, a)
<1> DEFINE f == SubSeq(a, 1, Len(a) - 1)
<1>1. Front(a) = f
  BY DEF Front
<1>2. Len(a) \in Nat
  OBVIOUS
<1>3. /\ f \in Seq(Nat) /\ Len(f) = Len(a) - 1
      /\ \A i \in 1..Len(f) : f[i] = a[i]
  <2>1. 1 \in 1..(Len(a) + 1) /\ Len(a) - 1 \in 0..Len(a)
    BY <1>2
  <2> QED
    BY <2>1, <1>2, SubSeqProperties
<1>4. SubSeq(f, 1, Len(f)) = f
  BY <1>3
<1>5. f # a
  BY <1>2, <1>3
<1>6. IsStrictPrefix(f, a)
  BY <1>2, <1>3, <1>4, <1>5 DEF IsStrictPrefix, IsPrefix
<1>7. Root \in Seq(Nat) /\ Len(Root) = 1 /\ Root[1] = 0 /\ SubSeq(Root, 1, 1) = Root
  <2>1. Root \in Seq(Nat) /\ Len(Root) = 1 /\ Root[1] = 0
    BY DEF Root
  <2> QED
    BY <2>1, SubSeqFull
<1> HIDE DEF f
<1>8. ASSUME NEW b \in Seq(Nat), Len(b) > 1, b[1] = 0 PROVE IsStrictPrefix(Root, b)
  <2>1. 1 \in 1..(Len(b) + 1) /\ 1 \in 0..Len(b) /\ Len(b) \in Nat
    BY <1>8
  <2>2. SubSeq(b, 1, 1) \in Seq(Nat) /\ Len(SubSeq(b, 1, 1)) = 1 /\ SubSeq(b, 1, 1)[1] = 0
    BY <1>8, <2>1, SubSeqProperties
  <2>3. SubSeq(b, 1, 1) = Root
    BY <1>7, <2>2
  <2>4. Len(Root) <= Len(b) /\ Root # b
    <3>1. Len(Root) = 1 /\ Len(b) \in Nat /\ Len(b) > 1
      BY <1>7, <1>8, <2>1
    <3> PICK n : n = Len(b)
      OBVIOUS
    <3>2. n \in Nat /\ n > 1
      BY <3>1
    <3>3. 1 <= n /\ 1 # n
      BY <3>2
    <3> QED
      BY <3>1, <3>3
  <2>5. SubSeq(Root, 1, Len(Root)) = SubSeq(b, 1, Len(Root))
    BY <1>7, <2>3
  <2> QED
    BY <2>4, <2>5 DEF IsStrictPrefix, IsPrefix
<1>9. Len(a) > 2 /\ a[1] = 0 => Len(f) > 1 /\ f[1] = 0
  BY <1>2, <1>3
<1> QED
  BY <1>1, <1>3, <1>6, <1>8, <1>9

\* The climb from a leaf reaches the root exactly from those directly under it, since
\* no counter in between is ever 1.
LEMMA RootReached ==
  ASSUME NEW p, IsPolicy(p), NEW k \in Nat, NEW leaf \in DOMAIN p.signedBy
  PROVE  Root \in Reached(p, TallyAfter(p, k).count, leaf) <=> Len(leaf) = 2
<1> DEFINE count == TallyAfter(p, k).count
<1>1. /\ leaf \in Seq(Nat) /\ Len(leaf) \in Nat /\ Len(leaf) > 1 /\ leaf[1] = 0
      /\ Front(leaf) \in DOMAIN p.nOf /\ Root \in DOMAIN p.nOf
  BY DEF IsPolicy
<1>2. Root \in Above(p, leaf)
  BY <1>1, FrontFacts DEF Above
<1>3. CASE Len(leaf) > 2
  <2>1. /\ Front(leaf) \in Above(p, leaf) /\ IsStrictPrefix(Root, Front(leaf))
        /\ Len(Front(leaf)) = Len(leaf) - 1
    BY <1>1, <1>3, FrontFacts DEF Above
  <2>2. Front(leaf) # Root
    BY <2>1 DEF IsStrictPrefix
  <2>3. count[Front(leaf)] = NaN
    BY <1>1, <2>2 DEF TallyAfter
  <2>4. NaN # 1
    BY NaNAssumption
  <2> HIDE DEF count
  <2>5. Root \notin Reached(p, count, leaf)
    BY <2>1, <2>3, <2>4 DEF Reached
  <2>6. Len(leaf) # 2
    <3> PICK n : n = Len(leaf)
      OBVIOUS
    <3> QED
      BY <1>3
  <2> QED
    BY <2>5, <2>6 DEF count
<1>4. CASE Len(leaf) = 2
  <2>1. ASSUME NEW b \in Above(p, leaf), IsStrictPrefix(Root, b) PROVE FALSE
    <3>1. b \in DOMAIN p.nOf /\ IsPrefix(b, leaf) /\ b # leaf /\ IsPrefix(Root, b) /\ b # Root
      BY <2>1 DEF Above, IsStrictPrefix
    <3>2. b \in Seq(Nat) /\ Len(b) \in Nat /\ Len(b) > 1
      BY <3>1 DEF IsPolicy
    <3>3. Len(b) <= 2 /\ SubSeq(b, 1, Len(b)) = SubSeq(leaf, 1, Len(b))
      BY <1>4, <3>1 DEF IsPrefix
    <3>4. Len(b) = 2
      <4> PICK n : n = Len(b)
        OBVIOUS
      <4>1. n \in Nat /\ n > 1 /\ n <= 2
        BY <3>2, <3>3
      <4>2. n = 2
        BY <4>1
      <4> QED
        BY <4>2
    <3>5. SubSeq(b, 1, Len(b)) = b /\ SubSeq(leaf, 1, Len(leaf)) = leaf
      BY <1>1, <3>2, SubSeqFull
    <3> QED
      BY <1>4, <3>1, <3>3, <3>4, <3>5
  <2> HIDE DEF count
  <2>2. Root \in Reached(p, count, leaf)
    BY <1>2, <2>1 DEF Reached
  <2> QED
    BY <1>4, <2>2 DEF count
<1>5. Len(leaf) > 2 \/ Len(leaf) = 2
  <2> PICK n : n = Len(leaf)
    OBVIOUS
  <2>1. n \in Nat /\ n > 1
    BY <1>1
  <2>2. n > 2 \/ n = 2
    BY <2>1
  <2> QED
    BY <2>2
<1> QED
  BY <1>3, <1>4, <1>5

LEMMA OneLeaf ==
  ASSUME NEW p, IsPolicy(p), NEW k \in Nat, NEW leaf \in DOMAIN p.signedBy
  PROVE  _changePolicyState(p, leaf, TallyAfter(p, k))
           = TallyAfter(p, IF Len(leaf) = 2 THEN k + 1 ELSE k)
<1> DEFINE n == p.nOf[Root]
           D == DOMAIN p.nOf
           r == TallyAfter(p, k)
           R == Reached(p, r.count, leaf)
           m == IF Len(leaf) = 2 THEN k + 1 ELSE k
<1>1. n \in Nat \ {0} /\ Root \in D /\ m \in Nat
  BY DEF IsPolicy
<1>2. Root \in R <=> Len(leaf) = 2
  BY RootReached
<1>3. /\ r.count = [a \in D |-> IF a = Root THEN n - k ELSE NaN]
      /\ r.fullfilled = (k >= n)
      /\ r = [count |-> r.count, fullfilled |-> r.fullfilled]
  BY DEF TallyAfter
<1>4. _changePolicyState(p, leaf, r) =
        [count |-> [a \in DOMAIN r.count |->
                      IF a \in R THEN Less(r.count[a]) ELSE r.count[a]],
         fullfilled |-> r.fullfilled \/ (Root \in R /\ r.count[Root] = 1)]
  <2> DEFINE c == [a \in DOMAIN r.count |-> IF a \in R THEN Less(r.count[a]) ELSE r.count[a]]
             u == r.fullfilled \/ (Root \in R /\ r.count[Root] = 1)
  <2>1. _changePolicyState(p, leaf, r) = [r EXCEPT !.count = c, !.fullfilled = u]
    BY Zenon DEF _changePolicyState
  <2> HIDE DEF r, c, u
  <2>2. PICK q : q = [r EXCEPT !.count = c, !.fullfilled = u]
    OBVIOUS
  <2>3. q = [count |-> c, fullfilled |-> u]
    BY <1>3, <2>2
  <2> QED
    BY <2>1, <2>2, <2>3 DEF c, u
<1> HIDE DEF r, R, n, D
<1>5. \A i \in Int : Less(i) = i - 1
  BY NaNAssumption DEF Less
<1>6. Less(NaN) = NaN
  BY DEF Less
<1>7. [a \in DOMAIN r.count |-> IF a \in R THEN Less(r.count[a]) ELSE r.count[a]]
        = [a \in D |-> IF a = Root THEN n - m ELSE NaN]
  <2>1. DOMAIN r.count = D
    BY <1>3
  <2>2. ASSUME NEW a \in D
        PROVE  (IF a \in R THEN Less(r.count[a]) ELSE r.count[a]) = IF a = Root THEN n - m ELSE NaN
    <3>1. CASE a = Root
      <4>1. r.count[a] = n - k /\ n - k \in Int
        BY <1>1, <1>3, <3>1
      <4> QED
        BY <1>1, <1>2, <1>5, <3>1, <4>1
    <3>2. CASE a # Root
      BY <1>3, <1>6, <3>2
    <3> QED
      BY <3>1, <3>2
  <2> QED
    BY <2>1, <2>2
<1>8. (r.fullfilled \/ (Root \in R /\ r.count[Root] = 1)) = (m >= n)
  <2>1. r.count[Root] = n - k
    BY <1>1, <1>3
  <2>2. (k >= n \/ (Len(leaf) = 2 /\ n - k = 1)) <=> m >= n
    BY <1>1
  <2>3. r.fullfilled <=> k >= n
    BY <1>3
  <2>4. (r.fullfilled \/ (Root \in R /\ r.count[Root] = 1)) <=> m >= n
    BY <1>2, <2>1, <2>2, <2>3
  <2>5. r.fullfilled \in BOOLEAN
    BY <1>3
  <2> QED
    BY <2>4, <2>5
<1> QED
  BY <1>4, <1>7, <1>8 DEF TallyAfter, r, n, D

\* The fold of CountSignature over the leaves that a signature signs, one step.
FoldStep(p, g, S, r) ==
  IF S = {} THEN r
  ELSE _changePolicyState(p, CHOOSE x \in S : TRUE, g[S \ {CHOOSE x \in S : TRUE}])

Folds(p, g, W, r) == g = [S \in SUBSET W |-> FoldStep(p, g, S, r)]

UpTo(W, k) == {S \in SUBSET W : Cardinality(S) <= k}

LEMMA OneLess ==
  ASSUME NEW S, IsFiniteSet(S), S # {}
  PROVE  LET x == CHOOSE x \in S : TRUE
         IN  /\ x \in S /\ IsFiniteSet(S \ {x})
             /\ Cardinality(S) \in Nat \ {0} /\ Cardinality(S \ {x}) = Cardinality(S) - 1
<1> DEFINE x == CHOOSE x \in S : TRUE
<1>1. x \in S
  OBVIOUS
<1> HIDE DEF x
<1>2. IsFiniteSet(S \ {x}) /\ Cardinality(S \ {x}) = Cardinality(S) - 1
  BY <1>1, FS_RemoveElement
<1>3. Cardinality(S) \in Nat /\ Cardinality(S) # 0
  BY FS_CardinalityType, FS_EmptySet
<1> QED
  BY <1>1, <1>2, <1>3 DEF x

\* The definition by recursion in the fold defines a function.
LEMMA FoldsExists ==
  ASSUME NEW p, NEW W, IsFiniteSet(W), NEW r
  PROVE  \E g : Folds(p, g, W, r)
<1> DEFINE N == {k \in Nat : \E g : g = [S \in UpTo(W, k) |-> FoldStep(p, g, S, r)]}
<1>0. ASSUME NEW S \in SUBSET W PROVE IsFiniteSet(S) /\ Cardinality(S) \in Nat
  BY FS_Subset, FS_CardinalityType
<1>1. 0 \in N
  <2> DEFINE g == [S \in UpTo(W, 0) |-> r]
  <2>1. ASSUME NEW S \in UpTo(W, 0) PROVE FoldStep(p, g, S, r) = r
    <3>1. S \in SUBSET W /\ Cardinality(S) <= 0
      BY DEF UpTo
    <3>2. IsFiniteSet(S) /\ Cardinality(S) = 0
      BY <1>0, <3>1
    <3>3. S = {}
      BY <3>2, FS_EmptySet
    <3> QED
      BY <3>3 DEF FoldStep
  <2>2. g = [S \in UpTo(W, 0) |-> FoldStep(p, g, S, r)]
    BY <2>1
  <2> HIDE DEF g
  <2> QED
    BY <2>2
<1>2. ASSUME NEW k \in N PROVE k + 1 \in N
  <2>1. PICK g : g = [S \in UpTo(W, k) |-> FoldStep(p, g, S, r)]
    OBVIOUS
  <2> DEFINE h == [S \in UpTo(W, k + 1) |-> IF Cardinality(S) <= k THEN g[S] ELSE FoldStep(p, g, S, r)]
  <2>2. k \in Nat
    OBVIOUS
  <2> HIDE DEF N
  <2>3. ASSUME NEW S \in UpTo(W, k) PROVE h[S] = g[S] /\ g[S] = FoldStep(p, g, S, r)
    <3>1. S \in UpTo(W, k + 1) /\ Cardinality(S) <= k
      BY <1>0, <2>2 DEF UpTo
    <3> QED
      BY <2>1, <3>1
  <2>4. ASSUME NEW S \in UpTo(W, k + 1) PROVE h[S] = FoldStep(p, g, S, r)
    <3>1. CASE Cardinality(S) <= k
      <4>1. S \in UpTo(W, k)
        BY <3>1 DEF UpTo
      <4> QED
        BY <2>3, <4>1
    <3>2. CASE ~(Cardinality(S) <= k)
      BY <3>2
    <3> QED
      BY <3>1, <3>2
  <2>5. ASSUME NEW S \in UpTo(W, k + 1) PROVE FoldStep(p, h, S, r) = FoldStep(p, g, S, r)
    <3>1. CASE S = {}
      BY <3>1 DEF FoldStep
    <3>2. CASE S # {}
      <4> DEFINE x == CHOOSE x \in S : TRUE
      <4>1. S \in SUBSET W /\ IsFiniteSet(S) /\ Cardinality(S) <= k + 1
        BY <1>0 DEF UpTo
      <4>2. Cardinality(S) \in Nat \ {0} /\ Cardinality(S \ {x}) = Cardinality(S) - 1
        BY <3>2, <4>1, OneLess
      <4> HIDE DEF x, h
      <4>3. S \ {x} \in SUBSET W /\ Cardinality(S \ {x}) <= k
        BY <2>2, <4>1, <4>2
      <4>4. S \ {x} \in UpTo(W, k)
        BY <4>3 DEF UpTo
      <4>5. h[S \ {x}] = g[S \ {x}]
        BY <2>3, <4>4
      <4> QED
        BY <3>2, <4>5 DEF FoldStep, x
    <3> QED
      BY <3>1, <3>2
  <2>6. h = [S \in UpTo(W, k + 1) |-> FoldStep(p, h, S, r)]
    <3>1. h = [S \in UpTo(W, k + 1) |-> h[S]]
      OBVIOUS
    <3> HIDE DEF h
    <3> QED
      BY <2>4, <2>5, <3>1
  <2> HIDE DEF h
  <2> QED
    BY <2>2, <2>6 DEF N
<1> HIDE DEF N
<1>3. N = Nat
  <2>1. N \in SUBSET Nat
    BY DEF N
  <2> QED
    BY <1>1, <1>2, <2>1, Induction
<1>4. UpTo(W, Cardinality(W)) = SUBSET W
  <2>1. ASSUME NEW S \in SUBSET W PROVE Cardinality(S) <= Cardinality(W)
    BY FS_Subset
  <2> QED
    BY <2>1 DEF UpTo
<1>5. Cardinality(W) \in N
  BY <1>3, FS_CardinalityType
<1> QED
  BY <1>4, <1>5 DEF N, Folds

Direct(S) == {l \in S : Len(l) = 2}

\* After the leaves of a set, the counters are lower by those directly under the root.
LEMMA FoldedLeaves ==
  ASSUME NEW p, IsPolicy(p), NEW W \in SUBSET DOMAIN p.signedBy, NEW k \in Nat,
         NEW g, Folds(p, g, W, TallyAfter(p, k))
  PROVE  /\ g[W] = TallyAfter(p, k + Cardinality(Direct(W)))
         /\ Cardinality(Direct(W)) \in Nat
<1> DEFINE N == {n \in Nat : \A S \in SUBSET W :
                   Cardinality(S) = n => g[S] = TallyAfter(p, k + Cardinality(Direct(S)))}
<1>0. ASSUME NEW S \in SUBSET W
      PROVE  /\ IsFiniteSet(S) /\ Cardinality(S) \in Nat
             /\ IsFiniteSet(Direct(S)) /\ Cardinality(Direct(S)) \in Nat
             /\ g[S] = FoldStep(p, g, S, TallyAfter(p, k))
  <2>1. IsFiniteSet(S)
    BY FS_Subset DEF IsPolicy
  <2>2. IsFiniteSet(Direct(S))
    <3>1. Direct(S) \subseteq S
      BY DEF Direct
    <3> QED
      BY <2>1, <3>1, FS_Subset
  <2> QED
    BY <2>1, <2>2, FS_CardinalityType DEF Folds
<1>1. 0 \in N
  <2> SUFFICES ASSUME NEW S \in SUBSET W, Cardinality(S) = 0
               PROVE  g[S] = TallyAfter(p, k + Cardinality(Direct(S)))
    OBVIOUS
  <2>1. S = {}
    BY <1>0, FS_EmptySet
  <2>2. Direct({}) = {}
    BY DEF Direct
  <2>3. Cardinality(Direct(S)) = 0
    BY <2>1, <2>2, FS_EmptySet
  <2>4. k + 0 = k
    OBVIOUS
  <2> QED
    BY <1>0, <2>1, <2>3, <2>4 DEF FoldStep
<1>2. ASSUME NEW n \in N PROVE n + 1 \in N
  <2> SUFFICES ASSUME NEW S \in SUBSET W, Cardinality(S) = n + 1
               PROVE  g[S] = TallyAfter(p, k + Cardinality(Direct(S)))
    OBVIOUS
  <2> DEFINE x == CHOOSE x \in S : TRUE
             T == S \ {x}
  <2>0. n \in Nat
    OBVIOUS
  <2>1. S # {}
    BY <2>0, FS_EmptySet
  <2>2. x \in S /\ Cardinality(T) = Cardinality(S) - 1
    BY <1>0, <2>1, OneLess
  <2>3. g[S] = _changePolicyState(p, x, g[T])
    BY <1>0, <2>1 DEF FoldStep
  <2>4. T \in SUBSET W /\ S = T \cup {x} /\ x \notin T
    BY <2>2
  <2> HIDE DEF x, T
  <2>5. Cardinality(T) = n
    BY <2>0, <2>2
  <2>6. g[T] = TallyAfter(p, k + Cardinality(Direct(T)))
    BY <2>4, <2>5
  <2>7. x \in DOMAIN p.signedBy /\ k + Cardinality(Direct(T)) \in Nat
    BY <1>0, <2>2, <2>4
  <2>8. g[S] = TallyAfter(p, IF Len(x) = 2 THEN k + Cardinality(Direct(T)) + 1
                          ELSE k + Cardinality(Direct(T)))
    BY <2>3, <2>6, <2>7, OneLeaf
  <2>9. CASE Len(x) = 2
    <3>1. Direct(S) = Direct(T) \cup {x} /\ x \notin Direct(T)
      BY <2>4, <2>9 DEF Direct
    <3>2. Cardinality(Direct(S)) = Cardinality(Direct(T)) + 1
      BY <1>0, <2>4, <3>1, FS_AddElement
    <3>3. k + Cardinality(Direct(T)) + 1 = k + Cardinality(Direct(S))
      BY <1>0, <2>4, <3>2
    <3> QED
      BY <2>8, <2>9, <3>3
  <2>10. CASE Len(x) # 2
    <3>1. Direct(S) = Direct(T)
      BY <2>4, <2>10 DEF Direct
    <3> QED
      BY <2>8, <2>10, <3>1
  <2> QED
    BY <2>9, <2>10
<1> HIDE DEF N
<1>3. N = Nat
  <2>1. N \in SUBSET Nat
    BY DEF N
  <2> QED
    BY <1>1, <1>2, <2>1, Induction
<1> QED
  BY <1>0, <1>3 DEF N

LEMMA OneSignature ==
  ASSUME NEW p, IsPolicy(p), NEW k \in Nat, NEW s
  PROVE  /\ Cardinality(RootLeaves(p, s)) \in Nat
         /\ CountSignature(p, s, TallyAfter(p, k))
              = TallyAfter(p, Cardinality(RootLeaves(p, s)) + k)
<1> DEFINE W == Wanted(p, s)
           r == TallyAfter(p, k)
           g == CHOOSE f : Folds(p, f, W, r)
<1>1. W \in SUBSET DOMAIN p.signedBy /\ RootLeaves(p, s) = Direct(W)
  BY DEF Wanted, RootLeaves, Direct, Chosen
<1>2. CountSignature(p, s, r)
        = LET f[S \in SUBSET W] ==
                IF S = {} THEN r
                ELSE _changePolicyState(p, CHOOSE x \in S : TRUE,
                                        f[S \ {CHOOSE x \in S : TRUE}])
          IN  f[W]
  BY DEF CountSignature, FoldSet, MapThenFoldSet
<1> HIDE DEF r, W
<1>3. CountSignature(p, s, r) = g[W]
  BY <1>2 DEF Folds, FoldStep
<1>4. IsFiniteSet(W)
  BY <1>1, FS_Subset DEF IsPolicy
<1>5. Folds(p, g, W, r)
  BY <1>4, FoldsExists
<1> HIDE DEF g
<1>6. g[W] = TallyAfter(p, k + Cardinality(Direct(W))) /\ Cardinality(Direct(W)) \in Nat
  BY <1>1, <1>5, FoldedLeaves DEF r
<1>7. k + Cardinality(Direct(W)) = Cardinality(Direct(W)) + k
  BY <1>6
<1> QED
  BY <1>1, <1>3, <1>6, <1>7 DEF r

SumStep(p, n, ss, i) ==
  IF i = 0 THEN 0 ELSE Cardinality(RootLeaves(p, ss[i])) + n[i - 1]

Sums(p, n, ss, k) == n = [i \in 0..k |-> SumStep(p, n, ss, i)]

\* The definition by recursion in RootLeavesSigned defines a function.
LEMMA SumsExists ==
  ASSUME NEW p, NEW ss, NEW k \in Nat
  PROVE  \E n : Sums(p, n, ss, k)
<1> DEFINE S == {m \in Nat : \E n : Sums(p, n, ss, m)}
<1>1. 0 \in S
  <2>1. Sums(p, [i \in 0..0 |-> 0], ss, 0)
    BY DEF Sums, SumStep
  <2> QED
    BY <2>1
<1>2. ASSUME NEW m \in S PROVE m + 1 \in S
  <2>1. PICK n : Sums(p, n, ss, m)
    OBVIOUS
  <2> DEFINE u == [i \in 0..m + 1 |-> IF i <= m THEN n[i] ELSE SumStep(p, n, ss, i)]
  <2>2. \A i \in 0..m : u[i] = n[i] /\ n[i] = SumStep(p, n, ss, i)
    <3>1. m \in Nat
      OBVIOUS
    <3>2. \A i \in 0..m : u[i] = n[i]
      <4>1. \A i \in 0..m : i \in 0..m + 1 /\ i <= m
        BY <3>1
      <4> QED
        BY <4>1
    <3> HIDE DEF u, S
    <3>3. \A i \in 0..m : n[i] = SumStep(p, n, ss, i)
      BY <2>1, Zenon DEF Sums
    <3> QED
      BY <3>2, <3>3
  <2>3. \A i \in 0..m + 1 : u[i] = SumStep(p, u, ss, i)
    <3>1. \A i \in 0..m + 1 : SumStep(p, u, ss, i) = SumStep(p, n, ss, i)
      BY <2>2 DEF SumStep
    <3>2. u[m + 1] = SumStep(p, n, ss, m + 1)
      OBVIOUS
    <3> HIDE DEF u
    <3>3. \A i \in 0..m + 1 : i \in 0..m \/ i = m + 1
      OBVIOUS
    <3> QED
      BY <2>2, <3>1, <3>2, <3>3
  <2> HIDE DEF u
  <2>4. Sums(p, u, ss, m + 1)
    <3>1. u = [i \in 0..m + 1 |-> u[i]]
      BY DEF u
    <3> QED
      BY <2>3, <3>1 DEF Sums
  <2> QED
    BY <2>4
<1> HIDE DEF S
<1>3. S = Nat
  <2>1. S \in SUBSET Nat
    BY DEF S
  <2> QED
    BY <1>1, <1>2, <2>1, Induction
<1> QED
  BY <1>3 DEF S

\* The sums are the last ones of such a function.
LEMMA SumsFacts ==
  ASSUME NEW p, NEW T, NEW ss \in Seq(T)
  PROVE  \E n : Sums(p, n, ss, Len(ss)) /\ RootLeavesSigned(p, ss) = n[Len(ss)]
<1> DEFINE n == CHOOSE f : Sums(p, f, ss, Len(ss))
<1>1. Sums(p, n, ss, Len(ss))
  BY SumsExists
<1>2. RootLeavesSigned(p, ss) = n[Len(ss)]
  BY DEF RootLeavesSigned, Sums, SumStep
<1> HIDE DEF n
<1> QED
  BY <1>1, <1>2

LEMMA NoSignatures == ASSUME NEW p PROVE RootLeavesSigned(p, <<>>) = 0
<1>1. <<>> \in Seq({}) /\ Len(<<>>) = 0
  OBVIOUS
<1>2. PICK n : Sums(p, n, <<>>, Len(<<>>)) /\ RootLeavesSigned(p, <<>>) = n[Len(<<>>)]
  BY <1>1, SumsFacts
<1>3. n[0] = SumStep(p, n, <<>>, 0)
  BY <1>1, <1>2 DEF Sums
<1> QED
  BY <1>1, <1>2, <1>3 DEF SumStep

\* A sequence with one signature more has the same sums before it.
LEMMA SameSums ==
  ASSUME NEW p, NEW ss, NEW qs, NEW k \in Nat, \A i \in 1..k : qs[i] = ss[i]
  PROVE  \A n, u : Sums(p, n, ss, k) /\ Sums(p, u, qs, k + 1) => u[k] = n[k]
<1> SUFFICES ASSUME NEW n, Sums(p, n, ss, k), NEW u, Sums(p, u, qs, k + 1)
             PROVE  u[k] = n[k]
  OBVIOUS
<1> DEFINE S == {i \in Nat : i <= k => u[i] = n[i]}
<1>1. /\ \A i \in 0..k : n[i] = SumStep(p, n, ss, i)
      /\ \A i \in 0..k + 1 : u[i] = SumStep(p, u, qs, i)
  BY DEF Sums
<1>2. 0 \in S
  BY <1>1 DEF SumStep
<1>3. ASSUME NEW i \in S PROVE i + 1 \in S
  <2> SUFFICES ASSUME i + 1 <= k PROVE u[i + 1] = n[i + 1]
    OBVIOUS
  <2>1. i + 1 \in 0..k /\ i + 1 \in 0..k + 1 /\ i + 1 \in 1..k /\ i + 1 # 0 /\ (i + 1) - 1 = i
    OBVIOUS
  <2>2. u[i + 1] = SumStep(p, u, qs, i + 1) /\ n[i + 1] = SumStep(p, n, ss, i + 1)
    BY <1>1, <2>1
  <2>3. u[i] = n[i] /\ qs[i + 1] = ss[i + 1]
    BY <2>1
  <2> QED
    BY <2>1, <2>2, <2>3 DEF SumStep
<1> HIDE DEF S
<1>4. S = Nat
  <2>1. S \in SUBSET Nat
    BY DEF S
  <2> QED
    BY <1>2, <1>3, <2>1, Induction
<1> QED
  BY <1>4 DEF S

LEMMA OneMoreSignature ==
  ASSUME NEW p, NEW T, NEW ss \in Seq(T), NEW s \in T
  PROVE  RootLeavesSigned(p, Append(ss, s))
           = Cardinality(RootLeaves(p, s)) + RootLeavesSigned(p, ss)
<1> DEFINE qs == Append(ss, s)
           k == Len(ss)
<1>1. /\ qs \in Seq(T) /\ k \in Nat /\ Len(qs) = k + 1
      /\ \A i \in 1..k : qs[i] = ss[i]
      /\ qs[k + 1] = s
  OBVIOUS
<1> HIDE DEF qs
<1>2. PICK n : Sums(p, n, ss, k) /\ RootLeavesSigned(p, ss) = n[k]
  BY SumsFacts
<1>3. PICK u : Sums(p, u, qs, k + 1) /\ RootLeavesSigned(p, qs) = u[k + 1]
  BY <1>1, SumsFacts
<1>4. u[k] = n[k]
  <2> HIDE DEF k
  <2> QED
    BY <1>1, <1>2, <1>3, SameSums
<1>5. u[k + 1] = SumStep(p, u, qs, k + 1)
  BY <1>1, <1>3 DEF Sums
<1>6. SumStep(p, u, qs, k + 1) = Cardinality(RootLeaves(p, s)) + u[k]
  BY <1>1 DEF SumStep
<1> QED
  BY <1>2, <1>3, <1>4, <1>5, <1>6 DEF qs

-------------------------------------------------------------------------------
(* Signatures accepted one after another. *)

Counted(p, r, ss) ==
  RootLeavesSigned(p, ss) \in Nat /\ r = TallyAfter(p, RootLeavesSigned(p, ss))

\* Before the first signature.
LEMMA CountedNone ==
  ASSUME NEW p, IsPolicy(p)
  PROVE  Counted(p, formateRootPolicy(p), <<>>)
BY NoSignatures, NothingSigned DEF Counted

\* One more.
LEMMA CountedOneMore ==
  ASSUME NEW p, IsPolicy(p), NEW T, NEW ss \in Seq(T), NEW s \in T, NEW r, Counted(p, r, ss)
  PROVE  Counted(p, CountSignature(p, s, r), Append(ss, s))
<1> DEFINE k == RootLeavesSigned(p, ss)
           c == Cardinality(RootLeaves(p, s))
<1>1. k \in Nat /\ r = TallyAfter(p, k)
  BY DEF Counted
<1>2. RootLeavesSigned(p, Append(ss, s)) = c + k
  BY OneMoreSignature
<1> HIDE DEF k
<1>3. c \in Nat /\ CountSignature(p, s, TallyAfter(p, k)) = TallyAfter(p, c + k)
  BY <1>1, OneSignature
<1> HIDE DEF c
<1>4. c + k \in Nat
  BY <1>1, <1>3
<1> QED
  BY <1>1, <1>2, <1>3, <1>4 DEF Counted

LEMMA CountedCounts ==
  ASSUME NEW p, IsPolicy(p), NEW r, NEW ss, Counted(p, r, ss)
  PROVE  CountsLeaves(p, r, ss)
<1> DEFINE k == RootLeavesSigned(p, ss)
<1>1. r = TallyAfter(p, k)
  BY DEF Counted
<1> HIDE DEF k
<1>2. TallyAfter(p, k).fullfilled <=> k >= p.nOf[Root]
  BY DEF TallyAfter
<1>3. TallyAfter(p, k).count[Root] = p.nOf[Root] - k
  BY DEF TallyAfter, IsPolicy
<1> QED
  BY <1>1, <1>2, <1>3 DEF CountsLeaves, k

-------------------------------------------------------------------------------
(* When the counters decide the policy as Fabric does. *)

Satisfiable(p, signers) == {i \in DOMAIN p.identities : \E s \in signers : i \in Candidates(p, s)}

LeavesOf(p, ids) == {l \in DOMAIN p.signedBy : p.signedBy[l] \in ids}

LEMMA LeavesOfFinite ==
  ASSUME NEW p, IsPolicy(p), NEW ids
  PROVE  IsFiniteSet(LeavesOf(p, ids)) /\ Cardinality(LeavesOf(p, ids)) \in Nat
<1>1. LeavesOf(p, ids) \subseteq DOMAIN p.signedBy
  BY DEF LeavesOf
<1> QED
  BY <1>1, FS_Subset, FS_CardinalityType DEF IsPolicy

\* In a plain policy the leaves are the nodes directly under the root.
LEMMA PlainLeaves ==
  ASSUME NEW p, IsPolicy(p), Plain(p), NEW l \in DOMAIN p.signedBy
  PROVE  Len(l) = 2 /\ IsStrictPrefix(Root, l) /\ l # Root
<1>1. l \in Seq(Nat) /\ Len(l) > 1 /\ l[1] = 0 /\ Front(l) = Root
  BY DEF IsPolicy, Plain
<1>2. Len(Root) = 1
  BY DEF Root
<1>3. Len(Front(l)) = Len(l) - 1 /\ IsStrictPrefix(Root, l)
  BY <1>1, FrontFacts
<1>4. Len(l) = 2
  <2>1. PICK n : n = Len(l)
    OBVIOUS
  <2>2. Len(l) \in Nat /\ Len(l) - 1 = 1
    <3>1. Len(l) \in Nat
      BY <1>1
    <3>2. Len(Front(l)) = Len(Root)
      BY <1>1
    <3>3. Len(l) - 1 = Len(Root)
      BY <1>3, <3>2
    <3> QED
      BY <1>2, <3>1, <3>3
  <2>3. n \in Nat /\ n - 1 = 1
    BY <2>1, <2>2
  <2>4. n = 2
    BY <2>3
  <2> QED
    BY <2>1, <2>4
<1> QED
  BY <1>3, <1>4 DEF IsStrictPrefix

\* What Fabric evaluates in a plain policy: the leaves, in their order.
Leaf(k) == Append(Root, k - 1)

PlainPolicies(p, ss) == [k \in 1..p.rules[Root] |-> SignedBy(p, ss, p.signedBy[Leaf(k)])]

LEMMA PlainRules ==
  ASSUME NEW p, IsPolicy(p), Plain(p)
  PROVE  /\ p.rules[Root] \in Nat /\ Root \notin DOMAIN p.signedBy
         /\ DOMAIN p.signedBy = {Leaf(k) : k \in 1..p.rules[Root]}
         /\ \A j, k \in 1..p.rules[Root] : Leaf(j) = Leaf(k) => j = k
<1>1. p.rules[Root] \in Nat
  BY DEF IsPolicy, Plain
<1>2. Root \notin DOMAIN p.signedBy
  BY PlainLeaves
<1>3. DOMAIN p.signedBy = {Leaf(k) : k \in 1..p.rules[Root]}
  <2>1. {b \in (DOMAIN p.nOf \ {Root}) \cup DOMAIN p.signedBy : Front(b) = Root}
          = {Leaf(k) : k \in 1..p.rules[Root]}
    BY DEF IsPolicy, Leaf
  <2>2. (DOMAIN p.nOf \ {Root}) \cup DOMAIN p.signedBy = DOMAIN p.signedBy
    BY DEF Plain
  <2>3. \A b \in DOMAIN p.signedBy : Front(b) = Root
    BY DEF IsPolicy, Plain
  <2> QED
    BY <2>1, <2>2, <2>3
<1>4. ASSUME NEW j \in 1..p.rules[Root], NEW k \in 1..p.rules[Root], Leaf(j) = Leaf(k)
      PROVE  j = k
  <2>1. j \in Nat /\ k \in Nat
    BY <1>1
  <2>2. Root \in Seq(Nat) /\ Len(Root) = 1
    BY DEF Root
  <2>3. Leaf(j)[2] = j - 1 /\ Leaf(k)[2] = k - 1
    <3>1. ASSUME NEW r \in Seq(Nat), Len(r) = 1, NEW n \in Nat
          PROVE  Append(r, n)[2] = n
      <4>1. Append(r, n)[Len(r) + 1] = n
        OBVIOUS
      <4> QED
        BY <3>1, <4>1
    <3>2. j - 1 \in Nat /\ k - 1 \in Nat
      BY <1>1
    <3> QED
      BY <2>2, <3>1, <3>2 DEF Leaf
  <2> QED
    BY <1>4, <2>1, <2>3
<1> QED
  BY <1>1, <1>2, <1>3, <1>4

LEMMA CompilePlain ==
  ASSUME NEW p, IsPolicy(p), Plain(p), NEW ss
  PROVE  Satisfied(p, ss) = NOutOfRules(p.nOf[Root], PlainPolicies(p, ss), ss)[{}].holds
<1> DEFINE leaves == DOMAIN p.signedBy
           nodes == DOMAIN p.nOf \cup leaves
           rules(h, a) == [k \in 1..p.rules[a] |-> h[Append(a, k - 1)]]
           Node(h, a) == IF a \in leaves THEN SignedBy(p, ss, p.signedBy[a])
                         ELSE NOutOfRules(p.nOf[a], rules(h, a), ss)
           f == [a \in nodes |-> IF a \in leaves THEN SignedBy(p, ss, p.signedBy[a])
                                 ELSE NOutOfRules(p.nOf[a], PlainPolicies(p, ss), ss)]
           h == CHOOSE g : g = [a \in nodes |-> Node(g, a)]
<1>1. nodes = {Root} \cup leaves /\ Root \notin leaves
  BY PlainRules DEF Plain
<1>2. Satisfied(p, ss) = h[Root][{}].holds
  BY DEF Satisfied
<1>3. ASSUME NEW g, \A l \in leaves : g[l] = SignedBy(p, ss, p.signedBy[l])
      PROVE  rules(g, Root) = PlainPolicies(p, ss)
  <2>1. \A k \in 1..p.rules[Root] : g[Leaf(k)] = SignedBy(p, ss, p.signedBy[Leaf(k)])
    BY <1>3, PlainRules
  <2>2. rules(g, Root) = [k \in 1..p.rules[Root] |-> g[Leaf(k)]]
    BY DEF Leaf
  <2> HIDE DEF rules
  <2> QED
    BY <2>1, <2>2 DEF PlainPolicies
<1>4. f = [a \in nodes |-> Node(f, a)]
  <2>1. \A l \in leaves : f[l] = SignedBy(p, ss, p.signedBy[l])
    OBVIOUS
  <2>2. f[Root] = NOutOfRules(p.nOf[Root], PlainPolicies(p, ss), ss)
    BY <1>1
  <2>3. f = [a \in nodes |-> f[a]]
    OBVIOUS
  <2> HIDE DEF f, nodes, rules
  <2>4. rules(f, Root) = PlainPolicies(p, ss)
    BY <1>3, <2>1
  <2>5. \A a \in nodes : Node(f, a) = f[a]
    BY <1>1, <2>1, <2>2, <2>4
  <2> HIDE DEF Node
  <2> QED
    BY <2>3, <2>5
<1>5. h = [a \in nodes |-> Node(h, a)]
  <2> HIDE DEF f, nodes, Node
  <2> QED
    BY <1>4
<1> HIDE DEF f, h, nodes, rules
<1>6. \A l \in leaves : h[l] = SignedBy(p, ss, p.signedBy[l])
  <2>1. \A l \in leaves : h[l] = Node(h, l)
    <3> HIDE DEF Node
    <3> QED
      BY <1>1, <1>5
  <2> QED
    BY <2>1
<1>7. h[Root] = NOutOfRules(p.nOf[Root], rules(h, Root), ss)
  <2>1. h[Root] = Node(h, Root)
    <3> HIDE DEF Node
    <3> QED
      BY <1>1, <1>5
  <2> QED
    BY <1>1, <2>1
<1> QED
  BY <1>2, <1>3, <1>6, <1>7

\* An n-of evaluates one rule after the other.
AfterStep(policies, v, used, k) ==
  IF k = 0 THEN [verified |-> 0, used |-> used]
  ELSE LET res == policies[k][v[k - 1].used]
       IN  IF res.holds THEN [verified |-> v[k - 1].verified + 1, used |-> res.used]
           ELSE v[k - 1]

Afters(policies, v, used, m) == v = [k \in 0..m |-> AfterStep(policies, v, used, k)]

LEMMA AftersExist ==
  ASSUME NEW policies, NEW used, NEW m \in Nat
  PROVE  \E v : Afters(policies, v, used, m)
<1> DEFINE S == {k \in Nat : \E v : Afters(policies, v, used, k)}
<1>1. 0 \in S
  <2>1. Afters(policies, [k \in 0..0 |-> [verified |-> 0, used |-> used]], used, 0)
    BY DEF Afters, AfterStep
  <2> QED
    BY <2>1
<1>2. ASSUME NEW k \in S PROVE k + 1 \in S
  <2>1. PICK v : Afters(policies, v, used, k)
    OBVIOUS
  <2> DEFINE u == [i \in 0..k + 1 |-> IF i <= k THEN v[i] ELSE AfterStep(policies, v, used, i)]
  <2>2. \A i \in 0..k : u[i] = v[i] /\ v[i] = AfterStep(policies, v, used, i)
    <3>1. \A i \in 0..k : v[i] = AfterStep(policies, v, used, i)
      BY <2>1 DEF Afters
    <3> QED
      BY <3>1
  <2>3. \A i \in 0..k + 1 : u[i] = AfterStep(policies, u, used, i)
    <3>1. ASSUME NEW i \in 0..k + 1
          PROVE  AfterStep(policies, u, used, i) = AfterStep(policies, v, used, i)
      <4>1. i # 0 => u[i - 1] = v[i - 1]
        BY <2>2
      <4> HIDE DEF u
      <4> QED
        BY <4>1 DEF AfterStep
    <3>2. u[k + 1] = AfterStep(policies, v, used, k + 1)
      OBVIOUS
    <3> HIDE DEF u
    <3>3. \A i \in 0..k + 1 : i \in 0..k \/ i = k + 1
      OBVIOUS
    <3> QED
      BY <2>2, <3>1, <3>2, <3>3
  <2>4. u = [i \in 0..k + 1 |-> u[i]]
    OBVIOUS
  <2> HIDE DEF u
  <2>5. Afters(policies, u, used, k + 1)
    BY <2>3, <2>4 DEF Afters
  <2> QED
    BY <2>5
<1> HIDE DEF S
<1>3. S = Nat
  <2>1. S \in SUBSET Nat
    BY DEF S
  <2> QED
    BY <1>1, <1>2, <2>1, Induction
<1> QED
  BY <1>3 DEF S

\* The first unused signature of a leaf's identity, if there is one, is used for it.
Fit(p, ss, k, used) ==
  {j \in (1..Len(ss)) \ used : SatisfiesPrincipal(ss[j], p.identities[p.signedBy[Leaf(k)]])}

Evaluates(p, ss, v) ==
  /\ v[0] = [verified |-> 0, used |-> {}]
  /\ \A k \in 1..p.rules[Root] : v[k - 1].used \in SUBSET (1..Len(ss)) =>
       \/ Fit(p, ss, k, v[k - 1].used) = {} /\ v[k] = v[k - 1]
       \/ \E j \in Fit(p, ss, k, v[k - 1].used) :
            v[k] = [verified |-> v[k - 1].verified + 1, used |-> v[k - 1].used \cup {j}]
  /\ Satisfied(p, ss) <=> v[p.rules[Root]].verified >= p.nOf[Root]

LEMMA PlainEvaluation ==
  ASSUME NEW p, IsPolicy(p), Plain(p), NEW T, NEW ss \in Seq(T)
  PROVE  \E v : Evaluates(p, ss, v)
<1> DEFINE m == p.rules[Root]
           R == PlainPolicies(p, ss)
           v == CHOOSE v : Afters(R, v, {}, Len(R))
<1>1. m \in Nat
  BY PlainRules
<1>2. Len(R) = m
  BY <1>1 DEF PlainPolicies
<1>3. Satisfied(p, ss) = (v[Len(R)].verified >= p.nOf[Root])
  <2> DEFINE n == p.nOf[Root]
  <2>1. {} \in SUBSET (1..Len(ss))
    OBVIOUS
  <2> HIDE DEF R, n
  <2>2. NOutOfRules(n, R, ss)[{}].holds = (v[Len(R)].verified >= n)
    BY <2>1 DEF NOutOfRules, Afters, AfterStep
  <2> QED
    BY <2>2, CompilePlain DEF R, n
<1>4. Afters(R, v, {}, Len(R))
  <2> HIDE DEF R
  <2>1. Len(R) \in Nat
    BY <1>1, <1>2
  <2> QED
    BY <2>1, AftersExist
<1> HIDE DEF v
<1>5. \A k \in 0..m : v[k] = AfterStep(R, v, {}, k)
  <2> HIDE DEF R
  <2>1. \A k \in 0..Len(R) : v[k] = AfterStep(R, v, {}, k)
    BY <1>4 DEF Afters
  <2> QED
    BY <1>2, <2>1
<1>6. v[0] = [verified |-> 0, used |-> {}]
  <2> HIDE DEF R
  <2>1. 0 \in 0..m
    BY <1>1
  <2>2. v[0] = AfterStep(R, v, {}, 0)
    BY <1>5, <2>1
  <2> QED
    BY <2>2 DEF AfterStep
<1>7. ASSUME NEW k \in 1..m, v[k - 1].used \in SUBSET (1..Len(ss))
      PROVE  \/ Fit(p, ss, k, v[k - 1].used) = {} /\ v[k] = v[k - 1]
             \/ \E j \in Fit(p, ss, k, v[k - 1].used) :
                  v[k] = [verified |-> v[k - 1].verified + 1, used |-> v[k - 1].used \cup {j}]
  <2> DEFINE used == v[k - 1].used
             fit == Fit(p, ss, k, used)
             res == R[k][used]
  <2>1. res = IF fit = {} THEN [holds |-> FALSE, used |-> used]
              ELSE [holds |-> TRUE, used |-> used \cup {Min(fit)}]
    <3>1. R[k] = SignedBy(p, ss, p.signedBy[Leaf(k)])
      BY DEF PlainPolicies
    <3> HIDE DEF R, used
    <3> QED
      BY <1>7, <3>1 DEF SignedBy, Fit, used
  <2>2. v[k] = IF res.holds THEN [verified |-> v[k - 1].verified + 1, used |-> res.used]
               ELSE v[k - 1]
    <3> HIDE DEF R
    <3>1. k \in 0..m /\ k # 0
      BY <1>1
    <3> QED
      BY <1>5, <3>1 DEF AfterStep
  <2>3. fit # {} => Min(fit) \in fit
    <3> SUFFICES ASSUME fit # {} PROVE Min(fit) \in fit
      OBVIOUS
    <3>1. fit \in SUBSET Nat
      BY DEF Fit
    <3> HIDE DEF fit
    <3>2. \E x \in fit : \A y \in fit : x <= y
      BY <3>1, Least
    <3> QED
      BY <3>2 DEF Min
  <2> HIDE DEF fit, res, used
  <2>4. CASE fit = {}
    BY <2>1, <2>2, <2>4 DEF fit, used
  <2>5. CASE fit # {}
    BY <2>1, <2>2, <2>3, <2>5 DEF fit, used
  <2> QED
    BY <2>4, <2>5
<1>8. Satisfied(p, ss) <=> v[m].verified >= p.nOf[Root]
  <2> HIDE DEF R, m
  <2> QED
    BY <1>2, <1>3
<1>9. Evaluates(p, ss, v)
  BY <1>6, <1>7, <1>8 DEF Evaluates
<1> QED
  BY <1>9

LEMMA OneMore ==
  ASSUME NEW B, IsFiniteSet(B), NEW x
  PROVE  /\ IsFiniteSet(B \cup {x}) /\ Cardinality(B) \in Nat /\ Cardinality(B \cup {x}) \in Nat
         /\ Cardinality(B \cup {x}) <= Cardinality(B) + 1
<1>1. IsFiniteSet(B \cup {x})
  BY FS_AddElement
<1>2. Cardinality(B) \in Nat
  BY FS_CardinalityType
<1>3. Cardinality(B \cup {x}) = Cardinality(B) \/ Cardinality(B \cup {x}) = Cardinality(B) + 1
  BY FS_AddElement
<1> QED
  BY <1>1, <1>2, <1>3

\* Signatures that sign some leaf sign as many at least.
Signing(p, ss, k) == {i \in 1..k : RootLeaves(p, ss[i]) # {}}

LEMMA SigningSigned ==
  ASSUME NEW p, IsPolicy(p), NEW T, NEW ss \in Seq(T)
  PROVE  /\ IsFiniteSet(Signing(p, ss, Len(ss)))
         /\ RootLeavesSigned(p, ss) \in Nat
         /\ Cardinality(Signing(p, ss, Len(ss))) <= RootLeavesSigned(p, ss)
<1>1. PICK n : Sums(p, n, ss, Len(ss)) /\ RootLeavesSigned(p, ss) = n[Len(ss)]
  BY SumsFacts
<1> DEFINE OK(k) == /\ IsFiniteSet(Signing(p, ss, k)) /\ n[k] \in Nat
                    /\ Cardinality(Signing(p, ss, k)) <= n[k]
           S == {k \in Nat : k <= Len(ss) => OK(k)}
<1>2. \A k \in 0..Len(ss) : n[k] = SumStep(p, n, ss, k)
  BY <1>1 DEF Sums
<1>3. 0 \in S
  <2>1. Signing(p, ss, 0) = {}
    BY DEF Signing
  <2>2. n[0] = 0
    BY <1>2 DEF SumStep
  <2>3. IsFiniteSet({}) /\ Cardinality({}) = 0
    BY FS_EmptySet
  <2>4. OK(0)
    <3>1. IsFiniteSet(Signing(p, ss, 0)) /\ Cardinality(Signing(p, ss, 0)) = 0
      BY <2>1, <2>3
    <3> QED
      BY <2>2, <3>1
  <2> QED
    BY <2>4
<1>4. ASSUME NEW k \in S PROVE k + 1 \in S
  <2> SUFFICES ASSUME k + 1 <= Len(ss) PROVE OK(k + 1)
    OBVIOUS
  <2> DEFINE L == RootLeaves(p, ss[k + 1])
             B == Signing(p, ss, k)
  <2>1. IsFiniteSet(B) /\ n[k] \in Nat /\ Cardinality(B) <= n[k]
    OBVIOUS
  <2>2. n[k + 1] = Cardinality(L) + n[k]
    BY <1>2 DEF SumStep
  <2>3. IsFiniteSet(L) /\ Cardinality(L) \in Nat
    <3>1. L \subseteq DOMAIN p.signedBy
      BY DEF RootLeaves
    <3> QED
      BY <3>1, FS_Subset, FS_CardinalityType DEF IsPolicy
  <2>4. Signing(p, ss, k + 1) = IF L = {} THEN B ELSE B \cup {k + 1}
    <3>1. 1..k + 1 = 1..k \cup {k + 1}
      OBVIOUS
    <3> QED
      BY <3>1 DEF Signing
  <2>5. L # {} => Cardinality(L) >= 1
    BY <2>3, FS_EmptySet
  <2>6. /\ IsFiniteSet(B \cup {k + 1}) /\ Cardinality(B) \in Nat
        /\ Cardinality(B \cup {k + 1}) \in Nat
        /\ Cardinality(B \cup {k + 1}) <= Cardinality(B) + 1
    BY <2>1, OneMore
  <2> HIDE DEF L, B
  <2>7. CASE L = {}
    <3>1. Signing(p, ss, k + 1) = B
      BY <2>4, <2>7
    <3>2. n[k + 1] \in Nat /\ n[k] <= n[k + 1]
      BY <2>1, <2>2, <2>3
    <3>3. Cardinality(B) <= n[k + 1]
      BY <2>1, <2>6, <3>2
    <3> QED
      BY <2>1, <3>1, <3>2, <3>3
  <2>8. CASE L # {}
    <3>1. Signing(p, ss, k + 1) = B \cup {k + 1}
      BY <2>4, <2>8
    <3>2. n[k + 1] \in Nat /\ n[k] + 1 <= n[k + 1]
      BY <2>1, <2>2, <2>3, <2>5, <2>8
    <3>3. Cardinality(B \cup {k + 1}) <= n[k + 1]
      BY <2>1, <2>6, <3>2
    <3> QED
      BY <2>6, <3>1, <3>2, <3>3
  <2> QED
    BY <2>7, <2>8
<1> HIDE DEF S
<1>5. S = Nat
  <2>1. S \in SUBSET Nat
    BY DEF S
  <2> QED
    BY <1>3, <1>4, <2>1, Induction
<1>6. OK(Len(ss))
  BY <1>5 DEF S
<1> QED
  BY <1>1, <1>6

\* In a plain policy a signature signs the leaves of its candidates.
LEMMA PlainSignature ==
  ASSUME NEW p, IsPolicy(p), Plain(p), NEW s
  PROVE  RootLeaves(p, s) = LeavesOf(p, Candidates(p, s))
<1>1. CASE Candidates(p, s) = {}
  BY <1>1 DEF RootLeaves, LeavesOf
<1>2. CASE Candidates(p, s) # {}
  <2>1. PICK i : i \in Candidates(p, s)
    BY <1>2
  <2>2. Candidates(p, s) = {i}
    BY <2>1 DEF Candidates, Plain
  <2>3. i \in Nat
    BY <2>1 DEF Candidates, IsPolicy
  <2>4. Max({i}) = i
    BY <2>3 DEF Max
  <2>5. \A l \in DOMAIN p.signedBy : Len(l) = 2
    BY PlainLeaves
  <2> QED
    BY <1>2, <2>2, <2>4, <2>5 DEF RootLeaves, LeavesOf
<1> QED
  BY <1>1, <1>2

\* Fabric verifies no more leaves than are signed.
LEMMA SatisfiedSigned ==
  ASSUME NEW p, IsPolicy(p), Plain(p), NEW T, NEW ss \in Seq(T), Satisfied(p, ss)
  PROVE  RootLeavesSigned(p, ss) >= p.nOf[Root]
<1> DEFINE m == p.rules[Root]
           A == Signing(p, ss, Len(ss))
<1>e. PICK v : Evaluates(p, ss, v)
  BY PlainEvaluation
<1>1. /\ v[0] = [verified |-> 0, used |-> {}]
      /\ \A k \in 1..m : v[k - 1].used \in SUBSET (1..Len(ss)) =>
           \/ Fit(p, ss, k, v[k - 1].used) = {} /\ v[k] = v[k - 1]
           \/ \E j \in Fit(p, ss, k, v[k - 1].used) :
                v[k] = [verified |-> v[k - 1].verified + 1, used |-> v[k - 1].used \cup {j}]
      /\ Satisfied(p, ss) <=> v[m].verified >= p.nOf[Root]
  BY <1>e DEF Evaluates
<1>2. m \in Nat /\ p.nOf[Root] \in Nat
  BY PlainRules DEF IsPolicy
<1>3. /\ IsFiniteSet(A) /\ A \subseteq 1..Len(ss)
      /\ RootLeavesSigned(p, ss) \in Nat /\ Cardinality(A) <= RootLeavesSigned(p, ss)
  BY SigningSigned DEF Signing
<1> DEFINE OK(k) == v[k].used \subseteq A /\ v[k].verified = Cardinality(v[k].used)
           S == {k \in Nat : k <= m => OK(k)}
<1>4. 0 \in S
  <2>1. Cardinality({}) = 0
    BY FS_EmptySet
  <2>2. OK(0)
    BY <1>1, <2>1
  <2> QED
    BY <2>2
<1>5. ASSUME NEW k \in S PROVE k + 1 \in S
  <2> SUFFICES ASSUME k + 1 <= m PROVE OK(k + 1)
    OBVIOUS
  <2> DEFINE used == v[k].used
  <2>1. used \subseteq A /\ v[k].verified = Cardinality(used) /\ used \in SUBSET (1..Len(ss))
    BY <1>2, <1>3
  <2>2. k + 1 \in 1..m /\ (k + 1) - 1 = k
    BY <1>2
  <2>3. \/ v[k + 1] = v[k]
        \/ \E j \in Fit(p, ss, k + 1, used) :
             v[k + 1] = [verified |-> v[k].verified + 1, used |-> used \cup {j}]
    BY <1>1, <2>1, <2>2
  <2>4. ASSUME NEW j \in Fit(p, ss, k + 1, used),
               v[k + 1] = [verified |-> v[k].verified + 1, used |-> used \cup {j}]
        PROVE  OK(k + 1)
    <3> DEFINE l == Leaf(k + 1)
    <3>1. l \in DOMAIN p.signedBy
      BY <2>2, PlainRules
    <3>2. j \in (1..Len(ss)) \ used /\ SatisfiesPrincipal(ss[j], p.identities[p.signedBy[l]])
      BY DEF Fit
    <3>3. p.signedBy[l] \in Candidates(p, ss[j])
      BY <3>1, <3>2 DEF SatisfiesPrincipal, Candidates, Plain
    <3>4. l \in RootLeaves(p, ss[j])
      BY <3>1, <3>3, PlainSignature DEF LeavesOf
    <3>5. j \in A
      BY <3>2, <3>4 DEF Signing
    <3>6. IsFiniteSet(used)
      BY <1>3, <2>1, FS_Subset
    <3>7. Cardinality(used \cup {j}) = Cardinality(used) + 1
      BY <3>2, <3>6, FS_AddElement
    <3> HIDE DEF A, l
    <3> QED
      BY <2>1, <2>4, <3>5, <3>7
  <2>5. CASE v[k + 1] = v[k]
    BY <2>1, <2>5
  <2> QED
    BY <2>3, <2>4, <2>5
<1> HIDE DEF S
<1>6. S = Nat
  <2>1. S \in SUBSET Nat
    BY DEF S
  <2> QED
    BY <1>4, <1>5, <2>1, Induction
<1>7. OK(m)
  BY <1>2, <1>6 DEF S
<1>8. Cardinality(v[m].used) <= Cardinality(A) /\ Cardinality(v[m].used) \in Nat /\ Cardinality(A) \in Nat
  BY <1>3, <1>7, FS_Subset, FS_CardinalityType
<1> QED
  BY <1>1, <1>2, <1>3, <1>7, <1>8

\* Where no identity is wanted twice, it verifies every leaf that a signature satisfies.
LEMMA SignedSatisfied ==
  ASSUME NEW p, IsPolicy(p), Plain(p), NEW T, NEW ss \in Seq(T),
         \A l, m \in DOMAIN p.signedBy : p.signedBy[l] = p.signedBy[m] => l = m,
         Cardinality(LeavesOf(p, Satisfiable(p, ToSet(ss)))) >= p.nOf[Root]
  PROVE  Satisfied(p, ss)
<1> DEFINE m == p.rules[Root]
           A == LeavesOf(p, Satisfiable(p, ToSet(ss)))
           F(k) == {l \in A : \E i \in 1..k : l = Leaf(i)}
           wants(i) == p.identities[p.signedBy[Leaf(i)]]
<1>e. PICK v : Evaluates(p, ss, v)
  BY PlainEvaluation
<1>1. /\ v[0] = [verified |-> 0, used |-> {}]
      /\ \A k \in 1..m : v[k - 1].used \in SUBSET (1..Len(ss)) =>
           \/ Fit(p, ss, k, v[k - 1].used) = {} /\ v[k] = v[k - 1]
           \/ \E j \in Fit(p, ss, k, v[k - 1].used) :
                v[k] = [verified |-> v[k - 1].verified + 1, used |-> v[k - 1].used \cup {j}]
      /\ Satisfied(p, ss) <=> v[m].verified >= p.nOf[Root]
  BY <1>e DEF Evaluates
<1>2. m \in Nat /\ p.nOf[Root] \in Nat
  BY PlainRules DEF IsPolicy
<1>3. IsFiniteSet(A) /\ A \subseteq DOMAIN p.signedBy
  BY LeavesOfFinite DEF LeavesOf
<1> DEFINE OK(k) == /\ v[k].used \in SUBSET (1..Len(ss)) /\ v[k].verified \in Nat
                    /\ IsFiniteSet(F(k)) /\ Cardinality(F(k)) <= v[k].verified
                    /\ \A j \in v[k].used : \E i \in 1..k : SatisfiesPrincipal(ss[j], wants(i))
           S == {k \in Nat : k <= m => OK(k)}
<1>4. 0 \in S
  <2>1. F(0) = {}
    OBVIOUS
  <2>2. IsFiniteSet({}) /\ Cardinality({}) = 0
    BY FS_EmptySet
  <2>3. OK(0)
    <3>1. v[0].used = {} /\ v[0].verified = 0
      BY <1>1
    <3>2. IsFiniteSet(F(0)) /\ Cardinality(F(0)) = 0
      BY <2>1, <2>2
    <3> HIDE DEF F, wants
    <3> QED
      BY <3>1, <3>2
  <2> QED
    BY <2>3
<1>5. ASSUME NEW k \in S PROVE k + 1 \in S
  <2> SUFFICES ASSUME k + 1 <= m PROVE OK(k + 1)
    OBVIOUS
  <2> DEFINE used == v[k].used
             l == Leaf(k + 1)
             fit == Fit(p, ss, k + 1, used)
  <2>1. OK(k)
    BY <1>2
  <2>2. k + 1 \in 1..m /\ (k + 1) - 1 = k /\ \A i \in 1..k : i \in 1..m /\ i # k + 1
    BY <1>2
  <2>3. \/ fit = {} /\ v[k + 1] = v[k]
        \/ \E j \in fit : v[k + 1] = [verified |-> v[k].verified + 1, used |-> used \cup {j}]
    BY <1>1, <2>1, <2>2
  <2>4. l \in DOMAIN p.signedBy /\ p.signedBy[l] \in DOMAIN p.identities
    BY <2>2, PlainRules DEF Plain
  <2>5. l \in A => fit # {}
    <3> SUFFICES ASSUME l \in A PROVE fit # {}
      OBVIOUS
    <3>1. PICK s \in ToSet(ss) : p.signedBy[l] \in Candidates(p, s)
      BY DEF LeavesOf, Satisfiable
    <3>2. PICK j \in 1..Len(ss) : s = ss[j]
      BY DEF ToSet
    <3>3. SatisfiesPrincipal(ss[j], wants(k + 1))
      BY <3>1, <3>2 DEF SatisfiesPrincipal, Candidates
    <3>4. j \notin used
      <4> SUFFICES ASSUME j \in used PROVE FALSE
        OBVIOUS
      <4>1. PICK i \in 1..k : SatisfiesPrincipal(ss[j], wants(i))
        BY <2>1
      <4>2. Leaf(i) \in DOMAIN p.signedBy /\ p.signedBy[Leaf(i)] \in DOMAIN p.identities
        BY <2>2, PlainRules DEF Plain
      <4>3. wants(i).mspId = wants(k + 1).mspId
        BY <3>3, <4>1 DEF SatisfiesPrincipal
      <4>4. p.signedBy[Leaf(i)] = p.signedBy[l]
        BY <2>4, <4>2, <4>3 DEF Plain
      <4>5. Leaf(i) = Leaf(k + 1)
        BY <2>4, <4>2, <4>4
      <4>6. i = k + 1
        BY <2>2, <4>5, PlainRules
      <4> QED
        BY <2>2, <4>6
    <3> QED
      BY <3>3, <3>4 DEF Fit
  <2>6. F(k + 1) = IF l \in A THEN F(k) \cup {l} ELSE F(k)
    <3>1. 1..k + 1 = 1..k \cup {k + 1}
      OBVIOUS
    <3> HIDE DEF A
    <3> QED
      BY <3>1
  <2>7. /\ IsFiniteSet(F(k) \cup {l}) /\ Cardinality(F(k)) \in Nat
        /\ Cardinality(F(k) \cup {l}) \in Nat
        /\ Cardinality(F(k) \cup {l}) <= Cardinality(F(k)) + 1
    <3>1. IsFiniteSet(F(k))
      BY <2>1
    <3> HIDE DEF F
    <3> QED
      BY <3>1, OneMore
  <2>8. CASE fit = {} /\ v[k + 1] = v[k]
    <3>1. F(k + 1) = F(k)
      BY <2>5, <2>6, <2>8
    <3>2. \A i \in 1..k : i \in 1..k + 1
      OBVIOUS
    <3> HIDE DEF F, wants, l, fit, A
    <3> QED
      BY <2>1, <2>8, <3>1, <3>2
  <2>9. ASSUME NEW j \in fit, v[k + 1] = [verified |-> v[k].verified + 1, used |-> used \cup {j}]
        PROVE  OK(k + 1)
    <3>1. j \in 1..Len(ss) /\ SatisfiesPrincipal(ss[j], wants(k + 1))
      BY DEF Fit
    <3>2. /\ v[k + 1].used = used \cup {j} /\ v[k + 1].verified = v[k].verified + 1
      BY <2>9
    <3>3. IsFiniteSet(F(k + 1)) /\ Cardinality(F(k + 1)) <= Cardinality(F(k)) + 1
      <4>1. IsFiniteSet(F(k))
        BY <2>1
      <4> HIDE DEF F, l, A
      <4> QED
        BY <2>6, <2>7, <4>1
    <3>4. (\A i \in 1..k : i \in 1..k + 1) /\ k + 1 \in 1..k + 1
      OBVIOUS
    <3> HIDE DEF F, wants, l, fit, A
    <3>5. \A x \in v[k + 1].used : \E i \in 1..k + 1 : SatisfiesPrincipal(ss[x], wants(i))
      BY <2>1, <3>1, <3>2, <3>4
    <3>6. v[k + 1].used \in SUBSET (1..Len(ss))
      BY <2>1, <3>1, <3>2
    <3>7. v[k + 1].verified \in Nat
      BY <2>1, <3>2
    <3>8. Cardinality(F(k + 1)) \in Nat
      BY <3>3, FS_CardinalityType
    <3>9. Cardinality(F(k + 1)) <= v[k + 1].verified
      BY <2>1, <2>7, <3>2, <3>3, <3>8
    <3> QED
      BY <3>3, <3>5, <3>6, <3>7, <3>9
  <2> QED
    BY <2>3, <2>8, <2>9
<1> HIDE DEF S
<1>6. S = Nat
  <2>1. S \in SUBSET Nat
    BY DEF S
  <2> QED
    BY <1>4, <1>5, <2>1, Induction
<1>7. OK(m)
  <2>1. m \in S
    BY <1>2, <1>6
  <2> HIDE DEF F, wants
  <2> QED
    BY <1>2, <2>1 DEF S
<1>8. F(m) = A
  BY <1>3, PlainRules
<1>9. Cardinality(A) \in Nat /\ Cardinality(A) <= v[m].verified /\ v[m].verified \in Nat
  <2>1. Cardinality(A) \in Nat
    BY <1>3, FS_CardinalityType
  <2> HIDE DEF F, A
  <2> QED
    BY <1>7, <1>8, <2>1
<1> QED
  BY <1>1, <1>2, <1>9

\* A signature of another organisation than those before satisfies other leaves.
LEMMA OtherLeaves ==
  ASSUME NEW p, IsPolicy(p), NEW signers, NEW s, \A q \in signers : q.mspId # s.mspId
  PROVE  Cardinality(LeavesOf(p, Satisfiable(p, signers \cup {s})))
           = Cardinality(LeavesOf(p, Candidates(p, s)))
             + Cardinality(LeavesOf(p, Satisfiable(p, signers)))
<1> DEFINE A == LeavesOf(p, Candidates(p, s))
           B == LeavesOf(p, Satisfiable(p, signers))
<1>1. Satisfiable(p, signers \cup {s}) = Candidates(p, s) \cup Satisfiable(p, signers)
  BY DEF Satisfiable, Candidates
<1>2. Candidates(p, s) \cap Satisfiable(p, signers) = {}
  BY DEF Satisfiable, Candidates
<1>3. LeavesOf(p, Satisfiable(p, signers \cup {s})) = A \cup B
  BY <1>1 DEF LeavesOf
<1>4. A \cap B = {}
  BY <1>2 DEF LeavesOf
<1>5. IsFiniteSet(A) /\ Cardinality(A) \in Nat /\ IsFiniteSet(B) /\ Cardinality(B) \in Nat
  BY LeavesOfFinite
<1> HIDE DEF A, B
<1>6. Cardinality(A \cup B) = Cardinality(A) + Cardinality(B) - Cardinality(A \cap B)
  BY <1>5, FS_Union
<1>7. Cardinality(A \cap B) = 0
  BY <1>4, FS_EmptySet
<1>8. Cardinality(A \cup B) = Cardinality(A) + Cardinality(B)
  BY <1>5, <1>6, <1>7
<1> QED
  BY <1>3, <1>8 DEF A, B

SignaturesInv ==
  /\ IsPolicy(tree) /\ signatures \in Seq(Signatory)
  /\ Counted(tree, request, signatures)
  /\ Plain(tree) /\ Once =>
       RootLeavesSigned(tree, signatures)
         = Cardinality(LeavesOf(tree, Satisfiable(tree, ToSet(signatures))))

LEMMA SignaturesInitially == SignaturesInit => SignaturesInv
<1> SUFFICES ASSUME SignaturesInit PROVE SignaturesInv
  OBVIOUS
<1>1. IsPolicy(tree)
  BY PoliciesAssumption DEF SignaturesInit
<1>2. Counted(tree, request, signatures)
  BY <1>1, CountedNone DEF SignaturesInit
<1>3. RootLeavesSigned(tree, signatures) = 0
  BY NoSignatures DEF SignaturesInit
<1>4. LeavesOf(tree, Satisfiable(tree, ToSet(signatures))) = {}
  <2>1. ToSet(signatures) = {}
    BY DEF SignaturesInit, ToSet
  <2>2. Satisfiable(tree, {}) = {}
    BY DEF Satisfiable
  <2> QED
    BY <2>1, <2>2 DEF LeavesOf
<1>5. Cardinality({}) = 0
  BY FS_EmptySet
<1>6. signatures \in Seq(Signatory)
  BY DEF SignaturesInit
<1> QED
  BY <1>1, <1>2, <1>3, <1>4, <1>5, <1>6 DEF SignaturesInv

LEMMA SignaturesStep ==
  ASSUME SignaturesInv, NEW s \in Signatory, Sign(s)
  PROVE  SignaturesInv'
<1> DEFINE ss == signatures
           qs == Append(ss, s)
<1>1. /\ IsPolicy(tree) /\ ss \in Seq(Signatory) /\ tree' = tree /\ signatures' = qs
      /\ request' = CountSignature(tree, s, request)
  BY DEF SignaturesInv, Sign
<1>2. qs \in Seq(Signatory)
  BY <1>1
<1>3. Counted(tree, request', qs)
  BY <1>1, CountedOneMore DEF SignaturesInv
<1>4. ASSUME Plain(tree), Once'
      PROVE  RootLeavesSigned(tree, qs) = Cardinality(LeavesOf(tree, Satisfiable(tree, ToSet(qs))))
  <2>1. /\ Len(ss) \in Nat /\ Len(qs) = Len(ss) + 1 /\ qs[Len(ss) + 1] = s
        /\ \A i \in 1..Len(ss) : qs[i] = ss[i]
    BY <1>1
  <2>2. \A i, j \in 1..Len(qs) : qs[i].mspId = qs[j].mspId => i = j
    BY <1>1, <1>4 DEF Once
  <2>3. ToSet(qs) = ToSet(ss) \cup {s}
    <3>1. ToSet(qs) = {qs[i] : i \in 1..Len(qs)} /\ ToSet(ss) = {ss[i] : i \in 1..Len(ss)}
      BY <1>1, <1>2 DEF ToSet
    <3>2. 1..Len(qs) = 1..Len(ss) \cup {Len(ss) + 1}
      BY <2>1
    <3> HIDE DEF qs, ss
    <3> QED
      BY <2>1, <3>1, <3>2
  <2> HIDE DEF qs
  <2>4. Once
    <3>1. \A i \in 1..Len(ss) : i \in 1..Len(qs)
      BY <2>1
    <3>2. \A i, j \in 1..Len(ss) : ss[i].mspId = ss[j].mspId => i = j
      BY <2>1, <2>2, <3>1
    <3> QED
      BY <3>2 DEF Once
  <2>5. \A q \in ToSet(ss) : q.mspId # s.mspId
    <3>1. ASSUME NEW i \in 1..Len(ss) PROVE ss[i].mspId # s.mspId
      <4>1. i \in 1..Len(qs) /\ Len(ss) + 1 \in 1..Len(qs) /\ i # Len(ss) + 1
        BY <2>1
      <4> QED
        BY <2>1, <2>2, <4>1
    <3>2. ToSet(ss) = {ss[i] : i \in 1..Len(ss)}
      BY <1>1 DEF ToSet
    <3> QED
      BY <3>1, <3>2
  <2>6. RootLeavesSigned(tree, ss) = Cardinality(LeavesOf(tree, Satisfiable(tree, ToSet(ss))))
    BY <1>4, <2>4 DEF SignaturesInv
  <2>7. RootLeavesSigned(tree, qs)
          = Cardinality(RootLeaves(tree, s)) + RootLeavesSigned(tree, ss)
    BY <1>1, OneMoreSignature DEF qs
  <2>8. RootLeaves(tree, s) = LeavesOf(tree, Candidates(tree, s))
    BY <1>1, <1>4, PlainSignature
  <2>9. Cardinality(LeavesOf(tree, Satisfiable(tree, ToSet(ss) \cup {s})))
          = Cardinality(LeavesOf(tree, Candidates(tree, s)))
            + Cardinality(LeavesOf(tree, Satisfiable(tree, ToSet(ss))))
    BY <1>1, <2>5, OtherLeaves
  <2> QED
    BY <2>3, <2>6, <2>7, <2>8, <2>9
<1> HIDE DEF qs
<1> QED
  BY <1>1, <1>2, <1>3, <1>4 DEF SignaturesInv

LEMMA SignaturesNextInv == SignaturesInv /\ [SignaturesNext]_signatureVars => SignaturesInv'
<1> SUFFICES ASSUME SignaturesInv, [SignaturesNext]_signatureVars PROVE SignaturesInv'
  OBVIOUS
<1>1. CASE SignaturesNext
  BY <1>1, SignaturesStep DEF SignaturesNext
<1>2. CASE UNCHANGED signatureVars
  BY <1>2 DEF signatureVars, SignaturesInv, Once
<1> QED
  BY <1>1, <1>2

\* For every policy, a tree with an n-of at its root, whatever signatures come in whatever
\* order: the root's counter counts the leaves signed directly under the root, and the
\* request is fullfilled just when these are n.
THEOREM SignaturesCounted == SignaturesSpec => []FullfilledCountsLeaves
<1>1. SignaturesInv => FullfilledCountsLeaves
  BY CountedCounts DEF SignaturesInv, FullfilledCountsLeaves
<1> QED
  BY <1>1, SignaturesInitially, SignaturesNextInv, PTL DEF SignaturesSpec

\* For every policy without nested n-of in which no organisation is named twice: if its
\* signatures satisfy the policy as Fabric evaluates it, the request is fullfilled; as
\* long as none answers twice, and if no identity is wanted by two leaves, only then.
THEOREM SignaturesDecide == SignaturesSpec => []FullfilledIffSatisfied
<1>1. SignaturesInv => FullfilledIffSatisfied
  <2> SUFFICES ASSUME SignaturesInv, Plain(tree)
               PROVE  /\ Satisfied(tree, signatures) => request.fullfilled
                      /\ Once /\ OneLeafEach =>
                           (request.fullfilled => Satisfied(tree, signatures))
    BY DEF FullfilledIffSatisfied
  <2>1. IsPolicy(tree) /\ signatures \in Seq(Signatory)
    BY DEF SignaturesInv
  <2>2. request.fullfilled <=> RootLeavesSigned(tree, signatures) >= tree.nOf[Root]
    <3>1. CountsLeaves(tree, request, signatures)
      BY <2>1, CountedCounts DEF SignaturesInv
    <3> QED
      BY <3>1 DEF CountsLeaves
  <2>3. Satisfied(tree, signatures) => request.fullfilled
    BY <2>1, <2>2, SatisfiedSigned
  <2>4. ASSUME Once, OneLeafEach, request.fullfilled PROVE Satisfied(tree, signatures)
    <3>1. RootLeavesSigned(tree, signatures)
            = Cardinality(LeavesOf(tree, Satisfiable(tree, ToSet(signatures))))
      BY <2>4 DEF SignaturesInv
    <3>2. Cardinality(LeavesOf(tree, Satisfiable(tree, ToSet(signatures)))) >= tree.nOf[Root]
      BY <2>2, <2>4, <3>1
    <3>3. \A l, m \in DOMAIN tree.signedBy : tree.signedBy[l] = tree.signedBy[m] => l = m
      BY <2>4 DEF OneLeafEach
    <3> QED
      BY <2>1, <3>2, <3>3, SignedSatisfied
  <2> QED
    BY <2>3, <2>4
<1> QED
  BY <1>1, SignaturesInitially, SignaturesNextInv, PTL DEF SignaturesSpec

-------------------------------------------------------------------------------
(* Every copy agrees with its responses, whatever overlaps. *)

\* Who signed the responses, in order.
SignersOf(rs) == [i \in 1..Len(rs) |-> rs[i].signer]

LEMMA SignersOfFacts ==
  ASSUME NEW rs \in Seq(Answer), NEW job \in Answer
  PROVE  /\ SignersOf(rs) \in Seq(Signer) /\ job.signer \in Signer
         /\ SignersOf(Append(rs, job)) = Append(SignersOf(rs), job.signer)
<1> DEFINE qs == Append(rs, job)
           ss == SignersOf(rs)
<1>1. \A j \in Answer : j.signer \in Signer
  BY DEF Answer
<1>2. /\ qs \in Seq(Answer) /\ Len(rs) \in Nat /\ Len(qs) = Len(rs) + 1
      /\ \A i \in 1..Len(rs) : qs[i] = rs[i]
      /\ qs[Len(rs) + 1] = job
  OBVIOUS
<1> HIDE DEF qs
<1>3. /\ ss \in Seq(Signer) /\ Len(ss) = Len(rs)
      /\ \A i \in 1..Len(rs) : ss[i] = rs[i].signer
  <2>1. \A i \in 1..Len(rs) : rs[i].signer \in Signer
    BY <1>1
  <2> QED
    BY <1>2, <2>1 DEF SignersOf
<1> HIDE DEF ss
<1>4. /\ Append(ss, job.signer) \in Seq(Signer)
      /\ Len(Append(ss, job.signer)) = Len(rs) + 1
      /\ \A i \in 1..Len(rs) : Append(ss, job.signer)[i] = rs[i].signer
      /\ Append(ss, job.signer)[Len(rs) + 1] = job.signer
  BY <1>1, <1>2, <1>3
<1>5. Append(ss, job.signer) = [i \in 1..Len(rs) + 1 |-> Append(ss, job.signer)[i]]
  BY <1>4
<1>6. \A i \in 1..Len(rs) + 1 : Append(ss, job.signer)[i] = qs[i].signer
  BY <1>2, <1>4
<1>7. SignersOf(qs) = [i \in 1..Len(rs) + 1 |-> qs[i].signer]
  BY <1>2 DEF SignersOf
<1> QED
  BY <1>1, <1>3, <1>5, <1>6, <1>7 DEF qs, ss

Consistent(r) == IsRequest(r) /\ Counted(policy, r.tally, SignersOf(r.responses))

CountInv ==
  /\ \A r \in cached \cup document : Consistent(r)
  /\ \A l \in lookups : l.job \in Job /\ \A r \in l.found : Consistent(r)
  /\ \E T : writes \in Seq(T)
  /\ \A i \in 1..Len(writes) : Consistent(writes[i].request)

\* An operation adds to the responses what it adds to the counters.
LEMMA AfterConsistent ==
  ASSUME NEW r, Consistent(r), NEW job \in Job
  PROVE  Consistent(After(r, job))
<1>1. IsRequest(After(r, job))
  BY AfterFacts DEF Consistent, Extends
<1>2. r.responses \in Seq(Answer)
  BY DEF Consistent, IsRequest
<1>3. CASE job.kind = "ACCEPT"
  <2>1. job \in Answer
    BY <1>3 DEF Job, Send, Reach, Answer
  <2>2. /\ After(r, job).tally = CountSignature(policy, job.signer, r.tally)
        /\ After(r, job).responses = Append(r.responses, job)
    BY <1>3 DEF After, Accepted
  <2>3. /\ SignersOf(r.responses) \in Seq(Signer) /\ job.signer \in Signer
        /\ SignersOf(Append(r.responses, job)) = Append(SignersOf(r.responses), job.signer)
    BY <1>2, <2>1, SignersOfFacts
  <2>4. Counted(policy, After(r, job).tally, SignersOf(After(r, job).responses))
    BY <2>2, <2>3, policyAssumption, CountedOneMore DEF Consistent
  <2> QED
    BY <1>1, <2>4 DEF Consistent
<1>4. CASE job.kind # "ACCEPT"
  <2>1. \E s : After(r, job) = [r EXCEPT !.status = s]
    BY <1>4 DEF After, changeIdentitesState, Job, Send, Reach, Answer
  <2>2. PICK s : After(r, job) = [r EXCEPT !.status = s]
    BY <2>1
  <2>3. After(r, job) = [tally |-> r.tally, status |-> s, responses |-> r.responses]
    BY <2>2 DEF Consistent, IsRequest
  <2>4. After(r, job).tally = r.tally /\ After(r, job).responses = r.responses
    BY <2>3
  <2> QED
    BY <1>1, <2>4 DEF Consistent
<1> QED
  BY <1>3, <1>4

LEMMA InitCount == Init => CountInv
<1> SUFFICES ASSUME Init PROVE CountInv
  OBVIOUS
<1>1. Consistent(NewRequest)
  <2>1. SignersOf(<<>>) = <<>>
    BY DEF SignersOf
  <2>2. Counted(policy, formateRootPolicy(policy), <<>>)
    BY policyAssumption, CountedNone
  <2> QED
    BY <2>1, <2>2 DEF Consistent, IsRequest, NewRequest
<1>2. writes \in Seq({}) /\ Len(writes) = 0
  BY DEF Init
<1> QED
  BY <1>1, <1>2 DEF Init, CountInv

\* An operation performed on a request that agrees with its responses.
LEMMA PerformCount ==
  ASSUME CountInv, NEW job \in Job, NEW r, Consistent(r), Perform(job, r),
         lookups' \subseteq lookups, UNCHANGED document
  PROVE  CountInv'
<1> DEFINE q == After(r, job)
<1>1. Consistent(q)
  BY AfterConsistent
<1>2. /\ cached' = {q}
      /\ \E T : writes' \in Seq(T)
      /\ \A i \in 1..Len(writes) : writes'[i] = writes[i]
      /\ \A i \in 1..Len(writes') : i \in 1..Len(writes) \/ writes'[i].request = q
  BY Performed DEF CountInv
<1> HIDE DEF q
<1>3. \A i \in 1..Len(writes') : Consistent(writes'[i].request)
  BY <1>1, <1>2 DEF CountInv
<1>4. \A p \in cached' \cup document' : Consistent(p)
  BY <1>1, <1>2 DEF CountInv
<1>5. \A l \in lookups' : l.job \in Job /\ \A p \in l.found : Consistent(p)
  BY DEF CountInv
<1> QED
  BY <1>2, <1>3, <1>4, <1>5 DEF CountInv

\* One update less, and a document that it may have replaced.
LEMMA OverCount ==
  ASSUME CountInv, NEW i \in 1..Len(writes), writes' = RemoveAt(writes, i),
         UNCHANGED <<cached, lookups>>, Written(i) \/ UNCHANGED document
  PROVE  CountInv'
<1>1. /\ \E T : writes' \in Seq(T)
      /\ \A j \in 1..Len(writes') :
           Kept(i, j) \in 1..Len(writes) /\ writes'[j] = writes[Kept(i, j)]
  BY Remaining DEF CountInv
<1>2. \A j \in 1..Len(writes') : Consistent(writes'[j].request)
  BY <1>1 DEF CountInv
<1>3. \A r \in document' : r \in document \/ r = writes[i].request
  BY DEF Written
<1>4. \A r \in cached' \cup document' : Consistent(r)
  BY <1>3 DEF CountInv
<1> QED
  BY <1>1, <1>2, <1>4 DEF CountInv

LEMMA NextCount == CountInv /\ [Next]_vars => CountInv'
<1> SUFFICES ASSUME CountInv, [Next]_vars PROVE CountInv'
  OBVIOUS
<1>1. ASSUME NEW job \in Job, InCache(job) PROVE CountInv'
  <2>1. PICK r \in cached : Perform(job, r)
    BY <1>1 DEF InCache
  <2>2. Consistent(r) /\ lookups' = lookups /\ document' = document
    BY <1>1 DEF InCache, CountInv
  <2> QED
    BY <2>1, <2>2, PerformCount
<1>2. ASSUME NEW job \in Job, Lookup(job) PROVE CountInv'
  <2>1. \A l \in lookups' : l.job \in Job /\ \A r \in l.found : Consistent(r)
    BY <1>2 DEF Lookup, CountInv
  <2> QED
    BY <1>2, <2>1 DEF Lookup, CountInv
<1>3. CASE ReadDocument
  <2>1. \A l \in lookups' : l.job \in Job /\ \A r \in l.found : Consistent(r)
    BY <1>3 DEF ReadDocument, CountInv
  <2> QED
    BY <1>3, <2>1 DEF ReadDocument, CountInv
<1>4. CASE FromDatabase
  <2>1. PICK l \in lookups : lookups' = lookups \ {l} /\ \E r \in l.found : Perform(l.job, r)
    BY <1>4 DEF FromDatabase
  <2>2. PICK r \in l.found : Perform(l.job, r)
    BY <2>1
  <2>3. l.job \in Job /\ Consistent(r) /\ lookups' \subseteq lookups /\ document' = document
    BY <1>4, <2>1 DEF FromDatabase, CountInv
  <2> QED
    BY <2>2, <2>3, PerformCount
<1>5. CASE NotFound
  BY <1>5 DEF NotFound, CountInv
<1>6. CASE UpdateWritten
  BY <1>6, OverCount DEF UpdateWritten
<1>7. CASE UpdateFails
  BY <1>7, OverCount DEF UpdateFails
<1>8. CASE Crash
  <2>1. /\ writes' \in Seq({}) /\ Len(writes') = 0 /\ cached' = {} /\ lookups' = {}
        /\ document' = document
    BY <1>8 DEF Crash
  <2> QED
    BY <2>1 DEF CountInv
<1>9. CASE UNCHANGED vars
  BY <1>9 DEF vars, CountInv
<1> QED
  BY <1>1, <1>2, <1>3, <1>4, <1>5, <1>6, <1>7, <1>8, <1>9 DEF Next

\* In every copy of the request - object, document, what a lookup read, what an update
\* carries - the root's counter counts the leaves directly under the root that the
\* responses in it cover, and it is fullfilled just when these are n: whatever the
\* policy, a tree with an n-of at its root, the signers and their order, and however
\* lookups, updates and crashes interleave.
THEOREM InnerSignRequestCounts == Spec => []CountsItsResponses
<1>1. CountInv => CountsItsResponses
  <2> SUFFICES ASSUME CountInv, NEW r \in Copies
               PROVE  CountsLeaves(policy, r.tally, SignersOf(r.responses))
    BY DEF CountsItsResponses, SignersOf
  <2>1. \/ r \in cached \cup document
        \/ \E l \in lookups : r \in l.found
        \/ \E i \in 1..Len(writes) : r = writes[i].request
    BY DEF Copies
  <2>2. Consistent(r)
    BY <2>1 DEF CountInv
  <2> QED
    BY <2>2, policyAssumption, CountedCounts DEF Consistent
<1>2. CountInv /\ [Next]_vars => CountInv'
  BY NextCount
<1> QED
  BY <1>1, <1>2, InitCount, PTL DEF Spec

===============================================================================
