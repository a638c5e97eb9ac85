------------------------ MODULE OuterSignRequest_proof -------------------------
(***************************************************************************)
(* Proofs about OuterSignRequest, for any roles, copies, uses, overlaps,   *)
(* failures and crashes, and any order of the writes.                      *)
(*                                                                         *)
(* The inductive invariant says of every copy of the request, wherever it  *)
(* is (cached, stored, being written, read by a lookup), that if it is     *)
(* answered a response was sent; that every update writes an answered      *)
(* object; and that a role that is signed and recorded is that of the      *)
(* first document, which is answered.                                      *)
(***************************************************************************)
EXTENDS OuterSignRequest, TLAPS

WriteType == [op : {"create", "update"}, object : Object, ends : SUBSET Role]
LookupType == [job : Job, read : BOOLEAN, found : SUBSET Object]

Types ==
  /\ cached \subseteq Object
  /\ documents \in Seq(Object) /\ writes \in Seq(WriteType) /\ lookups \in Seq(LookupType)
  /\ replies \in Seq(Role) /\ signed \subseteq Role /\ unrecorded \subseteq Role

Replied(role) == role \in ToSet(replies)
Backed(o) == Answered(o) => Replied(o.toRole)

\* What is written is backed, and updates answer.
WriteInv(w) ==
  /\ Backed(w.object)
  /\ w.op = "update" => Answered(w.object)
  /\ w.ends \subseteq {w.object.toRole}
  /\ w.op = "create" => w.ends = {}

JobInv(job) == job.kind = "reach" => Replied(job.role)

LookupInv(l) ==
  /\ JobInv(l.job)
  /\ \A o \in l.found : Backed(o) /\ o.toRole = l.job.role

Inv ==
  /\ Types
  /\ \A o \in cached : Backed(o)
  /\ \A d \in ToSet(documents) : Backed(d)
  /\ \A w \in ToSet(writes) : WriteInv(w)
  /\ \A l \in ToSet(lookups) : LookupInv(l)

LEMMA InitInv == Init => Inv
BY DEF Init, Inv, Types, ToSet

(***************************************************************************)
(* Sequences                                                               *)
(***************************************************************************)

LEMMA Elements ==
  ASSUME NEW S, NEW s \in Seq(S)
  PROVE  /\ ToSet(s) \subseteq S
         /\ \A i \in 1..Len(s) : s[i] \in ToSet(s)
         /\ \A x \in ToSet(s) : \E i \in 1..Len(s) : x = s[i]
BY DEF ToSet

LEMMA Appended ==
  ASSUME NEW S, NEW s \in Seq(S), NEW x \in S
  PROVE  /\ Append(s, x) \in Seq(S)
         /\ ToSet(Append(s, x)) = ToSet(s) \cup {x}
<1>1. /\ Append(s, x) \in Seq(S) /\ Len(s) \in Nat /\ Len(Append(s, x)) = Len(s) + 1
      /\ Append(s, x)[Len(s) + 1] = x
      /\ \A i \in 1..Len(s) : Append(s, x)[i] = s[i]
  OBVIOUS
<1>2. ASSUME NEW y \in ToSet(Append(s, x)) PROVE y \in ToSet(s) \cup {x}
  <2>1. PICK i \in 1..Len(Append(s, x)) : y = Append(s, x)[i]
    BY <1>1, Elements
  <2>2. i \in 1..Len(s) \/ i = Len(s) + 1
    BY <1>1
  <2> QED BY <1>1, <2>1, <2>2, Elements
<1>3. ASSUME NEW y \in ToSet(s) \cup {x} PROVE y \in ToSet(Append(s, x))
  <2>1. CASE y = x
    <3>1. Len(s) + 1 \in 1..Len(Append(s, x))
      BY <1>1
    <3>2. Append(s, x)[Len(s) + 1] \in ToSet(Append(s, x))
      BY <1>1, <3>1, Elements
    <3> QED BY <1>1, <2>1, <3>2
  <2>2. CASE y \in ToSet(s)
    <3>1. PICK i \in 1..Len(s) : y = s[i]
      BY <2>2, Elements
    <3>2. i \in 1..Len(Append(s, x)) /\ Append(s, x)[i] = y
      BY <1>1, <3>1
    <3> QED BY <1>1, <3>2, Elements
  <2> QED BY <1>3, <2>1, <2>2
<1> QED BY <1>1, <1>2, <1>3

LEMMA Removed ==
  ASSUME NEW S, NEW s \in Seq(S), NEW i \in 1..Len(s)
  PROVE  RemoveAt(s, i) \in Seq(S) /\ ToSet(RemoveAt(s, i)) \subseteq ToSet(s)
<1> DEFINE a == SubSeq(s, 1, i - 1)
           b == SubSeq(s, i + 1, Len(s))
<1>1. Len(s) \in Nat
  OBVIOUS
<1>2. a \in Seq(S) /\ Len(a) = i - 1 /\ \A j \in 1..i - 1 : a[j] = s[j]
  BY <1>1
<1>3. b \in Seq(S) /\ Len(b) = Len(s) - i /\ \A j \in 1..Len(s) - i : b[j] = s[i + j]
  BY <1>1
<1>4. RemoveAt(s, i) = a \o b
  BY DEF RemoveAt
<1> HIDE DEF a, b
<1>5. a \o b \in Seq(S) /\ Len(a \o b) = Len(a) + Len(b)
      /\ \A j \in 1..Len(a) + Len(b) :
           (a \o b)[j] = IF j <= Len(a) THEN a[j] ELSE b[j - Len(a)]
  <2>1. a \in Seq(S) /\ b \in Seq(S)
    BY <1>2, <1>3
  <2> QED BY <2>1
<1>6. ASSUME NEW j \in 1..Len(a \o b) PROVE (a \o b)[j] \in ToSet(s)
  <2>1. CASE j <= i - 1
    <3>1. (a \o b)[j] = s[j] /\ j \in 1..Len(s)
      BY <1>1, <1>2, <1>3, <1>5, <2>1
    <3> QED BY <3>1, Elements
  <2>2. CASE j > i - 1
    <3>1. (a \o b)[j] = b[j - (i - 1)] /\ j - (i - 1) \in 1..Len(s) - i
      BY <1>1, <1>2, <1>3, <1>5, <2>2
    <3>2. (a \o b)[j] = s[i + (j - (i - 1))] /\ i + (j - (i - 1)) \in 1..Len(s)
      BY <1>1, <1>3, <3>1
    <3> QED BY <3>2, Elements
  <2> QED BY <1>1, <1>2, <1>3, <1>5, <2>1, <2>2
<1>7. \A y \in ToSet(a \o b) : \E j \in 1..Len(a \o b) : y = (a \o b)[j]
  <2> PICK r \in Seq(S) : r = a \o b
    BY <1>5
  <2> QED BY Elements
<1>8. ToSet(a \o b) \subseteq ToSet(s)
  BY <1>6, <1>7
<1> QED BY <1>4, <1>5, <1>8

(***************************************************************************)
(* What is done with an object                                             *)
(***************************************************************************)

Grows == replies' \in Seq(Role) /\ ToSet(replies) \subseteq ToSet(replies')

\* An object replaces the cached one, and it may be written.
Takes(p) ==
  /\ p \in Object /\ Backed(p)' /\ cached' = {p}
  /\ \/ writes' = writes
     \/ \E w \in WriteType : WriteInv(w)' /\ w.op = "update" /\ writes' = Append(writes, w)

LEMMA Performs ==
  ASSUME Inv, NEW job \in Job, NEW o \in Object, Backed(o), JobInv(job), o.toRole = job.role,
         Perform(job, o)
  PROVE  Grows /\ \E p \in Object : Takes(p)
<1>0. replies \in Seq(Role) /\ o.toRole \in Role
  BY DEF Inv, Types, Object
<1>1. CASE job.kind = "sign" /\ acceptRequest(o)
  <2> PICK p : p = Changed(o, "SENDING")
    OBVIOUS
  <2>1. p \in Object /\ p.toRole = o.toRole /\ Answered(p)
    BY DEF Changed, Object, Answered
  <2> PICK w : w = [op |-> "update", object |-> p, ends |-> {o.toRole}]
    OBVIOUS
  <2>2. /\ replies' = Append(replies, o.toRole) /\ cached' = {p}
        /\ writes' = Append(writes, w)
    BY <1>1 DEF acceptRequest, Write
  <2>3. Grows /\ o.toRole \in ToSet(replies')
    BY <1>0, <2>2, Appended DEF Grows
  <2>4. Backed(p)'
    BY <2>1, <2>3 DEF Backed, Replied
  <2>5. w \in WriteType /\ w.op = "update" /\ w.object = p
    BY <1>0, <2>1 DEF WriteType
  <2>6. WriteInv(w)'
    BY <2>1, <2>4, <2>5 DEF WriteInv, Backed
  <2> QED BY <2>1, <2>2, <2>3, <2>4, <2>5, <2>6 DEF Takes
<1>2. CASE job.kind = "reach" /\ changeRequestStatus(o)
  <2> PICK p : p = Changed(o, "REACH")
    OBVIOUS
  <2>1. p \in Object /\ p.toRole = o.toRole /\ Answered(p)
    BY DEF Changed, Object, Answered
  <2> PICK w : w = [op |-> "update", object |-> p, ends |-> {}]
    OBVIOUS
  <2>2. replies' = replies /\ cached' = {p} /\ writes' = Append(writes, w)
    BY <1>2 DEF changeRequestStatus, Write
  <2>3. Grows /\ o.toRole \in ToSet(replies')
    BY <1>0, <1>2, <2>2 DEF Grows, JobInv, Replied
  <2>4. Backed(p)'
    BY <2>1, <2>3 DEF Backed, Replied
  <2>5. w \in WriteType /\ w.op = "update" /\ w.object = p
    BY <2>1 DEF WriteType
  <2>6. WriteInv(w)'
    BY <2>1, <2>4, <2>5 DEF WriteInv, Backed
  <2> QED BY <2>1, <2>2, <2>3, <2>4, <2>5, <2>6 DEF Takes
<1>3. CASE job.kind = "reject" /\ rejectRequest(o)
  BY <1>0, <1>3 DEF rejectRequest, Grows, Takes, Backed, Replied
<1> QED BY <1>1, <1>2, <1>3 DEF Perform

\* More responses back no less.
LEMMA GrowsKeeps ==
  ASSUME Grows
  PROVE  /\ \A o : Backed(o) => Backed(o)'
         /\ \A w : WriteInv(w) => WriteInv(w)'
         /\ \A job : JobInv(job) => JobInv(job)'
         /\ \A l : LookupInv(l) => LookupInv(l)'
BY DEF Grows, Backed, Replied, WriteInv, JobInv, LookupInv

\* Steps that leave the documents alone.
LEMMA Keeps ==
  ASSUME Inv, Grows, UNCHANGED <<documents, signed, unrecorded>>,
         cached' \subseteq Object, \A o \in cached' : Backed(o)',
         \/ writes' = writes
         \/ \E w \in WriteType : WriteInv(w)' /\ writes' = Append(writes, w),
         lookups' \in Seq(LookupType), \A l \in ToSet(lookups') : LookupInv(l)'
  PROVE  Inv'
<1>1. \A d \in ToSet(documents') : Backed(d)'
  BY GrowsKeeps DEF Inv
<1>2. writes' \in Seq(WriteType) /\ \A w \in ToSet(writes') : WriteInv(w)'
  <2>1. CASE writes' = writes
    BY <2>1, GrowsKeeps DEF Inv, Types
  <2>2. ASSUME NEW w \in WriteType, WriteInv(w)', writes' = Append(writes, w)
        PROVE  writes' \in Seq(WriteType) /\ \A v \in ToSet(writes') : WriteInv(v)'
    <3>1. writes' \in Seq(WriteType) /\ ToSet(writes') = ToSet(writes) \cup {w}
      BY <2>2, Appended DEF Inv, Types
    <3> QED BY <2>2, <3>1, GrowsKeeps DEF Inv
  <2> QED BY <2>1, <2>2
<1>3. Types'
  BY <1>2 DEF Inv, Types, Grows
<1> QED BY <1>1, <1>2, <1>3 DEF Inv

(***************************************************************************)
(* The steps                                                               *)
(***************************************************************************)

LEMMA ArrivesInv ==
  ASSUME Inv, NEW role \in Role, receiveOuterSignRequest(role) PROVE Inv'
<1> PICK o : o = [toRole |-> role, status |-> "PENDING"]
  OBVIOUS
<1> PICK w : w = [op |-> "create", object |-> o, ends |-> {}]
  OBVIOUS
<1>1. /\ cached' = {o} /\ writes' = Append(writes, w)
      /\ UNCHANGED <<documents, lookups, replies, signed, unrecorded>>
  BY DEF receiveOuterSignRequest, Write
<1>2. o \in Object /\ ~Answered(o)
  BY DEF Object, Answered
<1>3. w \in WriteType /\ w.object = o /\ w.op = "create" /\ w.ends = {}
  BY <1>2 DEF WriteType
<1>4. Grows
  BY <1>1 DEF Grows, Inv, Types
<1>5. Backed(o)' /\ WriteInv(w)'
  BY <1>2, <1>3 DEF Backed, WriteInv
<1>6. lookups' \in Seq(LookupType) /\ \A l \in ToSet(lookups') : LookupInv(l)'
  BY <1>1, <1>4, GrowsKeeps DEF Inv, Types
<1> QED BY <1>1, <1>2, <1>3, <1>4, <1>5, <1>6, Keeps

LEMMA GetInv ==
  ASSUME Inv, NEW job \in Job, JobInv(job), Get(job), UNCHANGED <<documents, signed, unrecorded>>
  PROVE  Inv'
<1>1. CASE (\E o \in InCache(job.role) : Perform(job, o)) /\ UNCHANGED lookups
  <2>1. PICK o \in InCache(job.role) : Perform(job, o)
    BY <1>1
  <2>2. o \in Object /\ Backed(o) /\ o.toRole = job.role
    BY DEF InCache, Inv, Types
  <2>3. Grows /\ \E p \in Object : Takes(p)
    BY <2>1, <2>2, Performs
  <2>4. lookups' \in Seq(LookupType) /\ \A l \in ToSet(lookups') : LookupInv(l)'
    BY <1>1, <2>3, GrowsKeeps DEF Inv, Types
  <2> QED BY <2>3, <2>4, Keeps DEF Takes
<1>2. CASE /\ lookups' = Append(lookups, [job |-> job, read |-> FALSE, found |-> {}])
           /\ UNCHANGED <<cached, writes, replies>>
  <2> PICK l : l = [job |-> job, read |-> FALSE, found |-> {}]
    OBVIOUS
  <2>1. l \in LookupType /\ LookupInv(l)
    BY DEF LookupType, LookupInv
  <2>2. Grows
    BY <1>2 DEF Grows, Inv, Types
  <2>3. lookups' \in Seq(LookupType) /\ ToSet(lookups') = ToSet(lookups) \cup {l}
    <3>1. lookups \in Seq(LookupType) /\ lookups' = Append(lookups, l)
      BY <1>2 DEF Inv, Types
    <3> QED BY <2>1, <3>1, Appended
  <2>4. \A m \in ToSet(lookups') : LookupInv(m)'
    BY <2>1, <2>2, <2>3, GrowsKeeps DEF Inv
  <2>5. cached' \subseteq Object /\ \A o \in cached' : Backed(o)'
    BY <1>2, <2>2, GrowsKeeps DEF Inv, Types
  <2> QED BY <1>2, <2>2, <2>3, <2>4, <2>5, Keeps
<1> QED BY <1>1, <1>2 DEF Get

LEMMA UseInv ==
  ASSUME Inv, NEW api \in {"sign", "reject"}, NEW role \in Role, Use(api, role) PROVE Inv'
<1> PICK job : job = [kind |-> api, role |-> role]
  OBVIOUS
<1>1. job \in Job /\ JobInv(job)
  BY DEF Job, JobInv
<1>2. Get(job) /\ UNCHANGED <<documents, signed, unrecorded>>
  BY DEF Use
<1> QED BY <1>1, <1>2, GetInv

LEMMA sendCallbackInv ==
  ASSUME Inv, NEW i \in 1..Len(replies), sendCallback(i) PROVE Inv'
<1> PICK job : job = [kind |-> "reach", role |-> replies[i]]
  OBVIOUS
<1>1. replies[i] \in Role /\ replies[i] \in ToSet(replies)
  BY Elements DEF Inv, Types
<1>2. job \in Job /\ JobInv(job)
  BY <1>1 DEF Job, JobInv, Replied
<1>3. Get(job) /\ UNCHANGED <<documents, signed, unrecorded>>
  BY DEF sendCallback
<1> QED BY <1>2, <1>3, GetInv

LEMMA LookupFacts ==
  ASSUME Inv, NEW i \in 1..Len(lookups), NEW l, l = lookups[i]
  PROVE  l \in LookupType /\ LookupInv(l)
BY Elements DEF Inv, Types

LEMMA ReadDocumentInv ==
  ASSUME Inv, NEW i \in 1..Len(lookups), ReadDocument(i) PROVE Inv'
<1> PICK l : l = lookups[i]
  OBVIOUS
<1> PICK found : found = First(l.job.role)
  OBVIOUS
<1> PICK m : m = [l EXCEPT !.read = TRUE, !.found = found]
  OBVIOUS
<1>1. lookups \in Seq(LookupType) /\ documents \in Seq(Object)
  BY DEF Inv, Types
<1>2. lookups' = [lookups EXCEPT ![i] = m] /\ UNCHANGED <<cached, documents, writes, replies, signed, unrecorded>>
  <2>1. /\ lookups' = [lookups EXCEPT ![i].read = TRUE, ![i].found = First(lookups[i].job.role)]
        /\ UNCHANGED <<cached, documents, writes, replies, signed, unrecorded>>
    BY DEF ReadDocument, envVars
  <2> QED BY <1>1, <2>1
<1>3. l \in LookupType /\ LookupInv(l)
  BY LookupFacts
<1>4. \A o \in found : o \in ToSet(documents) /\ o \in Object /\ o.toRole = l.job.role
  BY <1>1, Elements DEF First
<1>5. m \in LookupType /\ m.job = l.job /\ m.found = found
  BY <1>3, <1>4 DEF LookupType
<1>6. LookupInv(m)
  BY <1>3, <1>4, <1>5 DEF LookupInv, Inv
<1>7. Grows
  BY <1>2 DEF Grows, Inv, Types
<1>8. lookups' \in Seq(LookupType)
  BY <1>1, <1>2, <1>5
<1>9. ASSUME NEW x \in ToSet(lookups') PROVE LookupInv(x)
  <2>1. PICK j \in 1..Len(lookups') : x = lookups'[j]
    BY <1>8, Elements
  <2>2. j \in 1..Len(lookups) /\ x \in {m, lookups[j]}
    BY <1>1, <1>2, <2>1
  <2> QED BY <1>6, <2>2, LookupFacts
<1>10. \A x \in ToSet(lookups') : LookupInv(x)'
  BY <1>7, <1>9, GrowsKeeps
<1>11. cached' \subseteq Object /\ \A o \in cached' : Backed(o)'
  BY <1>2, <1>7, GrowsKeeps DEF Inv, Types
<1> QED BY <1>2, <1>7, <1>8, <1>10, <1>11, Keeps

LEMMA NotFoundInv ==
  ASSUME Inv, NEW i \in 1..Len(lookups), NotFound(i) PROVE Inv'
<1>1. /\ lookups' = RemoveAt(lookups, i)
      /\ UNCHANGED <<cached, documents, writes, replies, signed, unrecorded>>
  BY DEF NotFound, envVars
<1>2. Grows
  BY <1>1 DEF Grows, Inv, Types
<1>3. lookups' \in Seq(LookupType) /\ ToSet(lookups') \subseteq ToSet(lookups)
  BY <1>1, Removed DEF Inv, Types
<1>4. \A l \in ToSet(lookups') : LookupInv(l)'
  BY <1>2, <1>3, GrowsKeeps DEF Inv
<1>5. cached' \subseteq Object /\ \A o \in cached' : Backed(o)'
  BY <1>1, <1>2, GrowsKeeps DEF Inv, Types
<1> QED BY <1>1, <1>2, <1>3, <1>4, <1>5, Keeps

LEMMA FoundInv ==
  ASSUME Inv, NEW i \in 1..Len(lookups), Found(i) PROVE Inv'
<1> PICK l : l = lookups[i]
  OBVIOUS
<1>1. PICK o \in l.found : Perform(l.job, o)
  BY DEF Found
<1>2. lookups' = RemoveAt(lookups, i) /\ UNCHANGED <<documents, signed, unrecorded>>
  BY DEF Found, envVars
<1>3. l \in LookupType /\ LookupInv(l)
  BY LookupFacts
<1>4. o \in Object /\ Backed(o) /\ o.toRole = l.job.role /\ l.job \in Job /\ JobInv(l.job)
  BY <1>1, <1>3 DEF LookupType, LookupInv
<1>5. Grows /\ \E p \in Object : Takes(p)
  BY <1>1, <1>4, Performs
<1>6. lookups' \in Seq(LookupType) /\ ToSet(lookups') \subseteq ToSet(lookups)
  BY <1>2, Removed DEF Inv, Types
<1>7. \A m \in ToSet(lookups') : LookupInv(m)'
  BY <1>5, <1>6, GrowsKeeps DEF Inv
<1> QED BY <1>2, <1>5, <1>6, <1>7, Keeps DEF Takes

LEMMA WrittenFacts ==
  ASSUME Inv, NEW i \in 1..Len(writes), NEW w, w = writes[i], NEW ds, ds = Written(w)
  PROVE  /\ w \in WriteType /\ WriteInv(w)
         /\ ds \in Seq(Object) /\ \A d \in ToSet(ds) : Backed(d)
         /\ \A j \in 1..Len(documents) : Answered(documents[j]) => Answered(ds[j])
<1>1. writes \in Seq(WriteType) /\ documents \in Seq(Object)
  BY DEF Inv, Types
<1>2. w \in WriteType /\ WriteInv(w)
  BY <1>1, Elements DEF Inv
<1>3. w.object \in Object /\ Backed(w.object)
  BY <1>2 DEF WriteType, WriteInv
<1>4. CASE w.op = "create"
  <2>1. ds = Append(documents, w.object)
    BY <1>4 DEF Written
  <2>2. ds \in Seq(Object) /\ ToSet(ds) = ToSet(documents) \cup {w.object}
    <3>1. PICK o \in Object : o = w.object
      BY <1>3
    <3>2. PICK cs \in Seq(Object) : cs = documents
      BY <1>1
    <3>3. Append(cs, o) \in Seq(Object) /\ ToSet(Append(cs, o)) = ToSet(cs) \cup {o}
      BY Appended
    <3>4. ds = Append(cs, o)
      BY <2>1, <3>1, <3>2
    <3> QED BY <3>1, <3>2, <3>3, <3>4
  <2>3. \A j \in 1..Len(documents) : ds[j] = documents[j]
    BY <1>1, <1>3, <2>1
  <2> QED BY <1>2, <1>3, <2>2, <2>3 DEF Inv
<1>5. CASE w.op = "update"
  <2>1. ds = [d \in DOMAIN documents |-> IF d = 1 THEN w.object ELSE documents[d]]
    BY <1>5 DEF Written
  <2>2. /\ ds \in Seq(Object) /\ Len(ds) = Len(documents)
        /\ \A j \in 1..Len(documents) : ds[j] = IF j = 1 THEN w.object ELSE documents[j]
    BY <1>1, <1>3, <2>1
  <2>3. ASSUME NEW d \in ToSet(ds) PROVE Backed(d)
    <3>1. PICK j \in 1..Len(documents) : d = ds[j]
      BY <2>2, Elements
    <3>2. documents[j] \in ToSet(documents)
      BY <1>1, Elements
    <3> QED BY <1>3, <2>2, <3>1, <3>2 DEF Inv
  <2>4. Answered(w.object)
    BY <1>2, <1>5 DEF WriteInv
  <2> QED BY <1>2, <2>2, <2>3, <2>4
<1> QED BY <1>2, <1>4, <1>5 DEF WriteType

LEMMA UnrecordedType ==
  ASSUME Inv, NEW i \in 1..Len(writes) PROVE Unrecorded(writes[i]) \subseteq Role
<1> PICK w : w = writes[i]
  OBVIOUS
<1>0. writes \in Seq(WriteType)
  BY DEF Inv, Types
<1>1. w.object \in Object
  <2>1. w \in WriteType
    BY <1>0
  <2> QED BY <2>1 DEF WriteType
<1>2. documents # <<>> => documents[1] \in Object
  BY DEF Inv, Types
<1>3. unrecorded \subseteq Role
  BY DEF Inv, Types
<1> QED BY <1>1, <1>2, <1>3 DEF Unrecorded, Object

\* A write that ended, whether the database did it or not.
Ended(i) ==
  /\ \/ documents' = Written(writes[i]) /\ unrecorded' = Unrecorded(writes[i])
     \/ UNCHANGED <<documents, unrecorded>>
  /\ \/ /\ signed' = signed \cup writes[i].ends
        /\ documents' = Written(writes[i]) /\ unrecorded' = Unrecorded(writes[i])
     \/ signed' = signed
  /\ writes' = RemoveAt(writes, i) /\ UNCHANGED <<cached, lookups, replies>>

LEMMA Ends ==
  ASSUME NEW i \in 1..Len(writes), WriteDone(i) \/ WriteFails(i) PROVE Ended(i)
BY DEF WriteDone, WriteFails, Ended

LEMMA EndedInv == ASSUME Inv, NEW i \in 1..Len(writes), Ended(i) PROVE Inv'
<1> PICK w : w = writes[i]
  OBVIOUS
<1> PICK ds : ds = documents'
  OBVIOUS
<1>1. /\ ds = Written(w) \/ ds = documents
      /\ unrecorded' = Unrecorded(w) \/ unrecorded' = unrecorded
      /\ writes' = RemoveAt(writes, i)
      /\ signed' \subseteq signed \cup w.ends /\ UNCHANGED <<cached, lookups, replies>>
  BY DEF Ended
<1>2. w \in WriteType /\ ds \in Seq(Object) /\ \A d \in ToSet(ds) : Backed(d)
  <2>1. CASE ds = Written(w)
    BY <2>1, WrittenFacts
  <2>2. CASE ds = documents
    BY <2>2, Elements DEF Inv, Types
  <2> QED BY <1>1, <2>1, <2>2
<1>3. writes' \in Seq(WriteType) /\ ToSet(writes') \subseteq ToSet(writes)
  BY <1>1, Removed DEF Inv, Types
<1>4. Grows
  BY <1>1 DEF Grows, Inv, Types
<1>5. unrecorded' \subseteq Role
  BY <1>1, UnrecordedType DEF Inv, Types
<1>6. Types'
  BY <1>1, <1>2, <1>3, <1>5 DEF Inv, Types, WriteType
<1> QED BY <1>1, <1>2, <1>3, <1>4, <1>6, GrowsKeeps DEF Inv

LEMMA CrashInv == ASSUME Inv, Crash PROVE Inv'
<1>1. /\ cached' = {} /\ lookups' = <<>> /\ writes' = <<>>
      /\ UNCHANGED <<documents, replies, signed, unrecorded>>
  BY DEF Crash
<1>2. Grows
  BY <1>1 DEF Grows, Inv, Types
<1>3. Types'
  BY <1>1 DEF Inv, Types
<1>4. ToSet(<<>>) = {}
  BY DEF ToSet
<1> QED BY <1>1, <1>2, <1>3, <1>4, GrowsKeeps DEF Inv

LEMMA StutterInv == ASSUME Inv, UNCHANGED vars PROVE Inv'
<1>1. /\ UNCHANGED <<cached, documents, writes, lookups, replies, signed, unrecorded>>
  BY DEF vars, envVars
<1>2. Grows
  BY <1>1 DEF Grows, Inv, Types
<1>3. Types'
  BY <1>1 DEF Inv, Types
<1> QED BY <1>1, <1>2, <1>3, GrowsKeeps DEF Inv

LEMMA NextInv == ASSUME Inv, [Next]_vars PROVE Inv'
BY ArrivesInv, UseInv, sendCallbackInv, ReadDocumentInv, NotFoundInv, FoundInv,
   Ends, EndedInv, CrashInv, StutterInv DEF Next

LEMMA Invariance == Spec => []Inv
<1>1. Init => Inv
  BY InitInv
<1>2. Inv /\ [Next]_vars => Inv'
  BY NextInv
<1> QED BY <1>1, <1>2, PTL DEF Spec

\* Every document that says a response is on its way, or arrived, is backed by one that
\* acceptRequest sent.
THEOREM AnswersAreReplied == Spec => []AnsweredIsReplied
<1>1. Inv => AnsweredIsReplied
  BY Elements DEF Inv, Types, AnsweredIsReplied, Backed, Replied
<1> QED BY <1>1, Invariance, PTL

\* No step of the gateway, a crash included, takes a document back to pending.
THEOREM AnswersStay == Spec => StaysAnswered
<1> DEFINE Stays == \A i \in 1..Len(documents) : Answered(documents[i]) => Answered(documents'[i])
<1>1. ASSUME Inv, [Next]_vars PROVE [Stays]_vars
  <2> PICK ds : ds = documents'
    OBVIOUS
  <2>1. CASE documents' = documents
    BY <2>1
  <2>2. ASSUME NEW j \in 1..Len(writes), documents' = Written(writes[j])
        PROVE  Stays
    <3>1. \A i \in 1..Len(documents) : Answered(documents[i]) => Answered(ds[i])
      BY <1>1, <2>2, WrittenFacts
    <3> QED BY <3>1
  <2>3. documents' = documents \/ \E j \in 1..Len(writes) : documents' = Written(writes[j])
    BY <1>1 DEF Next, receiveOuterSignRequest, Use, sendCallback, ReadDocument, NotFound,
                Found, WriteDone, WriteFails, Crash, vars
  <2> QED BY <2>1, <2>2, <2>3
<1> QED BY <1>1, Invariance, PTL DEF Spec, StaysAnswered

(***************************************************************************)
(* What is signed is recorded                                              *)
(***************************************************************************)

RecordInv ==
  \A role \in signed \ unrecorded :
    documents # <<>> /\ documents[1].toRole = role /\ Answered(documents[1])

LEMMA RecordInit == Init => RecordInv
BY DEF Init, RecordInv

\* A write that is done: a creation comes last, an update answers the first document.
LEMMA DoneRecords ==
  ASSUME Inv, RecordInv, NEW i \in 1..Len(writes), documents' = Written(writes[i]),
         unrecorded' = Unrecorded(writes[i]),
         signed' \subseteq signed \cup writes[i].ends
  PROVE  RecordInv'
<1> PICK w : w = writes[i]
  OBVIOUS
<1> PICK ds : ds = documents'
  OBVIOUS
<1>1. documents \in Seq(Object) /\ w \in WriteType /\ WriteInv(w) /\ w.object \in Object
  <2>1. documents \in Seq(Object) /\ writes \in Seq(WriteType)
    BY DEF Inv, Types
  <2>2. w \in WriteType /\ w \in ToSet(writes)
    BY <2>1, Elements
  <2> QED BY <2>1, <2>2 DEF Inv, WriteType
<1>2. documents # <<>> => 1 \in 1..Len(documents) /\ 1 \in DOMAIN documents
  BY <1>1
<1>3. \A j \in 1..Len(documents) : Answered(documents[j]) => Answered(ds[j])
  BY WrittenFacts
<1>4. CASE w.op = "create"
  <2>1. ds = Append(documents, w.object) /\ unrecorded' = unrecorded /\ signed' \subseteq signed
    BY <1>1, <1>4 DEF Written, Unrecorded, WriteInv
  <2>2. documents # <<>> => ds # <<>> /\ ds[1] = documents[1]
    BY <1>1, <1>2, <2>1
  <2>3. \A role \in signed' \ unrecorded' :
          ds # <<>> /\ ds[1].toRole = role /\ Answered(ds[1])
    BY <2>1, <2>2 DEF RecordInv
  <2> QED BY <2>3 DEF RecordInv, Answered
<1>5. CASE w.op = "update"
  <2>1. Answered(w.object) /\ w.ends \subseteq {w.object.toRole}
    BY <1>1, <1>5 DEF WriteInv
  <2>2. CASE documents = <<>>
    <3>1. unrecorded' = unrecorded \cup {w.object.toRole}
      BY <1>5, <2>2 DEF Unrecorded
    <3>2. signed \ unrecorded = {}
      BY <2>2 DEF RecordInv
    <3>3. signed' \ unrecorded' = {}
      BY <2>1, <3>1, <3>2
    <3> QED BY <3>3 DEF RecordInv
  <2>3. CASE documents # <<>>
    <3>1. unrecorded' = (unrecorded \cup {documents[1].toRole}) \ {w.object.toRole}
      BY <1>5, <2>3 DEF Unrecorded
    <3>2. ds = [d \in DOMAIN documents |-> IF d = 1 THEN w.object ELSE documents[d]]
      BY <1>5 DEF Written
    <3>3. ds[1] = w.object /\ DOMAIN ds = DOMAIN documents
      BY <1>2, <2>3, <3>2
    <3>4. ds # <<>>
      BY <1>2, <2>3, <3>3
    <3>5. \A role \in signed' \ unrecorded' : role = w.object.toRole
      BY <2>1, <3>1 DEF RecordInv
    <3>6. \A role \in signed' \ unrecorded' :
            ds # <<>> /\ ds[1].toRole = role /\ Answered(ds[1])
      BY <2>1, <3>3, <3>4, <3>5
    <3> QED BY <3>6 DEF RecordInv, Answered
  <2> QED BY <2>2, <2>3
<1> QED BY <1>1, <1>4, <1>5 DEF WriteType

LEMMA RecordNext == ASSUME Inv, RecordInv, [Next]_vars PROVE RecordInv'
<1>1. CASE UNCHANGED <<documents, signed, unrecorded>>
  BY <1>1 DEF RecordInv, Answered
<1>2. ASSUME NEW i \in 1..Len(writes), Ended(i) PROVE RecordInv'
  <2>1. \/ UNCHANGED <<documents, signed, unrecorded>>
        \/ /\ documents' = Written(writes[i]) /\ unrecorded' = Unrecorded(writes[i])
           /\ signed' \subseteq signed \cup writes[i].ends
    BY <1>2 DEF Ended
  <2> QED BY <1>1, <2>1, DoneRecords
<1>3. \/ UNCHANGED <<documents, signed, unrecorded>>
      \/ \E i \in 1..Len(writes) : Ended(i)
  <2>1. CASE \E i \in 1..Len(writes) : WriteDone(i) \/ WriteFails(i)
    BY <2>1, Ends
  <2> QED BY <2>1 DEF Next, receiveOuterSignRequest, Use, sendCallback, ReadDocument, NotFound,
                      Found, Crash, vars, envVars
<1> QED BY <1>1, <1>2, <1>3

\* A user who was told that the request is signed finds it so in the database, whatever
\* copies, overlaps, failures and crashes there are, unless the update came before the
\* creation or another role's update replaced the document.
THEOREM SignedStaysRecorded == Spec => []SignedIsRecorded
<1>1. Init => Inv /\ RecordInv
  BY InitInv, RecordInit
<1>2. Inv /\ RecordInv /\ [Next]_vars => Inv' /\ RecordInv'
  BY NextInv, RecordNext
<1>3. Inv /\ RecordInv => SignedIsRecorded
  <2> SUFFICES ASSUME Inv, RecordInv, NEW role \in signed \ unrecorded PROVE Recorded(role)
    BY DEF SignedIsRecorded
  <2>1. documents \in Seq(Object) /\ documents # <<>>
    BY DEF Inv, Types, RecordInv
  <2>2. 1 \in 1..Len(documents)
    BY <2>1
  <2> QED BY <2>2 DEF Recorded, RecordInv
<1> QED BY <1>1, <1>2, <1>3, PTL DEF Spec
================================================================================
