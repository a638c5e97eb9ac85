--------------------------- MODULE OuterSignRequest ---------------------------
(***************************************************************************)
(* One sign request (one uuid) at a gateway that is asked to sign:         *)
(* signRequest/outerSignRequest.js and signRequestManager.js.  The asking  *)
(* gateway may want a signature of several roles, each asked for by a      *)
(* message of its own, and a message may arrive more than once.            *)
(*                                                                         *)
(* The cache holds the objects of a uuid by role, but every time one is    *)
(* put there the others are dropped.  The database may hold several        *)
(* documents of a uuid; an update goes to the first of them.  The driver   *)
(* sends writes over a pool of connections, so that the database may do    *)
(* any of those under way next, or fail to; nobody waits for a creation.   *)
(***************************************************************************)
EXTENDS Naturals, Sequences, FiniteSets, SequencesExt

CONSTANTS
  Role,          (* The roles asked for: "admin", "member".                *)
  MaxArrivals,   (* Bound: messages that arrive, their copies included.    *)
  MaxUses,       (* Bound: uses of the sign and of the reject API, each.   *)
  MaxFailures,   (* Bound: writes that fail.                               *)
  MaxCrashes     (* Bound: crashes of this gateway.                        *)

VARIABLES
  cached,     (* outerSignRequestCollection[uuid]: {} or {the object}.     *)
  documents,  (* The documents of the uuid, oldest first.                  *)
  writes,     (* Creations and updates under way.                          *)
  lookups,    (* Jobs whose lookup is under way, with what was read.       *)
  arrived,    (* How many messages, their copies included, have arrived.   *)
  used,       (* used[api]: uses of the sign and the reject API.           *)
  replies,    (* The accepting responses sent, by role, in order.          *)
  called,     (* Numbers of the responses whose sendCallback has run.      *)
  signed,     (* Roles for which the sign API has answered with success.   *)
  unrecorded, (* Roles whose last update found no document, or the first   *)
              (* one of another role, or has been replaced by one of       *)
              (* another role since.                                       *)
  failures, crashes

envVars == <<arrived, used, called, signed, unrecorded, failures, crashes>>
vars == <<cached, documents, writes, lookups, replies, envVars>>

Object == [toRole : Role, status : {"PENDING", "SENDING", "REACH"}]
Job == [kind : {"sign", "reject", "reach"}, role : Role]

TypeOK ==
  /\ cached \subseteq Object /\ Cardinality(cached) <= 1
  /\ documents \in Seq(Object)
  /\ \A w \in ToSet(writes) : w.object \in Object
  /\ \A l \in ToSet(lookups) : l.job \in Job /\ l.found \subseteq Object
  /\ arrived \in 0..MaxArrivals
  /\ used \in [{"sign", "reject"} -> 0..MaxUses]
  /\ replies \in Seq(Role)
  /\ called \subseteq 1..Len(replies)
  /\ signed \subseteq Role /\ unrecorded \subseteq Role
  /\ failures \in 0..MaxFailures /\ crashes \in 0..MaxCrashes

Init ==
  /\ cached = {}
  /\ documents = <<>>
  /\ writes = <<>>
  /\ lookups = <<>>
  /\ arrived = 0
  /\ used = [a \in {"sign", "reject"} |-> 0]
  /\ replies = <<>>
  /\ called = {}
  /\ signed = {} /\ unrecorded = {}
  /\ failures = 0 /\ crashes = 0

-------------------------------------------------------------------------------
(* What is done with an object once it is there. *)

Write(op, o, ends) == writes' = Append(writes, [op |-> op, object |-> o, ends |-> ends])

\* acceptRequest and changeRequestStatus set the status and update the database.
Changed_KeepsStatus(o, status) == o

Changed(o, status) == [o EXCEPT !.status = status]

acceptRequest_DoesNotReply(o) ==
  /\ UNCHANGED replies
  /\ cached' = {Changed(o, "SENDING")}
  /\ Write("update", Changed(o, "SENDING"), {o.toRole})

acceptRequest(o) ==
  /\ replies' = Append(replies, o.toRole)
  /\ cached' = {Changed(o, "SENDING")}
  /\ Write("update", Changed(o, "SENDING"), {o.toRole})

changeRequestStatus(o) ==
  /\ cached' = {Changed(o, "REACH")}
  /\ Write("update", Changed(o, "REACH"), {})
  /\ UNCHANGED replies

\* The controller passes (reason, enrollID, user) for (signerName, user, reason):
\* getIdentity of a string throws, and the caller is told that it failed.
rejectRequest(o) == cached' = {o} /\ UNCHANGED <<writes, replies>>

Perform(job, o) ==
  \/ job.kind = "sign" /\ acceptRequest(o)
  \/ job.kind = "reach" /\ changeRequestStatus(o)
  \/ job.kind = "reject" /\ rejectRequest(o)

-------------------------------------------------------------------------------
(* getOuterSignRequestObj *)

InCache(role) == {o \in cached : o.toRole = role}

Get(job) ==
  \/ /\ \E o \in InCache(job.role) : Perform(job, o)
     /\ UNCHANGED lookups
  \/ /\ InCache(job.role) = {}
     /\ lookups' = Append(lookups, [job |-> job, read |-> FALSE, found |-> {}])
     /\ UNCHANGED <<cached, writes, replies>>

\* res[0]: the first document for the role.
First(role) ==
  LET mine == {i \in 1..Len(documents) : documents[i].toRole = role}
  IN  {documents[i] : i \in {i \in mine : \A j \in mine : i <= j}}

ReadDocument(i) ==
  /\ ~lookups[i].read
  /\ lookups' = [lookups EXCEPT ![i].read = TRUE, ![i].found = First(lookups[i].job.role)]
  /\ UNCHANGED <<cached, documents, writes, replies, envVars>>

\* Nothing found: the rejection is not returned, so the caller fails on undefined.
NotFound(i) ==
  /\ lookups[i].read /\ lookups[i].found = {}
  /\ lookups' = RemoveAt(lookups, i)
  /\ UNCHANGED <<cached, documents, writes, replies, envVars>>

Found(i) ==
  /\ \E o \in lookups[i].found : Perform(lookups[i].job, o)
  /\ lookups' = RemoveAt(lookups, i)
  /\ UNCHANGED <<documents, envVars>>

-------------------------------------------------------------------------------
(* Requests, users and callbacks. *)

\* The database is asked for documents whose "request" is the role; no document has
\* such a field, so the request is always new: a fresh object, put in the cache
\* alone, and a new document.
receiveOuterSignRequest(role) ==
  /\ arrived < MaxArrivals /\ arrived' = arrived + 1
  /\ LET o == [toRole |-> role, status |-> "PENDING"]
     IN  cached' = {o} /\ Write("create", o, {})
  /\ UNCHANGED <<documents, lookups, replies, used, called, signed, unrecorded, failures, crashes>>

\* Who lacks the privilege for the role is refused and changes nothing.
Use(api, role) ==
  /\ used[api] < MaxUses
  /\ used' = [used EXCEPT ![api] = @ + 1]
  /\ Get([kind |-> api, role |-> role])
  /\ UNCHANGED <<documents, arrived, called, signed, unrecorded, failures, crashes>>

\* The asking gateway has handled response i.
sendCallback(i) ==
  /\ i \notin called
  /\ called' = called \cup {i}
  /\ Get([kind |-> "reach", role |-> replies[i]])
  /\ UNCHANGED <<documents, arrived, used, signed, unrecorded, failures, crashes>>

\* A creation adds a document; an update replaces the first one, if there is any, by
\* the whole object, its role included.
Written_Upserts(w) ==
  IF documents = <<>> THEN <<w.object>> ELSE [documents EXCEPT ![1] = w.object]

Written(w) ==
  IF w.op = "create" THEN Append(documents, w.object)
  ELSE [d \in DOMAIN documents |-> IF d = 1 THEN w.object ELSE documents[d]]

Unrecorded(w) ==
  IF w.op = "create" THEN unrecorded
  ELSE IF documents = <<>> THEN unrecorded \cup {w.object.toRole}
  ELSE (unrecorded \cup {documents[1].toRole}) \ {w.object.toRole}

WriteDone(i) ==
  LET w == writes[i]
  IN  /\ documents' = Written(w) /\ unrecorded' = Unrecorded(w)
      /\ writes' = RemoveAt(writes, i)
      /\ signed' = signed \cup w.ends
      /\ UNCHANGED <<cached, lookups, replies, arrived, used, called, failures, crashes>>

\* The sign API tells its caller that the update failed; of the other writes nobody
\* learns.  The database may have done what it could not acknowledge.
WriteFails(i) ==
  LET w == writes[i]
  IN  /\ failures < MaxFailures /\ failures' = failures + 1
      /\ \/ documents' = Written(w) /\ unrecorded' = Unrecorded(w)
         \/ UNCHANGED <<documents, unrecorded>>
      /\ writes' = RemoveAt(writes, i)
      /\ UNCHANGED <<cached, lookups, replies, arrived, used, called, signed, crashes>>

\* The memory is lost, with the writes that have not reached the database.
Crash ==
  /\ crashes < MaxCrashes
  /\ crashes' = crashes + 1
  /\ cached' = {} /\ lookups' = <<>> /\ writes' = <<>>
  /\ called' = 1..Len(replies)
  /\ UNCHANGED <<documents, replies, arrived, used, signed, unrecorded, failures>>

Next ==
  \/ \E role \in Role :
       receiveOuterSignRequest(role) \/ Use("sign", role) \/ Use("reject", role)
  \/ \E i \in 1..Len(replies) : sendCallback(i)
  \/ \E i \in 1..Len(lookups) : ReadDocument(i) \/ NotFound(i) \/ Found(i)
  \/ \E i \in 1..Len(writes) : WriteDone(i) \/ WriteFails(i)
  \/ Crash

Spec == Init /\ [][Next]_vars

-------------------------------------------------------------------------------
(* Properties *)

Answered(o) == o.status \in {"SENDING", "REACH"}

Recorded(role) ==
  \E i \in 1..Len(documents) : documents[i].toRole = role /\ Answered(documents[i])

\* A user who was told that the request is signed finds it so in the database, also
\* when copies of the message keep arriving, lookups overlap, writes fail or overtake
\* each other and the gateway crashes; unless the update came before the creation, or
\* another role's update replaced the document.
SignedIsRecorded == \A role \in signed \ unrecorded : Recorded(role)

\* A document that says a response is on its way, or arrived, is backed by one.
AnsweredIsReplied ==
  \A i \in 1..Len(documents) : Answered(documents[i]) => documents[i].toRole \in ToSet(replies)

\* No document goes back from answered to pending.
StaysAnswered ==
  [][\A i \in 1..Len(documents) : Answered(documents[i]) => Answered(documents'[i])]_vars
===============================================================================
