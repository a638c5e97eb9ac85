--------------------------- MODULE InnerSignRequest ---------------------------
(***************************************************************************)
(* One sign request at the gateway that asks for the signatures:           *)
(* signRequest/innerSignRequest.js and its life in signRequestManager.js.  *)
(*                                                                         *)
(* Every operation first looks the request up (getInnerSignRequestObj): in *)
(* the cache, or else in the database, from which a new object is made and *)
(* cached.  It then changes the object in one callback and sends the whole *)
(* object to the database.  Operations overlap: lookups in the database    *)
(* run side by side, and updates are under way while others go on.  The    *)
(* driver sends them over a pool of connections, so that the database may  *)
(* do any of them next, or fail to.                                        *)
(*                                                                         *)
(* A job is one operation, with what started it: the user who sends the    *)
(* request, the sendCallback of a message that was handled, or a response  *)
(* of another gateway.                                                     *)
(***************************************************************************)
EXTENDS PolicyCount

CONSTANTS
  policy,        (* this._policy, a record of PolicyCount.                 *)
  Signer,        (* Who may answer, signers of PolicyCount.                *)
  MaxSends,      (* Bound: how often the user sends the request.           *)
  MaxAnswers,    (* Bound: answers of each kind per signer, retries included. *)
  MaxLookups,    (* Bound: database lookups under way at the same time.    *)
  MaxUpdates,    (* Bound: a job starts while fewer updates are under way. *)
  MaxFailures,   (* Bound: the creation and updates that fail.             *)
  MaxCrashes     (* Bound: crashes of this gateway.                        *)

ASSUME policyAssumption == IsPolicy(policy)

Identity == DOMAIN policy.identities

Send == [kind : {"send"}, n : 1..MaxSends]
Reach == [kind : {"REACH"}, n : 1..MaxSends, identity : Identity]
Answer == [kind : {"ACCEPT", "REJECT"}, n : 1..MaxAnswers, signer : Signer]
Job == Send \cup Reach \cup Answer

VARIABLES
  cached,    (* innerSignRequestCollection[uuid]: {} or {the object}.      *)
  document,  (* The request in the database: {} if its creation failed.    *)
  lookups,   (* Jobs whose lookup is under way, with what was found.       *)
  writes,    (* Updates under way, oldest first, with the answers they end. *)
  started,   (* Jobs that have begun.                                      *)
  sent,      (* Numbers of the sends whose messages are on their way.      *)
  acked,     (* Answers that were answered with success.                   *)
  harmed,    (* What has happened that may cost a response: an update that
                overtook an earlier one, an object replaced by a stale one. *)
  failures, crashes

vars == <<cached, document, lookups, writes, started, sent, acked, harmed, failures, crashes>>

IdentityStatus == {"NOT_SEND", "SENDING", "REACH", "ACCEPT", "REJECT"}

Tally == [count : [DOMAIN policy.nOf -> Int \cup {NaN}], fullfilled : BOOLEAN]

Request == [tally : Tally, status : [Identity -> IdentityStatus], responses : Seq(Answer)]

\* Every copy: the object, the document, what lookups read and updates carry.
Copies ==
  cached \cup document \cup (UNION {l.found : l \in lookups})
         \cup {writes[i].request : i \in 1..Len(writes)}

TypeOK ==
  /\ Copies \subseteq Request
  /\ Cardinality(cached) <= 1 /\ Cardinality(document) <= 1
  /\ \A l \in lookups : l.job \in Job /\ Cardinality(l.found) <= 1
  /\ \A i \in 1..Len(writes) : writes[i].ends \subseteq Answer
  /\ started \subseteq Job
  /\ sent \subseteq 1..MaxSends
  /\ acked \subseteq Answer
  /\ harmed \subseteq {"overtaken", "stale"}
  /\ failures \in 0..MaxFailures /\ crashes \in 0..MaxCrashes

NewRequest ==
  [tally |-> formateRootPolicy(policy),
   status |-> [i \in Identity |-> "NOT_SEND"],
   responses |-> <<>>]

\* createNewInnerSignRequest: the caller learns the uuid, and the object is cached, when
\* the creation of the document is over, be it that it failed.
Init ==
  /\ cached = {NewRequest}
  /\ document \in {{NewRequest}, {}}
  /\ failures = (IF document = {} THEN 1 ELSE 0) /\ failures <= MaxFailures
  /\ lookups = {}
  /\ writes = <<>>
  /\ started = {}
  /\ sent = {}
  /\ acked = {}
  /\ harmed = {}
  /\ crashes = 0

-------------------------------------------------------------------------------
(* What the operations do to the object. *)

Matching(mspId, role) ==
  {i \in Identity : policy.identities[i].mspId = mspId /\ policy.identities[i].role = role}

\* changeIdentitesState: an administrator no identity asks for stands for the members.
Meant(mspId, role) ==
  IF role = "admin" /\ Matching(mspId, role) = {} THEN Matching(mspId, "member")
  ELSE Matching(mspId, role)

changeIdentitesState(r, mspId, role, state) ==
  [r EXCEPT !.status = [i \in Identity |->
     IF i \in Meant(mspId, role) THEN state ELSE @[i]]]

RoleOf(s) == IF s.isAdmin THEN "admin" ELSE "member"

\* An accepted response counts and is kept; its changeIdentitesState is passed TRUE
\* for the organisation (checkResult[0]), which no identity has.
Accepted_NotKept(r, job) ==
  [r EXCEPT !.tally = CountSignature(policy, job.signer, @)]

Accepted(r, job) ==
  [tally |-> CountSignature(policy, job.signer, r.tally),
   status |-> r.status,
   responses |-> Append(r.responses, job)]

After(r, job) ==
  CASE job.kind = "send" -> [r EXCEPT !.status = [i \in Identity |-> "SENDING"]]
    [] job.kind = "REACH" -> LET p == policy.identities[job.identity] IN
         changeIdentitesState(r, p.mspId, p.role, "REACH")
    [] job.kind = "ACCEPT" -> Accepted(r, job)
    [] job.kind = "REJECT" ->
         changeIdentitesState(r, job.signer.mspId, RoleOf(job.signer), "REJECT")

\* An answer is written twice: changeIdentitesState does not wait for its update, the
\* second one ends the operation.
Perform(job, r) ==
  LET q == After(r, job)
      Update(ends) == [request |-> q, ends |-> ends]
  IN  /\ cached' = {q}
      /\ writes' = IF job.kind \in {"ACCEPT", "REJECT"}
                   THEN Append(Append(writes, Update({})), Update({job}))
                   ELSE Append(writes, Update({}))
      /\ sent' = IF job.kind = "send" THEN sent \cup {job.n} ELSE sent

-------------------------------------------------------------------------------
(* Jobs *)

\* A gateway answers once a request has reached it; a REACH follows each message.
Possible(job) ==
  /\ job \notin started /\ Len(writes) < MaxUpdates
  /\ job.kind = "REACH" => job.n \in sent
  /\ job.kind \in {"ACCEPT", "REJECT"} =>
       sent # {} /\ \E i \in Identity : policy.identities[i].mspId = job.signer.mspId

\* In the cache: the promise is resolved, and its callbacks run, at once.
InCache(job) ==
  /\ Possible(job)
  /\ started' = started \cup {job}
  /\ \E r \in cached : Perform(job, r)
  /\ UNCHANGED <<document, lookups, acked, harmed, failures, crashes>>

Lookup(job) ==
  /\ Possible(job)
  /\ cached = {}
  /\ Cardinality(lookups) < MaxLookups
  /\ started' = started \cup {job}
  /\ lookups' = lookups \cup {[job |-> job, read |-> FALSE, found |-> {}]}
  /\ UNCHANGED <<cached, document, writes, sent, acked, harmed, failures, crashes>>

\* The database reads the document ...
ReadDocument == \E l \in lookups :
  /\ ~l.read
  /\ lookups' = (lookups \ {l}) \cup {[job |-> l.job, read |-> TRUE, found |-> document]}
  /\ UNCHANGED <<cached, document, writes, started, sent, acked, harmed, failures, crashes>>

\* ... and the callback caches a new object for it and carries on.  An object that is
\* there by now may hold responses that the new one does not.
FromDatabase_StartsAfresh == \E l \in lookups :
  /\ l.found # {}
  /\ lookups' = lookups \ {l}
  /\ Perform(l.job, NewRequest)
  /\ UNCHANGED <<document, started, acked, harmed, failures, crashes>>

FromDatabase == \E l \in lookups :
  /\ lookups' = lookups \ {l}
  /\ \E r \in l.found :
       /\ Perform(l.job, r)
       /\ harmed' = IF \A o \in cached : ToSet(o.responses) \subseteq ToSet(r.responses)
                    THEN harmed ELSE harmed \cup {"stale"}
  /\ UNCHANGED <<document, started, acked, failures, crashes>>

\* Nothing found: the rejection is not returned, so the caller fails on undefined.
NotFound == \E l \in lookups :
  /\ l.read /\ l.found = {}
  /\ lookups' = lookups \ {l}
  /\ UNCHANGED <<cached, document, writes, started, sent, acked, harmed, failures, crashes>>

\* The database does an update: it replaces the document, if there is one.
Written(i) ==
  /\ document' = {writes[i].request : r \in document}
  /\ harmed' = IF \E j \in 1..i - 1 : writes[j].request # writes[i].request
               THEN harmed \cup {"overtaken"} ELSE harmed

\* _updateRequest is over: receiveSignRequestResponse answers "received".
UpdateWritten == \E i \in 1..Len(writes) :
  /\ Written(i)
  /\ writes' = RemoveAt(writes, i)
  /\ acked' = acked \cup writes[i].ends
  /\ UNCHANGED <<cached, lookups, started, sent, failures, crashes>>

\* The caller gets an error, if there is one that waits; the object keeps the change.
\* The database may have done what it could not acknowledge.
UpdateFails == \E i \in 1..Len(writes) :
  /\ failures < MaxFailures
  /\ failures' = failures + 1
  /\ Written(i) \/ UNCHANGED <<document, harmed>>
  /\ writes' = RemoveAt(writes, i)
  /\ UNCHANGED <<cached, lookups, started, sent, acked, crashes>>

\* Cache, lookups and the callbacks of messages are gone, with the updates that have
\* not reached the database.
Crash ==
  /\ crashes < MaxCrashes
  /\ crashes' = crashes + 1
  /\ cached' = {}
  /\ lookups' = {}
  /\ writes' = <<>>
  /\ started' = started \cup {j \in Reach : j.n \in sent}
  /\ UNCHANGED <<document, sent, acked, harmed, failures>>

Next ==
  \/ \E job \in Job : InCache(job) \/ Lookup(job)
  \/ ReadDocument \/ FromDatabase \/ NotFound
  \/ UpdateWritten \/ UpdateFails \/ Crash

Spec == Init /\ [][Next]_vars

-------------------------------------------------------------------------------
(* Properties *)

\* Every copy of the request - object, document, what a lookup read, what an update
\* carries - agrees with itself: its counter counts the leaves directly under the root
\* that its responses cover, and it is fullfilled just when these are n.  So a restart
\* continues counting where the document stopped, neither fullfilled too early nor left
\* open.
CountsItsResponses ==
  \A r \in Copies :
    CountsLeaves(policy, r.tally, [i \in 1..Len(r.responses) |-> r.responses[i].signer])

\* innerSignRequest.js:176 "to put new reponse into this._responses": the accepted
\* responses that were answered with success are in the document.
AckedStored ==
  \A job \in acked : job.kind = "ACCEPT" => \E r \in document : job \in ToSet(r.responses)

\* A response answered with success stays in the document, whatever lookups overlap,
\* updates fail and crashes there are; unless the creation of the document failed (the
\* error is only logged), an update overtook an earlier one, or an object was replaced by
\* one that was read before.
AckedKept == document # {} /\ harmed = {} => AckedStored

\* The same where no update overtakes another.
AckedKeptInOrder == document # {} /\ "overtaken" \notin harmed => AckedStored
===============================================================================
