--------------------------------- MODULE Users ---------------------------------
(***************************************************************************)
(* The users of a gateway, hyperledgerUtil/user.js: who is registered at   *)
(* the certificate authority with which password, the passwords that the   *)
(* gateway accepts, and the users' objects that it signs with, through     *)
(* enrolments side by side, answers that fail and restarts.                *)
(*                                                                         *)
(* A user's object is written as the name that it was made for.  The       *)
(* administrators, whom userInit enrols before the others, are left out:   *)
(* they are there.                                                         *)
(***************************************************************************)
EXTENDS FiniteSets, Naturals

CONSTANTS
  Name, Password,
  None,          (* JavaScript's undefined.                                *)
  Call,          (* Requests to register a user.                           *)
  Boot,          (* The enrolment that userInit has under way.             *)
  FirstFile,     (* userData.json as the gateway comes with it.            *)
  MaxCrashes,    (* Bound: stops of the gateway.                           *)
  MaxFails       (* Bound: answers that the authority fails to give.       *)

VARIABLES
  registered,  (* The authority: the password of each name.                *)
  persisted,   (* The users that the SDK has stored.                       *)
  userData,    (* The passwords that the gateway accepts.                  *)
  file,        (* userData.json.                                           *)
  users,       (* The users' objects.                                      *)
  member,      (* The global of innerRegisterAndEnrollMethod.              *)
  context,     (* client._userContext.                                     *)
  calls,       (* calls[c]: a request, and what it waits for.              *)
  booting,     (* The names that userInit has yet to go through.           *)
  mixed,       (* Two enrolments had both made their objects.              *)
  broken,      (* Names whose enrolment was interrupted or contradicted.   *)
  crashes, fails

userVars == <<registered, persisted, userData, file, users, member, calls, booting,
              mixed, broken, crashes, fails>>
vars == <<userVars, context>>

(***************************************************************************)
(* lookup, register, enroll, making: it waits for the SDK's store, the     *)
(* authority's two answers, and the object's setEnrollment.                *)
(***************************************************************************)
Waiting == {"lookup", "register", "enroll", "making"}
Blank(step) == [step |-> step, name |-> None, password |-> None, secret |-> None]
Idle == Blank("idle")
Ended == Blank("ended")

TypeOK ==
  /\ registered \in [Name -> Password \cup {None}]
  /\ userData \in [Name -> Password \cup {None}] /\ file \in [Name -> Password \cup {None}]
  /\ persisted \subseteq Name /\ booting \subseteq Name /\ broken \subseteq Name
  /\ users \in [Name -> Name \cup {None}]
  /\ member \in Name \cup {None} /\ context \in Name \cup {None}
  /\ calls \in [Call \cup {Boot} ->
       [step : Waiting \cup {"idle", "ended"}, name : Name \cup {None},
        password : Password \cup {None}, secret : Password \cup {None}]]
  /\ mixed \in BOOLEAN

\* The authority knows none of the users that userData.json comes with.
Init ==
  /\ registered = [n \in Name |-> None] /\ persisted = {}
  /\ file = FirstFile /\ userData = FirstFile
  /\ users = [n \in Name |-> None]
  /\ member = None /\ context = None
  /\ calls = [c \in Call \cup {Boot} |-> Idle]
  /\ booting = {n \in Name : file[n] # None}
  /\ mixed = FALSE /\ broken = {} /\ crashes = 0 /\ fails = 0

Busy(c) == calls[c].step \in Waiting
On(n) == {c \in Call \cup {Boot} : Busy(c) /\ calls[c].name = n}
To(c, step) == calls' = [calls EXCEPT ![c].step = step]
Ends(c) == calls' = [calls EXCEPT ![c] = Ended]

-------------------------------------------------------------------------------
(* Requests. *)

Asked(n, p, step) == [step |-> step, name |-> n, password |-> p, secret |-> p]
Contradicts(n, p) == {n : c \in {d \in On(n) : calls[d].password # p}}

\* A wrong password is answered with undefined, which the controller takes for a success.
registerAndEnrollUser(c, n, p) ==
  /\ calls[c].step = "idle"
  /\ calls' = [calls EXCEPT ![c] =
       IF userData[n] \notin {None, p} THEN Ended
       ELSE Asked(n, p, IF userData[n] = None THEN "register" ELSE "lookup")]
  /\ broken' = broken \cup Contradicts(n, p)
  /\ UNCHANGED <<registered, persisted, userData, file, users, member, context, booting,
                 mixed, crashes, fails>>

\* userInit, one after another; with the password of userData.json.
getRegisteredUsersync(n) ==
  /\ ~Busy(Boot) /\ n \in booting
  /\ booting' = booting \ {n}
  /\ calls' = [calls EXCEPT ![Boot] = Asked(n, userData[n], "lookup")]
  /\ UNCHANGED <<registered, persisted, userData, file, users, member, context,
                 mixed, broken, crashes, fails>>

-------------------------------------------------------------------------------
(* Answers. *)

\* What the SDK finds becomes its context.
Found_AnyContext(c) ==
  /\ calls[c].step = "lookup"
  /\ IF calls[c].name \in persisted \cup {context}
     THEN /\ users' = [users EXCEPT ![calls[c].name] = IF context # None THEN context ELSE @]
          /\ context' = calls[c].name
          /\ Ends(c)
     ELSE To(c, "register") /\ UNCHANGED <<users, context>>
  /\ UNCHANGED <<registered, persisted, userData, file, member, booting, mixed, broken,
                 crashes, fails>>

Found_NoObject(c) ==
  /\ calls[c].step = "lookup"
  /\ IF calls[c].name \in persisted \cup {context}
     THEN /\ UNCHANGED users
          /\ context' = calls[c].name
          /\ Ends(c)
     ELSE To(c, "register") /\ UNCHANGED <<users, context>>
  /\ UNCHANGED <<registered, persisted, userData, file, member, booting, mixed, broken,
                 crashes, fails>>

Found(c) ==
  /\ calls[c].step = "lookup"
  /\ IF calls[c].name \in persisted \cup {context}
     THEN /\ users' = [users EXCEPT ![calls[c].name] = calls[c].name]
          /\ context' = calls[c].name
          /\ Ends(c)
     ELSE To(c, "register") /\ UNCHANGED <<users, context>>
  /\ UNCHANGED <<registered, persisted, userData, file, member, booting, mixed, broken,
                 crashes, fails>>

\* A name that is registered already is enrolled with the password of userData.
Registered(c) ==
  LET n == calls[c].name
  IN  /\ calls[c].step = "register"
      /\ IF registered[n] = None
         THEN registered' = [registered EXCEPT ![n] = calls[c].password] /\ To(c, "enroll")
         ELSE /\ calls' = [calls EXCEPT ![c].step = "enroll", ![c].secret = userData[n]]
              /\ UNCHANGED registered
      /\ UNCHANGED <<persisted, userData, file, users, member, context, booting, mixed, broken,
                     crashes, fails>>

\* The new object is kept in the global while its setEnrollment is waited for.
Enrolled(c) ==
  LET n == calls[c].name
  IN  /\ calls[c].step = "enroll"
      /\ IF calls[c].secret = registered[n]
         THEN /\ To(c, "making") /\ member' = n
              /\ mixed' = (mixed \/ \E d \in Call \cup {Boot} : calls[d].step = "making")
         ELSE Ends(c) /\ UNCHANGED <<member, mixed>>
      /\ UNCHANGED <<registered, persisted, userData, file, users, context, booting, broken,
                     crashes, fails>>

\* The SDK stores what the global holds, which nobody waits for; userInit leaves
\* userData alone.
Made_NotSaved(c) ==
  LET n == calls[c].name
  IN  /\ calls[c].step = "making" /\ Ends(c)
      /\ context' = member
      /\ users' = [users EXCEPT ![n] = member]
      /\ persisted' \in {persisted, persisted \cup {member}}
      /\ userData' = IF c = Boot THEN userData ELSE [userData EXCEPT ![n] = calls[c].password]
      /\ UNCHANGED <<registered, file, member, booting, mixed, broken, crashes, fails>>

Made(c) ==
  LET n == calls[c].name
  IN  /\ calls[c].step = "making" /\ Ends(c)
      /\ context' = member
      /\ users' = [users EXCEPT ![n] = member]
      /\ persisted' \in {persisted, persisted \cup {member}}
      /\ userData' = IF c = Boot THEN userData ELSE [userData EXCEPT ![n] = calls[c].password]
      /\ file' = IF c = Boot THEN file ELSE userData'
      /\ UNCHANGED <<registered, member, booting, mixed, broken, crashes, fails>>

\* The authority fails, or its answer is lost: the request ends, and what was
\* registered stays so.
Unanswered(c) ==
  LET n == calls[c].name
  IN  /\ calls[c].step \in {"register", "enroll"} /\ fails < MaxFails /\ fails' = fails + 1
      /\ Ends(c)
      /\ registered' \in {registered,
           IF calls[c].step = "register" /\ registered[n] = None
           THEN [registered EXCEPT ![n] = calls[c].password] ELSE registered}
      /\ broken' = broken \cup {n}
      /\ UNCHANGED <<persisted, userData, file, users, member, context, booting, mixed, crashes>>

Answer(c) == Found(c) \/ Registered(c) \/ Enrolled(c) \/ Made(c)

-------------------------------------------------------------------------------
(* Restarts. *)

\* The process ends, and userInit begins anew.
Restart ==
  /\ crashes < MaxCrashes /\ crashes' = crashes + 1
  /\ userData' = file
  /\ users' = [n \in Name |-> None] /\ member' = None /\ context' = None
  /\ calls' = [c \in Call \cup {Boot} |->
       IF c = Boot THEN Idle ELSE IF Busy(c) THEN Ended ELSE calls[c]]
  /\ booting' = {n \in Name : file[n] # None}
  /\ mixed' = FALSE
  /\ broken' = broken \cup {calls[c].name : c \in {d \in Call \cup {Boot} : Busy(d)}}
  /\ UNCHANGED <<registered, persisted, file, fails>>

Next ==
  \/ \E c \in Call, n \in Name, p \in Password : registerAndEnrollUser(c, n, p)
  \/ \E n \in Name : getRegisteredUsersync(n)
  \/ \E c \in Call \cup {Boot} : Answer(c) \/ Unanswered(c)

Spec == Init /\ [][Next \/ Restart]_vars

-------------------------------------------------------------------------------
(* Properties *)

\* Who asks for a name's object gets that user's own, unless two enrolments had both
\* made their objects: the global is the later one's.
OwnObject == ~mixed => \A n \in Name : users[n] \in {None, n}

\* The stored password of a name is the authority's, and a registered name is stored,
\* when nothing is under way for it, unless something of its enrolment failed, was
\* interrupted, or met a request with another password.
SecretsKept ==
  \A n \in Name : registered[n] # None /\ On(n) = {} /\ n \notin broken =>
    file[n] = registered[n]

\* When userInit is done every user of userData.json can act, unless something of its
\* enrolment failed, was interrupted, or met a request with another password.
BootedUsable ==
  booting = {} /\ ~Busy(Boot) =>
    \A n \in Name : file[n] # None => users[n] # None \/ n \in broken
===============================================================================
