----------------------------- MODULE Client_proof ------------------------------
(***************************************************************************)
(* Proofs about Client, for any users, passwords, requests and channels.   *)
(*                                                                         *)
(* The users' part of the inductive invariant says, of every name that is  *)
(* not broken, that all enrolments under way for it have one password,     *)
(* which is the stored one, if one is stored, and the authority's, if it   *)
(* is registered; and that what is registered is stored, or is being       *)
(* enrolled by a request that will store it.  The operations' part says of *)
(* every step what was checked and signed before it.                       *)
(***************************************************************************)
EXTENDS Client, TLAPS

Enrolment == Call \cup {Boot}

(***************************************************************************)
(* The users                                                               *)
(***************************************************************************)

\* What a request is for; calls that are idle or ended are for nobody.
CallInv(c) ==
  U!Busy(c) =>
    /\ calls[c].name \in Name /\ calls[c].password \in Password
    /\ calls[c].step \in {"lookup", "register"} => calls[c].secret = calls[c].password
    /\ calls[c].step \in {"enroll", "making"} => registered[calls[c].name] # None
    /\ calls[c].step = "lookup" => userData[calls[c].name] # None
    /\ c = Boot => userData[calls[c].name] # None
    /\ calls[c].step = "making" => member \in Name
    /\ calls[c].step = "making" /\ ~mixed => member = calls[c].name

For(c, n) == c \in Enrolment /\ U!Busy(c) /\ calls[c].name = n

\* The enrolments of a name.
Agreed(n) ==
  /\ \A c \in Enrolment : For(c, n) => userData[n] \in {None, calls[c].password}
  /\ \A c, d \in Enrolment : For(c, n) /\ For(d, n) => calls[c].password = calls[d].password
  /\ registered[n] # None => \A c \in Enrolment : For(c, n) => calls[c].password = registered[n]
  /\ For(Boot, n) => calls[Boot].secret = calls[Boot].password

WillBeStored(n) ==
  registered[n] # None =>
    \/ userData[n] = registered[n]
    \/ \E c \in Call : For(c, n) /\ calls[c].step \in {"enroll", "making"}
                       /\ calls[c].secret = registered[n]

WillBeUsable(n) ==
  userData[n] # None => users[n] # None \/ n \in booting \/ For(Boot, n)

NameInv(n) ==
  /\ n \in booting => userData[n] # None
  /\ n \in broken \/ (Agreed(n) /\ WillBeStored(n) /\ WillBeUsable(n))
  /\ ~mixed => users[n] \in {None, n}

UsersInv ==
  /\ U!TypeOK /\ file = userData
  /\ \A c \in Enrolment : CallInv(c)
  /\ \A n \in Name : NameInv(n)

\* Only the users' variables matter, and not the context.
LEMMA UsersInit == U!Init => UsersInv
<1> SUFFICES ASSUME U!Init PROVE UsersInv
  OBVIOUS
<1> USE DEF U!Init, U!Idle, U!Blank
<1>1. U!TypeOK
  BY ClientAssumption DEF U!TypeOK, U!Waiting
<1>2. \A c \in Enrolment : ~U!Busy(c)
  BY DEF U!Busy, U!Waiting, Enrolment
<1>3. \A c \in Enrolment : CallInv(c)
  BY <1>2 DEF CallInv
<1>4. \A n \in Name : NameInv(n)
  BY <1>2 DEF NameInv, Agreed, WillBeStored, WillBeUsable, For
<1> QED BY <1>1, <1>3, <1>4 DEF UsersInv

\* A step of one enrolment leaves the other calls alone.
CallStep(c) ==
  /\ c \in Enrolment
  /\ \/ U!Answer(c) \/ U!Unanswered(c)
     \/ c \in Call /\ \E n \in Name, p \in Password : U!registerAndEnrollUser(c, n, p)
     \/ c = Boot /\ \E n \in Name : U!getRegisteredUsersync(n)

LEMMA UsersType == ASSUME UsersInv, NEW c, CallStep(c) PROVE U!TypeOK'
<1> USE ClientAssumption
    DEF UsersInv, U!TypeOK, U!To, U!Ends, U!Ended, U!Blank, U!Waiting, Enrolment
<1>1. c \in Enrolment
  BY DEF CallStep
<1>2. CASE U!Found(c)
  <2>1. U!Busy(c)
    BY <1>2 DEF U!Found, U!Busy
  <2>2. calls[c].name \in Name
    BY <1>1, <2>1 DEF CallInv
  <2> QED BY <1>1, <1>2, <2>2 DEF U!Found
<1>3. CASE U!Registered(c)
  <2>1. U!Busy(c)
    BY <1>3 DEF U!Registered, U!Busy
  <2>2. calls[c].name \in Name
    BY <1>1, <2>1 DEF CallInv
  <2> QED BY <1>1, <1>3, <2>2 DEF U!Registered
<1>4. CASE U!Enrolled(c)
  <2>1. U!Busy(c)
    BY <1>4 DEF U!Enrolled, U!Busy
  <2>2. calls[c].name \in Name
    BY <1>1, <2>1 DEF CallInv
  <2>3. mixed' \in BOOLEAN
    BY <1>4 DEF U!Enrolled
  <2> QED BY <1>1, <1>4, <2>2, <2>3 DEF U!Enrolled
<1>5. CASE U!Made(c)
  <2>1. U!Busy(c)
    BY <1>5 DEF U!Made, U!Busy
  <2>2. calls[c].name \in Name /\ member \in Name
    BY <1>1, <1>5, <2>1 DEF CallInv, U!Made
  <2> QED BY <1>1, <1>5, <2>2 DEF U!Made
<1>6. CASE U!Unanswered(c)
  <2>1. U!Busy(c)
    BY <1>6 DEF U!Unanswered, U!Busy
  <2>2. calls[c].name \in Name
    BY <1>1, <2>1 DEF CallInv
  <2> QED BY <1>1, <1>6, <2>2 DEF U!Unanswered
<1>7. ASSUME NEW n \in Name, NEW p \in Password, c \in Call, U!registerAndEnrollUser(c, n, p)
      PROVE  U!TypeOK'
  <2>1. U!Contradicts(n, p) \subseteq Name
    BY DEF U!Contradicts
  <2>2. U!Asked(n, p, IF userData[n] = None THEN "register" ELSE "lookup") \in
          [step : U!Waiting \cup {"idle", "ended"}, name : Name \cup {None},
           password : Password \cup {None}, secret : Password \cup {None}]
    BY DEF U!Asked
  <2> QED BY <1>7, <2>1, <2>2 DEF U!registerAndEnrollUser
<1>8. ASSUME NEW n \in Name, c = Boot, U!getRegisteredUsersync(n) PROVE U!TypeOK'
  BY <1>8 DEF U!getRegisteredUsersync, U!Asked
<1> QED BY <1>2, <1>3, <1>4, <1>5, <1>6, <1>7, <1>8 DEF CallStep, U!Answer

\* A step of one enrolment is about one name.
LocalTo(c, n) ==
  /\ \A d \in Enrolment \ {c} : calls'[d] = calls[d]
  /\ U!Busy(c) => calls[c].name = n
  /\ U!Busy(c)' => calls'[c].name = n
  /\ \A m \in Name \ {n} :
       /\ registered'[m] = registered[m] /\ userData'[m] = userData[m] /\ users'[m] = users[m]
       /\ m \in booting' <=> m \in booting
       /\ m \in broken => m \in broken'
  /\ \A m \in Name : /\ registered[m] # None => registered'[m] # None
                     /\ userData[m] # None => userData'[m] # None
  /\ mixed => mixed'
  /\ \A d \in Enrolment \ {c} : calls[d].step = "making" => member' = member \/ (member' \in Name /\ mixed')

LEMMA OtherName ==
  ASSUME UsersInv, NEW c \in Enrolment, NEW n \in Name, LocalTo(c, n), NEW m \in Name \ {n}
  PROVE  NameInv(m)'
<1>1. NameInv(m)
  BY DEF UsersInv
<1>2. /\ registered'[m] = registered[m] /\ userData'[m] = userData[m] /\ users'[m] = users[m]
      /\ m \in booting' <=> m \in booting
      /\ m \in broken => m \in broken'
      /\ mixed => mixed'
  BY DEF LocalTo
<1>3. \A d \in Enrolment : For(d, m)' <=> For(d, m)
  BY DEF LocalTo, For, U!Busy
<1>4. \A d \in Enrolment : For(d, m) => calls'[d] = calls[d]
  BY DEF LocalTo, For
<1>5. Boot \in Enrolment /\ Call \subseteq Enrolment
  BY DEF Enrolment
<1>6. Agreed(m) => Agreed(m)'
  BY <1>2, <1>3, <1>4, <1>5 DEF Agreed
<1>7. WillBeStored(m) => WillBeStored(m)'
  BY <1>2, <1>3, <1>4, <1>5 DEF WillBeStored
<1>8. WillBeUsable(m) => WillBeUsable(m)'
  BY <1>2, <1>3, <1>5 DEF WillBeUsable
<1> QED BY <1>1, <1>2, <1>6, <1>7, <1>8 DEF NameInv

LEMMA OtherCall ==
  ASSUME UsersInv, NEW c \in Enrolment, NEW n \in Name, LocalTo(c, n), NEW d \in Enrolment \ {c}
  PROVE  CallInv(d)'
<1>1. CallInv(d)
  BY DEF UsersInv
<1>2. /\ calls'[d] = calls[d]
      /\ \A m \in Name : /\ registered[m] # None => registered'[m] # None
                         /\ userData[m] # None => userData'[m] # None
      /\ mixed => mixed'
      /\ calls[d].step = "making" => member' = member \/ (member' \in Name /\ mixed')
  BY DEF LocalTo
<1>3. U!Busy(d)' <=> U!Busy(d)
  BY <1>2 DEF U!Busy
<1>4. CASE ~U!Busy(d)
  BY <1>3, <1>4 DEF CallInv
<1>5. CASE U!Busy(d)
  <2>1. calls[d].step = "making" => member' \in Name
    BY <1>1, <1>2, <1>5 DEF CallInv
  <2>2. calls[d].step = "making" /\ ~mixed' => member' = calls[d].name
    BY <1>1, <1>2, <1>5 DEF CallInv
  <2>3. calls[d].name \in Name
    BY <1>1, <1>5 DEF CallInv
  <2>4. /\ registered[calls[d].name] # None => registered'[calls[d].name] # None
        /\ userData[calls[d].name] # None => userData'[calls[d].name] # None
    BY <1>2, <2>3
  <2> QED BY <1>1, <1>2, <1>5, <2>1, <2>2, <2>3, <2>4 DEF CallInv
<1> QED BY <1>4, <1>5

LEMMA Local ==
  ASSUME UsersInv, NEW c \in Enrolment, CallStep(c), NEW n \in Name, LocalTo(c, n),
         CallInv(c)', NameInv(n)', file' = userData'
  PROVE  UsersInv'
<1>1. U!TypeOK'
  BY UsersType
<1>2. \A d \in Enrolment : CallInv(d)'
  BY OtherCall
<1>3. \A m \in Name : NameInv(m)'
  BY OtherName
<1> QED BY <1>1, <1>2, <1>3 DEF UsersInv

LEMMA FoundInv == ASSUME UsersInv, NEW c \in Enrolment, U!Found(c) PROVE UsersInv'
<1> USE DEF U!To, U!Ends, U!Ended, U!Blank
<1>1. calls[c].step = "lookup" /\ U!Busy(c)
  BY DEF U!Found, U!Busy, U!Waiting
<1> PICK n \in Name : n = calls[c].name
  BY <1>1 DEF UsersInv, CallInv
<1>2. /\ n = calls[c].name /\ calls[c].password \in Password /\ userData[n] # None
      /\ calls[c].secret = calls[c].password
  BY <1>1 DEF UsersInv, CallInv
<1>3. U!TypeOK' /\ U!TypeOK
  BY UsersType DEF CallStep, U!Answer, UsersInv
<1>4. /\ calls' = [calls EXCEPT ![c] = calls'[c]]
      /\ \/ ~U!Busy(c)' /\ users' = [users EXCEPT ![n] = n]
         \/ calls'[c] = [calls[c] EXCEPT !.step = "register"] /\ users' = users
      /\ UNCHANGED <<registered, persisted, userData, file, member, booting, mixed, broken>>
  BY <1>1, <1>3 DEF U!Found, U!Busy, U!Waiting, U!TypeOK, Enrolment
<1>5. LocalTo(c, n)
  BY <1>1, <1>2, <1>3, <1>4 DEF LocalTo, U!TypeOK, U!Busy, Enrolment
<1>6. CallInv(c)'
  BY <1>1, <1>2, <1>3, <1>4 DEF CallInv, U!Busy, UsersInv, U!TypeOK, Enrolment
<1>7. NameInv(n)'
  <2>1. NameInv(n)
    BY <1>2 DEF UsersInv
  <2>2. users'[n] \in {users[n], n}
    BY <1>2, <1>3, <1>4 DEF U!TypeOK
  <2>3. For(c, n)
    BY <1>1 DEF For
  <2>4. \A d \in Enrolment : For(d, n)' => For(d, n) /\ calls'[d].password = calls[d].password
                                            /\ calls'[d].secret = calls[d].secret
    BY <1>3, <1>4, <2>3 DEF For, U!TypeOK, U!Busy, Enrolment
  <2>5. Agreed(n) => Agreed(n)'
    BY <1>4, <2>4 DEF Agreed, Enrolment
  <2>6. Agreed(n) => WillBeStored(n)'
    <3> SUFFICES ASSUME Agreed(n), registered[n] # None PROVE userData[n] = registered[n]
      BY <1>4 DEF WillBeStored
    <3> QED BY <1>2, <2>3 DEF Agreed
  <2>7. WillBeUsable(n) => WillBeUsable(n)'
    <3>1. CASE users'[n] = n
      BY <1>2, <3>1, ClientAssumption DEF WillBeUsable
    <3>2. CASE users' = users /\ calls'[c] = [calls[c] EXCEPT !.step = "register"]
      <4>1. For(Boot, n) => For(Boot, n)'
        BY <1>3, <1>4, <3>2 DEF For, U!Busy, U!Waiting, U!TypeOK, Enrolment
      <4> QED BY <1>4, <3>2, <4>1 DEF WillBeUsable
    <3> QED BY <1>2, <1>3, <1>4, <3>1, <3>2 DEF U!TypeOK
  <2> QED BY <1>4, <2>1, <2>2, <2>5, <2>6, <2>7 DEF NameInv
<1> QED BY <1>3, <1>4, <1>5, <1>6, <1>7, Local DEF UsersInv, CallStep, U!Answer

LEMMA RegisteredInv == ASSUME UsersInv, NEW c \in Enrolment, U!Registered(c) PROVE UsersInv'
<1> USE DEF U!To
<1>1. calls[c].step = "register" /\ U!Busy(c)
  BY DEF U!Registered, U!Busy, U!Waiting
<1> PICK n \in Name : n = calls[c].name
  BY <1>1 DEF UsersInv, CallInv
<1> PICK pw \in Password : pw = calls[c].password
  BY <1>1 DEF UsersInv, CallInv
<1>2. calls[c].secret = pw /\ (c = Boot => userData[n] # None) /\ pw # None
  BY <1>1, ClientAssumption DEF UsersInv, CallInv
<1>3. U!TypeOK' /\ U!TypeOK
  BY UsersType DEF CallStep, U!Answer, UsersInv
<1>4. /\ calls' = [calls EXCEPT ![c] = calls'[c]]
      /\ calls'[c].step = "enroll" /\ calls'[c].name = n /\ calls'[c].password = pw
      /\ \/ /\ registered[n] = None /\ registered' = [registered EXCEPT ![n] = pw]
            /\ calls'[c].secret = pw
         \/ registered[n] # None /\ registered' = registered /\ calls'[c].secret = userData[n]
      /\ UNCHANGED <<persisted, userData, file, users, member, booting, mixed, broken>>
  BY <1>2, <1>3 DEF U!Registered, U!TypeOK, Enrolment
<1>5. LocalTo(c, n)
  BY <1>1, <1>2, <1>3, <1>4 DEF LocalTo, U!TypeOK, U!Busy, Enrolment
<1>6. registered'[n] # None
  BY <1>2, <1>3, <1>4 DEF U!TypeOK
<1>7. CallInv(c)'
  BY <1>2, <1>4, <1>6 DEF CallInv
<1>8. NameInv(n)'
  <2>1. NameInv(n)
    BY DEF UsersInv
  <2> SUFFICES ASSUME n \notin broken PROVE Agreed(n)' /\ WillBeStored(n)' /\ WillBeUsable(n)'
    BY <1>4, <2>1 DEF NameInv
  <2>2. Agreed(n) /\ WillBeStored(n) /\ WillBeUsable(n)
    BY <2>1 DEF NameInv
  <2>3. For(c, n) /\ For(c, n)'
    BY <1>1, <1>4 DEF For, U!Busy, U!Waiting
  <2>4. \A d \in Enrolment : /\ For(d, n)' <=> For(d, n)
                             /\ calls'[d].password = calls[d].password
                             /\ d # c => calls'[d] = calls[d]
    BY <1>3, <1>4, <2>3 DEF For, U!Busy, U!TypeOK, Enrolment
  <2>5. registered'[n] = registered[n] \/ registered'[n] = pw
    BY <1>3, <1>4 DEF U!TypeOK
  <2>6. c = Boot => userData[n] = pw
    BY <1>2, <2>2, <2>3 DEF Agreed
  <2>7. Agreed(n)'
    <3>1. For(Boot, n)' => calls'[Boot].secret = calls'[Boot].password
      BY <1>4, <2>2, <2>4, <2>6 DEF Agreed, Enrolment
    <3> QED BY <1>4, <2>2, <2>3, <2>4, <2>5, <3>1 DEF Agreed
  <2>8. WillBeStored(n)'
    <3>1. CASE registered[n] = None
      BY <1>3, <1>4, <2>3, <2>6, <3>1 DEF WillBeStored, U!TypeOK, Enrolment
    <3>2. CASE registered[n] # None
      BY <1>1, <1>4, <2>2, <2>4, <3>2 DEF WillBeStored, Enrolment
    <3> QED BY <3>1, <3>2
  <2>9. WillBeUsable(n)'
    BY <1>4, <2>2, <2>4 DEF WillBeUsable, Enrolment
  <2> QED BY <2>7, <2>8, <2>9
<1> QED BY <1>3, <1>4, <1>5, <1>7, <1>8, Local DEF UsersInv, CallStep, U!Answer

LEMMA EnrolledInv == ASSUME UsersInv, NEW c \in Enrolment, U!Enrolled(c) PROVE UsersInv'
<1> USE DEF U!To, U!Ends, U!Ended, U!Blank
<1>1. calls[c].step = "enroll" /\ U!Busy(c)
  BY DEF U!Enrolled, U!Busy, U!Waiting
<1> PICK n \in Name : n = calls[c].name
  BY <1>1 DEF UsersInv, CallInv
<1>2. /\ calls[c].password \in Password /\ registered[n] # None
      /\ c = Boot => userData[n] # None
  BY <1>1 DEF UsersInv, CallInv
<1>3. U!TypeOK' /\ U!TypeOK
  BY UsersType DEF CallStep, U!Answer, UsersInv
<1>4. /\ calls' = [calls EXCEPT ![c] = calls'[c]]
      /\ \/ /\ calls'[c] = [calls[c] EXCEPT !.step = "making"] /\ member' = n
            /\ mixed' = (mixed \/ \E d \in Enrolment : calls[d].step = "making")
         \/ /\ calls[c].secret # registered[n] /\ ~U!Busy(c)'
            /\ UNCHANGED <<member, mixed>>
      /\ UNCHANGED <<registered, persisted, userData, file, users, booting, broken>>
  BY <1>3 DEF U!Enrolled, U!TypeOK, U!Busy, U!Waiting, Enrolment
<1>5. LocalTo(c, n)
  <2>1. mixed => mixed'
    BY <1>4
  <2>2. ASSUME NEW d \in Enrolment \ {c}, calls[d].step = "making"
        PROVE  member' = member \/ (member' \in Name /\ mixed')
    BY <1>4, <2>2
  <2> QED BY <1>1, <1>3, <1>4, <2>1, <2>2 DEF LocalTo, U!TypeOK, U!Busy, Enrolment
<1>6. CallInv(c)'
  BY <1>1, <1>2, <1>3, <1>4 DEF CallInv, U!TypeOK, Enrolment
<1>7. NameInv(n)'
  <2>1. NameInv(n) /\ (mixed => mixed')
    BY <1>5 DEF UsersInv, LocalTo
  <2> SUFFICES ASSUME n \notin broken PROVE Agreed(n)' /\ WillBeStored(n)' /\ WillBeUsable(n)'
    BY <1>4, <2>1 DEF NameInv
  <2>2. Agreed(n) /\ WillBeStored(n) /\ WillBeUsable(n)
    BY <2>1 DEF NameInv
  <2>3. For(c, n)
    BY <1>1 DEF For
  <2>4. ASSUME NEW d \in Enrolment
        PROVE  /\ For(d, n)' => For(d, n)
               /\ For(d, n)' => /\ calls'[d].password = calls[d].password
                                /\ calls'[d].secret = calls[d].secret
    BY <1>3, <1>4, <2>3 DEF For, U!Busy, U!TypeOK, Enrolment
  <2>5. ASSUME NEW d \in Enrolment, For(d, n), d # c \/ calls[c].secret = registered[n]
        PROVE  /\ For(d, n)' /\ calls'[d].secret = calls[d].secret
               /\ calls[d].step \in {"enroll", "making"} => calls'[d].step \in {"enroll", "making"}
    BY <1>3, <1>4, <2>5 DEF For, U!Busy, U!Waiting, U!TypeOK, Enrolment
  <2>6. Agreed(n)'
    BY <1>4, <2>2, <2>4 DEF Agreed, Enrolment
  <2>7. WillBeStored(n)'
    BY <1>4, <2>2, <2>5 DEF WillBeStored, Enrolment
  <2>8. WillBeUsable(n)'
    <3>1. For(Boot, n) /\ c = Boot => calls[c].secret = registered[n]
      BY <1>2, <2>2, <2>3 DEF Agreed
    <3>2. For(Boot, n) => For(Boot, n)'
      BY <2>5, <3>1 DEF Enrolment
    <3> QED BY <1>4, <2>2, <3>2 DEF WillBeUsable
  <2> QED BY <2>6, <2>7, <2>8
<1> QED BY <1>3, <1>4, <1>5, <1>6, <1>7, Local DEF UsersInv, CallStep, U!Answer

LEMMA MadeInv == ASSUME UsersInv, NEW c \in Enrolment, U!Made(c) PROVE UsersInv'
<1> USE DEF U!Ends, U!Ended, U!Blank
<1>1. calls[c].step = "making" /\ U!Busy(c)
  BY DEF U!Made, U!Busy, U!Waiting
<1> PICK n \in Name : n = calls[c].name
  BY <1>1 DEF UsersInv, CallInv
<1> PICK pw \in Password : pw = calls[c].password
  BY <1>1 DEF UsersInv, CallInv
<1>2. /\ pw # None /\ registered[n] # None /\ member \in Name /\ member # None
      /\ ~mixed => member = n
      /\ c = Boot => userData[n] # None
  BY <1>1, ClientAssumption DEF UsersInv, CallInv
<1>3. U!TypeOK' /\ U!TypeOK /\ file = userData
  BY UsersType DEF CallStep, U!Answer, UsersInv
<1>4. /\ calls' = [calls EXCEPT ![c] = calls'[c]] /\ ~U!Busy(c)'
      /\ users' = [users EXCEPT ![n] = member]
      /\ userData' = IF c = Boot THEN userData ELSE [userData EXCEPT ![n] = pw]
      /\ UNCHANGED <<registered, member, booting, mixed, broken>>
  BY <1>3 DEF U!Made, U!TypeOK, U!Busy, U!Waiting, Enrolment
<1>5. file' = userData'
  BY <1>3 DEF U!Made
<1>6. userData'[n] \in {userData[n], pw} /\ (userData[n] # None => userData'[n] # None)
  BY <1>2, <1>3, <1>4 DEF U!TypeOK
<1>7. LocalTo(c, n)
  BY <1>1, <1>3, <1>4, <1>6 DEF LocalTo, U!TypeOK, U!Busy, Enrolment
<1>8. CallInv(c)'
  BY <1>4 DEF CallInv
<1>9. NameInv(n)'
  <2>1. NameInv(n) /\ users'[n] = member
    BY <1>3, <1>4 DEF UsersInv, U!TypeOK
  <2> SUFFICES ASSUME n \notin broken PROVE Agreed(n)' /\ WillBeStored(n)' /\ WillBeUsable(n)'
    BY <1>2, <1>4, <1>6, <2>1 DEF NameInv
  <2>2. Agreed(n) /\ WillBeStored(n)
    BY <2>1 DEF NameInv
  <2>3. For(c, n)
    BY <1>1 DEF For
  <2>4. \A d \in Enrolment : /\ For(d, n)' => For(d, n) /\ calls'[d] = calls[d]
                             /\ d # c => calls'[d] = calls[d] /\ (For(d, n)' <=> For(d, n))
    BY <1>3, <1>4 DEF For, U!Busy, U!TypeOK, Enrolment
  <2>5. registered[n] = pw
    BY <1>2, <2>2, <2>3 DEF Agreed
  <2>6. userData'[n] = pw
    <3>1. CASE c = Boot
      BY <1>2, <1>4, <2>2, <2>3, <3>1 DEF Agreed
    <3>2. CASE c # Boot
      BY <1>3, <1>4, <3>2 DEF U!TypeOK
    <3> QED BY <3>1, <3>2
  <2>7. Agreed(n)'
    BY <1>4, <2>2, <2>3, <2>4, <2>6 DEF Agreed, Enrolment
  <2>8. WillBeStored(n)'
    BY <1>4, <2>5, <2>6 DEF WillBeStored
  <2>9. WillBeUsable(n)'
    BY <1>2, <2>1 DEF WillBeUsable
  <2> QED BY <2>7, <2>8, <2>9
<1> QED BY <1>5, <1>7, <1>8, <1>9, Local DEF CallStep, U!Answer

LEMMA UnansweredInv == ASSUME UsersInv, NEW c \in Enrolment, U!Unanswered(c) PROVE UsersInv'
<1> USE DEF U!Ends, U!Ended, U!Blank
<1>1. calls[c].step \in {"register", "enroll"} /\ U!Busy(c)
  BY DEF U!Unanswered, U!Busy, U!Waiting
<1> PICK n \in Name : n = calls[c].name
  BY <1>1 DEF UsersInv, CallInv
<1>2. U!TypeOK' /\ U!TypeOK /\ calls[c].password # None
  BY <1>1, UsersType, ClientAssumption DEF CallStep, UsersInv, CallInv
<1>3. /\ calls' = [calls EXCEPT ![c] = calls'[c]] /\ ~U!Busy(c)'
      /\ \/ registered' = registered
         \/ registered[n] = None /\ registered' = [registered EXCEPT ![n] = calls[c].password]
      /\ broken' = broken \cup {n}
      /\ UNCHANGED <<userData, file, users, member, booting, mixed>>
  BY <1>2 DEF U!Unanswered, U!TypeOK, U!Busy, U!Waiting, Enrolment
<1>4. LocalTo(c, n)
  BY <1>1, <1>2, <1>3 DEF LocalTo, U!TypeOK, U!Busy, Enrolment
<1>5. CallInv(c)'
  BY <1>3 DEF CallInv
<1>6. NameInv(n)'
  BY <1>3 DEF NameInv, UsersInv
<1> QED BY <1>3, <1>4, <1>5, <1>6, Local DEF UsersInv, CallStep

LEMMA RequestInv ==
  ASSUME UsersInv, NEW c \in Call, NEW n \in Name, NEW p \in Password,
         U!registerAndEnrollUser(c, n, p)
  PROVE  UsersInv'
<1> USE DEF U!Ended, U!Blank, U!Asked
<1>1. calls[c].step = "idle" /\ ~U!Busy(c) /\ c \in Enrolment /\ c # Boot /\ p # None
  BY ClientAssumption DEF U!registerAndEnrollUser, U!Busy, U!Waiting, Enrolment
<1>2. U!TypeOK' /\ U!TypeOK
  BY <1>1, UsersType DEF CallStep, UsersInv
<1>3. /\ calls' = [calls EXCEPT ![c] = calls'[c]]
      /\ \/ ~U!Busy(c)'
         \/ /\ userData[n] \in {None, p}
            /\ calls'[c].step = IF userData[n] = None THEN "register" ELSE "lookup"
            /\ calls'[c].name = n /\ calls'[c].password = p /\ calls'[c].secret = p
      /\ broken' = broken \cup U!Contradicts(n, p)
      /\ UNCHANGED <<registered, userData, file, users, member, booting, mixed>>
  BY <1>1, <1>2 DEF U!registerAndEnrollUser, U!TypeOK, U!Busy, U!Waiting, Enrolment
<1>4. LocalTo(c, n)
  BY <1>1, <1>2, <1>3 DEF LocalTo, U!TypeOK, U!Busy, Enrolment
<1>5. CallInv(c)'
  BY <1>1, <1>3 DEF CallInv
<1>6. NameInv(n)'
  <2>1. NameInv(n)
    BY DEF UsersInv
  <2> SUFFICES ASSUME n \notin broken' PROVE Agreed(n)' /\ WillBeStored(n)' /\ WillBeUsable(n)'
    BY <1>3, <2>1 DEF NameInv
  <2>2. Agreed(n) /\ WillBeStored(n) /\ WillBeUsable(n)
    BY <1>3, <2>1 DEF NameInv
  <2>3. \A d \in Enrolment \ {c} : calls'[d] = calls[d] /\ (For(d, n)' <=> For(d, n))
    BY <1>4 DEF LocalTo, For, U!Busy
  <2>4. ~For(c, n)
    BY <1>1 DEF For
  <2>5. ASSUME NEW d \in Enrolment, For(d, n) PROVE calls[d].password = p
    <3>1. d \in U!On(n)
      BY <2>5 DEF For, U!On, Enrolment
    <3>2. calls[d].password # p => n \in U!Contradicts(n, p)
      BY <3>1 DEF U!Contradicts
    <3> QED BY <1>3, <3>2
  <2>6. ASSUME NEW d \in Enrolment, For(d, n)' PROVE calls'[d].password = p
    BY <1>3, <2>3, <2>5, <2>6 DEF For
  <2>7. For(c, n)' => userData[n] \in {None, p} /\ (registered[n] # None => registered[n] = p)
    <3> SUFFICES ASSUME For(c, n)', registered[n] # None
                 PROVE  userData[n] \in {None, p} /\ registered[n] = p
      BY <1>3 DEF For
    <3>1. userData[n] \in {None, p}
      BY <1>3 DEF For
    <3>2. CASE userData[n] = registered[n]
      BY <3>1, <3>2
    <3>3. ASSUME NEW d \in Call, For(d, n) PROVE registered[n] = p
      BY <2>2, <2>5, <3>3 DEF Agreed, Enrolment
    <3> QED BY <2>2, <3>1, <3>2, <3>3 DEF WillBeStored
  <2>8. Agreed(n)'
    <3>1. \A d \in Enrolment : For(d, n)' => userData'[n] \in {None, p}
      BY <1>3, <2>2, <2>3, <2>5, <2>7 DEF Agreed
    <3>2. registered'[n] # None => \A d \in Enrolment : For(d, n)' => registered'[n] = p
      BY <1>3, <2>2, <2>3, <2>5, <2>7 DEF Agreed
    <3>3. For(Boot, n)' => calls'[Boot].secret = calls'[Boot].password
      BY <1>1, <2>2, <2>3 DEF Agreed, Enrolment
    <3> QED BY <2>6, <3>1, <3>2, <3>3 DEF Agreed
  <2>9. WillBeStored(n)'
    BY <1>3, <2>2, <2>3, <2>4 DEF WillBeStored, Enrolment
  <2>10. WillBeUsable(n)'
    BY <1>1, <1>3, <2>2, <2>3 DEF WillBeUsable, Enrolment
  <2> QED BY <2>8, <2>9, <2>10
<1> QED BY <1>1, <1>3, <1>4, <1>5, <1>6, Local DEF UsersInv, CallStep

LEMMA BootInv ==
  ASSUME UsersInv, NEW n \in Name, U!getRegisteredUsersync(n)
  PROVE  UsersInv'
<1> USE DEF U!Asked
<1>1. ~U!Busy(Boot) /\ Boot \in Enrolment /\ Boot \notin Call /\ n \in booting
  BY ClientAssumption DEF U!getRegisteredUsersync, Enrolment
<1>2. U!TypeOK' /\ U!TypeOK
  BY <1>1, UsersType DEF CallStep, UsersInv
<1>3. NameInv(n) /\ userData[n] # None /\ userData[n] \in Password
  BY <1>1, <1>2 DEF UsersInv, NameInv, U!TypeOK
<1>4. /\ calls' = [calls EXCEPT ![Boot] = calls'[Boot]]
      /\ calls'[Boot].step = "lookup" /\ calls'[Boot].name = n
      /\ calls'[Boot].password = userData[n] /\ calls'[Boot].secret = userData[n]
      /\ booting' = booting \ {n}
      /\ UNCHANGED <<registered, userData, file, users, member, mixed, broken>>
  BY <1>1, <1>2 DEF U!getRegisteredUsersync, U!TypeOK, Enrolment
<1>5. LocalTo(Boot, n)
  BY <1>1, <1>2, <1>4 DEF LocalTo, U!TypeOK, U!Busy, Enrolment
<1>6. CallInv(Boot)'
  BY <1>3, <1>4 DEF CallInv
<1>7. NameInv(n)'
  <2> SUFFICES ASSUME n \notin broken PROVE Agreed(n)' /\ WillBeStored(n)' /\ WillBeUsable(n)'
    BY <1>3, <1>4 DEF NameInv
  <2>1. Agreed(n) /\ WillBeStored(n)
    BY <1>3 DEF NameInv
  <2>2. \A d \in Enrolment \ {Boot} : calls'[d] = calls[d] /\ (For(d, n)' <=> For(d, n))
    BY <1>5 DEF LocalTo, For, U!Busy
  <2>3. For(Boot, n)'
    BY <1>1, <1>4 DEF For, U!Busy, U!Waiting
  <2>4. \A d \in Enrolment : For(d, n)' => calls'[d].password = userData[n]
    BY <1>3, <1>4, <2>1, <2>2 DEF Agreed
  <2>5. registered[n] # None => registered[n] = userData[n]
    BY <1>3, <2>1 DEF Agreed, WillBeStored, Enrolment
  <2>6. Agreed(n)'
    BY <1>4, <2>4, <2>5 DEF Agreed
  <2>7. WillBeStored(n)'
    BY <1>4, <2>5 DEF WillBeStored
  <2>8. WillBeUsable(n)'
    BY <2>3 DEF WillBeUsable
  <2> QED BY <2>6, <2>7, <2>8
<1> QED BY <1>1, <1>4, <1>5, <1>6, <1>7, Local DEF UsersInv, CallStep

\* The broken names are those of the requests that are cut short.
LEMMA UsersRestart == ASSUME UsersInv, U!Restart PROVE UsersInv'
<1> USE DEF U!Restart, U!Idle, U!Ended, U!Blank
<1>1. U!TypeOK /\ file = userData
  BY DEF UsersInv
<1>2. \A c \in Enrolment : U!Busy(c) => calls[c].name \in Name
  BY DEF UsersInv, CallInv
<1>3. U!TypeOK'
  <2>1. broken' \subseteq Name
    BY <1>1, <1>2 DEF U!TypeOK, Enrolment
  <2>2. calls' \in [Enrolment ->
          [step : U!Waiting \cup {"idle", "ended"}, name : Name \cup {None},
           password : Password \cup {None}, secret : Password \cup {None}]]
    BY <1>1 DEF U!TypeOK, Enrolment
  <2> QED BY <1>1, <2>1, <2>2 DEF U!TypeOK, Enrolment
<1>4. \A c \in Enrolment : ~U!Busy(c)'
  BY DEF U!Busy, U!Waiting, Enrolment
<1>5. \A c \in Enrolment : CallInv(c)'
  BY <1>4 DEF CallInv
<1>6. ASSUME NEW n \in Name PROVE NameInv(n)'
  <2>1. users'[n] = None /\ userData'[n] = userData[n] /\ registered'[n] = registered[n]
    BY <1>1
  <2>2. n \in booting' <=> userData[n] # None
    BY <1>1
  <2> SUFFICES ASSUME n \notin broken' PROVE Agreed(n)' /\ WillBeStored(n)' /\ WillBeUsable(n)'
    BY <2>1, <2>2 DEF NameInv
  <2>3. \A c \in Enrolment : ~For(c, n) /\ ~For(c, n)'
    BY <1>4 DEF For, Enrolment
  <2>4. Agreed(n) /\ WillBeStored(n)
    BY DEF UsersInv, NameInv
  <2> QED BY <2>1, <2>2, <2>3, <2>4 DEF Agreed, WillBeStored, WillBeUsable, Enrolment
<1> QED BY <1>1, <1>3, <1>5, <1>6 DEF UsersInv

(***************************************************************************)
(* The operations                                                          *)
(***************************************************************************)

Over == {"idle", "success", "failed"}

OpInv(o) ==
  /\ ops[o].step = "idle" => signers[o] = {}
  /\ ops[o].step # "idle" => ops[o].user \in Name /\ ops[o].channel \in Channel
  /\ ops[o].step = "json" => ops[o].kind = "create" /\ ops[o].json
  /\ ops[o].step = "ordering" =>
       ops[o].kind = "create" /\ (ops[o].have => ops[o].channel \in known)
  /\ ops[o].step = "decode" => ops[o].kind = "create" /\ ops[o].channel \in created
  /\ ops[o].step \in {"database", "updating"} => ops[o].kind = "update"
  /\ ops[o].step = "config" => ops[o].kind = "addOrg"
  /\ ops[o].step \in {"genesis", "joining"} =>
       ops[o].kind = "join" /\ ops[o].targets # {}
  /\ ops[o].step = "genesis" => ops[o].took = {} /\ ~ops[o].sent
  /\ ops[o].step = "joining" =>
       /\ ops[o].targets \ ops[o].left \subseteq joined[ops[o].channel]
       /\ ops[o].took # {} \/ ops[o].sent => ops[o].tx = ops[o].user

Done(o) ==
  ops[o].step = "success" =>
    /\ ops[o].kind = "create" => ops[o].channel \in created \cap known
    /\ ops[o].kind = "join" =>
         /\ ops[o].targets \subseteq joined[ops[o].channel]
         /\ ops[o].tx = ops[o].user /\ hubs[o] = {}

Acts(o) ==
  ~mixed =>
    /\ ops[o].step \in Over \/ ops[o].user = ops[o].name
    /\ ~(ops[o].kind = "create" /\ ops[o].json) => signers[o] \subseteq {ops[o].name}

OpsInv == C!TypeOK /\ \A o \in Op : OpInv(o) /\ Done(o) /\ Acts(o)

LEMMA OpsInit == Init => OpsInv
BY ClientAssumption
DEF Init, U!Init, C!Init, C!Idle, C!TypeOK, C!Kind, C!Step, C!Record, OpsInv, OpInv, Done, Acts, Over

\* A step of one operation.
OpStep(o) ==
  \/ C!Answer(o)
  \/ \E n \in Name, c \in Channel :
       \/ \E b \in BOOLEAN : C!createChannel(o, n, c, b) \/ C!updateChannel(o, n, c, b)
       \/ C!addOrg(o, n, c)
       \/ \E T \in {{p} : p \in Peer} \cup {Peer} : C!joinChannel(o, n, c, T)

LEMMA UserType == ASSUME UsersInv, NEW n \in Name, users[n] # None
                  PROVE  users[n] \in Name /\ (~mixed => users[n] = n)
BY DEF UsersInv, U!TypeOK, NameInv

\* An operation leaves the others' records alone, and only adds to what all share.
OpFrame(o) ==
  /\ context' \in Name \cup {None} /\ users' = users
  /\ signers' \in [Op -> SUBSET Name] /\ hubs' \in [Op -> SUBSET Peer]
  /\ joined' \in [Channel -> SUBSET Peer] /\ known' \subseteq Channel /\ created' \subseteq Channel
  /\ \A q \in Op \ {o} : ops'[q] = ops[q] /\ signers'[q] = signers[q] /\ hubs'[q] = hubs[q]
  /\ known \subseteq known' /\ created \subseteq created'
  /\ \A c \in Channel : joined[c] \subseteq joined'[c]

\* What is known of a request, and what the handlers put into it.
LEMMA Records ==
  ASSUME NEW r \in C!Record
  PROVE  /\ r.step \in C!Step /\ r.user \in Name \cup {None} /\ r.channel \in Channel \cup {None}
         /\ r.targets \in SUBSET Peer /\ r.left \in SUBSET Peer /\ r.took \in SUBSET Peer
         /\ \A s \in C!Step : [r EXCEPT !.step = s] \in C!Record
         /\ \A b \in BOOLEAN : [r EXCEPT !.have = b] \in C!Record
         /\ \A b \in BOOLEAN : [r EXCEPT !.json = b] \in C!Record
         /\ \A b \in BOOLEAN : [r EXCEPT !.sent = b] \in C!Record
         /\ \A T \in SUBSET Peer : [r EXCEPT !.targets = T] \in C!Record
         /\ \A T \in SUBSET Peer : [r EXCEPT !.left = T] \in C!Record
         /\ \A T \in SUBSET Peer : [r EXCEPT !.took = T] \in C!Record
         /\ \A u \in Name : [r EXCEPT !.tx = u] \in C!Record
BY DEF C!Record

LEMMA Requests ==
  ASSUME UsersInv, NEW kind \in C!Kind, NEW step \in C!Step, NEW n \in Name, NEW c \in Channel,
         users[n] # None
  PROVE  C!Request(kind, step, n, c) \in C!Record
BY UserType DEF C!Request, C!Idle, C!Kind, C!Step, C!Record

LEMMA Steps ==
  /\ {"json", "database", "config", "ordering", "updating", "genesis", "decode", "joining", "hung",
      "success", "failed"} \subseteq C!Step
  /\ {"create", "update", "addOrg", "join"} \subseteq C!Kind
BY DEF C!Step, C!Kind

LEMMA OpRecords ==
  ASSUME UsersInv, OpsInv, NEW o \in Op, OpStep(o)
  PROVE  ops' \in [Op -> C!Record]
<1>0. ops \in [Op -> C!Record] /\ ops[o] \in C!Record /\ context \in Name \cup {None}
  BY DEF OpsInv, C!TypeOK
<1> USE <1>0 DEF C!To, C!Starts
<1>1. ASSUME NEW n \in Name, NEW c \in Channel, NEW b \in BOOLEAN, C!createChannel(o, n, c, b)
      PROVE  ops' \in [Op -> C!Record]
  <2> DEFINE r == C!Request("create", IF b THEN "json" ELSE "ordering", n, c)
  <2>1. r \in C!Record
    BY <1>1, Requests, Steps DEF C!createChannel
  <2> HIDE DEF r
  <2>2. [r EXCEPT !.json = b] \in C!Record
    BY <2>1, Records
  <2>3. [[r EXCEPT !.json = b] EXCEPT !.have = c \in known] \in C!Record
    <3>1. CASE c \in known
      <4>1. (c \in known) = TRUE
        BY <3>1
      <4> QED BY <2>2, <4>1, Records
    <3>2. CASE c \notin known
      <4>1. (c \in known) = FALSE
        BY <3>2
      <4> QED BY <2>2, <4>1, Records
    <3> QED BY <3>1, <3>2
  <2> QED BY <1>1, <2>3 DEF C!createChannel, r
<1>2. ASSUME NEW n \in Name, NEW c \in Channel, NEW b \in BOOLEAN, C!updateChannel(o, n, c, b)
      PROVE  ops' \in [Op -> C!Record]
  BY <1>2, Records, Requests, Steps DEF C!updateChannel
<1>3. ASSUME NEW n \in Name, NEW c \in Channel, C!addOrg(o, n, c)
      PROVE  ops' \in [Op -> C!Record]
  BY <1>3, Records, Requests, Steps DEF C!addOrg
<1>4. ASSUME NEW n \in Name, NEW c \in Channel, NEW T \in SUBSET Peer, C!joinChannel(o, n, c, T)
      PROVE  ops' \in [Op -> C!Record]
  BY <1>4, Records, Requests, Steps DEF C!joinChannel
<1>5. CASE C!JsonMade(o)
  BY <1>5, Records, Requests, Steps DEF C!JsonMade
<1>6. CASE C!JsonNotMade(o)
  BY <1>6, Records, Requests, Steps DEF C!JsonNotMade
<1>7. CASE C!Ordered(o)
  BY <1>7, Records, Requests, Steps DEF C!Ordered
<1>8. CASE C!AddChannelByConfigUpdate(o)
  BY <1>8, Records, Requests, Steps DEF C!AddChannelByConfigUpdate
<1>9. CASE C!SignRequestRead(o)
  BY <1>9, Records, Requests, Steps DEF C!SignRequestRead
<1>10. CASE C!Updated(o)
  BY <1>10, Records, Requests, Steps DEF C!Updated
<1>11. CASE C!ConfigRead(o)
  BY <1>11, Records, Requests, Steps DEF C!ConfigRead
<1>12. CASE C!GenesisRead(o)
  BY <1>12, Records, Requests, Steps DEF C!GenesisRead
<1>13. CASE C!Proposed(o)
  BY <1>13, Records, Requests, Steps DEF C!Proposed
<1>14. CASE C!OtherBlockOrTimeout(o)
  BY <1>14, Records, Requests, Steps DEF C!OtherBlockOrTimeout
<1>15. CASE C!Joined(o)
  BY <1>15, Records, Requests, Steps DEF C!Joined
<1>16. ASSUME NEW p \in Peer, C!Joins(o, p) PROVE ops' \in [Op -> C!Record]
  BY <1>16, Records, Requests, Steps DEF C!Joins
<1>17. ASSUME NEW p \in Peer, C!BlockCame(o, p) PROVE ops' \in [Op -> C!Record]
  BY <1>17, Records, Requests, Steps DEF C!BlockCame
<1>18. \A T \in {{p} : p \in Peer} \cup {Peer} : T \in SUBSET Peer
  OBVIOUS
<1> QED BY <1>1, <1>2, <1>3, <1>4, <1>5, <1>6, <1>7, <1>8, <1>9, <1>10, <1>11, <1>12, <1>13, <1>14,
           <1>15, <1>16, <1>17, <1>18 DEF OpStep, C!Answer

LEMMA OpFrames ==
  ASSUME UsersInv, OpsInv, NEW o \in Op, OpStep(o)
  PROVE  OpFrame(o)
<1>0. /\ ops \in [Op -> C!Record] /\ context \in Name \cup {None}
      /\ signers \in [Op -> SUBSET Name] /\ hubs \in [Op -> SUBSET Peer]
      /\ joined \in [Channel -> SUBSET Peer] /\ known \subseteq Channel /\ created \subseteq Channel
      /\ \A n \in Name : users[n] \in Name \cup {None}
      /\ ops[o].step # "idle" => ops[o].user \in Name /\ ops[o].channel \in Channel
      /\ ops[o].targets \in SUBSET Peer
  <2>1. ops[o] \in C!Record
    BY DEF OpsInv, C!TypeOK
  <2> QED BY <2>1, Records DEF OpsInv, OpInv, C!TypeOK, UsersInv, U!TypeOK
<1> USE <1>0 DEF C!To, C!Starts, C!Signs, OpFrame
<1>1. ASSUME NEW n \in Name, NEW c \in Channel, NEW b \in BOOLEAN, C!createChannel(o, n, c, b)
      PROVE  OpFrame(o)
  BY <1>1 DEF C!createChannel
<1>2. ASSUME NEW n \in Name, NEW c \in Channel, NEW b \in BOOLEAN, C!updateChannel(o, n, c, b)
      PROVE  OpFrame(o)
  BY <1>2 DEF C!updateChannel
<1>3. ASSUME NEW n \in Name, NEW c \in Channel, C!addOrg(o, n, c)
      PROVE  OpFrame(o)
  BY <1>3 DEF C!addOrg
<1>4. ASSUME NEW n \in Name, NEW c \in Channel, NEW T \in SUBSET Peer, C!joinChannel(o, n, c, T)
      PROVE  OpFrame(o)
  BY <1>4 DEF C!joinChannel
<1>5. CASE C!JsonMade(o)
  BY <1>5 DEF C!JsonMade
<1>6. CASE C!JsonNotMade(o)
  BY <1>6 DEF C!JsonNotMade
<1>7. CASE C!Ordered(o)
  BY <1>7 DEF C!Ordered
<1>8. CASE C!AddChannelByConfigUpdate(o)
  BY <1>8 DEF C!AddChannelByConfigUpdate
<1>9. CASE C!SignRequestRead(o)
  BY <1>9 DEF C!SignRequestRead
<1>10. CASE C!Updated(o)
  BY <1>10 DEF C!Updated
<1>11. CASE C!ConfigRead(o)
  BY <1>11 DEF C!ConfigRead
<1>12. CASE C!GenesisRead(o)
  BY <1>12 DEF C!GenesisRead
<1>13. CASE C!Proposed(o)
  BY <1>13 DEF C!Proposed
<1>14. CASE C!OtherBlockOrTimeout(o)
  BY <1>14 DEF C!OtherBlockOrTimeout
<1>15. CASE C!Joined(o)
  BY <1>15 DEF C!Joined
<1>16. ASSUME NEW p \in Peer, C!Joins(o, p) PROVE OpFrame(o)
  BY <1>16 DEF C!Joins
<1>17. ASSUME NEW p \in Peer, C!BlockCame(o, p) PROVE OpFrame(o)
  BY <1>17 DEF C!BlockCame
<1>18. \A T \in {{p} : p \in Peer} \cup {Peer} : T \in SUBSET Peer
  OBVIOUS
<1> HIDE DEF OpFrame
<1> QED BY <1>1, <1>2, <1>3, <1>4, <1>5, <1>6, <1>7, <1>8, <1>9, <1>10, <1>11, <1>12, <1>13, <1>14,
           <1>15, <1>16, <1>17, <1>18 DEF OpStep, C!Answer

\* The others' requests, and what is common, only gain.
LEMMA OtherOps ==
  ASSUME OpsInv, NEW o \in Op, OpFrame(o), NEW q \in Op \ {o}, mixed' = mixed
  PROVE  OpInv(q)' /\ Done(q)' /\ Acts(q)'
<1>1. OpInv(q) /\ Done(q) /\ Acts(q)
  BY DEF OpsInv
<1>2. /\ ops'[q] = ops[q] /\ signers'[q] = signers[q] /\ hubs'[q] = hubs[q]
      /\ known \subseteq known' /\ created \subseteq created'
      /\ \A c \in Channel : joined[c] \subseteq joined'[c]
  BY DEF OpFrame
<1>3. OpInv(q)'
  BY <1>1, <1>2 DEF OpInv
<1>4. Done(q)'
  BY <1>1, <1>2 DEF OpInv, Done
<1>5. Acts(q)'
  BY <1>1, <1>2 DEF Acts
<1> QED BY <1>3, <1>4, <1>5

LEMMA OwnOp ==
  ASSUME UsersInv, OpsInv, NEW o \in Op, OpStep(o), mixed' = mixed
  PROVE  OpInv(o)' /\ Done(o)' /\ Acts(o)'
<1>0. /\ C!TypeOK /\ ops[o] \in C!Record
      /\ OpInv(o) /\ Done(o) /\ Acts(o)
  BY DEF OpsInv, C!TypeOK
<1> USE <1>0, ClientAssumption
    DEF C!To, C!Starts, C!Signs, C!Request, C!Idle, C!Record, C!TypeOK, OpInv, Done, Acts, Over
<1>1. ASSUME NEW n \in Name, NEW c \in Channel, NEW b \in BOOLEAN, C!createChannel(o, n, c, b)
      PROVE  OpInv(o)' /\ Done(o)' /\ Acts(o)'
  BY <1>1, UserType DEF C!createChannel
<1>2. ASSUME NEW n \in Name, NEW c \in Channel, NEW b \in BOOLEAN, C!updateChannel(o, n, c, b)
      PROVE  OpInv(o)' /\ Done(o)' /\ Acts(o)'
  BY <1>2, UserType DEF C!updateChannel
<1>3. ASSUME NEW n \in Name, NEW c \in Channel, C!addOrg(o, n, c)
      PROVE  OpInv(o)' /\ Done(o)' /\ Acts(o)'
  BY <1>3, UserType DEF C!addOrg
<1>4. ASSUME NEW n \in Name, NEW c \in Channel, NEW T \in SUBSET Peer, T # {}, C!joinChannel(o, n, c, T)
      PROVE  OpInv(o)' /\ Done(o)' /\ Acts(o)'
  BY <1>4, UserType DEF C!joinChannel
<1>5. CASE C!JsonMade(o)
  BY <1>5 DEF C!JsonMade
<1>6. CASE C!JsonNotMade(o)
  BY <1>6 DEF C!JsonNotMade
<1>7. CASE C!Ordered(o)
  BY <1>7 DEF C!Ordered
<1>8. CASE C!AddChannelByConfigUpdate(o)
  <2>1. CASE ops' = [ops EXCEPT ![o].step = "failed"]
    BY <1>8, <2>1 DEF C!AddChannelByConfigUpdate
  <2>2. CASE ops' = [ops EXCEPT ![o].step = "success"] /\ known' = known \cup {ops[o].channel}
    BY <1>8, <2>2 DEF C!AddChannelByConfigUpdate
  <2> QED BY <1>8, <2>1, <2>2 DEF C!AddChannelByConfigUpdate
<1>9. CASE C!SignRequestRead(o)
  <2>1. CASE ops' = [ops EXCEPT ![o].step = "failed"] /\ signers' = signers
    BY <1>9, <2>1 DEF C!SignRequestRead
  <2>2. CASE ops' = [ops EXCEPT ![o].step = "updating"]
             /\ signers' = [signers EXCEPT ![o] = @ \cup {ops[o].user}]
    BY <1>9, <2>2 DEF C!SignRequestRead
  <2> QED BY <1>9, <2>1, <2>2 DEF C!SignRequestRead
<1>10. CASE C!Updated(o)
  BY <1>10 DEF C!Updated
<1>11. CASE C!ConfigRead(o)
  BY <1>11 DEF C!ConfigRead
<1>12. CASE C!GenesisRead(o)
  BY <1>12 DEF C!GenesisRead
<1>13. CASE C!Proposed(o)
  BY <1>13 DEF C!Proposed
<1>14. CASE C!OtherBlockOrTimeout(o)
  BY <1>14 DEF C!OtherBlockOrTimeout
<1>15. CASE C!Joined(o)
  BY <1>15 DEF C!Joined, C!JoinDone
<1>16. ASSUME NEW p \in Peer, C!Joins(o, p) PROVE OpInv(o)' /\ Done(o)' /\ Acts(o)'
  BY <1>16 DEF C!Joins
<1>17. ASSUME NEW p \in Peer, C!BlockCame(o, p) PROVE OpInv(o)' /\ Done(o)' /\ Acts(o)'
  BY <1>17 DEF C!BlockCame
<1> HIDE DEF C!To, C!Starts, C!Signs, C!Request, C!Idle, C!Record, C!TypeOK, OpInv, Done, Acts, Over
<1>18. \A T \in {{p} : p \in Peer} \cup {Peer} : T \in SUBSET Peer /\ T # {}
  BY ClientAssumption
<1> QED BY <1>1, <1>2, <1>3, <1>4, <1>5, <1>6, <1>7, <1>8, <1>9, <1>10, <1>11, <1>12, <1>13, <1>14,
           <1>15, <1>16, <1>17, <1>18 DEF OpStep, C!Answer

LEMMA OtherRequestInv ==
  ASSUME UsersInv, OpsInv, NEW n \in Name, C!OtherRequest(n), mixed' = mixed
  PROVE  OpsInv'
<1>1. context' \in Name /\ UNCHANGED <<users, ops, signers, known, created, joined, hubs>>
  BY UserType DEF C!OtherRequest, C!opVars
<1> QED BY <1>1 DEF OpsInv, OpInv, Done, Acts, C!TypeOK

LEMMA OpsNext == ASSUME UsersInv, OpsInv, C!Next, mixed' = mixed PROVE OpsInv' /\ users' = users
<1>1. ASSUME NEW o \in Op, OpStep(o) PROVE OpsInv' /\ users' = users
  <2>1. ops' \in [Op -> C!Record] /\ OpFrame(o)
    BY <1>1, OpRecords, OpFrames
  <2>2. C!TypeOK'
    BY <2>1 DEF OpFrame, C!TypeOK
  <2>3. \A q \in Op : OpInv(q)' /\ Done(q)' /\ Acts(q)'
    BY <1>1, <2>1, OwnOp, OtherOps
  <2> QED BY <2>1, <2>2, <2>3 DEF OpsInv, OpFrame
<1>2. ASSUME NEW n \in Name, C!OtherRequest(n) PROVE OpsInv' /\ users' = users
  BY <1>2, OtherRequestInv DEF C!OtherRequest
<1> QED BY <1>1, <1>2 DEF C!Next, OpStep

\* What the restart cuts short has failed, and has signed nothing since.
LEMMA OpsRestart == ASSUME UsersInv, OpsInv, Restart PROVE OpsInv'
<1>1. context' = None /\ ~mixed'
  BY DEF Restart, U!Restart
<1>2. \A o \in Op : ops[o] \in C!Record
  BY DEF OpsInv, C!TypeOK
<1>3. C!TypeOK'
  <2>1. ops' \in [Op -> C!Record]
    BY <1>2, Records, Steps DEF Restart, C!Restart
  <2> QED BY <1>1, <2>1 DEF OpsInv, C!TypeOK, Restart, C!Restart
<1>4. ASSUME NEW o \in Op PROVE OpInv(o)' /\ Done(o)' /\ Acts(o)'
  <2>1. /\ signers'[o] = {} /\ hubs'[o] = {}
        /\ UNCHANGED <<known, created, joined>>
    BY DEF Restart, C!Restart
  <2>2. OpInv(o) /\ Done(o) /\ ops[o] \in C!Record
    BY <1>2 DEF OpsInv
  <2>3. CASE ops[o].step \in Over
    <3>1. ops'[o] = ops[o]
      BY <2>3 DEF Over, Restart, C!Restart
    <3> QED BY <2>1, <2>2, <2>3, <3>1 DEF OpInv, Done, Acts, Over
  <2>4. CASE ops[o].step \notin Over
    <3>1. ops'[o] = [ops[o] EXCEPT !.step = "failed"]
      BY <2>4 DEF Over, Restart, C!Restart
    <3>2. /\ ops'[o].step = "failed" /\ ops'[o].user = ops[o].user
          /\ ops'[o].channel = ops[o].channel
      BY <2>2, <3>1 DEF C!Record
    <3> QED BY <2>1, <2>2, <2>4, <3>2 DEF OpInv, Done, Acts, Over
  <2> QED BY <2>3, <2>4
<1> QED BY <1>3, <1>4 DEF OpsInv

(***************************************************************************)
(* Both                                                                    *)
(***************************************************************************)

Inv == UsersInv /\ OpsInv

\* The operations change nothing of the users' but the context.
LEMMA OpsLeaveUsers ==
  ASSUME UsersInv, context' \in Name \cup {None}, users' = users,
         UNCHANGED <<registered, persisted, userData, file, member, calls, booting, mixed, broken>>
  PROVE  UsersInv'
<1>1. U!TypeOK'
  BY DEF UsersInv, U!TypeOK
<1>2. \A c \in Enrolment : CallInv(c)'
  BY DEF UsersInv, CallInv, U!Busy
<1>3. \A n \in Name : NameInv(n)'
  BY DEF UsersInv, NameInv, Agreed, WillBeStored, WillBeUsable, For, U!Busy
<1> QED BY <1>1, <1>2, <1>3 DEF UsersInv

\* The enrolments change nothing of the operations' but the context.
LEMMA UsersLeaveOps ==
  ASSUME OpsInv, context' \in Name \cup {None}, mixed => mixed', UNCHANGED opVars
  PROVE  OpsInv'
BY DEF opVars, OpsInv, OpInv, Done, Acts, C!TypeOK

LEMMA UsersNext == ASSUME UsersInv, U!Next PROVE UsersInv' /\ (mixed => mixed')
<1>1. ASSUME NEW c \in Call, NEW n \in Name, NEW p \in Password, U!registerAndEnrollUser(c, n, p)
      PROVE  UsersInv' /\ (mixed => mixed')
  BY <1>1, RequestInv DEF U!registerAndEnrollUser
<1>2. ASSUME NEW n \in Name, U!getRegisteredUsersync(n) PROVE UsersInv' /\ (mixed => mixed')
  BY <1>2, BootInv DEF U!getRegisteredUsersync
<1>3. ASSUME NEW c \in Enrolment, U!Answer(c) \/ U!Unanswered(c)
      PROVE  UsersInv' /\ (mixed => mixed')
  <2>1. UsersInv'
    BY <1>3, FoundInv, RegisteredInv, EnrolledInv, MadeInv, UnansweredInv DEF U!Answer
  <2>2. mixed => mixed'
    BY <1>3 DEF U!Answer, U!Found, U!Registered, U!Enrolled, U!Made, U!Unanswered
  <2> QED BY <2>1, <2>2
<1> QED BY <1>1, <1>2, <1>3 DEF U!Next, Enrolment

LEMMA InvNext == Inv /\ [Next]_vars => Inv'
<1> SUFFICES ASSUME Inv, [Next]_vars PROVE Inv'
  OBVIOUS
<1> USE DEF Inv
<1>1. CASE U!Next /\ UNCHANGED opVars
  <2>1. UsersInv' /\ (mixed => mixed')
    BY <1>1, UsersNext
  <2>2. context' \in Name \cup {None}
    BY <2>1 DEF UsersInv, U!TypeOK
  <2> QED BY <1>1, <2>1, <2>2, UsersLeaveOps
<1>2. CASE C!Next /\ UNCHANGED <<registered, persisted, userData, file, member, calls, booting,
                                mixed, broken, crashes, fails>>
  <2>1. OpsInv' /\ users' = users
    BY <1>2, OpsNext
  <2>2. context' \in Name \cup {None}
    BY <2>1 DEF OpsInv, C!TypeOK
  <2> QED BY <1>2, <2>1, <2>2, OpsLeaveUsers
<1>3. CASE Restart
  BY <1>3, UsersRestart, OpsRestart DEF Restart
<1>4. CASE UNCHANGED vars
  <2>1. UNCHANGED <<registered, persisted, userData, file, users, member, context, calls, booting,
                    mixed, broken>> /\ UNCHANGED opVars
    BY <1>4 DEF vars, U!vars, U!userVars
  <2>2. context \in Name \cup {None}
    BY DEF UsersInv, U!TypeOK
  <2> QED BY <2>1, <2>2, OpsLeaveUsers, UsersLeaveOps
<1> QED BY <1>1, <1>2, <1>3, <1>4 DEF Next

LEMMA Invariance == Spec => []Inv
<1>1. Init => Inv
  BY UsersInit, OpsInit DEF Init, Inv
<1> QED BY <1>1, InvNext, PTL DEF Spec

(***************************************************************************)
(* Results                                                                 *)
(***************************************************************************)

\* Users, requests and operations stay well-formed.
THEOREM Typing == Spec => []TypeOK
<1>1. Inv => TypeOK
  BY DEF Inv, UsersInv, OpsInv, TypeOK
<1> QED BY <1>1, Invariance, PTL

\* A user's object is its own, until two enrolments have made their objects together.
THEOREM ObjectsAreOwn == Spec => []OwnObject
<1>1. Inv => OwnObject
  BY DEF Inv, UsersInv, NameInv, OwnObject, U!OwnObject
<1> QED BY <1>1, Invariance, PTL

\* The gateway's file has the authority's password of every name whose enrolments were
\* not cut short, failed or contradicted.
THEOREM KeepsSecrets == Spec => []SecretsKept
<1>1. Inv => SecretsKept
  <2> SUFFICES ASSUME Inv, NEW n \in Name, registered[n] # None, U!On(n) = {}, n \notin broken
               PROVE  file[n] = registered[n]
    BY DEF SecretsKept, U!SecretsKept
  <2>1. file = userData /\ WillBeStored(n)
    BY DEF Inv, UsersInv, NameInv
  <2>2. \A c \in Call : ~For(c, n)
    BY DEF For, U!On
  <2> QED BY <2>1, <2>2 DEF WillBeStored
<1> QED BY <1>1, Invariance, PTL

\* After userInit the users of the file can act.
THEOREM BootsUsable == Spec => []BootedUsable
<1>1. Inv => BootedUsable
  BY DEF Inv, UsersInv, NameInv, WillBeUsable, For, BootedUsable, U!BootedUsable
<1> QED BY <1>1, Invariance, PTL

\* An operation signs as its caller, through all that the others do with the context.
THEOREM SignsAsItself == Spec => []ActsAsItself
<1>1. Inv => ActsAsItself
  BY DEF Inv, OpsInv, Acts, ActsAsItself
<1> QED BY <1>1, Invariance, PTL

\* What is answered with success was done.
THEOREM SuccessMeansDone == Spec => []SuccessIsDone
<1>1. Inv => SuccessIsDone
  BY DEF Inv, OpsInv, Done, SuccessIsDone, C!SuccessIsDone
<1> QED BY <1>1, Invariance, PTL
================================================================================
