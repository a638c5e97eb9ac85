-------------------------------- MODULE Client ---------------------------------
(***************************************************************************)
(* The users of a gateway and its operations on channels, which meet in    *)
(* the SDK's client: enrolments change the context that the operations     *)
(* sign with, and make the objects that they are given.                    *)
(***************************************************************************)
EXTENDS FiniteSets, Naturals

CONSTANTS Name, Password, None, Call, Boot, FirstFile, MaxCrashes, MaxFails,
          Op, Channel, Peer, FirstKnown, FirstCreated

ASSUME ClientAssumption ==
  /\ Boot \notin Call /\ Peer # {} /\ None \notin Name \cup Password \cup Channel
  /\ FirstFile \in [Name -> Password \cup {None}] /\ FirstKnown \cup FirstCreated \subseteq Channel

VARIABLES registered, persisted, userData, file, users, member, context, calls, booting,
          mixed, broken, crashes, fails,
          ops, signers, known, created, joined, hubs

U == INSTANCE Users
C == INSTANCE ChannelOperations

opVars == <<ops, signers, known, created, joined, hubs>>
vars == <<U!vars, opVars>>

Init == U!Init /\ C!Init

\* Restarts are of the one process.
Restart == U!Restart /\ C!Restart

Next ==
  \/ U!Next /\ UNCHANGED opVars
  \/ C!Next /\ UNCHANGED <<registered, persisted, userData, file, member, calls, booting,
                           mixed, broken, crashes, fails>>
  \/ Restart

Spec == Init /\ [][Next]_vars

-------------------------------------------------------------------------------
(* Properties *)

TypeOK == U!TypeOK /\ C!TypeOK

\* See Users.
OwnObject == U!OwnObject
SecretsKept == U!SecretsKept
BootedUsable == U!BootedUsable

\* Who gives a name's password acts as that user, through whatever the client's context
\* goes, unless two enrolments had both made their objects, and except for the creation
\* of a channel from a description.
ActsAsItself ==
  ~mixed => \A o \in Op :
    ~(ops[o].kind = "create" /\ ops[o].json) => signers[o] \subseteq {ops[o].name}

\* See ChannelOperations.
SuccessIsDone == C!SuccessIsDone
===============================================================================
