------------------------------ MODULE PolicyCount ------------------------------
(***************************************************************************)
(* How a sign request counts signatures, signRequest/innerSignRequest.js.  *)
(*                                                                         *)
(* The policy is a tree of n-of and signed-by nodes.  formateRootPolicy    *)
(* gives every node its indexArr (its path from the root <<0>>) and an     *)
(* n-of node its counter n.  An accepted signature counts for one of the   *)
(* policy's identities and so for each signed-by leaf that wants it: the   *)
(* counter above the leaf goes down, and when it reaches zero the one      *)
(* above that, up to the root.                                             *)
(*                                                                         *)
(* A policy is a record:                                                   *)
(*   nOf         n-of nodes (index arrays) with their n                    *)
(*   rules       n-of nodes with the number of their sub-policies          *)
(*   signedBy    signed-by leaves (index arrays) with the identity wanted  *)
(*   identities  identities 0, 1, ... : their mspId and role               *)
(* A signer is a record: its mspId and whether its certificate is an       *)
(* administrator's.                                                        *)
(***************************************************************************)
EXTENDS Integers, Sequences, FiniteSets, FiniteSetsExt, SequencesExt

CONSTANT NaN   (* JavaScript's undefined-- : a counter that was never set. *)

ASSUME NaNAssumption == NaN \notin Int

Root == <<0>>

\* A tree of n-of nodes with signed-by leaves, whose root asks for one at least.
IsPolicy(p) ==
  /\ Root \in DOMAIN p.nOf /\ p.nOf[Root] \in Nat \ {0}
  /\ IsFiniteSet(DOMAIN p.signedBy) /\ DOMAIN p.identities \subseteq Nat
  /\ \A a \in (DOMAIN p.nOf \ {Root}) \cup DOMAIN p.signedBy :
       a \in Seq(Nat) /\ Len(a) > 1 /\ a[1] = 0 /\ Front(a) \in DOMAIN p.nOf
  /\ p.rules \in [DOMAIN p.nOf -> Nat]
  /\ \A a \in DOMAIN p.nOf :
       {b \in (DOMAIN p.nOf \ {Root}) \cup DOMAIN p.signedBy : Front(b) = a}
         = {Append(a, k - 1) : k \in 1..p.rules[a]}

(***************************************************************************)
(* formateRootPolicy sets the root's counter; for the nodes below it,      *)
(* _formatPolicy sets the counter of the array of their sub-policies, not  *)
(* of the node.                                                            *)
(***************************************************************************)
InitialCount(p) == [a \in DOMAIN p.nOf |-> IF a = Root THEN p.nOf[a] ELSE NaN]

formateRootPolicy(p) == [count |-> InitialCount(p), fullfilled |-> FALSE]

\* The n-of nodes above a node.
Above(p, a) == {b \in DOMAIN p.nOf : IsStrictPrefix(b, a)}

\* _changePolicyState climbs from a leaf as long as counters reach zero.
Reached(p, count, leaf) ==
  {a \in Above(p, leaf) : \A b \in Above(p, leaf) : IsStrictPrefix(a, b) => count[b] = 1}

Less(n) == IF n = NaN THEN NaN ELSE n - 1

_changePolicyState(p, leaf, r) ==
  [r EXCEPT !.count = [a \in DOMAIN @ |->
                         IF a \in Reached(p, r.count, leaf) THEN Less(@[a]) ELSE @[a]],
            !.fullfilled = @ \/ (Root \in Reached(p, r.count, leaf) /\ r.count[Root] = 1)]

(***************************************************************************)
(* The identities a signature may count for: an administrator's for any of *)
(* its organisation, a member's for the member ones.  Of these it counts   *)
(* for the last, because "!mspIdentity.status == 'RECEIVED'" never holds.  *)
(***************************************************************************)
Candidates_AnyRole(p, s) == {i \in DOMAIN p.identities : p.identities[i].mspId = s.mspId}

Candidates(p, s) ==
  {i \in DOMAIN p.identities :
     p.identities[i].mspId = s.mspId /\ (s.isAdmin \/ p.identities[i].role = "member")}

Chosen(p, s) == Max(Candidates(p, s))

\* The leaves _checkPolicy finds for the signature.
Wanted(p, s) ==
  {l \in DOMAIN p.signedBy : Candidates(p, s) # {} /\ p.signedBy[l] = Chosen(p, s)}

CountSignature_FirstLeaf(p, s, r) ==
  IF Wanted(p, s) = {} THEN r ELSE _changePolicyState(p, CHOOSE l \in Wanted(p, s) : TRUE, r)

CountSignature(p, s, r) ==
  FoldSet(LAMBDA l, q : _changePolicyState(p, l, q), r, Wanted(p, s))

-------------------------------------------------------------------------------
(* What the counters come to. *)

\* No n-of is nested, no organisation is named twice, and a leaf wants an identity that
\* there is (or compile refuses the policy).
Plain(p) ==
  /\ DOMAIN p.nOf = {Root}
  /\ \A l \in DOMAIN p.signedBy : p.signedBy[l] \in DOMAIN p.identities
  /\ \A i, j \in DOMAIN p.identities : p.identities[i].mspId = p.identities[j].mspId => i = j

\* The leaves directly under the root that a signature signs.
RootLeaves(p, s) ==
  {l \in DOMAIN p.signedBy : Len(l) = 2 /\ Candidates(p, s) # {}
     /\ p.signedBy[l] = Max(Candidates(p, s))}

\* How many of them a sequence of signatures signs, a leaf as often as it is signed.
RootLeavesSigned(p, ss) ==
  LET n[i \in 0..Len(ss)] ==
        IF i = 0 THEN 0 ELSE Cardinality(RootLeaves(p, ss[i])) + n[i - 1]
  IN  n[Len(ss)]

\* The root's counter is lower by as many, and the policy fullfilled when they are n.
CountsLeaves(p, r, ss) ==
  LET k == RootLeavesSigned(p, ss)
  IN  r.count[Root] = p.nOf[Root] - k /\ (r.fullfilled <=> k >= p.nOf[Root])

-------------------------------------------------------------------------------
(***************************************************************************)
(* The reference: Fabric's evaluator, common/cauthdsl/cauthdsl.go.  Every  *)
(* node is compiled to a function from the signatures used so far to       *)
(* whether it holds, and those used then.  A leaf takes the first unused   *)
(* signature of its identity.  An n-of evaluates its rules in their order; *)
(* of one that does not hold no signature remains used.                    *)
(***************************************************************************)
SatisfiesPrincipal(s, identity) ==
  s.mspId = identity.mspId /\ (s.isAdmin \/ identity.role = "member")

SignedBy(p, ss, i) == [used \in SUBSET (1..Len(ss)) |->
  LET fit == {j \in (1..Len(ss)) \ used : SatisfiesPrincipal(ss[j], p.identities[i])}
  IN  IF fit = {} THEN [holds |-> FALSE, used |-> used]
      ELSE [holds |-> TRUE, used |-> used \cup {Min(fit)}]]

NOutOfRules(n, policies, ss) == [used \in SUBSET (1..Len(ss)) |->
  LET after[k \in 0..Len(policies)] ==
        IF k = 0 THEN [verified |-> 0, used |-> used]
        ELSE LET res == policies[k][after[k - 1].used]
             IN  IF res.holds THEN [verified |-> after[k - 1].verified + 1, used |-> res.used]
                 ELSE after[k - 1]
  IN  [holds |-> after[Len(policies)].verified >= n, used |-> after[Len(policies)].used]]

\* The signatures ss, in their order, satisfy the policy.
Satisfied(p, ss) ==
  LET compile[a \in DOMAIN p.nOf \cup DOMAIN p.signedBy] ==
        IF a \in DOMAIN p.signedBy THEN SignedBy(p, ss, p.signedBy[a])
        ELSE NOutOfRules(p.nOf[a], [k \in 1..p.rules[a] |-> compile[Append(a, k - 1)]], ss)
  IN  compile[Root][{}].holds
===============================================================================
