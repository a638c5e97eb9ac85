------------------------------ MODULE Signatures -------------------------------
(***************************************************************************)
(* A policy, and signatures accepted one after another in any order: the   *)
(* counting of receiveResponse (signRequest/innerSignRequest.js) by        *)
(* itself, without cache and database.                                     *)
(***************************************************************************)
EXTENDS PolicyCount

CONSTANTS
  Policies,
  Signatory,      (* Who may sign, signers of PolicyCount.                 *)
  MaxEach,        (* Bound: how often the same one signs.                  *)
  MaxSignatures   (* Bound: signatures of a request.                       *)

ASSUME PoliciesAssumption == \A p \in Policies : IsPolicy(p)

VARIABLES
  tree,        (* The policy.                                              *)
  request,     (* The counters and fullfilled, after the signatures so far. *)
  signatures   (* Who signed, in order.                                    *)

signatureVars == <<tree, request, signatures>>

SignaturesInit ==
  /\ tree \in Policies
  /\ request = formateRootPolicy(tree)
  /\ signatures = <<>>

\* receiveResponse counts an accepting response and keeps it.
Sign(s) ==
  /\ Len(SelectSeq(signatures, LAMBDA x : x = s)) < MaxEach
  /\ Len(signatures) < MaxSignatures
  /\ request' = CountSignature(tree, s, request)
  /\ signatures' = Append(signatures, s)
  /\ UNCHANGED tree

SignaturesNext == \E s \in Signatory : Sign(s)

SignaturesSpec == SignaturesInit /\ [][SignaturesNext]_signatureVars

-------------------------------------------------------------------------------
(* Properties *)

\* The root's counter counts the leaves directly under the root that the signatures so
\* far cover, a leaf as often as it is signed, in whatever order they came, and fullfilled
\* says that they are n (innerSignRequest.js _checkPolicy, _changePolicyState).
FullfilledCountsLeaves == CountsLeaves(tree, request, signatures)

\* Where no n-of is nested and no organisation named twice, a request whose signatures
\* satisfy the policy, as Fabric evaluates it, is fullfilled.  If none answers twice and
\* no identity is wanted by two leaves, the converse holds as well.  (One signature counts
\* for all the leaves of its identity here, and for one of them there.)
Once == \A i, j \in 1..Len(signatures) : signatures[i].mspId = signatures[j].mspId => i = j

OneLeafEach ==
  \A l, m \in DOMAIN tree.signedBy : tree.signedBy[l] = tree.signedBy[m] => l = m

FullfilledIffSatisfied ==
  Plain(tree) =>
    /\ Satisfied(tree, signatures) => request.fullfilled
    /\ Once /\ OneLeafEach => (request.fullfilled => Satisfied(tree, signatures))
===============================================================================
