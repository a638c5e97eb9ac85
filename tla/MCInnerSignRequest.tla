-------------------------- MODULE MCInnerSignRequest --------------------------
(***************************************************************************)
(* Two organisations: 2-of an administrator of A, a member of B, and 1-of  *)
(* the same administrator.  An administrator of either may answer.         *)
(***************************************************************************)
EXTENDS InnerSignRequest

MCPolicy ==
  [nOf |-> (Root :> 2) @@ (<<0, 2>> :> 1),
   rules |-> (Root :> 3) @@ (<<0, 2>> :> 1),
   signedBy |-> (<<0, 0>> :> 0) @@ (<<0, 1>> :> 1) @@ (<<0, 2, 0>> :> 0),
   identities |-> (0 :> [mspId |-> "A", role |-> "admin"])
               @@ (1 :> [mspId |-> "B", role |-> "member"])]

MCSigner == {[mspId |-> "A", isAdmin |-> TRUE], [mspId |-> "B", isAdmin |-> TRUE]}
===============================================================================
