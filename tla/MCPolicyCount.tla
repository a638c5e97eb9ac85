----------------------------- MODULE MCPolicyCount -----------------------------
(***************************************************************************)
(* Every policy of a small family, and the signatures of three             *)
(* organisations.                                                          *)
(***************************************************************************)
EXTENDS Signatures

MCSignatory == [mspId : {"A", "B", "C"}, isAdmin : BOOLEAN]

Identities(roles) ==
  [i \in 0..2 |-> [mspId |-> <<"A", "B", "C">>[i + 1], role |-> roles[i + 1]]]

\* n-of the three organisations' members or administrators.
Flat == {[nOf |-> (Root :> n),
          rules |-> (Root :> 3),
          signedBy |-> [l \in {<<0, 0>>, <<0, 1>>, <<0, 2>>} |-> l[2]],
          identities |-> Identities(roles)] :
            n \in 1..3, roles \in [1..3 -> {"member", "admin"}]}

\* n-of of which one organisation has two.
Weighted == {[nOf |-> (Root :> n),
              rules |-> (Root :> 3),
              signedBy |-> (<<0, 0>> :> 0) @@ (<<0, 1>> :> 1) @@ (<<0, 2>> :> 1),
              identities |-> Identities(<<"member", "admin", "member">>)] : n \in 1..3}

\* The example of innerSignRequest.js: 2-of [2, 1-of [0, 1]].
Example == [nOf |-> (Root :> 2) @@ (<<0, 1>> :> 1),
            rules |-> (Root :> 2) @@ (<<0, 1>> :> 2),
            signedBy |-> (<<0, 0>> :> 2) @@ (<<0, 1, 0>> :> 0) @@ (<<0, 1, 1>> :> 1),
            identities |-> Identities(<<"member", "member", "admin">>)]

\* One organisation as administrator and as member, and a leaf twice.
TwoRoles == [nOf |-> (Root :> 2),
             rules |-> (Root :> 3),
             signedBy |-> (<<0, 0>> :> 0) @@ (<<0, 1>> :> 1) @@ (<<0, 2>> :> 1),
             identities |-> (0 :> [mspId |-> "A", role |-> "admin"])
                         @@ (1 :> [mspId |-> "A", role |-> "member"])]

MCPolicies == Flat \cup Weighted \cup {Example, TwoRoles}
===============================================================================
