------------------------------- MODULE MCSender -------------------------------
(***************************************************************************)
(* A two-level policy for TLC: the root needs 2 of {a, x, b, c}, x is a    *)
(* nested 1-of {d, e}.  a has two endorsing peers, b has none.             *)
(***************************************************************************)
EXTENDS Sender

MCRule == {"root", "x", "a", "b", "c", "d", "e"}
MCNOf == {"root", "x"}
MCRules == [root |-> <<"a", "x", "b", "c">>, x |-> <<"d", "e">>]
MCN == [root |-> 2, x |-> 1]
MCTargets ==
  [a |-> <<"peer0", "peer1">>, b |-> <<>>, c |-> <<"peer0">>,
   d |-> <<"peer0">>, e |-> <<"peer0">>]
===============================================================================
