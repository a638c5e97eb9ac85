------------------------------- MODULE MCClient --------------------------------
(* A gateway's client with one user in its file, for TLC.                     *)
EXTENDS Client, TLC

CONSTANTS n1, n2, p1, p2, a, b, c, d, x, y

MCName == {n1, n2}
MCPassword == {p1, p2}
MCCall == {a, b}
MCFirstFile == (n1 :> p1) @@ (n2 :> None)
MCChannel == {c, d}
MCPeer == {x, y}
MCSymmetry == Permutations(MCCall) \cup Permutations(MCPeer)
===============================================================================
