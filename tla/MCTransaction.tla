---------------------------- MODULE MCTransaction -----------------------------
(* A transaction of one user among another's, and two hubs, for TLC. *)
EXTENDS Transaction

MCTx == {"tx"}
MCUser == {"alice", "bob"}
MCCaller == [tx |-> "alice"]
MCHub == {"peer1", "peer2"}
MCResult == {"a", "b"}
===============================================================================
