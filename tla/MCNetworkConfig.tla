---------------------------- MODULE MCNetworkConfig ----------------------------
(* A small network for TLC: two organisations, two channels, one of them there. *)
EXTENDS NetworkConfig

MCOrg == {"me", "o"}
MCPeer == {"p", "q"}
MCInitial ==
  [orgs |-> MCOrg, known |-> {<<"me", "p">>, <<"o", "p">>}, orderers |-> {"x"},
   channels |-> {"c"}, members |-> {"c"} \X MCOrg,
   peers |-> {"c"} \X MCOrg \X {"p"}, ordering |-> {<<"c", "x">>}]
===============================================================================
