-------------------------- MODULE MCOuterSignRequest --------------------------
(* The roles of one gateway's requests, for TLC. *)
EXTENDS OuterSignRequest

MCRoles == {"admin", "member"}
===============================================================================
