----------------------------- MODULE MCSendRequest -----------------------------
(* Two messages, two posts each: a retry, a late copy and giving up all occur. *)
EXTENDS SendRequest

MCReq == {"r1", "r2"}
===============================================================================
