------------------------------ MODULE MCMonitor ------------------------------
(* The monitor of one channel, with ledgers of at most MaxHeight blocks.     *)
EXTENDS Monitor
===============================================================================
