------------------------------ MODULE MCServer ------------------------------
(* Three requests: one may be refused, one be in the pool and one stream or *)
(* stall while the shutdown waits.                                          *)
EXTENDS Server

=============================================================================
