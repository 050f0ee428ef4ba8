------------------------------ MODULE MCStream ------------------------------
(***************************************************************************)
(* One connection, two publishers whose walks overlap, batches of two      *)
(* events and a channel of two, so that the channel holds a batch of each  *)
(* publisher or two of one, a write can fail in the middle of a batch      *)
(* while others wait, and a batch is dropped.                              *)
(***************************************************************************)
EXTENDS Stream

=============================================================================
