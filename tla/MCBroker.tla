------------------------------ MODULE MCBroker ------------------------------
(***************************************************************************)
(* Two publishers that walk the map at once and two clients, with channels *)
(* of one batch: a channel is full as soon as one batch is unread.         *)
(***************************************************************************)
EXTENDS Broker

=============================================================================
