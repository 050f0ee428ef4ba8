------------------------------- MODULE MCPool -------------------------------
(***************************************************************************)
(* Two submissions over a channel of one, and two workers with batches of  *)
(* two: the channel overflows, one worker fills a batch or each has a part *)
(* of one, which is left to the tickers and to the shutdown.               *)
(***************************************************************************)
EXTENDS Pool

=============================================================================
