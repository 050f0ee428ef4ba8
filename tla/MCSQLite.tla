------------------------------ MODULE MCSQLite ------------------------------
(***************************************************************************)
(* Two workers compete for the connection with batches of two rows, so     *)
(* that a transaction can be cut in its middle by a timeout, an error or a *)
(* crash while the other one waits, and a worker comes back afterwards.    *)
(***************************************************************************)
EXTENDS SQLite

=============================================================================
