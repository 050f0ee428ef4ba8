-------------------------------- MODULE MCFeed -------------------------------
(* Feed with payloads that hold an object in an object.                   *)
EXTENDS Feed

Paths == {<< >>, <<1>>, <<1, 1>>}

=============================================================================
