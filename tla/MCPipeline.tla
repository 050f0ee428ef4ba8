----------------------------- MODULE MCPipeline ------------------------------
(* Pipeline with interchangeable events.                                    *)
EXTENDS Pipeline, TLC

Symmetry == Permutations(Event)

=============================================================================
