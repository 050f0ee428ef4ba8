------------------------------- MODULE MCChart -------------------------------
(* Chart with every pixel of the element as a place for the pointer.        *)
EXTENDS Chart

AllPixels == 0 .. RectWidth

=============================================================================
