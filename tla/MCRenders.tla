----------------------------- MODULE MCRenders -----------------------------
(* The instances of RenderStore that TLC checks. *)
EXTENDS RenderStore
CONSTANTS c1, c2
=============================================================================
