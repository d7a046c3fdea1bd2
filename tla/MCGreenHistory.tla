--------------------------- MODULE MCGreenHistory ---------------------------
(* A small instance of GreenHistory: one check over two repository files.   *)
EXTENDS GreenHistory

CONSTANTS a, f, g

OneCheck == [k \in {a} |-> {f, g}]
=============================================================================
