------------------------------ MODULE MCReplay ------------------------------
(* One command that prints HEAD and one that reads a file, the maintainer and *)
(* one prewarm process.  The contents of the inputs are interchangeable.      *)
EXTENDS Replay, TLC

Symmetry == Permutations(Contents)
=============================================================================
