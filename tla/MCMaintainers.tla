--------------------------- MODULE MCMaintainers ---------------------------
(* One adapter and one command line.                                        *)
EXTENDS Maintainers
=============================================================================
