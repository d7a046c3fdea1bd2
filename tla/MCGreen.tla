------------------------------ MODULE MCGreen ------------------------------
(* Small instances of Green: two checks that share one input.              *)
EXTENDS Green

\* Checks a and b read the files the maps below give them; x is the executable
\* of b, which lies outside the repository.
CONSTANTS a, b, f, g, x

Shared    == [k \in {a, b} |-> IF k = a THEN {f} ELSE {f, x}]
OneFile   == [k \in {a} |-> {f}]
OneCheck  == [k \in {a} |-> {f, g}]
Pair      == [k \in {a, b} |-> IF k = a THEN {f} ELSE {g}]
=============================================================================
