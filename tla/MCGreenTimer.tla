---------------------------- MODULE MCGreenTimer ----------------------------
(* Timings for GreenTimer.                                                  *)
EXTENDS GreenTimer

\* The ticker is slower than the debounce, as the defaults are (30 s, 750 ms).
SlowTicks == {[poll |-> 4, quiescence |-> 2], [poll |-> 5, quiescence |-> 3],
              [poll |-> 3, quiescence |-> 2]}

\* normalizeConfig bounds both by 100 ms and 1 m and does not compare them.
FastTicks == {[poll |-> 1, quiescence |-> 2]}
=============================================================================
