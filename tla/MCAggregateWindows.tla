-------------------------- MODULE MCAggregateWindows --------------------------
(* Window length one tick, lateness one tick: at tick t the windows up to     *)
(* t - 2 are expired, so four ticks give two expired windows at once, beyond  *)
(* the closed-window cap of one.                                              *)
EXTENDS AggregateWindows, TLC

CONSTANTS e1, e2
MCExports == {e1, e2}
ExportSymmetry == Permutations(MCExports)
===============================================================================
