--------------------------- MODULE MC_StatsCollector ---------------------------
EXTENDS StatsCollector

(* usec_diff values: a wall clock stepped back, zero, small durations, and *)
(* both ends of the 'I' range, scaled so that UIntMax is 3.               *)
MCDurations == {-1, 0, 1, 3, 4}
(* 'now' (5 s), '5min' and 'hour' of StatsTCP in ticks.                     *)
MCWindows == [now |-> 1, min5 |-> 2, hour |-> 4]
====
