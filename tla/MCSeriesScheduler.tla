------------------------- MODULE MCSeriesScheduler -------------------------
(* Two capabilities that share one of two series; the first one vanishes.   *)
EXTENDS SeriesScheduler, TLC

CONSTANTS c1, c2, x, y

MCCap == {c1, c2}
MCSeries == {x, y}
MCSeriesOf == (c1 :> <<x, y>>) @@ (c2 :> <<y>>)
MCLists == <<<<c1, c2>>, <<c2>>>>
=============================================================================
