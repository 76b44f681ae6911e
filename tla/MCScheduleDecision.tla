---- MODULE MCScheduleDecision ----
EXTENDS ScheduleDecision

\* Two chains that meet in 3, one of their edges in both directions.
Meeting == {<<1, 2>>, <<2, 3>>, <<4, 3>>, <<2, 1>>}
====
