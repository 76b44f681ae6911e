---------------------------- MODULE MCGeneration ----------------------------
(* One subject, two failures with a head each, the second seen twice in a   *)
(* row or the first come back; deadlines of three and four polls.             *)
EXTENDS Generation

MCAttempt == {[signature |-> "a", head |-> "h"], [signature |-> "b", head |-> "k"]}
MCResets == {-1, 0, 2, 3, 9}
=============================================================================
