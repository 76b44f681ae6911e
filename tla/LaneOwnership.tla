---------------------------- MODULE LaneOwnership ----------------------------
(***************************************************************************)
(* What claiming promises, whatever runs: the execute branch of a subject  *)
(* is the one lock on its lane.  A root comes to hold a lane only by       *)
(* creating its branch, so a lane has at most one holder, a holder may     *)
(* walk away, and a claim that lost its holder never gets another.         *)
(***************************************************************************)
CONSTANTS Subject, Root

VARIABLES
    claimed,    \* subjects whose execute branch exists
    holders     \* holders[s]: the roots that hold the lane of s

vars == <<claimed, holders>>

Init ==
    /\ claimed = {}
    /\ holders = [s \in Subject |-> {}]

Acquire(e, s) ==
    /\ s \notin claimed /\ holders[s] = {}
    /\ claimed' = claimed \cup {s}
    /\ holders' = [holders EXCEPT ![s] = {e}]

\* A failed cycle, a replaced schedule or a dropped order gives up some lanes.
Abandon(e, S) ==
    /\ S # {} /\ \A s \in S : holders[s] = {e}
    /\ holders' = [s \in Subject |-> IF s \in S THEN {} ELSE holders[s]]
    /\ UNCHANGED claimed

Next ==
    \E e \in Root :
        \/ \E s \in Subject : Acquire(e, s)
        \/ \E S \in SUBSET Subject : Abandon(e, S)

Spec == Init /\ [][Next]_vars
=============================================================================
