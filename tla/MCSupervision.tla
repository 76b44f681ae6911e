--------------------------- MODULE MCSupervision ---------------------------
(* One project with two process ids and two commits: one makes main diverge *)
(* from the provider, the other moves it again while a heal is under way.   *)
EXTENDS Supervision

CONSTANTS p1, p2, c1, c2, sup, op

(* Bound: the second commit is made while no operator's start is under way  *)
(* (a daemon of an earlier one may still run).  Commits are interchangeable *)
(* and are made in one order.  Nothing that is owed a step is held up.      *)
InBounds ==
    c2 \in made =>
        /\ c1 \in made
        /\ \A w \in Starter \ {Supervisor} : wrap[w].pc \in {"off", "ended"}

BoundedFairSpec == Init /\ [][Next /\ InBounds']_vars /\ Fairness
=============================================================================
