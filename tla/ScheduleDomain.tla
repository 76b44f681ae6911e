--------------------------- MODULE ScheduleDomain ---------------------------
(***************************************************************************)
(* The pure half of scheduling: which subjects one frontier admits         *)
(* (schedule_domain.schedule_decision) and when two declared write         *)
(* surfaces collide (issue_contract.boundary_conflict and its callers).    *)
(* Subjects of one repository are its issue numbers.                       *)
(***************************************************************************)
EXTENDS Naturals, Sequences

\* A boundary is a set of path prefixes, a prefix a sequence of segments; the
\* empty set is the explicit "none".  The missing or ambiguous marker could mean
\* any path: it is the one empty prefix, which no declared boundary holds.
Undeclared == {<<>>}

PathContains(p, q) ==
    Len(p) <= Len(q) /\ SubSeq(q, 1, Len(p)) = p

BoundaryConflict(candidate, active) ==
    \E p \in candidate, q \in active : PathContains(p, q) \/ PathContains(q, p)

\* One reservation of an admitted lane: whose it is and what it declared.
Reservation(s, b) == [subject |-> s, boundary |-> b]

Blocks(candidate, r) ==
    r.boundary = Undeclared \/ BoundaryConflict(candidate, r.boundary)

AdmissionConflict(candidate, reserved) ==
    \E r \in reserved : Blocks(candidate, r)

\* The connected component of s: the least set that holds s and is closed under
\* the dependency edges, taken in both directions, between members of nodes.
Closed(C, nodes, edges) ==
    \A a, b \in nodes :
        (<<a, b>> \in edges \/ <<b, a>> \in edges) /\ a \in C => b \in C

Component(s, nodes, edges) ==
    {t \in nodes : \A C \in SUBSET nodes : s \in C /\ Closed(C, nodes, edges) => t \in C}

\* Mutant of Frontier: only the claimed subjects themselves are held back.
UnclaimedFrontier(nodes, edges, claimed, eligible, malformed) ==
    {s \in eligible \cap nodes : ~malformed /\ s \notin claimed}

\* What one repository's snapshot decides. malformed says that some live claim
\* has an unreadable contract: its edges are unknown and nothing is admitted.
Frontier(nodes, edges, claimed, eligible, malformed) ==
    {s \in eligible \cap nodes :
        ~malformed /\ Component(s, nodes, edges) \cap claimed = {}}

Winners(nodes, edges, claimed, eligible, malformed) ==
    {s \in Frontier(nodes, edges, claimed, eligible, malformed) :
        \A t \in Component(s, nodes, edges) \cap eligible : s <= t}
=============================================================================
