-------------------------- MODULE ScheduleDecision --------------------------
(***************************************************************************)
(* schedule_domain.schedule_decision step by step: a union-find with path  *)
(* halving over the dependency edges of one repository's snapshot, then a  *)
(* pass that excludes the components of claimed issues and one that groups *)
(* the eligible ones.  What it decides is Frontier and Winners of          *)
(* ScheduleDomain, which the claim cycle uses in its place.                *)
(***************************************************************************)
EXTENDS ScheduleDomain

CONSTANTS
    Issue,          \* issue numbers
    Dependency,     \* edges <<s, d>> bodies may name, inside the snapshot or not
    Nobody          \* find is not running

ASSUME IssueAssumption == Issue \subseteq Nat /\ Nobody \notin Nat
ASSUME DependencyAssumption == Dependency \subseteq Issue \X Issue

VARIABLES
    nodes, edges, claimed, eligible, malformed, \* the snapshot, fixed
    stage,      \* what the next find is for
    left,       \* edges not linked yet, then subjects not looked up yet
    parent,     \* the union-find forest
    linked,     \* edges linked so far (history)
    item,       \* the edge being linked, or <<s, s>> for the subject looked up
    at,         \* where find is, or Nobody
    target,     \* find(dependency)
    excluded,   \* excluded_roots
    groups      \* eligible: pairs <<root, subject>>

snapshot == <<nodes, edges, claimed, eligible, malformed>>
decisionVars == <<snapshot, stage, left, parent, linked, item, at, target, excluded, groups>>

Pair == Issue \X Issue

DecisionTypeOK ==
    /\ nodes \subseteq Issue
    /\ edges \subseteq Dependency
    /\ claimed \subseteq nodes /\ eligible \subseteq nodes
    /\ malformed \in BOOLEAN
    /\ stage \in {"dependency", "subject", "exclude", "group", "done"}
    /\ left \subseteq Pair
    /\ parent \in [nodes -> nodes]
    /\ linked \subseteq edges
    /\ item \in Pair \cup {<<>>}
    /\ at \in nodes \cup {Nobody}
    /\ target \in nodes \cup {Nobody}
    /\ excluded \subseteq nodes
    /\ groups \subseteq nodes \X nodes

\* The edges find is called for.
Inner == {e \in edges : e[1] \in nodes /\ e[2] \in nodes}

DecisionInit ==
    /\ nodes \in SUBSET Issue
    /\ edges \in SUBSET Dependency
    /\ claimed \in SUBSET nodes /\ eligible \in SUBSET nodes
    /\ malformed \in BOOLEAN /\ (malformed => claimed # {})
    /\ stage = IF malformed THEN "done" ELSE "dependency"
    /\ left = Inner
    /\ parent = [s \in nodes |-> s]
    /\ linked = {}
    /\ item = <<>>
    /\ at = Nobody
    /\ target = Nobody
    /\ excluded = {}
    /\ groups = {}
-----------------------------------------------------------------------------
\* Mutant of Halve: subject = parent[subject] is missing.
HalveInPlace ==
    /\ at # Nobody /\ parent[at] # at
    /\ parent' = [parent EXCEPT ![at] = parent[parent[at]]]
    /\ UNCHANGED <<snapshot, stage, left, linked, item, at, target, excluded, groups>>

\* find: parent[subject] = parent[parent[subject]]; subject = parent[subject]
Halve ==
    /\ at # Nobody /\ parent[at] # at
    /\ parent' = [parent EXCEPT ![at] = parent[parent[at]]]
    /\ at' = parent[parent[at]]
    /\ UNCHANGED <<snapshot, stage, left, linked, item, target, excluded, groups>>

AtRoot == at # Nobody /\ parent[at] = at

\* The next edge or subject of the stage's loop; find starts at its second part.
Take(i) ==
    /\ at = Nobody /\ stage \in {"dependency", "exclude", "group"} /\ i \in left
    /\ item' = i
    /\ left' = left \ {i}
    /\ at' = i[2]
    /\ UNCHANGED <<snapshot, stage, parent, linked, target, excluded, groups>>

\* parent[find(issue.subject)] = find(dependency): the right side is found first.
FoundDependency ==
    /\ stage = "dependency" /\ AtRoot
    /\ target' = at
    /\ at' = item[1]
    /\ stage' = "subject"
    /\ UNCHANGED <<snapshot, left, parent, linked, item, excluded, groups>>

\* Mutant of FoundSubject: the subject is linked instead of its root.
LinkSubject ==
    /\ stage = "subject" /\ AtRoot
    /\ parent' = [parent EXCEPT ![item[1]] = target]
    /\ linked' = linked \cup {item}
    /\ at' = Nobody
    /\ stage' = "dependency"
    /\ UNCHANGED <<snapshot, left, item, target, excluded, groups>>

FoundSubject ==
    /\ stage = "subject" /\ AtRoot
    /\ parent' = [parent EXCEPT ![at] = target]
    /\ linked' = linked \cup {item}
    /\ at' = Nobody
    /\ stage' = "dependency"
    /\ UNCHANGED <<snapshot, left, item, target, excluded, groups>>

FoundClaimed ==
    /\ stage = "exclude" /\ AtRoot
    /\ excluded' = excluded \cup {at}
    /\ at' = Nobody
    /\ UNCHANGED <<snapshot, stage, left, parent, linked, item, target, groups>>

\* Of every issue the root is found; the eligible outside the excluded are kept.
FoundMember ==
    /\ stage = "group" /\ AtRoot
    /\ groups' = IF at \notin excluded /\ item[1] \in eligible
                 THEN groups \cup {<<at, item[1]>>}
                 ELSE groups
    /\ at' = Nobody
    /\ UNCHANGED <<snapshot, stage, left, parent, linked, item, target, excluded>>

\* A loop is over; the next one runs over the claimed, then over all subjects.
NextStage ==
    /\ at = Nobody /\ left = {}
    /\ \/ stage = "dependency" /\ stage' = "exclude" /\ left' = {<<s, s>> : s \in claimed}
       \/ stage = "exclude" /\ stage' = "group" /\ left' = {<<s, s>> : s \in nodes}
       \/ stage = "group" /\ stage' = "done" /\ left' = {}
    /\ UNCHANGED <<snapshot, parent, linked, item, at, target, excluded, groups>>

DecisionNext ==
    \/ Halve \/ (\E i \in left : Take(i)) \/ FoundDependency \/ FoundSubject
    \/ FoundClaimed \/ FoundMember \/ NextStage

DecisionSpec == DecisionInit /\ [][DecisionNext]_decisionVars

\* One function call, run to its end.
FairDecisionSpec == DecisionSpec /\ WF_decisionVars(DecisionNext)
-----------------------------------------------------------------------------
DecidedFrontier == {g[2] : g \in groups}

\* The first member of each group in issue order wins.
DecidedWinners ==
    {g[2] : g \in {p \in groups : \A q \in groups : q[1] = p[1] => p[2] <= q[2]}}

\* The decision is the one ScheduleDomain states over connected components,
\* whatever the graph, its cycles and the order in which edges are linked.
Decides ==
    stage = "done" =>
        /\ DecidedFrontier = Frontier(nodes, edges, claimed, eligible, malformed)
        /\ DecidedWinners = Winners(nodes, edges, claimed, eligible, malformed)

\* find ends although halving rewrites the path it walks: the decision is made.
Terminates == <>(stage = "done")
=============================================================================
