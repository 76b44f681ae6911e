------------------------------ MODULE Provider ------------------------------
(***************************************************************************)
(* What every actor of the system shares: the provider (one GitHub         *)
(* repository) as src/ reads and writes it, and each executor root's local *)
(* facts: the published and active orders of its Noodle daemon, its        *)
(* registered worktrees and its session ledger.  The executor is one       *)
(* control checkout with its daemon; several may work on one repository,   *)
(* and only the provider is common to them.                                *)
(***************************************************************************)
EXTENDS ScheduleDomain

CONSTANTS
    Subject,    \* issue numbers of the repository
    Root,       \* executor roots
    Depends,    \* edges <<s, d>>: the body of s names d in its depends-on marker
    P0,         \* subjects whose title carries the P0 prefix
    Admitted,   \* subjects whose executor/runtime/evidence triple is admitted
    Foreign,    \* subjects a pull request from another branch names at first
    Boundary,   \* the write boundaries a body may declare
    Declared,   \* Declared[s]: the boundary the body of s declares at first
    MaxCommits, \* bound: commits made in one behaviour
    Rewritten,  \* bodies an author may give an open issue; with none, authors
                \* only open and close pull requests
    MaxEdits,   \* bound: those edits, openings and closings in one behaviour
    None        \* no branch, no worktree

ASSUME SubjectAssumption == Subject \subseteq Nat
ASSUME DependsAssumption == Depends \subseteq Subject \X Subject
ASSUME BoundaryAssumption ==
    /\ Undeclared \notin Boundary
    /\ Declared \in [Subject -> Boundary \cup {Undeclared}]
    /\ P0 \subseteq Subject /\ Admitted \subseteq Subject /\ Foreign \subseteq Subject
ASSUME BoundsAssumption == MaxCommits \in Nat /\ MaxEdits \in Nat
ASSUME NoneAssumption == None \notin Nat

\* A commit id: 0 is the first default-branch head, each new commit the next.
Commit == 0 .. MaxCommits

State == {"ready", "blocked", "awaiting_land", "landed"}
Contract == [state : State, boundary : Boundary \cup {Undeclared}]
\* A body whose contract parse_issue_contract refuses.
Malformed == [state |-> "malformed", boundary |-> Undeclared]
Body == Contract \cup {Malformed}

ASSUME RewrittenAssumption == Rewritten \subseteq Body

VARIABLES
    open,       \* open[s]: the issue is open
    body,       \* body[s]: the markers of the issue body
    ref,        \* ref[s]: head of the subject's execute branch, or None
    pr,         \* pr[s]: "lane" (open PR from the execute branch), "foreign"
                \* (open PR that names s from another branch) or "none"
    default,    \* head of the default branch
    commits,    \* number of commits made so far
    edits,      \* number of edits, openings and closings by authors so far
    ordersNext, \* ordersNext[e]: subjects in .noodle/orders-next.json
    active,     \* active[e]: subjects of the active orders in .noodle/orders.json
    worktree,   \* worktree[e][s]: head of the worktree registered on the execute
                \* branch of s under root e, or None
    live        \* live[e][s]: e's ledger or process records show a session of s

githubVars == <<open, body, ref, pr, default, commits, edits>>
rootVars == <<ordersNext, active, worktree, live>>

ProviderTypeOK ==
    /\ open \in [Subject -> BOOLEAN]
    /\ body \in [Subject -> Body]
    /\ ref \in [Subject -> Commit \cup {None}]
    /\ pr \in [Subject -> {"none", "lane", "foreign"}]
    /\ default \in Commit
    /\ commits \in Commit
    /\ edits \in 0 .. MaxEdits
    /\ ordersNext \in [Root -> SUBSET Subject]
    /\ active \in [Root -> SUBSET Subject]
    /\ worktree \in [Root -> [Subject -> Commit \cup {None}]]
    /\ live \in [Root -> [Subject -> BOOLEAN]]

ProviderInit ==
    /\ open = [s \in Subject |-> TRUE]
    /\ body = [s \in Subject |-> [state |-> "ready", boundary |-> Declared[s]]]
    /\ ref = [s \in Subject |-> None]
    /\ pr = [s \in Subject |-> IF s \in Foreign THEN "foreign" ELSE "none"]
    /\ default = 0
    /\ commits = 0
    /\ edits = 0
    /\ ordersNext = [e \in Root |-> {}]
    /\ active = [e \in Root |-> {}]
    /\ worktree = [e \in Root |-> [s \in Subject |-> None]]
    /\ live = [e \in Root |-> [s \in Subject |-> FALSE]]
-----------------------------------------------------------------------------
\* What a readback of the provider says of one issue.

Readable(s) == body[s] # Malformed

Landed(s) == ~open[s] /\ body[s].state = "landed"

DependenciesLanded(s) == \A d \in Subject : <<s, d>> \in Depends => Landed(d)

\* Mutant of Schedulable: the dependencies are not read.
ReadyAlone(s) == open[s] /\ body[s].state = "ready"

Schedulable(s) == open[s] /\ body[s].state = "ready" /\ DependenciesLanded(s)

\* active_execute_claims(matching_branch_refs)
Claims == {s \in Subject : ref[s] # None}

\* Mutant of MatchingOpenPullRequest: only the lane's own branch is matched.
LanePullRequest(s) == pr[s] = "lane"

\* matching_open_pull_requests: by the lane's branch or by the body's reference.
MatchingOpenPullRequest(s) == pr[s] # "none"

\* Mutant of PrePrOrphan: the claim need not have this root's worktree.
AnyIdleClaim(e, s) ==
    /\ ref[s] # None /\ open[s] /\ body[s].state = "ready"
    /\ ~MatchingOpenPullRequest(s) /\ ~live[e][s]

\* The record pre_pr_claim_record classes pre_pr_orphan for the root that asks.
PrePrOrphan(e, s) ==
    /\ ref[s] # None
    /\ open[s] /\ body[s].state = "ready"
    /\ ~MatchingOpenPullRequest(s)
    /\ ~live[e][s]
    /\ worktree[e][s] = ref[s]

\* replace_marker of issue_set_state
ReplaceState(b, state) == [state |-> state, boundary |-> b.boundary]
-----------------------------------------------------------------------------
\* Noodle (external): the daemon promotes published orders, creates a lane's
\* worktree from the control checkout's HEAD and starts or loses its session.

PromoteOrders(e) ==
    /\ ordersNext[e] # {}
    /\ active' = [active EXCEPT ![e] = @ \cup ordersNext[e]]
    /\ ordersNext' = [ordersNext EXCEPT ![e] = {}]
    /\ UNCHANGED <<githubVars, worktree, live>>

StartSession(e, s) ==
    /\ s \in active[e] /\ ~live[e][s] /\ open[s]
    /\ worktree' = IF worktree[e][s] = None
                   THEN [worktree EXCEPT ![e][s] = default]
                   ELSE worktree
    /\ live' = [live EXCEPT ![e][s] = TRUE]
    /\ UNCHANGED <<githubVars, ordersNext, active>>

LoseSession(e, s) ==
    /\ live[e][s]
    /\ live' = [live EXCEPT ![e][s] = FALSE]
    /\ UNCHANGED <<githubVars, ordersNext, active, worktree>>

DropOrder(e, s) ==
    /\ s \in active[e] /\ ~live[e][s]
    /\ active' = [active EXCEPT ![e] = @ \ {s}]
    /\ UNCHANGED <<githubVars, ordersNext, worktree, live>>

\* The cook (external) commits in its worktree and pushes, then opens the PR.
PushCommit(e, s) ==
    /\ live[e][s] /\ commits < MaxCommits
    /\ commits' = commits + 1
    /\ worktree' = [worktree EXCEPT ![e][s] = commits + 1]
    /\ ref' = [ref EXCEPT ![s] = commits + 1]
    /\ UNCHANGED <<open, body, pr, default, edits, ordersNext, active, live>>

OpenPullRequest(e, s) ==
    /\ live[e][s] /\ ref[s] = worktree[e][s] /\ ref[s] # default
    /\ open[s] /\ pr[s] = "none"
    /\ pr' = [pr EXCEPT ![s] = "lane"]
    /\ UNCHANGED <<open, body, ref, default, commits, edits, rootVars>>
-----------------------------------------------------------------------------
\* execute_handoff: the live session's PR at its exact head, on the registered
\* worktree of the subject, makes the issue awaiting_land.
ExecuteHandoff(e, s) ==
    /\ live[e][s] /\ pr[s] = "lane" /\ ref[s] = worktree[e][s]
    /\ Readable(s)
    /\ body' = [body EXCEPT ![s] = ReplaceState(@, "awaiting_land")]
    /\ UNCHANGED <<open, ref, pr, default, commits, edits, rootVars>>

\* land_pull_request, end to end: merge, landed markers, close.  The merge
\* commit is named by the head it merges; no other branch ever carries it.
LandPullRequest(s) ==
    /\ open[s] /\ pr[s] = "lane" /\ ref[s] # None /\ body[s].state = "awaiting_land"
    /\ default' = ref[s]
    /\ pr' = [pr EXCEPT ![s] = "none"]
    /\ body' = [body EXCEPT ![s] = ReplaceState(@, "landed")]
    /\ open' = [open EXCEPT ![s] = FALSE]
    /\ UNCHANGED <<ref, commits, edits, rootVars>>

\* People (external): an author rewrites markers of an open issue, a hand-made
\* pull request that names the issue is opened or closed.
EditBody(s, b) ==
    /\ open[s] /\ edits < MaxEdits
    /\ body[s].state \notin {"awaiting_land", "landed"} /\ b # body[s]
    /\ edits' = edits + 1
    /\ body' = [body EXCEPT ![s] = b]
    /\ UNCHANGED <<open, ref, pr, default, commits, rootVars>>

ForeignPullRequest(s) ==
    /\ open[s] /\ edits < MaxEdits
    /\ \/ pr[s] = "none" /\ pr' = [pr EXCEPT ![s] = "foreign"]
       \/ pr[s] = "foreign" /\ pr' = [pr EXCEPT ![s] = "none"]
    /\ edits' = edits + 1
    /\ UNCHANGED <<open, body, ref, default, commits, rootVars>>

Author ==
    \E s \in Subject :
        \/ \E b \in Rewritten : EditBody(s, b)
        \/ ForeignPullRequest(s)

Lane ==
    \/ \E e \in Root : PromoteOrders(e)
    \/ \E e \in Root, s \in Subject :
        \/ StartSession(e, s) \/ LoseSession(e, s) \/ DropOrder(e, s)
        \/ PushCommit(e, s) \/ OpenPullRequest(e, s) \/ ExecuteHandoff(e, s)
    \/ \E s \in Subject : LandPullRequest(s)
=============================================================================
